----------------------------- MODULE ServiceProofs -----------------------------
(***************************************************************************)
(* Proofs about Service and the components it composes, for any            *)
(* configurations, any label rules and any number of calls and writes.     *)
(*                                                                         *)
(* None of the four invariants is inductive.  That the sides of a mediator *)
(* agree rests on the notes still to be heard (MedInv); that backends are  *)
(* built in order rests on what topologicalSort has counted (SortInv);     *)
(* that the service ends cleanly rests on the attempt that built each      *)
(* object and on who runs (LifeInv); that what was written through a       *)
(* composite is read back rests on every node lying under the key of its   *)
(* label and on two labels never sharing a key (CompInv).                  *)
(***************************************************************************)
EXTENDS Service, TLAPS, SequenceTheorems, FiniteSetTheorems, WellFoundedInduction

--------------------------------------------------------------------------------
(* The inductive invariant of a mediator.                                  *)

(* What a side may hold.                                                   *)
Held == Nodes \cup {Nothing, Empty, Broken}

(* The notes a side has still to hear: those that wait, and the one its    *)
(* listener has taken and not yet carried over.                            *)
Notes(s) == Range(pending[s]) \cup (IF job[s].at = "read" THEN {job[s].note} ELSE {})

MedTypes ==
  /\ side \in [Sides -> Held]
  /\ pending \in [Sides -> Seq(Held)]
  /\ busy \in [Sides -> BOOLEAN]
  /\ job \in [Sides -> [at : {"idle", "read", "reset"}, note : Held]]
  /\ muddled \in BOOLEAN /\ writes \in Nat
  /\ \A s \in Sides : job[s].at = "idle" => job[s] = Idle

(* Only a YAML mediator meets texts.                                       *)
NodesOnly ==
  link.flavor # "yaml" => \A s \in Sides : {side[s]} \cup Notes(s) \subseteq Nodes \cup {Nothing}

(* One way to agree: sides that differ have one that is still to be heard. *)
OneIsHeard == Apart => \E s \in Sides : side[s] \in Notes(s)

(* What holds of a side that has z with the notes zn, of the other one,    *)
(* which has y with the notes yn, when versions decide: the node reaches   *)
(* the other side, or is overtaken there by a deletion, by a greater       *)
(* version, or by an equal one that is still to come back.                 *)
Reaches(z, zn, y, yn) ==
  \/ z # Nothing /\ (z \in zn \/ Nothing \in yn)
  \/ z # Nothing /\ y # Nothing /\ (y = z \/ VersionOf(y) > VersionOf(z))
  \/ z # Nothing /\ y # Nothing /\ VersionOf(y) = VersionOf(z) /\ y \in yn
  \/ z = Nothing /\ (Nothing \in zn \/ y = Nothing \/ y \in yn)

BothReach == \A s \in Sides : Reaches(side[s], Notes(s), side[Other(s)], Notes(Other(s)))

MedInv ==
  /\ MedTypes /\ NodesOnly
  /\ ~muddled => /\ \A s \in Sides : busy[s] => job[s] # Idle
                 /\ IF link.flavor = "versioned" THEN BothReach ELSE OneIsHeard

--------------------------------------------------------------------------------
(* The mediator, step by step.                                             *)

(* A sequence that grows by an element, or loses its last one.             *)
LEMMA RangeAppend ==
  ASSUME NEW S, NEW q \in Seq(S), NEW x \in S
  PROVE  Append(q, x) \in Seq(S) /\ Range(Append(q, x)) = Range(q) \cup {x}
<1>1. /\ Append(q, x) \in Seq(S) /\ Len(Append(q, x)) = Len(q) + 1 /\ Len(q) \in Nat
      /\ \A k \in 1..Len(q) : Append(q, x)[k] = q[k]
      /\ Append(q, x)[Len(q) + 1] = x
  BY AppendProperties
<1>2. DOMAIN q = 1..Len(q) /\ DOMAIN Append(q, x) = 1..Len(q) \cup {Len(q) + 1}
  BY <1>1
<1> QED
  BY <1>1, <1>2 DEF Range

(* A new element keeps a sequence free of repetitions. *)
LEMMA AppendNewElement ==
  ASSUME NEW S, NEW q \in Seq(S), NEW x \in S, IsInjective(q), x \notin Range(q)
  PROVE  IsInjective(Append(q, x))
<1>1. /\ Len(Append(q, x)) = Len(q) + 1 /\ Len(q) \in Nat /\ Append(q, x) \in Seq(S)
      /\ \A k \in 1..Len(q) : Append(q, x)[k] = q[k]
      /\ Append(q, x)[Len(q) + 1] = x
  BY AppendProperties
<1>2. DOMAIN q = 1..Len(q) /\ DOMAIN Append(q, x) = 1..Len(q) \cup {Len(q) + 1}
  BY <1>1
<1> QED
  BY <1>1, <1>2 DEF Range, IsInjective

(* A sequence is its front and its last element. *)
LEMMA RangeFront ==
  ASSUME NEW S, NEW q \in Seq(S), q # <<>>
  PROVE  /\ Front(q) \in Seq(S) /\ Last(q) \in S
         /\ Range(q) = Range(Front(q)) \cup {Last(q)}
<1>1. Len(q) \in Nat \ {0} /\ q = [k \in 1..Len(q) |-> q[k]] /\ \A k \in 1..Len(q) : q[k] \in S
  BY EmptySeq
<1>2. Front(q) = [k \in 1..Len(q) - 1 |-> q[k]]
  BY <1>1 DEF Front
<1>3. DOMAIN q = 1..Len(q) /\ 1..Len(q) = 1..(Len(q) - 1) \cup {Len(q)}
  BY <1>1
<1> QED
  BY <1>1, <1>2, <1>3 DEF Range, Last

(* Versions are numbers. *)
LEMMA VersionIsNat == \A x \in Held : VersionOf(x) \in Nat
BY DEF Held, VersionOf, Nodes

(* There are two sides. *)
LEMMA OtherSide == \A s \in Sides : Other(s) \in Sides /\ Other(s) # s /\ Other(Other(s)) = s
                                   /\ \A t \in Sides : t = s \/ t = Other(s)
BY DEF Sides, Other

(* Init.                                                                   *)
LEMMA MedInvInit ==
  ASSUME NEW l, MediatorInit(l) PROVE MedInv
<1> USE MediatorAssumption
<1>1. \A s \in Sides : job[s] = Idle /\ pending[s] = <<>> /\ busy[s] = FALSE
  BY DEF MediatorInit
<1>2. MedTypes
  BY <1>1, EmptySeq DEF MediatorInit, MedTypes, Idle, Held
<1>3. \A s \in Sides : Notes(s) = {}
  BY <1>1 DEF Notes, Idle, Range
<1>4. ~Apart /\ NodesOnly
  BY <1>3 DEF MediatorInit, Apart, Image, updateYAMLFrom, NodesOnly, Sides
<1>5. link.flavor = "versioned" => BothReach
  BY OtherSide DEF MediatorInit, BothReach, Reaches
<1> QED
  BY <1>1, <1>2, <1>4, <1>5 DEF MedInv, OneIsHeard, MediatorInit

(* A change of a user is among the notes of its side.                      *)
LEMMA MedInvChange ==
  ASSUME MedInv, NEW s \in Sides, NEW x \in Held, Change(s, x),
         link.flavor # "yaml" => x \in Nodes \cup {Nothing},
         x = Nothing \/ x = Broken \/ VersionOf(x) > VersionOf(side[s])
  PROVE  MedInv'
<1> DEFINE o == Other(s)
<1>0. o \in Sides /\ o # s /\ Other(o) = s /\ \A t \in Sides : t = s \/ t = o
  BY OtherSide
<1>1. /\ MedTypes /\ NodesOnly
      /\ side' = [side EXCEPT ![s] = x] /\ pending' = [pending EXCEPT ![s] = Append(@, x)]
      /\ writes' = writes + 1 /\ link' = link /\ busy' = busy /\ job' = job /\ muddled' = muddled
  BY DEF Change, Put, MedInv
<1>2. MedTypes'
  BY <1>1, RangeAppend DEF MedTypes, Idle
<1>3. /\ side'[s] = x /\ side'[o] = side[o]
      /\ Notes(s)' = Notes(s) \cup {x} /\ Notes(o)' = Notes(o)
  <2>1. pending[s] \in Seq(Held) /\ pending'[s] = Append(pending[s], x) /\ pending'[o] = pending[o]
    BY <1>0, <1>1 DEF MedTypes
  <2> QED
    BY <2>1, <1>0, <1>1, RangeAppend DEF Notes, MedTypes
<1>4. NodesOnly'
  BY <1>0, <1>1, <1>3 DEF NodesOnly
<1>5. OneIsHeard'
  BY <1>3 DEF OneIsHeard
<1>6. ASSUME link.flavor = "versioned", BothReach PROVE BothReach'
  <2>1. Reaches(x, Notes(s) \cup {x}, side[o], Notes(o))
    BY DEF Reaches
  <2>2. Reaches(side[o], Notes(o), side[s], Notes(s))
    BY <1>0, <1>6 DEF BothReach
  <2>3. x = Nothing \/ VersionOf(x) > VersionOf(side[s])
    BY <1>6, MediatorAssumption
  <2>4. VersionOf(x) \in Nat /\ VersionOf(side[s]) \in Nat /\ VersionOf(side[o]) \in Nat
    BY VersionIsNat, <1>0, <1>1 DEF MedTypes
  <2>5. Reaches(side[o], Notes(o), x, Notes(s) \cup {x})
    BY <2>2, <2>3, <2>4 DEF Reaches
  <2> QED
    BY <1>0, <1>3, <2>1, <2>5 DEF BothReach
<1> QED
  BY <1>1, <1>2, <1>4, <1>5, <1>6 DEF MedInv, Idle

(* A user writes or deletes a node, or breaks the document. *)
LEMMA MedInvUsers ==
  ASSUME MedInv, NEW s \in Sides, UserUpsert(s) \/ UserDelete(s) \/ UserBreaks
  PROVE  MedInv'
<1> USE MediatorAssumption
<1>0. MedTypes /\ side[s] \in Held /\ writes \in Nat
  BY DEF MedInv, MedTypes
<1>1. CASE UserUpsert(s)
  <2> DEFINE x == [version |-> VersionOf(side[s]) + 1, value |-> writes]
  <2>1. VersionOf(side[s]) \in Nat
    BY <1>0, VersionIsNat
  <2>2. x \in Nodes /\ x \in Held
    BY <2>1, <1>0 DEF Nodes, Held
  <2>3. VersionOf(x) = VersionOf(side[s]) + 1
    BY <2>2 DEF VersionOf
  <2>4. Change(s, x)
    BY <1>1 DEF UserUpsert
  <2> HIDE DEF x
  <2> QED
    BY <2>1, <2>2, <2>3, <2>4, MedInvChange
<1>2. CASE UserDelete(s)
  BY <1>2, MedInvChange DEF UserDelete, Held
<1>3. CASE UserBreaks
  BY <1>3, MedInvChange DEF UserBreaks, Held, Sides
<1> QED
  BY <1>1, <1>2, <1>3

(* The listener.                                                           *)
LEMMA MedInvBegin ==
  ASSUME MedInv, NEW s \in Sides, Begin(s)
  PROVE  MedInv'
<1> DEFINE o == Other(s)
<1> DEFINE note == Last(pending[s])
<1>0. o \in Sides /\ o # s /\ Other(o) = s /\ \A t \in Sides : t = s \/ t = o
  BY OtherSide
<1>1. /\ MedTypes /\ NodesOnly /\ pending[s] # <<>> /\ job[s] = Idle
      /\ pending' = [pending EXCEPT ![s] = Front(@)]
      /\ side' = side /\ link' = link /\ writes' = writes
  BY DEF Begin, MedInv
<1>2. /\ pending[s] \in Seq(Held) /\ Front(pending[s]) \in Seq(Held) /\ note \in Held
      /\ Range(pending[s]) = Range(Front(pending[s])) \cup {note}
      /\ pending'[s] = Front(pending[s]) /\ pending'[o] = pending[o]
  BY <1>0, <1>1, RangeFront DEF MedTypes
<1>3. Notes(s) = Range(Front(pending[s])) \cup {note}
  BY <1>1, <1>2 DEF Notes, Idle
<1> HIDE DEF note
<1>4. CASE Ignores(s) /\ muddled' = (muddled \/ (Apart /\ job[o] # Idle)) /\ UNCHANGED <<busy, job>>
  <2>1. MedTypes'
    BY <1>1, <1>2, <1>4 DEF MedTypes, Idle
  <2>2. Notes(s)' \subseteq Notes(s) /\ Notes(o)' = Notes(o)
    BY <1>0, <1>1, <1>2, <1>3, <1>4 DEF Notes, Idle
  <2>3. NodesOnly'
    BY <2>2, <1>0, <1>1 DEF NodesOnly
  <2>4. ASSUME ~muddled' PROVE ~muddled /\ ~Apart
    BY <2>4, <1>0, <1>4 DEF MedInv, Ignores
  <2>5. Apart' = Apart
    BY <1>1 DEF Apart, Image
  <2>6. ASSUME ~Apart, link.flavor = "versioned" PROVE BothReach'
    <3>1. side'[s] = side'[o]
      BY <2>6, <1>0, <1>1 DEF Apart, Image, Sides
    <3> QED
      BY <3>1, <1>0, <1>1 DEF BothReach, Reaches
  <2> QED
    BY <2>1, <2>3, <2>4, <2>5, <2>6, <1>1, <1>4 DEF MedInv, OneIsHeard, Idle
<1>5. CASE /\ busy' = [busy EXCEPT ![s] = TRUE]
           /\ job' = [job EXCEPT ![s] = [at |-> "read", note |-> note]]
           /\ muddled' = muddled
  <2>1. MedTypes'
    BY <1>1, <1>2, <1>5 DEF MedTypes, Idle
  <2>2. job'[s] = [at |-> "read", note |-> note] /\ job'[o] = job[o]
    BY <1>0, <1>1, <1>5 DEF MedTypes
  <2>3. Notes(s)' = Notes(s) /\ Notes(o)' = Notes(o)
    BY <2>2, <1>0, <1>2, <1>3 DEF Notes
  <2>4. NodesOnly' /\ Apart' = Apart
    BY <2>3, <1>0, <1>1 DEF NodesOnly, Apart, Image
  <2>5. OneIsHeard => OneIsHeard'
    BY <2>3, <2>4, <1>0, <1>1 DEF OneIsHeard
  <2>6. BothReach => BothReach'
    BY <2>3, <1>0, <1>1 DEF BothReach, Reaches, VersionOf
  <2>7. job'[s] # Idle'
    BY <2>2 DEF Idle
  <2>8. ~muddled => \A t \in Sides : busy'[t] => job'[t] # Idle'
    BY <2>2, <2>7, <1>0, <1>1, <1>5 DEF MedInv, MedTypes, Idle
  <2> QED
    BY <2>1, <2>4, <2>5, <2>6, <2>8, <1>1, <1>5 DEF MedInv
<1> QED
  BY <1>4, <1>5 DEF Begin, note

(* The listener compares the note with the other side and writes it there. *)
LEMMA MedInvCarry ==
  ASSUME MedInv, NEW s \in Sides, Carry(s)
  PROVE  MedInv'
<1> USE MediatorAssumption
<1> DEFINE o == Other(s)
<1> DEFINE from == job[s].note
<1> DEFINE img == Image(s, from)
<1>0. o \in Sides /\ o # s /\ Other(o) = s /\ \A t \in Sides : t = s \/ t = o
  BY OtherSide
<1>1. /\ MedTypes /\ NodesOnly /\ job[s].at = "read" /\ ~Throws(s)
      /\ job' = [job EXCEPT ![s].at = "reset"]
      /\ link' = link /\ busy' = busy /\ muddled' = muddled /\ writes' = writes
  BY DEF Carry, MedInv
<1>2. /\ job'[s] = [at |-> "reset", note |-> from] /\ job'[o] = job[o] /\ from \in Held
      /\ from \in Notes(s)
  BY <1>0, <1>1 DEF MedTypes, Notes
<1>3. img \in Held /\ (link.flavor # "yaml" => img = from /\ img \in Nodes \cup {Nothing})
  BY <1>1, <1>2 DEF Image, updateYAMLFrom, getNodeFromYAML, Held, NodesOnly, Notes
<1>4. ~muddled => \A t \in Sides : busy'[t] => job'[t] # Idle'
  BY <1>0, <1>1, <1>2 DEF MedInv, Idle
<1>5. Notes(s) = Range(pending[s]) \cup {from}
  BY <1>1 DEF Notes
<1>6. link.flavor = "versioned" => link.flavor # "yaml"
  OBVIOUS
<1>7. \A t \in Sides : VersionOf(side[t]) \in Nat
  BY <1>1, VersionIsNat DEF MedTypes
<1>8. VersionOf(from) \in Nat
  BY <1>2, VersionIsNat
<1> HIDE DEF from
<1>9. CASE Wanted(s, from, side[o]) /\ Put(o, img)
  <2>1. /\ side' = [side EXCEPT ![o] = img] /\ pending' = [pending EXCEPT ![o] = Append(@, img)]
    BY <1>9 DEF Put
  <2>2. MedTypes'
    <3>1. pending' \in [Sides -> Seq(Held)]
      BY <2>1, <1>0, <1>1, <1>3, RangeAppend DEF MedTypes
    <3>2. side' \in [Sides -> Held]
      BY <2>1, <1>0, <1>1, <1>3 DEF MedTypes
    <3>3. job' \in [Sides -> [at : {"idle", "read", "reset"}, note : Held]]
      BY <1>1 DEF MedTypes
    <3>4. \A t \in Sides : job'[t].at = "idle" => job'[t] = Idle'
      BY <1>0, <1>1, <1>2 DEF MedTypes, Idle
    <3> QED
      BY <3>1, <3>2, <3>3, <3>4, <1>1 DEF MedTypes
  <2>3. /\ side'[o] = img /\ side'[s] = side[s]
        /\ Notes(s)' = Range(pending[s]) /\ Notes(o)' = Notes(o) \cup {img}
    <3>1. pending'[s] = pending[s] /\ pending'[o] = Append(pending[o], img)
      BY <2>1, <1>0, <1>1 DEF MedTypes
    <3>2. Range(Append(pending[o], img)) = Range(pending[o]) \cup {img}
      BY <1>0, <1>1, <1>3, RangeAppend DEF MedTypes
    <3> QED
      BY <3>1, <3>2, <2>1, <1>0, <1>1, <1>2 DEF Notes, MedTypes
  <2>4. NodesOnly'
    BY <2>3, <1>0, <1>1, <1>3, <1>5 DEF NodesOnly
  <2>5. OneIsHeard'
    BY <2>3, <1>0 DEF OneIsHeard
  <2>6. ASSUME link.flavor = "versioned", BothReach PROVE BothReach'
    <3>1. img = from
      BY <2>6, <1>3
    <3>2. /\ Reaches(side[o], Notes(o), side[s], Range(pending[s]) \cup {from})
          /\ Reaches(side[s], Range(pending[s]) \cup {from}, side[o], Notes(o))
      BY <2>6, <1>0, <1>5 DEF BothReach
    <3>3. from # side[o] /\ (from # Nothing /\ side[o] # Nothing => VersionOf(from) >= VersionOf(side[o]))
      BY <1>9, <2>6, <3>1 DEF Wanted, Newer
    <3>4. Reaches(from, Notes(o) \cup {from}, side[s], Range(pending[s]))
      BY DEF Reaches
    <3>5. Reaches(side[s], Range(pending[s]), from, Notes(o) \cup {from})
      BY <3>2, <3>3, <1>0, <1>7, <1>8 DEF Reaches
    <3> QED
      BY <2>3, <3>1, <3>4, <3>5, <1>0 DEF BothReach
  <2> QED
    BY <2>2, <2>4, <2>5, <2>6, <1>1, <1>4 DEF MedInv
<1>10. CASE ~Wanted(s, from, side[o]) /\ UNCHANGED <<side, pending>>
  <2>1. MedTypes'
    <3>1. job' \in [Sides -> [at : {"idle", "read", "reset"}, note : Held]]
      BY <1>1 DEF MedTypes
    <3>2. \A t \in Sides : job'[t].at = "idle" => job'[t] = Idle'
      BY <1>0, <1>1, <1>2 DEF MedTypes, Idle
    <3> QED
      BY <3>1, <3>2, <1>1, <1>10 DEF MedTypes
  <2>2. Notes(s)' = Range(pending[s]) /\ Notes(o)' = Notes(o) /\ side' = side /\ Apart' = Apart
    BY <1>0, <1>1, <1>2, <1>10 DEF Notes, Apart, Image
  <2>3. NodesOnly'
    BY <2>2, <1>0, <1>1, <1>5 DEF NodesOnly
  <2>4. ASSUME link.flavor # "versioned", OneIsHeard PROVE OneIsHeard'
    <3>1. img = side[o]
      BY <2>4, <1>10 DEF Wanted
    <3>2. CASE from = side[s]
      <4>1. ~Apart
        BY <3>1, <3>2, <1>0, <1>1 DEF Apart, Image, updateYAMLFrom, getNodeFromYAML, Throws, Sides, Other, from
      <4> QED
        BY <4>1, <2>2 DEF OneIsHeard
    <3>3. CASE from # side[s]
      BY <3>3, <2>2, <2>4, <1>0, <1>5 DEF OneIsHeard
    <3> QED
      BY <3>2, <3>3
  <2>5. ASSUME link.flavor = "versioned", BothReach PROVE BothReach'
    <3>1. img = from
      BY <2>5, <1>3
    <3>2. /\ Reaches(side[o], Notes(o), side[s], Range(pending[s]) \cup {from})
          /\ Reaches(side[s], Range(pending[s]) \cup {from}, side[o], Notes(o))
      BY <2>5, <1>0, <1>5 DEF BothReach
    <3>3. from = side[o] \/ (from # Nothing /\ side[o] # Nothing /\ VersionOf(from) < VersionOf(side[o]))
      BY <1>7, <1>8, <1>0, <1>10, <2>5, <3>1 DEF Wanted, Newer
    <3>4. Reaches(side[o], Notes(o), side[s], Range(pending[s]))
      BY <3>2, <3>3, <1>0, <1>7, <1>8 DEF Reaches
    <3>5. Reaches(side[s], Range(pending[s]), side[o], Notes(o))
      BY <3>2, <3>3, <1>0, <1>7, <1>8 DEF Reaches
    <3> QED
      BY <2>2, <3>4, <3>5, <1>0 DEF BothReach
  <2> QED
    BY <2>1, <2>2, <2>3, <2>4, <2>5, <1>1, <1>4 DEF MedInv
<1> QED
  BY <1>9, <1>10, <1>0 DEF Carry, from

(* The listener returns, or leaves with an exception. *)
LEMMA MedInvEnd ==
  ASSUME MedInv, NEW s \in Sides, Fail(s) \/ Finish(s)
  PROVE  MedInv'
<1> USE MediatorAssumption
<1> DEFINE o == Other(s)
<1>0. o \in Sides /\ o # s /\ Other(o) = s /\ \A t \in Sides : t = s \/ t = o
  BY OtherSide
<1>1. /\ MedTypes /\ NodesOnly /\ job' = [job EXCEPT ![s] = Idle]
      /\ link' = link /\ side' = side /\ pending' = pending /\ writes' = writes
      /\ \/ busy' = busy /\ muddled' = TRUE
         \/ busy' = [busy EXCEPT ![s] = FALSE] /\ job[s].at = "reset" /\ muddled' = muddled
      /\ muddled' \in BOOLEAN
  <2>1. MedTypes /\ NodesOnly /\ muddled \in BOOLEAN
    BY DEF MedInv, MedTypes
  <2>2. CASE Fail(s)
    BY <2>1, <2>2 DEF Fail
  <2>3. CASE Finish(s)
    BY <2>1, <2>3 DEF Finish, ResetTo
  <2> QED
    BY <2>2, <2>3
<1>2. job'[s] = Idle /\ job'[o] = job[o] /\ Idle' = Idle
  BY <1>0, <1>1 DEF MedTypes, Idle
<1>3. Idle \in [at : {"idle", "read", "reset"}, note : Held]
  BY DEF Idle, Held
<1>4. MedTypes'
  <2>1. job' \in [Sides -> [at : {"idle", "read", "reset"}, note : Held]]
    BY <1>1, <1>3 DEF MedTypes
  <2>2. \A t \in Sides : job'[t].at = "idle" => job'[t] = Idle'
    BY <1>0, <1>1, <1>2 DEF MedTypes
  <2>3. busy' \in [Sides -> BOOLEAN]
    BY <1>1 DEF MedTypes
  <2> QED
    BY <1>1, <2>1, <2>2, <2>3 DEF MedTypes
<1>5. Notes(s)' \subseteq Notes(s) /\ Notes(o)' = Notes(o)
  BY <1>0, <1>1, <1>2 DEF Notes, Idle
<1>6. NodesOnly'
  BY <1>5, <1>0, <1>1 DEF NodesOnly
<1>7. ASSUME ~muddled' PROVE /\ \A t \in Sides : busy'[t] => job'[t] # Idle'
                             /\ IF link'.flavor = "versioned" THEN BothReach' ELSE OneIsHeard'
  <2>1. ~muddled /\ busy' = [busy EXCEPT ![s] = FALSE] /\ Notes(s)' = Notes(s)
    BY <1>7, <1>1, <1>2 DEF Notes, Idle
  <2>2. \A t \in Sides : busy'[t] => job'[t] # Idle'
    BY <2>1, <1>0, <1>1, <1>2 DEF MedInv, MedTypes
  <2>3. BothReach => BothReach'
    BY <2>1, <1>0, <1>1, <1>5 DEF BothReach, Reaches, VersionOf
  <2>4. OneIsHeard => OneIsHeard'
    BY <2>1, <1>0, <1>1, <1>5 DEF OneIsHeard, Apart, Image
  <2> QED
    BY <2>1, <2>2, <2>3, <2>4, <1>1 DEF MedInv
<1> QED
  BY <1>4, <1>6, <1>7 DEF MedInv

(* No step of the mediator breaks the invariant. *)
LEMMA MedInvStep == MedInv /\ MediatorNext => MedInv'
<1> SUFFICES ASSUME MedInv, MediatorNext PROVE MedInv'
  OBVIOUS
<1> QED
  BY MedInvUsers, MedInvBegin, MedInvCarry, MedInvEnd DEF MediatorNext, Sides

(* The invariant is about the mediator's variables alone. *)
LEMMA MedInvStutter == MedInv /\ UNCHANGED medVars => MedInv'
BY DEF MedInv, medVars, MedTypes, NodesOnly, Notes, BothReach, OneIsHeard, Apart, Image, Idle, Reaches, VersionOf

(* With no note left to be heard the sides agree. *)
LEMMA MedInvAgrees == MedInv => SidesAgree
<1> USE MediatorAssumption
<1> SUFFICES ASSUME MedInv, Quiet, ~muddled PROVE ~Apart
  BY DEF SidesAgree
<1>1. \A s \in Sides : Notes(s) = {}
  BY DEF Quiet, Notes, Idle, Range
<1>2. CASE link.flavor = "versioned"
  <2>1. Reaches(side["A"], {}, side["B"], {}) /\ Reaches(side["B"], {}, side["A"], {})
    BY <1>1, <1>2 DEF MedInv, BothReach, Sides, Other
  <2>2. VersionOf(side["A"]) \in Nat /\ VersionOf(side["B"]) \in Nat
    BY VersionIsNat DEF MedInv, MedTypes, Sides
  <2>3. side["A"] = side["B"]
    BY <2>1, <2>2 DEF Reaches
  <2> QED
    BY <1>2, <2>3 DEF Apart, Image
<1>3. CASE link.flavor # "versioned"
  BY <1>1, <1>3 DEF MedInv, OneIsHeard
<1> QED
  BY <1>2, <1>3

(* Every other step of the service leaves the mediator alone.              *)
LEMMA MediatorAlone == Next => UseMediated \/ UNCHANGED medVars
BY DEF Next, Initialize, SortStep, SortEnds, BuildBackend, MountChild, BackendsDone, BuildFrontend,
       InitializeEnds, Start, Stop, Destroy, ServerRound, UpdaterRound, DropUpdaters, DropConnections,
       DropFrontend, DropBackends, UseComposite

(* CloningMediator and YAMLMediator: whatever users write, however the     *)
(* notifications of the two sides interleave and in whatever order they    *)
(* are heard, the sides hold the same node once all of them were heard.    *)
THEOREM MediatorSidesAgree == Spec => []SidesAgree
<1>1. Init => MedInv
  BY MedInvInit DEF Init
<1>2. MedInv /\ [Next]_vars => MedInv'
  <2>1. MedInv /\ Next => MedInv'
    BY MediatorAlone, MedInvStep, MedInvStutter DEF UseMediated
  <2>2. MedInv /\ UNCHANGED vars => MedInv'
    BY MedInvStutter DEF vars
  <2> QED
    BY <2>1, <2>2
<1> QED
  BY <1>1, <1>2, MedInvAgrees, PTL DEF Spec

--------------------------------------------------------------------------------
(* The names in the order of std::map.                                     *)

(* Induction for a set of numbers.                                         *)
LEMMA SetInduction ==
  ASSUME NEW A, 0 \in A, \A n \in Nat : n \in A => n + 1 \in A
  PROVE  \A n \in Nat : n \in A
<1> SUFFICES ASSUME NEW w \in Nat, w \notin A PROVE FALSE
  OBVIOUS
<1> DEFINE R == OpToRel(<, Nat)
<1> DEFINE T == {n \in Nat : n \notin A}
<1>1. IsWellFoundedOn(R, Nat)
  BY NatLessThanWellFounded
<1>2. T \in SUBSET Nat /\ T # {}
  OBVIOUS
<1> HIDE DEF R
<1>3. PICK x \in T : \A y \in T : ~ (<<y, x>> \in R)
  BY <1>1, <1>2, WFMin
<1>4. x \in Nat /\ x # 0 /\ x - 1 \in Nat
  BY <1>3
<1>5. x - 1 \in T
  BY <1>3, <1>4
<1>6. <<x - 1, x>> \in R
  BY <1>4 DEF R, OpToRel
<1> QED
  BY <1>3, <1>5, <1>6

(* One step of InOrder.                                                    *)
Taken(S, g, k) == IF k = 0 THEN <<>>
                  ELSE IF NameOrder[k] \in S THEN Append(g[k - 1], NameOrder[k]) ELSE g[k - 1]

(* The recursive function of InOrder exists for every length of NameOrder. *)
LEMMA AmongExists ==
  ASSUME NEW S
  PROVE  \A n \in Nat : \E g : g = [k \in 0..n |-> Taken(S, g, k)]
<1> DEFINE A == {n \in Nat : \E g : g = [k \in 0..n |-> Taken(S, g, k)]}
<1>1. 0 \in A
  <2> DEFINE g == [k \in 0..0 |-> <<>>]
  <2>1. g = [k \in 0..0 |-> Taken(S, g, k)]
    BY DEF Taken
  <2> QED
    BY <2>1
<1>2. ASSUME NEW n \in Nat, n \in A PROVE n + 1 \in A
  <2>1. PICK g : g = [k \in 0..n |-> Taken(S, g, k)]
    BY <1>2
  <2> DEFINE h == [k \in 0..n + 1 |-> IF k <= n THEN g[k] ELSE Taken(S, g, n + 1)]
  <2>2. \A k \in 0..n + 1 : h[k] = Taken(S, h, k)
    <3> SUFFICES ASSUME NEW k \in 0..n + 1 PROVE h[k] = Taken(S, h, k)
      OBVIOUS
    <3>1. \A j \in 0..n : h[j] = g[j]
      OBVIOUS
    <3>2. k # 0 => k - 1 \in 0..n
      OBVIOUS
    <3>3. Taken(S, h, k) = Taken(S, g, k)
      BY <3>1, <3>2 DEF Taken
    <3>4. CASE k <= n
      <4>1. h[k] = g[k] /\ g[k] = Taken(S, g, k)
        BY <3>4, <2>1
      <4> QED
        BY <4>1, <3>3
    <3>5. CASE k = n + 1
      BY <3>3, <3>5
    <3> QED
      BY <3>4, <3>5
  <2>3. h = [k \in 0..n + 1 |-> Taken(S, h, k)]
    BY <2>2
  <2> HIDE DEF h
  <2> QED
    BY <2>3
<1> HIDE DEF A
<1>3. \A n \in Nat : n \in A
  BY <1>1, <1>2, SetInduction
<1> QED
  BY <1>3 DEF A

(* InOrder lists every name of the set once. *)
LEMMA InOrderListed ==
  ASSUME NEW S, S \subseteq Range(NameOrder)
  PROVE  InOrder(S) \in Seq(S) /\ Range(InOrder(S)) = S /\ IsInjective(InOrder(S))
<1> DEFINE N == Len(NameOrder)
<1>1. N \in Nat /\ DOMAIN NameOrder = 1..N /\ \A i, j \in 1..N : NameOrder[i] = NameOrder[j] => i = j
  BY ConfigAssumption DEF IsInjective
<1> DEFINE g == CHOOSE g : g = [k \in 0..N |-> Taken(S, g, k)]
<1>2. g = [k \in 0..N |-> Taken(S, g, k)]
  BY <1>1, AmongExists
<1>3. InOrder(S) = g[N]
  BY DEF InOrder, Taken
<1> HIDE DEF g
<1> DEFINE P(k) == /\ g[k] \in Seq(S) /\ IsInjective(g[k])
                   /\ Range(g[k]) = S \cap {NameOrder[i] : i \in 1..k}
<1> DEFINE A == {k \in Nat : k <= N => P(k)}
<1>4. 0 \in A
  <2>1. g[0] = <<>>
    BY <1>1, <1>2 DEF Taken
  <2>2. P(0)
    BY <2>1 DEF Range, IsInjective
  <2> QED
    BY <2>2
<1>5. ASSUME NEW n \in Nat, n \in A PROVE n + 1 \in A
  <2> SUFFICES ASSUME n + 1 <= N PROVE P(n + 1)
    OBVIOUS
  <2>1. P(n)
    BY <1>1, <1>5
  <2>2. g[n + 1] = IF NameOrder[n + 1] \in S THEN Append(g[n], NameOrder[n + 1]) ELSE g[n]
    <3>1. n + 1 \in 0..N /\ n + 1 # 0 /\ (n + 1) - 1 = n
      BY <1>1
    <3> QED
      BY <3>1, <1>2 DEF Taken
  <2>3. {NameOrder[i] : i \in 1..n + 1} = {NameOrder[i] : i \in 1..n} \cup {NameOrder[n + 1]}
    OBVIOUS
  <2>4. NameOrder[n + 1] \notin {NameOrder[i] : i \in 1..n}
    BY <1>1
  <2>5. CASE NameOrder[n + 1] \notin S
    BY <2>1, <2>2, <2>3, <2>5
  <2>6. CASE NameOrder[n + 1] \in S
    <3> DEFINE x == NameOrder[n + 1]
    <3> DEFINE q == g[n]
    <3>1. q \in Seq(S) /\ IsInjective(q) /\ x \in S /\ x \notin Range(q)
      BY <2>1, <2>4, <2>6
    <3>2. Append(q, x) \in Seq(S) /\ Range(Append(q, x)) = Range(q) \cup {x}
      BY <3>1, RangeAppend
    <3>3. IsInjective(Append(q, x))
      BY <3>1, AppendNewElement
    <3> QED
      BY <2>1, <2>2, <2>3, <2>6, <3>2, <3>3
  <2> QED
    BY <2>5, <2>6
<1> HIDE DEF A
<1>6. P(N)
  <2>1. N \in A
    BY <1>1, <1>4, <1>5, SetInduction
  <2> QED
    BY <2>1, <1>1 DEF A
<1>7. {NameOrder[i] : i \in 1..N} = Range(NameOrder)
  BY <1>1 DEF Range
<1> QED
  BY <1>3, <1>6, <1>7

--------------------------------------------------------------------------------
(* topologicalSort.                                                        *)

(* A sequence has as many elements as its length if none is repeated. *)
LEMMA RangeCounted ==
  ASSUME NEW S, NEW q \in Seq(S)
  PROVE  /\ IsFiniteSet(Range(q)) /\ Cardinality(Range(q)) \in Nat
         /\ Cardinality(Range(q)) <= Len(q)
         /\ Cardinality(Range(q)) = Len(q) <=> IsInjective(q)
<1>1. Len(q) \in Nat /\ DOMAIN q = 1..Len(q) /\ q \in [1..Len(q) -> Range(q)]
  BY DEF Range
<1>2. q \in Surjection(1..Len(q), Range(q))
  BY <1>1 DEF Surjection, Range
<1>3. IsFiniteSet(1..Len(q)) /\ Cardinality(1..Len(q)) = Len(q)
  BY <1>1, FS_Interval
<1>4. q \in Injection(1..Len(q), Range(q)) <=> IsInjective(q)
  BY <1>1 DEF Injection
<1> QED
  BY <1>2, <1>3, <1>4, FS_Surjection, FS_CardinalityType

(* The head and the tail of a sequence without repetitions share nothing. *)
LEMMA TailDistinct ==
  ASSUME NEW S, NEW q \in Seq(S), q # <<>>
  PROVE  /\ Head(q) \in S /\ Tail(q) \in Seq(S) /\ Range(q) = {Head(q)} \cup Range(Tail(q))
         /\ IsInjective(q) => IsInjective(Tail(q)) /\ Head(q) \notin Range(Tail(q))
<1>1. /\ Len(q) \in Nat /\ Len(q) # 0 /\ DOMAIN q = 1..Len(q) /\ Head(q) = q[1]
      /\ Head(q) \in S /\ Tail(q) \in Seq(S) /\ Len(Tail(q)) = Len(q) - 1
      /\ \A i \in 1..Len(q) - 1 : Tail(q)[i] = q[i + 1]
  BY HeadTailProperties, EmptySeq
<1>2. DOMAIN Tail(q) = 1..Len(q) - 1
  BY <1>1
<1>3. 1..Len(q) = {1} \cup {i + 1 : i \in 1..Len(q) - 1}
  <2>1. \A j \in 1..Len(q) : j = 1 \/ (j - 1 \in 1..Len(q) - 1 /\ j = (j - 1) + 1)
    BY <1>1
  <2> QED
    BY <2>1, <1>1
<1>4. Range(q) = {Head(q)} \cup Range(Tail(q))
  <2>1. Range(q) = {q[j] : j \in 1..Len(q)} /\ Range(Tail(q)) = {q[i + 1] : i \in 1..Len(q) - 1}
    BY <1>1, <1>2 DEF Range
  <2> HIDE DEF Range
  <2>2. {q[j] : j \in 1..Len(q)} = {q[1]} \cup {q[i + 1] : i \in 1..Len(q) - 1}
    BY <1>3
  <2> QED
    BY <1>1, <2>1, <2>2
<1>5. ASSUME IsInjective(q) PROVE IsInjective(Tail(q)) /\ Head(q) \notin Range(Tail(q))
  <2>1. \A i, j \in 1..Len(q) : q[i] = q[j] => i = j
    BY <1>1, <1>5 DEF IsInjective
  <2>2. \A i \in 1..Len(q) - 1 : i + 1 \in 1..Len(q) /\ i + 1 # 1 /\ 1 \in 1..Len(q)
    BY <1>1
  <2>3. \A i, j \in 1..Len(q) - 1 : i + 1 = j + 1 => i = j
    BY <1>1
  <2>4. IsInjective(Tail(q))
    BY <1>1, <1>2, <2>1, <2>2, <2>3 DEF IsInjective
  <2> QED
    BY <1>1, <1>2, <2>1, <2>2, <2>4 DEF Range
<1> QED
  BY <1>1, <1>4, <1>5

(* Sequences that share nothing are joined without repetitions. *)
LEMMA ConcatDistinct ==
  ASSUME NEW S, NEW p \in Seq(S), NEW q \in Seq(S), IsInjective(p), IsInjective(q), Range(p) \cap Range(q) = {}
  PROVE  IsInjective(p \o q)
<1>1. /\ Len(p) \in Nat /\ Len(q) \in Nat /\ p \o q \in Seq(S) /\ Len(p \o q) = Len(p) + Len(q)
      /\ Range(p \o q) = Range(p) \cup Range(q)
  BY ConcatProperties, RangeConcatenation
<1>2. /\ Cardinality(Range(p)) = Len(p) /\ Cardinality(Range(q)) = Len(q)
      /\ IsFiniteSet(Range(p)) /\ IsFiniteSet(Range(q))
  BY RangeCounted
<1>3. Cardinality(Range(p) \cup Range(q))
        = Cardinality(Range(p)) + Cardinality(Range(q)) - Cardinality(Range(p) \cap Range(q))
  BY <1>2, FS_Union
<1>4. Cardinality(Range(p) \cup Range(q)) = Len(p) + Len(q)
  <2>1. Cardinality(Range(p) \cap Range(q)) = 0
    BY FS_EmptySet
  <2> QED
    BY <2>1, <1>1, <1>2, <1>3
<1> QED
  BY <1>1, <1>4, RangeCounted

(* What a backend depends on is counted by topologicalSort at least once.  *)
LEMMA DependenciesCounted ==
  ASSUME config \in Configs, NEW b \in Names
  PROVE  /\ InDegree(b) \in Nat /\ IsFiniteSet(DependsOn(b))
         /\ Cardinality(DependsOn(b)) \in Nat /\ Cardinality(DependsOn(b)) <= InDegree(b)
<1> DEFINE c == config.backends[b]
<1> DEFINE X == STRING \cup {c.backend}
<1> DEFINE children == [i \in 1..Len(c.mounts) |-> c.mounts[i].child]
<1>1. c.mounts \in Seq(Mounts)
  BY ConfigAssumption DEF Names
<1>2. children \in Seq(X)
  <2> HIDE DEF c
  <2>1. Len(c.mounts) \in Nat /\ \A i \in 1..Len(c.mounts) : c.mounts[i] \in Mounts
    BY <1>1, LenProperties
  <2>2. \A i \in 1..Len(c.mounts) : c.mounts[i].child \in X
    BY <2>1 DEF Mounts
  <2> HIDE DEF X
  <2> QED
    BY <2>1, <2>2
<1>3. <<c.backend>> \in Seq(X) /\ <<>> \in Seq(X)
  OBVIOUS
<1>4. getBackendDependencies(b) \in Seq(X)
  <2> HIDE DEF X, children
  <2>1. <<c.backend>> \o children \in Seq(X) /\ <<c.backend>> \o <<>> \in Seq(X)
    BY <1>2, <1>3, ConcatProperties
  <2> QED
    BY <2>1, <1>3 DEF getBackendDependencies, children
<1> HIDE DEF X
<1>5. Len(getBackendDependencies(b)) \in Nat
  BY <1>4
<1> QED
  BY <1>4, <1>5, RangeCounted DEF DependsOn, InDegree

(* A configuration has finitely many backends. *)
LEMMA NamesFinite ==
  ASSUME config \in Configs
  PROVE  Names \subseteq Range(NameOrder) /\ IsFiniteSet(Names) /\ Cardinality(Names) \in Nat
<1>1. Names \subseteq Range(NameOrder)
  BY ConfigAssumption DEF Names
<1>2. IsFiniteSet(Range(NameOrder))
  BY ConfigAssumption, RangeCounted
<1> QED
  BY <1>1, <1>2, FS_Subset, FS_CardinalityType

(* topologicalSort at work: the degree of a name is what is left of its    *)
(* dependencies, a name is queued once nothing is left, and what precedes  *)
(* a sorted name holds all it depends on.                                  *)
SortInv ==
  /\ order \in Seq(Names) /\ queue \in Seq(Names)
  /\ IsInjective(order) /\ IsInjective(queue) /\ Range(order) \cap Range(queue) = {}
  /\ degree = [n \in Names |-> InDegree(n) - Cardinality(DependsOn(n) \cap Range(order))]
  /\ \A n \in Names : n \in Range(order) \cup Range(queue) <=> degree[n] <= 0
  /\ \A k \in 1..Len(order) : DependsOn(order[k]) \subseteq {order[j] : j \in 1..k - 1}
  /\ ~Missing

(* A name with no dependency left has found all of them.                   *)
LEMMA NothingLeft ==
  ASSUME config \in Configs, NEW n \in Names, NEW D,
         InDegree(n) - Cardinality(DependsOn(n) \cap D) <= 0
  PROVE  DependsOn(n) \subseteq D
<1>1. /\ InDegree(n) \in Nat /\ IsFiniteSet(DependsOn(n))
      /\ Cardinality(DependsOn(n)) \in Nat /\ Cardinality(DependsOn(n)) <= InDegree(n)
  BY DependenciesCounted
<1>2. /\ Cardinality(DependsOn(n) \cap D) <= Cardinality(DependsOn(n))
      /\ Cardinality(DependsOn(n)) = Cardinality(DependsOn(n) \cap D) => DependsOn(n) = DependsOn(n) \cap D
      /\ Cardinality(DependsOn(n) \cap D) \in Nat
  BY <1>1, FS_Subset, FS_CardinalityType
<1> QED
  BY <1>1, <1>2

(* initialize fills the degrees and queues the names that depend on         *)
(* nothing.                                                                 *)
LEMMA SortInvStart ==
  ASSUME config \in Configs, Initialize, ~Missing
  PROVE  SortInv'
<1>1. /\ config' = config /\ degree' = [b \in Names |-> InDegree(b)]
      /\ queue' = InOrder({b \in Names : InDegree(b) = 0}) /\ order' = <<>>
  BY DEF Initialize
<1>2. /\ Names' = Names /\ Missing' = Missing /\ \A n : InDegree(n)' = InDegree(n) /\ DependsOn(n)' = DependsOn(n)
  BY <1>1 DEF Names, Missing, DependsOn, InDegree, getBackendDependencies
<1> DEFINE Z == {b \in Names : InDegree(b) = 0}
<1>3. queue' \in Seq(Z) /\ Range(queue') = Z /\ IsInjective(queue')
  BY <1>1, NamesFinite, InOrderListed
<1>4. queue' \in Seq(Names)
  BY <1>3, SeqMonotonic
<1>5. Range(order') = {} /\ IsInjective(order') /\ order' \in Seq(Names) /\ Len(order') = 0
  BY <1>1 DEF Range, IsInjective
<1>6. \A n \in Names : /\ InDegree(n) \in Nat
                        /\ InDegree(n) - Cardinality(DependsOn(n) \cap {}) = InDegree(n)
  BY DependenciesCounted, FS_EmptySet
<1>7. \A n \in Names : n \in Range(order') \cup Range(queue') <=> degree'[n] <= 0
  BY <1>1, <1>3, <1>5, <1>6
<1>8. degree' = [n \in Names |-> InDegree(n) - Cardinality(DependsOn(n) \cap Range(order'))]
  BY <1>1, <1>5, <1>6
<1>9. \A k \in 1..Len(order') : DependsOn(order'[k]) \subseteq {order'[j] : j \in 1..k - 1}
  BY <1>5
<1> QED
  BY <1>2, <1>3, <1>4, <1>5, <1>7, <1>8, <1>9 DEF SortInv

(* One name moves from the queue to the order and settles its dependants. *)
LEMMA SortInvStep ==
  ASSUME config \in Configs, SortInv, SortStep
  PROVE  SortInv'
<1> DEFINE h == Head(queue)
<1> DEFINE New == {n \in Names : Settled(n) = 0 /\ Settled(n) # degree[n]}
<1> DEFINE q == InOrder(New)
<1>1. /\ config' = config /\ queue # <<>> /\ order' = Append(order, h)
      /\ degree' = [n \in Names |-> Settled(n)] /\ queue' = Tail(queue) \o q
  BY DEF SortStep
<1>2. /\ Names' = Names /\ Missing' = Missing /\ \A n : InDegree(n)' = InDegree(n) /\ DependsOn(n)' = DependsOn(n)
  BY <1>1 DEF Names, Missing, DependsOn, InDegree, getBackendDependencies
<1>3. /\ h \in Names /\ Tail(queue) \in Seq(Names) /\ Range(queue) = {h} \cup Range(Tail(queue))
      /\ IsInjective(Tail(queue)) /\ h \notin Range(Tail(queue)) /\ h \notin Range(order)
      /\ order \in Seq(Names) /\ IsInjective(order)
  BY <1>1, TailDistinct DEF SortInv
<1>4. order' \in Seq(Names) /\ IsInjective(order') /\ Range(order') = Range(order) \cup {h}
  BY <1>1, <1>3, RangeAppend, AppendNewElement
<1>5. \A n \in Names : /\ degree[n] = InDegree(n) - Cardinality(DependsOn(n) \cap Range(order))
                        /\ degree[n] \in Int
                        /\ Settled(n) = InDegree(n) - Cardinality(DependsOn(n) \cap Range(order'))
  <2> SUFFICES ASSUME NEW n \in Names
               PROVE  /\ degree[n] = InDegree(n) - Cardinality(DependsOn(n) \cap Range(order))
                      /\ degree[n] \in Int
                      /\ Settled(n) = InDegree(n) - Cardinality(DependsOn(n) \cap Range(order'))
    OBVIOUS
  <2>1. degree[n] = InDegree(n) - Cardinality(DependsOn(n) \cap Range(order))
    BY DEF SortInv
  <2> DEFINE D == DependsOn(n) \cap Range(order)
  <2>2. IsFiniteSet(D) /\ Cardinality(D) \in Nat /\ InDegree(n) \in Nat
    BY DependenciesCounted, FS_Subset, FS_CardinalityType
  <2>3. CASE h \in DependsOn(n)
    <3>1. DependsOn(n) \cap Range(order') = D \cup {h} /\ h \notin D
      BY <1>3, <1>4, <2>3
    <3>2. Cardinality(D \cup {h}) = Cardinality(D) + 1
      BY <2>2, <3>1, FS_AddElement
    <3>3. Settled(n) = degree[n] - 1
      BY <2>3 DEF Settled
    <3> HIDE DEF D
    <3>4. degree[n] = InDegree(n) - Cardinality(D)
      BY <2>1 DEF D
    <3>5. Settled(n) = InDegree(n) - (Cardinality(D) + 1) /\ degree[n] \in Int
      BY <2>2, <3>3, <3>4
    <3> QED
      BY <2>1, <3>1, <3>2, <3>5
  <2>4. CASE h \notin DependsOn(n)
    <3>1. DependsOn(n) \cap Range(order') = D
      BY <1>4, <2>4
    <3>2. Settled(n) = degree[n]
      BY <2>4 DEF Settled
    <3> HIDE DEF D
    <3>3. degree[n] = InDegree(n) - Cardinality(D) /\ degree[n] \in Int
      BY <2>1, <2>2 DEF D
    <3> QED
      BY <2>1, <3>1, <3>2, <3>3
  <2> QED
    BY <2>3, <2>4
<1>6. New \subseteq Names /\ q \in Seq(New) /\ Range(q) = New /\ IsInjective(q)
  BY NamesFinite, InOrderListed
<1>7. q \in Seq(Names)
  BY <1>6, SeqMonotonic
<1>8. \A n \in Names : n \in New <=> degree[n] = 1 /\ h \in DependsOn(n)
  BY <1>5 DEF Settled
<1>9. \A n \in Names : n \in Range(order) \cup Range(queue) <=> degree[n] <= 0
  BY DEF SortInv
<1>10. New \cap (Range(order) \cup Range(queue)) = {}
  BY <1>6, <1>8, <1>9
<1> HIDE DEF q, New
<1>11. /\ queue' \in Seq(Names) /\ Range(queue') = Range(Tail(queue)) \cup New /\ IsInjective(queue')
       /\ Range(order') \cap Range(queue') = {}
  <2>1. Range(Tail(queue)) \cap Range(q) = {}
    BY <1>3, <1>6, <1>10
  <2> DEFINE t == Tail(queue)
  <2> HIDE DEF t
  <2>0. t \in Seq(Names) /\ q \in Seq(Names) /\ queue' = t \o q
    BY <1>1, <1>3, <1>7 DEF t
  <2>2. queue' \in Seq(Names) /\ Range(queue') = Range(Tail(queue)) \cup New
    <3>1. t \o q \in Seq(Names) /\ Range(t \o q) = Range(t) \cup Range(q)
      BY <2>0, ConcatProperties, RangeConcatenation
    <3> QED
      BY <3>1, <2>0, <1>6 DEF t
  <2>3. IsInjective(queue')
    BY <2>1, <1>1, <1>3, <1>6, <1>7, ConcatDistinct
  <2>4. Range(order) \cap Range(queue) = {}
    BY DEF SortInv
  <2>5. Range(order') \cap Range(queue') = {}
    BY <2>2, <2>4, <1>3, <1>4, <1>10
  <2> QED
    BY <2>2, <2>3, <2>5
<1>12. \A n \in Names : n \in Range(order') \cup Range(queue') <=> degree'[n] <= 0
  <2> SUFFICES ASSUME NEW n \in Names
               PROVE  n \in Range(order') \cup Range(queue') <=> degree'[n] <= 0
    OBVIOUS
  <2>1. n \in Range(order') \cup Range(queue') <=> degree[n] <= 0 \/ n \in New
    BY <1>3, <1>4, <1>9, <1>11
  <2>2. degree'[n] = IF h \in DependsOn(n) THEN degree[n] - 1 ELSE degree[n]
    BY <1>1 DEF Settled
  <2>3. degree[n] \in Int /\ (n \in New <=> degree[n] = 1 /\ h \in DependsOn(n))
    BY <1>5, <1>8
  <2>4. degree'[n] <= 0 <=> degree[n] <= 0 \/ (degree[n] = 1 /\ h \in DependsOn(n))
    <3> HIDE DEF h
    <3> QED
      BY <2>2, <2>3
  <2> QED
    BY <2>1, <2>3, <2>4
<1>13. \A k \in 1..Len(order') : DependsOn(order'[k]) \subseteq {order'[j] : j \in 1..k - 1}
  <2> SUFFICES ASSUME NEW k \in 1..Len(order')
               PROVE  DependsOn(order'[k]) \subseteq {order'[j] : j \in 1..k - 1}
    OBVIOUS
  <2>1. /\ Len(order') = Len(order) + 1 /\ Len(order) \in Nat
        /\ \A j \in 1..Len(order) : order'[j] = order[j]
        /\ order'[Len(order) + 1] = h
    BY <1>1, <1>3, AppendProperties
  <2>2. CASE k \in 1..Len(order)
    <3>1. DependsOn(order[k]) \subseteq {order[j] : j \in 1..k - 1}
      BY <2>2 DEF SortInv
    <3>2. \A j \in 1..k - 1 : order'[j] = order[j]
      BY <2>1, <2>2
    <3> QED
      BY <2>1, <2>2, <3>1, <3>2
  <2>3. CASE k = Len(order) + 1
    <3>1. degree[h] <= 0
      BY <1>3, <1>9
    <3>2. DependsOn(h) \subseteq Range(order)
      BY <3>1, <1>3, <1>5, NothingLeft
    <3>3. Range(order) = {order'[j] : j \in 1..Len(order)}
      BY <2>1, <1>3 DEF Range
    <3> QED
      BY <2>1, <2>3, <3>2, <3>3
  <2> QED
    BY <2>1, <2>2, <2>3
<1>14. degree' = [n \in Names |-> InDegree(n) - Cardinality(DependsOn(n) \cap Range(order'))]
  BY <1>1, <1>5
<1> HIDE DEF h
<1> QED
  BY <1>2, <1>4, <1>11, <1>12, <1>13, <1>14 DEF SortInv

(* topologicalSort succeeds: the order is a ranking of the names.          *)
LEMMA SortedIsAcyclic ==
  ASSUME config \in Configs, SortInv, Len(order) = Cardinality(Names)
  PROVE  Acyclic
<1>1. /\ order \in Seq(Names) /\ Len(order) \in Nat /\ IsInjective(order)
      /\ DOMAIN order = 1..Len(order) /\ Range(order) \subseteq Names
  BY RangeOfSeq DEF SortInv
<1>2. Range(order) = Names
  BY <1>1, RangeCounted, NamesFinite, FS_Subset
<1> DEFINE rank == [n \in Names |-> CHOOSE k \in 1..Len(order) : order[k] = n]
<1>3. \A n \in Names : rank[n] \in 1..Len(order) /\ order[rank[n]] = n
  BY <1>1, <1>2 DEF Range
<1>4. rank \in [Names -> 1..Cardinality(Names)]
  BY <1>3
<1> HIDE DEF rank
<1>5. ASSUME NEW b \in Names, NEW d \in DependsOn(b) \cap Names PROVE rank[d] < rank[b]
  <2>1. DependsOn(b) \subseteq {order[j] : j \in 1..rank[b] - 1}
    BY <1>3 DEF SortInv
  <2>2. PICK j \in 1..rank[b] - 1 : d = order[j]
    BY <1>5, <2>1
  <2>3. j \in 1..Len(order) /\ j < rank[b]
    BY <1>1, <1>3
  <2>4. j = rank[d]
    BY <1>1, <1>3, <2>2, <2>3 DEF IsInjective
  <2> QED
    BY <2>3, <2>4
<1> QED
  BY <1>4, <1>5 DEF Acyclic

(* It gives up only on what it cannot rank.                                *)
LEMMA UnsortedIsCyclic ==
  ASSUME config \in Configs, SortInv, queue = <<>>, Len(order) # Cardinality(Names)
  PROVE  ~Acyclic \/ ListedTwice
<1> SUFFICES ASSUME Acyclic, ~ListedTwice PROVE FALSE
  OBVIOUS
<1>1. PICK rank \in [Names -> 1..Cardinality(Names)] :
        \A b \in Names : \A d \in DependsOn(b) \cap Names : rank[d] < rank[b]
  BY DEF Acyclic
<1> DEFINE U == Names \ Range(order)
<1> DEFINE R == OpToRel(<, Nat)
<1> DEFINE T == {rank[n] : n \in U}
<1>2. U # {}
  <2> SUFFICES ASSUME Names \subseteq Range(order) PROVE FALSE
    OBVIOUS
  <2>1. Range(order) = Names
    BY RangeOfSeq DEF SortInv
  <2> QED
    BY <2>1, RangeCounted DEF SortInv
<1>3. T \in SUBSET Nat /\ T # {}
  BY <1>2, NamesFinite
<1>4. IsWellFoundedOn(R, Nat)
  BY NatLessThanWellFounded
<1> HIDE DEF R
<1>5. PICK x \in T : \A y \in T : ~ (<<y, x>> \in R)
  BY <1>3, <1>4, WFMin
<1>6. PICK n \in U : x = rank[n]
  BY <1>5
<1>7. \A m \in U : ~(rank[m] < rank[n])
  <2> SUFFICES ASSUME NEW m \in U, rank[m] < rank[n] PROVE FALSE
    OBVIOUS
  <2>1. <<rank[m], rank[n]>> \in R
    BY <1>3 DEF R, OpToRel
  <2> QED
    BY <2>1, <1>5, <1>6
<1>8. DependsOn(n) \subseteq Names
  BY DEF SortInv, Missing
<1>9. DependsOn(n) \cap Range(order) = DependsOn(n)
  BY <1>1, <1>7, <1>8
<1>10. Cardinality(DependsOn(n)) = InDegree(n) /\ InDegree(n) \in Nat
  BY DependenciesCounted DEF ListedTwice, InDegree
<1>11. degree[n] = 0
  BY <1>9, <1>10 DEF SortInv
<1>12. n \in Range(order) \cup Range(queue) /\ Range(queue) = {}
  BY <1>11 DEF SortInv, Range
<1> QED
  BY <1>12

--------------------------------------------------------------------------------
(* The life of the service.                                                *)

(* The phases before the updaters and the clients they own are destroyed.  *)
Early == {"new", "sorting", "backends", "frontends", "failed", "tested", "ready", "members"}

(* What the construction knows of the order and of what is built.          *)
OrderInv ==
  /\ phase = "sorting" => SortInv
  /\ phase = "backends" => order \in Seq(Names) /\ IsInjective(order)
  /\ phase \in {"backends", "frontends", "ready"} => ~Missing /\ Acyclic
  /\ phase = "failed" => errors \/ Missing \/ ~Acyclic \/ ListedTwice
  /\ \A b \in DOMAIN backends : DependsOn(b) \subseteq DOMAIN backends
  /\ mounting \in Seq(Mounts)
  /\ mounting # <<>> => phase = "backends" /\ order # <<>> /\ DependsOn(Head(order)) \subseteq DOMAIN backends

(* The attempts that built what is in the maps: a backend still to be      *)
(* built in this attempt is at most there from an earlier one.             *)
MadeInv ==
  /\ attempt \in Nat /\ (phase # "new" => attempt > 0)
  /\ \A b \in DOMAIN backends : backends[b] \in 1..attempt
  /\ phase = "sorting" => \A b \in DOMAIN backends : backends[b] < attempt
  /\ phase = "backends" => \A b \in DOMAIN backends \cap Range(order) : backends[b] < attempt
  /\ \A f \in DOMAIN frontends : frontends[f] \in Nat
  /\ \A u \in DOMAIN updaters : \A o \in updaters[u] : Owned(o.name) /\ o.attempt \in Nat

(* What is dead: first only what an earlier attempt left, then also the    *)
(* clients, and the rest of this attempt once no frontend is left.         *)
DeadInv ==
  /\ phase \in Early => \A d \in dead : d.attempt \in 1..attempt - 1
  /\ phase \in Early \/ DOMAIN frontends = {} \/ \A d \in dead : d.attempt < attempt \/ Owned(d.name)

(* Who runs, and what was used after its end.                              *)
RunInv ==
  /\ \A d \in dangling : d.attempt \in Nat
  /\ ~misuse => /\ phase # "terminated"
                /\ threads # {} => running /\ phase = "ready"
                /\ threads \subseteq Startable
                /\ \A d \in dangling : d.type = "http3_client" \/ d.attempt < attempt

LifeInv == config \in Configs /\ OrderInv /\ MadeInv /\ DeadInv /\ RunInv

(* The service before initialize. *)
LEMMA LifeInvInit == Init => LifeInv
<1> SUFFICES ASSUME Init PROVE LifeInv
  OBVIOUS
<1>1. OrderInv
  BY DEF Init, OrderInv, NoMap
<1>2. MadeInv
  BY DEF Init, MadeInv, NoMap
<1>3. DeadInv /\ RunInv /\ config \in Configs
  BY DEF Init, DeadInv, RunInv, NoMap, Early
<1> QED
  BY <1>1, <1>2, <1>3 DEF LifeInv

(* What is read from the configuration never changes. *)
LEMMA SameConfig ==
  ASSUME config' = config
  PROVE  /\ Names' = Names /\ Missing' = Missing /\ Acyclic' = Acyclic /\ ListedTwice' = ListedTwice
         /\ \A x : DependsOn(x)' = DependsOn(x) /\ Owned(x)' = Owned(x) /\ Type(x)' = Type(x)
         /\ \A x : Mediates(x)' = Mediates(x) /\ InDegree(x)' = InDegree(x)
BY DEF Names, Missing, Acyclic, ListedTwice, DependsOn, InDegree, getBackendDependencies, Owned, Type, Mediates

(* The sort is about four variables alone. *)
LEMMA SameSort == SortInv /\ UNCHANGED <<config, degree, queue, order>> => SortInv'
<1> SUFFICES ASSUME SortInv, config' = config, degree' = degree, queue' = queue, order' = order PROVE SortInv'
  OBVIOUS
<1>1. /\ Names' = Names /\ Missing' = Missing
      /\ \A x : DependsOn(x)' = DependsOn(x) /\ InDegree(x)' = InDegree(x)
  BY SameConfig
<1>2. degree' = [n \in Names' |-> InDegree(n)' - Cardinality(DependsOn(n)' \cap Range(order'))]
  BY <1>1 DEF SortInv
<1>3. \A k \in 1..Len(order') : DependsOn(order[k])' \subseteq {order'[j] : j \in 1..k - 1}
  <2> SUFFICES ASSUME NEW k \in 1..Len(order')
               PROVE  DependsOn(order[k])' \subseteq {order'[j] : j \in 1..k - 1}
    OBVIOUS
  <2>1. DependsOn(order[k])' = DependsOn(order[k])
    BY DEF DependsOn, getBackendDependencies
  <2>2. DependsOn(order[k]) \subseteq {order[j] : j \in 1..k - 1}
    BY DEF SortInv
  <2> QED
    BY <2>1, <2>2
<1>4. /\ order' \in Seq(Names') /\ queue' \in Seq(Names')
      /\ IsInjective(order') /\ IsInjective(queue') /\ Range(order') \cap Range(queue') = {}
      /\ \A n \in Names' : n \in Range(order') \cup Range(queue') <=> degree'[n] <= 0
      /\ ~Missing'
  BY <1>1 DEF SortInv
<1> QED
  BY <1>2, <1>3, <1>4 DEF SortInv

(* initialize starts another attempt. *)
LEMMA LifeInvInitialize == LifeInv /\ Initialize => LifeInv'
<1> SUFFICES ASSUME LifeInv, Initialize PROVE LifeInv'
  OBVIOUS
<1>1. /\ config' = config /\ attempt' = attempt + 1 /\ attempt \in Nat /\ config \in Configs
      /\ phase \in {"new", "tested", "failed"} /\ errors' = FALSE
      /\ UNCHANGED <<madeVars, mounting, running, threads, dead, dangling, misuse>>
  BY DEF Initialize, LifeInv, MadeInv, endVars
<1>2. (phase' = "failed" /\ Missing) \/ (phase' = "sorting" /\ ~Missing)
  BY DEF Initialize
<1>3. phase' = "sorting" => SortInv'
  BY <1>1, <1>2, SortInvStart
<1>4. OrderInv'
  BY <1>1, <1>2, <1>3, SameConfig DEF OrderInv, LifeInv, madeVars
<1>5. MadeInv'
  BY <1>1, <1>2, SameConfig DEF MadeInv, LifeInv, madeVars
<1>6. DeadInv'
  BY <1>1, <1>2 DEF DeadInv, LifeInv, Early
<1>7. RunInv'
  BY <1>1, <1>2 DEF RunInv, LifeInv, madeVars
<1> QED
  BY <1>1, <1>4, <1>5, <1>6, <1>7 DEF LifeInv

(* topologicalSort goes on, or ends. *)
LEMMA LifeInvSort == LifeInv /\ (SortStep \/ SortEnds) => LifeInv'
<1> SUFFICES ASSUME LifeInv, SortStep \/ SortEnds PROVE LifeInv'
  OBVIOUS
<1>1. /\ config' = config /\ config \in Configs /\ attempt' = attempt /\ phase = "sorting" /\ errors' = errors
      /\ UNCHANGED <<madeVars, mounting, running, threads, dead, dangling, misuse>> /\ SortInv
  BY DEF SortStep, SortEnds, LifeInv, OrderInv, endVars
<1>2. CASE SortStep
  <2>1. phase' = "sorting" /\ SortInv'
    BY <1>1, <1>2, SortInvStep DEF SortStep
  <2> QED
    BY <1>1, <2>1, SameConfig DEF LifeInv, OrderInv, MadeInv, DeadInv, RunInv, madeVars, Startable, Servers
<1>3. CASE SortEnds
  <2>1. /\ phase' = IF Len(order) # Cardinality(Names) THEN "failed" ELSE "backends"
        /\ order' = order /\ queue = <<>>
    BY <1>3 DEF SortEnds, sortVars
  <2>2. phase' = "backends" => Acyclic /\ ~Missing
    BY <1>1, <2>1, SortedIsAcyclic DEF SortInv
  <2>3. phase' = "failed" => ~Acyclic \/ ListedTwice
    BY <1>1, <2>1, UnsortedIsCyclic
  <2>4. OrderInv'
    BY <1>1, <2>1, <2>2, <2>3, SameConfig DEF LifeInv, OrderInv, SortInv, madeVars
  <2>5. MadeInv'
    BY <1>1, <2>1, SameConfig DEF LifeInv, MadeInv, madeVars
  <2>6. DeadInv' /\ RunInv'
    BY <1>1, <2>1 DEF LifeInv, DeadInv, RunInv, Early, madeVars
  <2> QED
    BY <1>1, <2>4, <2>5, <2>6 DEF LifeInv
<1> QED
  BY <1>2, <1>3

(* A backend built, or one that could not be built: the next in the order. *)
LEMMA OrderAdvances ==
  ASSUME LifeInv, phase = "backends", order # <<>>, order' = Tail(order), config' = config
  PROVE  /\ order' \in Seq(Names') /\ IsInjective(order') /\ Head(order) \in Names
         /\ Range(order) = {Head(order)} \cup Range(order') /\ Head(order) \notin Range(order')
BY TailDistinct, SameConfig DEF LifeInv, OrderInv

(* A backend is built and replaces the one of an earlier attempt. *)
LEMMA LifeInvMade ==
  ASSUME LifeInv, phase = "backends", order # <<>>, DependsOn(Head(order)) \subseteq DOMAIN backends,
         Made(Head(order)), mounting' = <<>>,
         UNCHANGED <<config, phase, attempt, frontends, running, threads, dangling, misuse>>,
         \A u \in DOMAIN updaters' : \A o \in updaters'[u] : Owned(o.name) /\ o.attempt \in Nat,
         DOMAIN updaters \subseteq DOMAIN updaters'
  PROVE  LifeInv'
<1> DEFINE b == Head(order)
<1>1. /\ DOMAIN backends' = DOMAIN backends \cup {b}
      /\ \A x \in DOMAIN backends' : backends'[x] = IF x = b THEN attempt ELSE backends[x]
      /\ dead' = (IF b \in DOMAIN backends /\ ~Owned(b)
                  THEN dead \cup {[name |-> b, attempt |-> backends[b]]} ELSE dead)
      /\ order' = Tail(order)
  BY DEF Made, Set
<1>2. /\ order' \in Seq(Names') /\ IsInjective(order')
      /\ Range(order) = {b} \cup Range(order') /\ b \notin Range(order')
  BY <1>1, OrderAdvances
<1>3. attempt \in Nat /\ attempt > 0
  BY DEF LifeInv, MadeInv
<1>4. OrderInv'
  BY <1>1, <1>2, SameConfig DEF LifeInv, OrderInv
<1>5. MadeInv'
  BY <1>1, <1>2, <1>3, SameConfig DEF LifeInv, MadeInv
<1>6. DeadInv'
  BY <1>1, <1>2, <1>3 DEF LifeInv, MadeInv, DeadInv, Early
<1>7. RunInv'
  BY <1>1, SameConfig DEF LifeInv, RunInv, Startable, Servers
<1> QED
  BY <1>4, <1>5, <1>6, <1>7 DEF LifeInv

(* A backend is not built. *)
LEMMA LifeInvSkip ==
  ASSUME LifeInv, phase = "backends", order # <<>>, Skip, mounting' = <<>>,
         UNCHANGED <<config, phase, attempt, frontends, updaters, running, threads, dangling, misuse>>
  PROVE  LifeInv'
<1>1. order' = Tail(order) /\ backends' = backends /\ dead' = dead
  BY DEF Skip
<1>2. /\ order' \in Seq(Names') /\ IsInjective(order') /\ Range(order') \subseteq Range(order)
  BY <1>1, OrderAdvances
<1>3. OrderInv'
  BY <1>1, <1>2, SameConfig DEF LifeInv, OrderInv
<1>4. MadeInv'
  BY <1>1, <1>2, SameConfig DEF LifeInv, MadeInv
<1>5. DeadInv'
  BY <1>1 DEF LifeInv, DeadInv, Early
<1>6. RunInv'
  BY SameConfig DEF LifeInv, RunInv, Startable, Servers
<1> QED
  BY <1>3, <1>4, <1>5, <1>6 DEF LifeInv

(* constructBackends takes the next name. *)
LEMMA LifeInvBuildBackend == LifeInv /\ BuildBackend => LifeInv'
<1> SUFFICES ASSUME LifeInv, BuildBackend PROVE LifeInv'
  OBVIOUS
<1> DEFINE b == Head(order)
<1>1. /\ phase = "backends" /\ order # <<>> /\ mounting = <<>>
      /\ UNCHANGED <<config, phase, attempt, frontends, running, threads, dangling, misuse>>
  BY DEF BuildBackend
<1>2. CASE Skip /\ UNCHANGED <<updaters, mounting>>
  BY <1>1, <1>2, LifeInvSkip
<1>3. CASE /\ Buildable(b) /\ config.backends[b].mounts = <<>>
           /\ Made(b)
           /\ updaters' = (IF Owned(b) THEN Adopted(b) ELSE updaters)
           /\ UNCHANGED mounting
  <2>1. DependsOn(b) \subseteq DOMAIN backends
    BY <1>3 DEF Buildable
  <2>2. /\ \A u \in DOMAIN updaters' : \A o \in updaters'[u] : Owned(o.name) /\ o.attempt \in Nat
        /\ DOMAIN updaters \subseteq DOMAIN updaters'
    <3>1. /\ \A u \in DOMAIN updaters : \A o \in updaters[u] : Owned(o.name) /\ o.attempt \in Nat
          /\ attempt \in Nat
      BY DEF LifeInv, MadeInv
    <3>2. CASE Owned(b)
      <4> DEFINE s == config.backends[b].spec
      <4> DEFINE mine == {[name |-> b, attempt |-> attempt]}
      <4>1. /\ DOMAIN updaters' = DOMAIN updaters \cup {s}
            /\ \A u \in DOMAIN updaters' :
                  updaters'[u] = IF u = s THEN IF s \in DOMAIN updaters THEN updaters[s] \cup mine ELSE mine
                                 ELSE updaters[u]
        BY <1>3, <3>2 DEF Adopted, Set
      <4> HIDE DEF s
      <4> QED
        BY <3>1, <3>2, <4>1
    <3>3. CASE ~Owned(b)
      BY <1>3, <3>1, <3>3
    <3> QED
      BY <3>2, <3>3
  <2> QED
    BY <1>1, <1>3, <2>1, <2>2, LifeInvMade
<1>4. CASE /\ Buildable(b) /\ config.backends[b].mounts # <<>>
           /\ mounting' = config.backends[b].mounts
           /\ UNCHANGED <<backends, dead, order, updaters>>
  <2>1. DependsOn(b) \subseteq DOMAIN backends
    BY <1>4 DEF Buildable
  <2>2. b \in Names
    BY <1>1, TailDistinct DEF LifeInv, OrderInv
  <2>3. mounting' \in Seq(Mounts)
    BY <1>4, <2>2, ConfigAssumption DEF LifeInv, Names
  <2>4. OrderInv'
    BY <1>1, <1>4, <2>1, <2>3, SameConfig DEF LifeInv, OrderInv
  <2>5. MadeInv' /\ DeadInv'
    BY <1>1, <1>4, SameConfig DEF LifeInv, MadeInv, DeadInv, Early
  <2>6. RunInv'
    BY <1>1, <1>4, SameConfig DEF LifeInv, RunInv, Startable, Servers
  <2> QED
    BY <1>1, <2>4, <2>5, <2>6 DEF LifeInv
<1> QED
  BY <1>2, <1>3, <1>4 DEF BuildBackend

(* createCompositeBackend takes the next mount. *)
LEMMA LifeInvMountChild == LifeInv /\ MountChild => LifeInv'
<1> SUFFICES ASSUME LifeInv, MountChild PROVE LifeInv'
  OBVIOUS
<1>1. /\ phase = "backends" /\ mounting # <<>> /\ mounting \in Seq(Mounts)
      /\ order # <<>> /\ DependsOn(Head(order)) \subseteq DOMAIN backends
      /\ UNCHANGED <<config, phase, attempt, frontends, updaters, running, threads, dangling, misuse>>
  BY DEF MountChild, LifeInv, OrderInv
<1>2. Tail(mounting) \in Seq(Mounts) /\ (Len(mounting) = 1 => Tail(mounting) = <<>>)
  <2>1. Tail(mounting) \in Seq(Mounts) /\ Len(Tail(mounting)) = Len(mounting) - 1
    BY <1>1, HeadTailProperties
  <2> DEFINE t == Tail(mounting)
  <2> HIDE DEF t
  <2>2. t \in Seq(Mounts) /\ Len(t) = Len(mounting) - 1
    BY <2>1 DEF t
  <2>3. Len(mounting) = 1 => t = <<>>
    BY <2>2, EmptySeq
  <2> QED
    BY <2>1, <2>3 DEF t
<1>3. CASE mounting' = Tail(mounting) /\ errors' = errors /\ Len(mounting) = 1 /\ Made(Head(order))
  BY <1>1, <1>2, <1>3, LifeInvMade DEF LifeInv, MadeInv
<1>4. CASE mounting' = Tail(mounting) /\ errors' = errors /\ UNCHANGED <<backends, dead, order>>
  <2>1. OrderInv'
    BY <1>1, <1>2, <1>4, SameConfig DEF LifeInv, OrderInv
  <2>2. MadeInv' /\ DeadInv'
    BY <1>1, <1>4, SameConfig DEF LifeInv, MadeInv, DeadInv, Early
  <2>3. RunInv'
    BY <1>1, <1>4, SameConfig DEF LifeInv, RunInv, Startable, Servers
  <2> QED
    BY <1>1, <2>1, <2>2, <2>3 DEF LifeInv
<1>5. CASE mounting' = <<>> /\ Skip
  BY <1>1, <1>5, LifeInvSkip
<1> QED
  BY <1>3, <1>4, <1>5 DEF MountChild

(* The frontends are built and initialize ends. *)
LEMMA LifeInvFrontends == LifeInv /\ (BackendsDone \/ BuildFrontend \/ InitializeEnds) => LifeInv'
<1> SUFFICES ASSUME LifeInv, BackendsDone \/ BuildFrontend \/ InitializeEnds PROVE LifeInv'
  OBVIOUS
<1>1. CASE BackendsDone
  <2>1. /\ phase = "backends" /\ phase' = (IF errors THEN "failed" ELSE "frontends") /\ order = <<>>
        /\ UNCHANGED <<config, attempt, backends, frontends, listeners, updaters, errors, mounting, running, threads,
                       dead, dangling, misuse>>
    BY <1>1 DEF BackendsDone, madeVars, endVars
  <2>2. OrderInv'
    BY <2>1, SameConfig DEF LifeInv, OrderInv
  <2>3. MadeInv' /\ DeadInv'
    BY <2>1, SameConfig DEF LifeInv, MadeInv, DeadInv, Early
  <2>4. RunInv'
    BY <2>1, SameConfig DEF LifeInv, RunInv, Startable, Servers
  <2> QED
    BY <2>1, <2>2, <2>3, <2>4 DEF LifeInv
<1>2. CASE BuildFrontend
  <2> DEFINE f == Head(waiting)
  <2>1. /\ phase = "frontends"
        /\ UNCHANGED <<config, phase, attempt, backends, updaters, mounting, order, running, threads, dead, misuse>>
        /\ frontends' = frontends \/ frontends' = Set(frontends, f, attempt)
        /\ dangling' = dangling \/ (f \in DOMAIN frontends /\ dangling' = dangling \cup Lost(f, frontends[f]))
    BY <1>2 DEF BuildFrontend, sortVars
  <2>2. attempt \in Nat /\ \A g \in DOMAIN frontends : frontends[g] \in Nat
    BY DEF LifeInv, MadeInv
  <2>3. OrderInv'
    BY <2>1, SameConfig DEF LifeInv, OrderInv
  <2>4. \A g \in DOMAIN frontends' : frontends'[g] \in Nat
    BY <2>1, <2>2 DEF Set
  <2>5. MadeInv' /\ DeadInv'
    BY <2>1, <2>4, SameConfig DEF LifeInv, MadeInv, DeadInv, Early
  <2>6. \A d \in dangling' \ dangling : d.attempt \in Nat /\ d.attempt < attempt
    <3> SUFFICES ASSUME NEW d \in Lost(f, frontends[f]), f \in DOMAIN frontends
                 PROVE  d.attempt \in Nat /\ d.attempt < attempt
      BY <2>1
    <3>1. PICK o \in Touched(f, frontends[f]) \cap dead : d.attempt = frontends[f]
      BY DEF Lost
    <3>2. o.attempt = frontends[f]
      BY DEF Touched
    <3>3. o.attempt < attempt
      BY <2>1, <2>2 DEF LifeInv, DeadInv, Early
    <3> QED
      BY <2>2, <3>1, <3>2, <3>3
  <2>7. RunInv'
    BY <2>1, <2>6 DEF LifeInv, RunInv
  <2> QED
    BY <2>1, <2>3, <2>5, <2>7 DEF LifeInv
<1>3. CASE InitializeEnds
  <2>1. /\ phase = "frontends" /\ phase' = IF errors THEN "failed" ELSE IF config.test /\ attempt = 1 THEN "tested" ELSE "ready"
        /\ UNCHANGED <<config, attempt, backends, frontends, listeners, updaters, errors, mounting, order, running, threads,
                       dead, dangling, misuse>>
    BY <1>3 DEF InitializeEnds, madeVars, endVars, sortVars
  <2>2. OrderInv'
    BY <2>1, SameConfig DEF LifeInv, OrderInv
  <2>3. MadeInv' /\ DeadInv'
    BY <2>1, SameConfig DEF LifeInv, MadeInv, DeadInv, Early
  <2>4. RunInv'
    BY <2>1, SameConfig DEF LifeInv, RunInv, Startable, Servers
  <2> QED
    BY <2>1, <2>2, <2>3, <2>4 DEF LifeInv
<1> QED
  BY <1>1, <1>2, <1>3

(* start, stop and the destructor. *)
LEMMA LifeInvRun == LifeInv /\ (Start \/ Stop \/ Destroy) => LifeInv'
<1> SUFFICES ASSUME LifeInv, Start \/ Stop \/ Destroy PROVE LifeInv'
  OBVIOUS
<1>1. /\ phase \in {"ready", "tested", "failed"} /\ phase' \in {phase, "terminated", "members"}
      /\ UNCHANGED <<config, attempt, backends, frontends, listeners, updaters, errors, mounting, order, dead, dangling>>
  BY DEF Start, Stop, Destroy, madeVars, endVars, sortVars
<1>2. OrderInv'
  BY <1>1, SameConfig DEF LifeInv, OrderInv
<1>3. MadeInv'
  BY <1>1, SameConfig DEF LifeInv, MadeInv
<1>4. DeadInv'
  BY <1>1, SameConfig DEF LifeInv, MadeInv, DeadInv, Early
<1>5. Startable' = Startable
  BY <1>1, SameConfig DEF Startable, Servers
<1>6. RunInv'
  <2>1. CASE Start
    BY <1>1, <1>5, <2>1 DEF LifeInv, RunInv, Start
  <2>2. CASE Stop
    <3>1. threads \subseteq Startable \/ misuse
      BY DEF LifeInv, RunInv
    <3>2. ~misuse => threads' = {}
      BY <2>2, <3>1 DEF Stop, Joined, Startable
    <3>3. phase' = phase /\ misuse' = misuse
      BY <2>2 DEF Stop, endVars
    <3> QED
      BY <1>1, <3>2, <3>3 DEF LifeInv, RunInv
  <2>3. CASE Destroy
    <3>1. phase' = "members" /\ misuse' = (misuse \/ running) /\ threads' = threads
      BY <2>3 DEF Destroy
    <3>2. ~misuse' => ~misuse /\ ~running
      BY <3>1
    <3> QED
      BY <1>1, <3>1, <3>2 DEF LifeInv, RunInv
  <2> QED
    BY <2>1, <2>2, <2>3
<1> QED
  BY <1>1, <1>2, <1>3, <1>4, <1>6 DEF LifeInv

(* A thread runs only where nothing of this attempt is dead.               *)
LEMMA LifeInvRounds ==
  ASSUME LifeInv, (\E f \in DOMAIN frontends : ServerRound(f)) \/ (\E u \in DOMAIN updaters : UpdaterRound(u))
  PROVE  LifeInv'
<1>1. /\ threads # {}
      /\ UNCHANGED <<config, phase, attempt, backends, frontends, listeners, updaters, errors, mounting, order, sortVars,
                     running, threads, dead, misuse>>
  BY DEF ServerRound, UpdaterRound, madeVars, sortVars
<1>2. OrderInv'
  <2>1. SortInv => SortInv'
    BY <1>1, SameSort DEF sortVars
  <2> QED
    BY <1>1, <2>1, SameConfig DEF LifeInv, OrderInv, sortVars
<1>3. MadeInv' /\ DeadInv'
  BY <1>1, SameConfig DEF LifeInv, MadeInv, DeadInv, Early
<1>4. Startable' = Startable
  BY <1>1, SameConfig DEF Startable, Servers
<1>5. attempt \in Nat
  BY DEF LifeInv, MadeInv
<1>6. ~misuse => phase = "ready" /\ \A d \in dead : d.attempt \in 1..attempt - 1
  BY <1>1 DEF LifeInv, RunInv, DeadInv, Early
<1>7. /\ \A d \in dangling' \ dangling : d.attempt \in Nat
      /\ ~misuse => \A d \in dangling' \ dangling : d.attempt < attempt
  <2>1. CASE \E f \in DOMAIN frontends : ServerRound(f)
    <3>1. PICK f \in DOMAIN frontends : ServerRound(f)
      BY <2>1
    <3>2. /\ Gone(config.frontends[f].spec) \in dead
          /\ dangling' = dangling \cup {[user |-> f, type |-> "listener", attempt |-> attempt]}
      BY <3>1 DEF ServerRound
    <3>3. misuse
      BY <1>5, <1>6, <3>2 DEF Gone
    <3> QED
      BY <1>5, <3>2, <3>3
  <2>2. CASE \E u \in DOMAIN updaters : UpdaterRound(u)
    <3>1. PICK u \in DOMAIN updaters : UpdaterRound(u)
      BY <2>2
    <3>2. dangling' = dangling \cup {[user |-> u, type |-> "simple", attempt |-> o.attempt] : o \in Orphaned(u)}
      BY <3>1 DEF UpdaterRound
    <3>3. \A o \in Orphaned(u) : o.attempt \in Nat /\ (~misuse => o.attempt < attempt)
      <4> SUFFICES ASSUME NEW o \in Orphaned(u) PROVE o.attempt \in Nat /\ (~misuse => o.attempt < attempt)
        OBVIOUS
      <4> DEFINE local == [o EXCEPT !.name = config.backends[@].backend]
      <4>1. o \in updaters[u] /\ local \in dead
        BY DEF Orphaned
      <4>2. o.attempt \in Nat
        BY <4>1 DEF LifeInv, MadeInv
      <4>3. local.attempt = o.attempt
        OBVIOUS
      <4> HIDE DEF local
      <4> QED
        BY <1>5, <1>6, <4>1, <4>2, <4>3
    <3> QED
      BY <3>2, <3>3
  <2> QED
    BY <2>1, <2>2
<1>8. RunInv'
  <2>1. dangling \subseteq dangling'
    BY DEF ServerRound, UpdaterRound
  <2> QED
    BY <1>1, <1>4, <1>7, <2>1 DEF LifeInv, RunInv
<1> QED
  BY <1>1, <1>2, <1>3, <1>8 DEF LifeInv

(* The members are destroyed, from the last to the first. *)
LEMMA LifeInvDrop == LifeInv /\ (DropUpdaters \/ DropConnections \/ DropFrontend \/ DropBackends) => LifeInv'
<1> SUFFICES ASSUME LifeInv, DropUpdaters \/ DropConnections \/ DropFrontend \/ DropBackends PROVE LifeInv'
  OBVIOUS
<1>0. attempt \in Nat /\ attempt > 0
  BY DEF LifeInv, MadeInv, DropUpdaters, DropConnections, DropFrontend, DropBackends
<1>1. CASE DropUpdaters
  <2>1. /\ phase = "members" /\ phase' \in {"connections", "terminated"}
        /\ UNCHANGED <<config, attempt, backends, frontends, listeners, errors, mounting, running, threads, dangling, misuse>>
    BY <1>1 DEF DropUpdaters
  <2>2. OrderInv'
    BY <2>1, SameConfig DEF LifeInv, OrderInv
  <2>3. CASE threads \cap DOMAIN updaters # {} /\ phase' = "terminated" /\ UNCHANGED <<updaters, dead>>
    <3>1. misuse
      BY <2>1, <2>3 DEF LifeInv, RunInv
    <3>2. MadeInv'
      BY <2>1, <2>3, SameConfig DEF LifeInv, MadeInv
    <3>3. DeadInv' /\ RunInv'
      BY <2>1, <2>3, <3>1, <1>0 DEF LifeInv, DeadInv, RunInv, Early
    <3> QED
      BY <2>1, <2>2, <3>2, <3>3 DEF LifeInv
  <2>4. CASE phase' = "connections" /\ dead' = dead \cup UNION Range(updaters) /\ updaters' = NoMap
    <3>1. MadeInv'
      BY <2>1, <2>4, SameConfig DEF LifeInv, MadeInv, NoMap
    <3>2. \A d \in dead' : d.attempt < attempt \/ Owned(d.name)
      <4>1. \A d \in dead : d.attempt < attempt
        BY <2>1, <1>0 DEF LifeInv, DeadInv, Early
      <4>2. \A d \in UNION Range(updaters) : Owned(d.name)
        BY DEF LifeInv, MadeInv, Range
      <4> QED
        BY <2>4, <4>1, <4>2
    <3>3. DeadInv'
      BY <2>1, <2>4, <3>2, SameConfig DEF DeadInv, Early
    <3>4. RunInv'
      BY <2>1, <2>4 DEF LifeInv, RunInv
    <3> QED
      BY <2>1, <2>2, <3>1, <3>3, <3>4 DEF LifeInv
  <2> QED
    BY <1>1, <2>3, <2>4 DEF DropUpdaters
<1>2. CASE DropConnections
  <2>1. /\ phase = "connections" /\ phase' = "users" /\ dead' = dead \cup {Gone(s) : s \in listeners}
        /\ UNCHANGED <<config, attempt, backends, frontends, updaters, errors, mounting, running, threads, dangling, misuse>>
    BY <1>2 DEF DropConnections
  <2>2. OrderInv'
    BY <2>1, SameConfig DEF LifeInv, OrderInv
  <2>3. MadeInv'
    BY <2>1, SameConfig DEF LifeInv, MadeInv
  <2>4. \A d \in {Gone(s) : s \in listeners} : d.attempt < attempt
    BY <1>0 DEF Gone
  <2>5. DeadInv'
    BY <2>1, <2>4, SameConfig DEF LifeInv, DeadInv, Early
  <2>6. RunInv'
    BY <2>1 DEF LifeInv, RunInv
  <2> QED
    BY <2>1, <2>2, <2>3, <2>5, <2>6 DEF LifeInv
<1>3. CASE DropFrontend
  <2>0. PICK f \in DOMAIN frontends :
          /\ phase = "users"
          /\ \/ f \in threads /\ phase' = "terminated" /\ frontends' = frontends /\ dangling' = dangling
             \/ frontends' = Without(frontends, f) /\ dangling' = dangling \cup Lost(f, frontends[f]) /\ phase' = phase
    BY <1>3 DEF DropFrontend
  <2>1. UNCHANGED <<config, attempt, backends, listeners, updaters, errors, mounting, running, threads, dead, misuse>>
    BY <1>3 DEF DropFrontend
  <2>2. OrderInv'
    BY <2>0, <2>1, SameConfig DEF LifeInv, OrderInv
  <2>3. DOMAIN frontends' \subseteq DOMAIN frontends /\ \A g \in DOMAIN frontends' : frontends'[g] = frontends[g]
    BY <2>0 DEF Without
  <2>4. MadeInv'
    BY <2>0, <2>1, <2>3, SameConfig DEF LifeInv, MadeInv
  <2>5. DeadInv'
    BY <2>0, <2>1, <2>3, SameConfig DEF LifeInv, DeadInv, Early
  <2>6. \A d \in Lost(f, frontends[f]) : d.attempt \in Nat /\ (d.type = "http3_client" \/ d.attempt < attempt)
    <3> SUFFICES ASSUME NEW d \in Lost(f, frontends[f])
                 PROVE  d.attempt \in Nat /\ (d.type = "http3_client" \/ d.attempt < attempt)
      OBVIOUS
    <3>1. PICK o \in Touched(f, frontends[f]) \cap dead : d.attempt = frontends[f] /\ d.type = Type(o.name)
      BY DEF Lost
    <3>2. o.attempt = frontends[f] /\ frontends[f] \in Nat
      BY DEF Touched, LifeInv, MadeInv
    <3>3. o.attempt < attempt \/ Type(o.name) = "http3_client"
      BY <2>0 DEF LifeInv, DeadInv, Early, Owned
    <3> QED
      BY <3>1, <3>2, <3>3
  <2>7. threads # {} => misuse
    BY <2>0 DEF LifeInv, RunInv
  <2>8. RunInv'
    BY <2>0, <2>1, <2>6, <2>7 DEF LifeInv, RunInv
  <2> QED
    BY <2>1, <2>2, <2>4, <2>5, <2>8 DEF LifeInv
<1>4. CASE DropBackends
  <2>1. /\ phase = "users" /\ phase' = phase /\ DOMAIN frontends = {} /\ backends' = NoMap
        /\ UNCHANGED <<config, attempt, frontends, listeners, updaters, errors, mounting, running, threads, dangling, misuse>>
    BY <1>4 DEF DropBackends
  <2>2. OrderInv'
    BY <2>1, SameConfig DEF LifeInv, OrderInv, NoMap
  <2>3. MadeInv'
    BY <2>1, SameConfig DEF LifeInv, MadeInv, NoMap
  <2>4. DeadInv'
    BY <2>1 DEF DeadInv, Early
  <2>5. RunInv'
    BY <2>1, SameConfig DEF LifeInv, RunInv, Startable, Servers
  <2> QED
    BY <2>1, <2>2, <2>3, <2>4, <2>5 DEF LifeInv
<1> QED
  BY <1>1, <1>2, <1>3, <1>4

(* The invariant is about the service's own variables alone. *)
LEMMA LifeInvStutter == LifeInv /\ UNCHANGED lifeVars => LifeInv'
<1> SUFFICES ASSUME LifeInv, UNCHANGED lifeVars PROVE LifeInv'
  OBVIOUS
<1>1. /\ UNCHANGED <<config, phase, degree, queue, order, attempt, backends, frontends, listeners, updaters>>
      /\ UNCHANGED <<errors, mounting, waiting, initialized, running, threads, dead, dangling, misuse>>
  BY DEF lifeVars, sortVars, madeVars, endVars
<1>2. SortInv => SortInv'
  BY <1>1, SameSort
<1>3. OrderInv'
  BY <1>1, <1>2, SameConfig DEF LifeInv, OrderInv
<1>4. MadeInv' /\ DeadInv'
  BY <1>1, SameConfig DEF LifeInv, MadeInv, DeadInv
<1>5. RunInv'
  BY <1>1, SameConfig DEF LifeInv, RunInv, Startable, Servers
<1> QED
  BY <1>1, <1>3, <1>4, <1>5 DEF LifeInv

(* No step of the service breaks the invariant. *)
LEMMA LifeInvStep == LifeInv /\ [Next]_vars => LifeInv'
<1> SUFFICES ASSUME LifeInv, [Next]_vars PROVE LifeInv'
  OBVIOUS
<1>1. CASE UNCHANGED vars
  BY <1>1, LifeInvStutter DEF vars
<1>2. CASE UseComposite \/ UseMediated
  BY <1>2, LifeInvStutter DEF UseComposite, UseMediated
<1>3. CASE Next /\ ~(UseComposite \/ UseMediated)
  BY <1>3, LifeInvInitialize, LifeInvSort, LifeInvBuildBackend, LifeInvMountChild, LifeInvFrontends,
     LifeInvRun, LifeInvRounds, LifeInvDrop DEF Next
<1> QED
  BY <1>1, <1>2, <1>3

(* topologicalSort and constructBackends, for every configuration: the     *)
(* backends are built in an order in which each finds the ones it needs,   *)
(* and the sort gives up exactly when there is none.                       *)
THEOREM SortsTopologically == Spec => []BuiltInDependencyOrder
<1>1. LifeInv => BuiltInDependencyOrder
  BY DEF LifeInv, OrderInv, BuiltInDependencyOrder
<1> QED
  BY <1>1, LifeInvInit, LifeInvStep, PTL DEF Spec

(* The destructors and threads of the service use only what still exists,  *)
(* for every configuration and wherever its construction stopped.          *)
THEOREM ServiceEndsCleanly == Spec => []EndsCleanly
<1>1. LifeInv => EndsCleanly
  BY DEF LifeInv, RunInv, EndsCleanly
<1> QED
  BY <1>1, LifeInvInit, LifeInvStep, PTL DEF Spec

--------------------------------------------------------------------------------
(* The composite backend.                                                  *)

Rule == Seq(Nat)

(* Every label begins with nothing. *)
LEMMA EmptyIsPrefix == ASSUME NEW l \in Rule PROVE IsPrefix(<<>>, l)
<1>1. Len(<<>>) = 0 /\ Len(l) \in Nat /\ SubSeq(<<>>, 1, 0) = <<>> /\ SubSeq(l, 1, 0) = <<>>
  BY EmptySeq, SubSeqEmpty DEF Rule
<1> QED
  BY <1>1 DEF IsPrefix

(* A prefix put before a label is cut off again. *)
LEMMA PrefixCut ==
  ASSUME NEW p \in Rule, NEW s \in Rule
  PROVE  /\ p \o s \in Rule /\ IsPrefix(p, p \o s)
         /\ SubSeq(p \o s, Len(p) + 1, Len(p \o s)) = s
<1> USE DEF Rule
<1> DEFINE t == p \o s
<1>1. /\ t \in Seq(Nat) /\ Len(t) = Len(p) + Len(s) /\ Len(p) \in Nat /\ Len(s) \in Nat
      /\ \A i \in 1..Len(p) + Len(s) : t[i] = IF i <= Len(p) THEN p[i] ELSE s[i - Len(p)]
  BY ConcatProperties
<1> HIDE DEF t
<1>2. \A i \in 1..Len(t) : t[i] \in Nat
  BY <1>1, ElementOfSeq
<1> DEFINE u == SubSeq(t, 1, Len(p))
<1>3. u \in Seq(Nat) /\ Len(u) = Len(p) /\ \A i \in 1..Len(p) : u[i] = t[i]
  BY <1>1, <1>2, SubSeqProperties
<1> DEFINE v == SubSeq(t, Len(p) + 1, Len(t))
<1>4. v \in Seq(Nat) /\ Len(v) = Len(s) /\ \A i \in 1..Len(s) : v[i] = t[Len(p) + i]
  BY <1>1, <1>2, SubSeqProperties
<1> HIDE DEF u, v
<1>5. u = p
  <2>1. \A i \in 1..Len(p) : u[i] = p[i]
    BY <1>1, <1>3
  <2> QED
    BY <1>3, <2>1, SeqEqual
<1>6. v = s
  <2>1. \A i \in 1..Len(s) : v[i] = s[i]
    <3> SUFFICES ASSUME NEW i \in 1..Len(s) PROVE v[i] = s[i]
      OBVIOUS
    <3>1. Len(p) + i \in 1..Len(p) + Len(s) /\ ~(Len(p) + i <= Len(p)) /\ (Len(p) + i) - Len(p) = i
      BY <1>1
    <3>2. t[Len(p) + i] = s[(Len(p) + i) - Len(p)]
      BY <1>1, <3>1
    <3> QED
      BY <1>4, <3>1, <3>2
  <2> QED
    BY <1>4, <2>1, SeqEqual
<1>7. SubSeq(p, 1, Len(p)) = p
  BY SubSeqFull
<1>8. Len(p) <= Len(t)
  BY <1>1
<1> QED
  BY <1>1, <1>5, <1>6, <1>7, <1>8 DEF IsPrefix, t, u, v

(* A label is its prefix and what follows it. *)
LEMMA CutPrefix ==
  ASSUME NEW p \in Rule, NEW l \in Rule, IsPrefix(p, l)
  PROVE  SubSeq(l, Len(p) + 1, Len(l)) \in Rule /\ l = p \o SubSeq(l, Len(p) + 1, Len(l))
<1> USE DEF Rule
<1> DEFINE v == SubSeq(l, Len(p) + 1, Len(l))
<1>1. /\ Len(p) \in Nat /\ Len(l) \in Nat /\ Len(p) <= Len(l)
      /\ SubSeq(p, 1, Len(p)) = SubSeq(l, 1, Len(p)) /\ \A i \in 1..Len(l) : l[i] \in Nat
  BY ElementOfSeq DEF IsPrefix
<1>2. v \in Seq(Nat) /\ Len(v) = Len(l) - Len(p) /\ \A i \in 1..Len(l) - Len(p) : v[i] = l[Len(p) + i]
  BY <1>1, SubSeqProperties
<1>3. \A i \in 1..Len(p) : p[i] = l[i]
  <2>1. SubSeq(p, 1, Len(p)) = p
    BY SubSeqFull
  <2>2. \A i \in 1..Len(p) : SubSeq(l, 1, Len(p))[i] = l[i]
    BY <1>1, SubSeqProperties
  <2> QED
    BY <1>1, <2>1, <2>2
<1> HIDE DEF v
<1> DEFINE t == p \o v
<1>4. /\ t \in Seq(Nat) /\ Len(t) = Len(p) + Len(v)
      /\ \A i \in 1..Len(p) + Len(v) : t[i] = IF i <= Len(p) THEN p[i] ELSE v[i - Len(p)]
  BY <1>2, ConcatProperties
<1> HIDE DEF t
<1>5. Len(t) = Len(l)
  BY <1>1, <1>2, <1>4
<1>6. \A i \in 1..Len(l) : t[i] = l[i]
  <2> SUFFICES ASSUME NEW i \in 1..Len(l) PROVE t[i] = l[i]
    OBVIOUS
  <2>1. CASE i <= Len(p)
    BY <1>1, <1>2, <1>3, <1>4, <2>1
  <2>2. CASE ~(i <= Len(p))
    <3>1. i - Len(p) \in 1..Len(l) - Len(p) /\ Len(p) + (i - Len(p)) = i
      BY <1>1, <2>2
    <3>2. i \in 1..Len(p) + Len(v)
      BY <1>1, <1>2
    <3>3. t[i] = v[i - Len(p)]
      BY <1>4, <2>2, <3>2
    <3> QED
      BY <1>2, <3>1, <3>3
  <2> QED
    BY <2>1, <2>2
<1>7. t = l
  BY <1>4, <1>5, <1>6, SeqEqual
<1> QED
  BY <1>2, <1>7 DEF t, v

(* After the same prefix, equal labels were equal. *)
LEMMA SamePrefix ==
  ASSUME NEW p \in Rule, NEW s \in Rule, NEW t \in Rule, p \o s = p \o t
  PROVE  s = t
BY ConcatSimplifications DEF Rule

(* Where a label is kept, and under which key.                             *)
Key(l) == ReadLabel(getRelevantBackend(l), Seen(l))

MountTypes ==
  /\ \A m \in DOMAIN mounted : m \in Rule /\ m # <<>> /\ mounted[m] \in Rule

(* The label is cut where the mount ends.                                  *)
LEMMA CutAt ==
  ASSUME MountTypes, NEW l \in Rule
  PROVE  LET m == getRelevantBackend(l)
         IN  /\ m = Root \/ (m \in DOMAIN mounted /\ LiesUnder(l, m))
             /\ CutOff(l, m) \in Rule /\ PrefixOf(m) \in Rule /\ Seen(l) \in Rule
             /\ IsPrefix(CutOff(l, m), l) /\ l = CutOff(l, m) \o Seen(l)
             /\ Key(l) = PrefixOf(m) \o Seen(l)
<1> DEFINE m == getRelevantBackend(l)
<1>1. m = Root \/ (m \in DOMAIN mounted /\ LiesUnder(l, m))
  BY DEF getRelevantBackend
<1> HIDE DEF m
<1>2. CutOff(l, m) \in Rule /\ PrefixOf(m) \in Rule
  <2>1. CASE m = Root
    BY <2>1 DEF CutOff, PrefixOf, Rule
  <2>2. CASE m # Root
    <3>1. m \in Rule /\ mounted[m] \in Rule
      BY <1>1, <2>2 DEF MountTypes
    <3>2. Append(m, Slash) \in Rule
      BY <3>1 DEF Rule, Slash
    <3> QED
      BY <2>2, <3>1, <3>2 DEF CutOff, PrefixOf
  <2> QED
    BY <2>1, <2>2
<1>3. IsPrefix(CutOff(l, m), l)
  <2>1. CASE m = Root
    BY <2>1, EmptyIsPrefix DEF CutOff
  <2>2. CASE m # Root /\ l = m
    BY <2>2 DEF CutOff, IsPrefix
  <2>3. CASE m # Root /\ l # m
    BY <1>1, <2>3 DEF CutOff, LiesUnder
  <2> QED
    BY <2>1, <2>2, <2>3
<1>4. Seen(l) = SubSeq(l, Len(CutOff(l, m)) + 1, Len(l))
  BY DEF Seen, m
<1>5. Seen(l) \in Rule /\ l = CutOff(l, m) \o Seen(l)
  BY <1>2, <1>3, <1>4, CutPrefix
<1>6. Key(l) = PrefixOf(m) \o Seen(l)
  BY DEF Key, ReadLabel, m
<1> QED
  BY <1>1, <1>2, <1>3, <1>5, <1>6 DEF m

(* A label the mounts keep apart is written under the key it is read under. *)
LEMMA WrittenUnderKey ==
  ASSUME MountTypes, NEW l \in Rule, ~Odd(l)
  PROVE  LET m == getRelevantBackend(l)
         IN  /\ WriteLabel(m, shortenLabels(CutOff(l, m), l)) = Key(l)
             /\ shortenLabels(PrefixOf(m), Key(l)) = Seen(l)
             /\ IsPrefix(PrefixOf(m), Key(l))
             /\ prefixLabels(CutOff(l, m), Seen(l)) = l
             /\ m # Root => CutOff(l, m) = Append(m, Slash)
             /\ m = Root => Key(l) = l
<1> DEFINE m == getRelevantBackend(l)
<1>1. /\ m = Root \/ (m \in DOMAIN mounted /\ LiesUnder(l, m))
      /\ CutOff(l, m) \in Rule /\ PrefixOf(m) \in Rule /\ Seen(l) \in Rule
      /\ IsPrefix(CutOff(l, m), l) /\ l = CutOff(l, m) \o Seen(l)
      /\ Key(l) = PrefixOf(m) \o Seen(l)
  BY CutAt
<1>2. Seen(l) = SubSeq(l, Len(CutOff(l, m)) + 1, Len(l))
  BY DEF Seen
<1>3. /\ l \notin DOMAIN mounted
      /\ m # Root => ~IsPrefix(CutOff(l, m), Seen(l))
      /\ m # Root /\ PrefixOf(m) # <<>> => ~IsPrefix(PrefixOf(m), Seen(l))
  BY DEF Odd, Repeats
<1> HIDE DEF m
<1>4. shortenLabels(CutOff(l, m), l) = Seen(l)
  BY <1>1, <1>2 DEF shortenLabels
<1>5. m = Root => CutOff(l, m) = <<>> /\ PrefixOf(m) = <<>>
  BY DEF CutOff, PrefixOf
<1>6. <<>> \o Seen(l) = Seen(l) /\ IsPrefix(<<>>, Seen(l))
  BY <1>1, EmptyIsPrefix, ConcatEmptySeq DEF Rule
<1>7. WriteLabel(m, Seen(l)) = Key(l)
  BY <1>1, <1>3, <1>5, <1>6 DEF WriteLabel, prefixLabels
<1>8. shortenLabels(PrefixOf(m), Key(l)) = Seen(l) /\ IsPrefix(PrefixOf(m), Key(l))
  BY <1>1, PrefixCut DEF shortenLabels
<1>9. prefixLabels(CutOff(l, m), Seen(l)) = l
  BY <1>1, <1>3, <1>5, <1>6 DEF prefixLabels
<1>10. m # Root => CutOff(l, m) = Append(m, Slash)
  BY <1>1, <1>3 DEF CutOff
<1>11. m = Root => Key(l) = l
  BY <1>1, <1>5, <1>6
<1> QED
  BY <1>4, <1>7, <1>8, <1>9, <1>10, <1>11 DEF m

(* Two such labels never share a key.                                      *)
LEMMA KeysDiffer ==
  ASSUME MountTypes, NEW l \in Rule, NEW k \in Rule, ~Odd(l), ~Odd(k),
         getRelevantBackend(l) = getRelevantBackend(k), Key(l) = Key(k)
  PROVE  l = k
<1> DEFINE m == getRelevantBackend(l)
<1>1. /\ CutOff(l, m) \in Rule /\ PrefixOf(m) \in Rule /\ Seen(l) \in Rule
      /\ l = CutOff(l, m) \o Seen(l) /\ Key(l) = PrefixOf(m) \o Seen(l)
  BY CutAt
<1>2. Seen(k) \in Rule /\ k = CutOff(k, m) \o Seen(k) /\ Key(k) = PrefixOf(m) \o Seen(k)
  BY CutAt
<1>3. CutOff(l, m) = CutOff(k, m)
  <2>1. CASE m = Root
    BY <2>1 DEF CutOff
  <2>2. CASE m # Root
    BY <2>2, WrittenUnderKey
  <2> QED
    BY <2>1, <2>2
<1> HIDE DEF m
<1>4. Seen(l) = Seen(k)
  BY <1>1, <1>2, SamePrefix
<1> QED
  BY <1>1, <1>2, <1>3, <1>4

(* The trees st hold what du says, each node under the key of its label,   *)
(* and nothing else.                                                       *)
Placed(st, du) ==
  /\ DOMAIN du \subseteq Rule /\ DOMAIN st = {Root} \cup DOMAIN mounted
  /\ \A l \in DOMAIN du : /\ ~Odd(l) /\ Key(l) \in DOMAIN st[getRelevantBackend(l)]
                           /\ st[getRelevantBackend(l)][Key(l)] = du[l]
  /\ \A m \in DOMAIN st : \A k \in DOMAIN st[m] :
        \E l \in DOMAIN du : getRelevantBackend(l) = m /\ Key(l) = k

(* A label written lands in its place and moves no other. *)
LEMMA PlacedWritten ==
  ASSUME MountTypes, NEW st, NEW du, Placed(st, du), NEW l \in Rule, ~Odd(l), NEW v
  PROVE  Placed(Stored(st, l, v), With(du, l, v))
<1> DEFINE m == getRelevantBackend(l)
<1> DEFINE st2 == Stored(st, l, v)
<1> DEFINE du2 == With(du, l, v)
<1>1. m \in DOMAIN st
  BY CutAt DEF Placed
<1>2. WriteLabel(m, shortenLabels(CutOff(l, m), l)) = Key(l)
  BY WrittenUnderKey
<1>3. /\ st2 = [st EXCEPT ![m] = With(@, Key(l), v)]
  BY <1>2 DEF Stored
<1>4. /\ DOMAIN st2 = DOMAIN st /\ \A n \in DOMAIN st : n # m => st2[n] = st[n]
      /\ st2[m] = With(st[m], Key(l), v)
  BY <1>1, <1>3
<1>5. /\ DOMAIN st2[m] = DOMAIN st[m] \cup {Key(l)} /\ st2[m][Key(l)] = v
      /\ \A k \in DOMAIN st[m] : k # Key(l) => st2[m][k] = st[m][k]
  BY <1>4 DEF With
<1>6. /\ DOMAIN du2 = DOMAIN du \cup {l} /\ du2[l] = v /\ \A k \in DOMAIN du : k # l => du2[k] = du[k]
  BY DEF With
<1> HIDE DEF st2, du2
<1>7. ASSUME NEW k \in DOMAIN du2
      PROVE  /\ ~Odd(k) /\ Key(k) \in DOMAIN st2[getRelevantBackend(k)]
             /\ st2[getRelevantBackend(k)][Key(k)] = du2[k]
  <2>1. CASE k = l
    BY <1>5, <1>6, <2>1
  <2>2. CASE k # l
    <3> DEFINE n == getRelevantBackend(k)
    <3>1. k \in DOMAIN du /\ du2[k] = du[k] /\ k \in Rule
      BY <1>6, <1>7, <2>2 DEF Placed
    <3>2. ~Odd(k) /\ Key(k) \in DOMAIN st[n] /\ st[n][Key(k)] = du[k]
      BY <3>1 DEF Placed
    <3>3. n \in DOMAIN st
      BY <3>1, CutAt DEF Placed
    <3>4. n = m => Key(k) # Key(l)
      BY <2>2, <3>1, <3>2, KeysDiffer
    <3> HIDE DEF n
    <3>5. Key(k) \in DOMAIN st2[n] /\ st2[n][Key(k)] = st[n][Key(k)]
      BY <1>4, <1>5, <3>2, <3>3, <3>4
    <3> QED
      BY <3>1, <3>2, <3>5 DEF n
  <2> QED
    BY <2>1, <2>2
<1>8. ASSUME NEW n \in DOMAIN st2, NEW k \in DOMAIN st2[n]
      PROVE  \E x \in DOMAIN du2 : getRelevantBackend(x) = n /\ Key(x) = k
  <2>1. CASE n = m /\ k = Key(l)
    BY <1>6, <2>1
  <2>2. CASE ~(n = m /\ k = Key(l))
    <3>1. n \in DOMAIN st /\ k \in DOMAIN st[n]
      BY <1>4, <1>5, <1>8, <2>2
    <3> QED
      BY <3>1, <1>6 DEF Placed
  <2> QED
    BY <2>1, <2>2
<1> HIDE DEF m
<1> QED
  BY <1>4, <1>6, <1>7, <1>8 DEF Placed, st2, du2

(* A label deleted leaves every other in its place. *)
LEMMA PlacedDeleted ==
  ASSUME MountTypes, NEW st, NEW du, Placed(st, du), NEW l \in Rule, ~Odd(l)
  PROVE  Placed([st EXCEPT ![getRelevantBackend(l)] = Without(@, Key(l))], Without(du, l))
<1> DEFINE m == getRelevantBackend(l)
<1> DEFINE st2 == [st EXCEPT ![m] = Without(@, Key(l))]
<1> DEFINE du2 == Without(du, l)
<1>1. m \in DOMAIN st
  BY CutAt DEF Placed
<1>4. /\ DOMAIN st2 = DOMAIN st /\ \A n \in DOMAIN st : n # m => st2[n] = st[n]
      /\ st2[m] = Without(st[m], Key(l))
  BY <1>1
<1>5. /\ DOMAIN st2[m] = DOMAIN st[m] \ {Key(l)}
      /\ \A k \in DOMAIN st2[m] : st2[m][k] = st[m][k]
  BY <1>4 DEF Without
<1>6. /\ DOMAIN du2 = DOMAIN du \ {l} /\ \A k \in DOMAIN du2 : du2[k] = du[k]
  BY DEF Without
<1> HIDE DEF st2, du2
<1>7. ASSUME NEW k \in DOMAIN du2
      PROVE  /\ ~Odd(k) /\ Key(k) \in DOMAIN st2[getRelevantBackend(k)]
             /\ st2[getRelevantBackend(k)][Key(k)] = du2[k]
  <2> DEFINE n == getRelevantBackend(k)
  <2>1. k \in DOMAIN du /\ du2[k] = du[k] /\ k \in Rule /\ k # l
    BY <1>6, <1>7 DEF Placed
  <2>2. ~Odd(k) /\ Key(k) \in DOMAIN st[n] /\ st[n][Key(k)] = du[k]
    BY <2>1 DEF Placed
  <2>3. n \in DOMAIN st
    BY <2>1, CutAt DEF Placed
  <2>4. n = m => Key(k) # Key(l)
    BY <2>1, <2>2, KeysDiffer
  <2> HIDE DEF n
  <2>5. Key(k) \in DOMAIN st2[n] /\ st2[n][Key(k)] = st[n][Key(k)]
    BY <1>4, <1>5, <2>2, <2>3, <2>4
  <2> QED
    BY <2>1, <2>2, <2>5 DEF n
<1>8. ASSUME NEW n \in DOMAIN st2, NEW k \in DOMAIN st2[n]
      PROVE  \E x \in DOMAIN du2 : getRelevantBackend(x) = n /\ Key(x) = k
  <2>1. n \in DOMAIN st /\ k \in DOMAIN st[n] /\ ~(n = m /\ k = Key(l))
    BY <1>4, <1>5, <1>8
  <2>2. PICK x \in DOMAIN du : getRelevantBackend(x) = n /\ Key(x) = k
    BY <2>1 DEF Placed
  <2> QED
    BY <2>1, <2>2, <1>6
<1> HIDE DEF m
<1> QED
  BY <1>4, <1>6, <1>7, <1>8 DEF Placed, st2, du2, m

(* Until the service is initialized the root has all there is and, unless  *)
(* the mounts are odd, nothing under a mount; then each node has its place. *)
Unused == {"new", "sorting", "backends", "frontends", "failed", "tested"}

CompInv ==
  /\ MountTypes /\ DOMAIN store = {Root} \cup DOMAIN mounted /\ DOMAIN due \subseteq Rule
  /\ odd \in BOOLEAN
  /\ phase \in Unused => /\ store[Root] = due /\ \A m \in DOMAIN mounted : store[m] = NoTree
                         /\ ~odd => \A l \in DOMAIN due, m \in DOMAIN mounted : ~LiesUnder(l, m)
  /\ ~odd => Placed(store, due)

AtFirst ==
  /\ MountTypes /\ DOMAIN store = {Root} \cup DOMAIN mounted /\ DOMAIN due \subseteq Rule
  /\ store[Root] = due /\ \A m \in DOMAIN mounted : store[m] = NoTree
  /\ \A l \in DOMAIN due, m \in DOMAIN mounted : ~LiesUnder(l, m)

(* The mounts are empty and the root has nothing under them: all is in      *)
(* place.                                                                   *)
LEMMA PlacedAtFirst == AtFirst => Placed(store, due)
<1> SUFFICES ASSUME AtFirst PROVE Placed(store, due)
  OBVIOUS
<1> USE DEF AtFirst
<1>1. ASSUME NEW l \in DOMAIN due PROVE getRelevantBackend(l) = Root /\ Key(l) = l /\ ~Odd(l)
  <2>1. l \in Rule
    OBVIOUS
  <2>2. getRelevantBackend(l) = Root
    BY <1>1, <2>1, CutAt
  <2>3. l \notin DOMAIN mounted
    BY <1>1 DEF LiesUnder
  <2>4. ~Odd(l)
    BY <1>1, <2>2, <2>3 DEF Odd, Hidden, Repeats
  <2> QED
    BY <2>1, <2>2, <2>4, WrittenUnderKey
<1>2. \A m \in DOMAIN store : m # Root => DOMAIN store[m] = {}
  BY DEF NoTree
<1> QED
  BY <1>1, <1>2 DEF Placed

(* Everything about labels depends on the mounts alone.                    *)
LEMMA SameMounts ==
  ASSUME mounted' = mounted
  PROVE  /\ MountTypes' = MountTypes
         /\ \A l : getRelevantBackend(l)' = getRelevantBackend(l) /\ Key(l)' = Key(l) /\ Odd(l)' = Odd(l)
<1>1. \A l : getRelevantBackend(l)' = getRelevantBackend(l)
  BY DEF getRelevantBackend
<1>2. \A l : Seen(l)' = Seen(l)
  BY <1>1 DEF Seen
<1>3. \A m : PrefixOf(m)' = PrefixOf(m)
  BY DEF PrefixOf
<1>4. \A l : Key(l)' = Key(l)
  BY <1>1, <1>2, <1>3 DEF Key, ReadLabel
<1>5. \A l : Hidden(l)' = Hidden(l) /\ Repeats(l)' = Repeats(l)
  BY <1>1, <1>2, <1>3 DEF Hidden, Repeats
<1>6. MountTypes' = MountTypes
  BY DEF MountTypes
<1> QED
  BY <1>1, <1>4, <1>5, <1>6 DEF Odd

(* Places depend on the mounts alone. *)
LEMMA PlacedLater ==
  ASSUME mounted' = mounted, Placed(store', due') PROVE Placed(store, due)'
BY SameMounts DEF Placed

(* Before anything is mounted. *)
LEMMA CompInvInit == Init => CompInv
<1> SUFFICES ASSUME Init PROVE CompInv
  OBVIOUS
<1>1. /\ mounted = NoTree /\ store = [m \in {Root} |-> due] /\ odd = FALSE
      /\ config \in Configs /\ due = config.before
  BY DEF Init, CompositeInit
<1>2. DOMAIN mounted = {} /\ DOMAIN store = {Root} /\ store[Root] = due /\ MountTypes
  BY <1>1 DEF NoTree, MountTypes
<1>3. DOMAIN due \subseteq Rule
  BY <1>1, ConfigAssumption DEF Rule
<1>4. Placed(store, due)
  BY <1>2, <1>3, PlacedAtFirst DEF AtFirst
<1> QED
  BY <1>1, <1>2, <1>3, <1>4 DEF CompInv

(* A user writes or deletes.                                               *)
LEMMA CompInvUse ==
  ASSUME CompInv, phase = "ready", phase' = "ready", CompositeNext
  PROVE  CompInv'
<1>0. Rules \subseteq Rule
  BY RulesAssumption DEF Rule
<1>1. MountTypes /\ DOMAIN store = {Root} \cup DOMAIN mounted /\ DOMAIN due \subseteq Rule /\ odd \in BOOLEAN
  BY DEF CompInv
<1>2. SUFFICES ASSUME mounted' = mounted, odd' \in BOOLEAN, DOMAIN due' \subseteq Rule,
                      DOMAIN store' = DOMAIN store, ~odd' => Placed(store', due')
               PROVE  CompInv'
  <2>1. ASSUME NEW l \in Rules, NEW v, upsertNode(l, v)
        PROVE  /\ mounted' = mounted /\ odd' \in BOOLEAN /\ DOMAIN due' \subseteq Rule
               /\ DOMAIN store' = DOMAIN store /\ (~odd' => Placed(store', due'))
    <3>1. /\ mounted' = mounted /\ store' = Stored(store, l, v) /\ due' = With(due, l, v) /\ odd' = (odd \/ Odd(l))
          /\ l \in Rule
      BY <1>0, <2>1 DEF upsertNode
    <3>2. DOMAIN store' = DOMAIN store /\ DOMAIN due' = DOMAIN due \cup {l}
      BY <3>1 DEF Stored, With
    <3>3. ~odd' => Placed(store', due')
      BY <1>1, <3>1, PlacedWritten DEF CompInv
    <3>4. odd' \in BOOLEAN
      BY <3>1
    <3> QED
      BY <1>1, <3>1, <3>2, <3>3, <3>4
  <2>2. ASSUME NEW l \in Rules, deleteNode(l)
        PROVE  /\ mounted' = mounted /\ odd' \in BOOLEAN /\ DOMAIN due' \subseteq Rule
               /\ DOMAIN store' = DOMAIN store /\ (~odd' => Placed(store', due'))
    <3>1. /\ mounted' = mounted /\ due' = Without(due, l) /\ odd' = (odd \/ Odd(l))
          /\ store' = [store EXCEPT ![getRelevantBackend(l)] = Without(@, Key(l))]
          /\ l \in Rule
      BY <1>0, <2>2 DEF deleteNode, Key
    <3>2. DOMAIN store' = DOMAIN store /\ DOMAIN due' = DOMAIN due \ {l}
      BY <3>1 DEF Without
    <3>3. ~odd' => Placed(store', due')
      BY <1>1, <3>1, PlacedDeleted DEF CompInv
    <3>4. odd' \in BOOLEAN
      BY <3>1
    <3> QED
      BY <1>1, <3>1, <3>2, <3>3, <3>4
  <2>3. ASSUME NEW l \in Rules, NEW k \in Rules, NEW v, applyTransaction(l, k, v)
        PROVE  /\ mounted' = mounted /\ odd' \in BOOLEAN /\ DOMAIN due' \subseteq Rule
               /\ DOMAIN store' = DOMAIN store /\ (~odd' => Placed(store', due'))
    <3>1. /\ mounted' = mounted /\ store' = Stored(Stored(store, l, v), k, v)
          /\ due' = With(With(due, l, v), k, v) /\ odd' = (odd \/ Odd(l) \/ Odd(k))
          /\ l \in Rule /\ k \in Rule
      BY <1>0, <2>3 DEF applyTransaction
    <3>2. DOMAIN store' = DOMAIN store /\ DOMAIN due' = DOMAIN due \cup {l, k}
      BY <3>1 DEF Stored, With
    <3>3. ~odd' => Placed(Stored(store, l, v), With(due, l, v))
      BY <1>1, <3>1, PlacedWritten DEF CompInv
    <3>4. ~odd' => Placed(store', due')
      BY <1>1, <3>1, <3>3, PlacedWritten
    <3>5. odd' \in BOOLEAN
      BY <3>1
    <3> QED
      BY <1>1, <3>1, <3>2, <3>4, <3>5
  <2> QED
    BY <2>1, <2>2, <2>3, <1>2 DEF CompositeNext
<1>3. ~odd' => Placed(store, due)'
  BY <1>2, PlacedLater
<1>4. MountTypes'
  BY <1>1, <1>2, SameMounts
<1> QED
  BY <1>1, <1>2, <1>3, <1>4 DEF CompInv, Unused

(* createCompositeBackend mounts a child.                                  *)
LEMMA CompInvMount ==
  ASSUME CompInv, phase = "backends", phase' = phase, NEW m \in Rule, m # <<>>, NEW p \in Rule, mountBackend(m, p)
  PROVE  CompInv'
<1>1. /\ DOMAIN mounted' = DOMAIN mounted \cup {m}
      /\ \A n \in DOMAIN mounted' : mounted'[n] = IF n = m THEN p ELSE mounted[n]
      /\ DOMAIN store' = DOMAIN store \cup {m}
      /\ \A n \in DOMAIN store' : store'[n] = IF n = m THEN NoTree ELSE store[n]
      /\ odd' = (odd \/ \E l \in DOMAIN store[Root] : LiesUnder(l, m))
      /\ due' = due
  BY DEF mountBackend
<1>2. MountTypes'
  BY <1>1 DEF CompInv, MountTypes
<1>3. /\ DOMAIN store' = {Root} \cup DOMAIN mounted' /\ DOMAIN due' \subseteq Rule
      /\ store[Root] = due /\ store'[Root] = due' /\ odd' \in BOOLEAN
  BY <1>1 DEF CompInv, Unused, Root
<1>4. \A n \in DOMAIN mounted' : store'[n] = NoTree
  BY <1>1 DEF CompInv, Unused
<1>5. ~odd' => \A l \in DOMAIN due', n \in DOMAIN mounted' : ~LiesUnder(l, n)
  BY <1>1, <1>3 DEF CompInv, Unused
<1>6. ~odd' => Placed(store, due)'
  <2>1. ~odd' => AtFirst'
    BY <1>2, <1>3, <1>4, <1>5 DEF AtFirst
  <2>2. AtFirst' => Placed(store, due)'
    BY PlacedAtFirst, PTL
  <2> QED
    BY <2>1, <2>2
<1> QED
  BY <1>2, <1>3, <1>4, <1>5, <1>6 DEF CompInv

(* A step that leaves the composite alone. *)
LEMMA CompInvSame ==
  ASSUME CompInv, UNCHANGED compVars, phase' \in Unused => phase \in Unused
  PROVE  CompInv'
<1>1. UNCHANGED <<mounted, store, due, odd>>
  BY DEF compVars
<1>2. ~odd' => Placed(store, due)'
  BY <1>1, PlacedLater DEF CompInv
<1>3. MountTypes'
  BY <1>1, SameMounts DEF CompInv
<1> QED
  BY <1>1, <1>2, <1>3 DEF CompInv

(* No step of the service breaks the invariant of the composite. *)
LEMMA CompInvStep == LifeInv /\ CompInv /\ [Next]_vars => CompInv'
<1> SUFFICES ASSUME LifeInv, CompInv, [Next]_vars PROVE CompInv'
  OBVIOUS
<1>1. CASE UNCHANGED vars
  BY <1>1, CompInvSame DEF vars, lifeVars
<1>2. CASE UseComposite
  <2>1. phase = "ready" /\ phase' = "ready" /\ CompositeNext
    BY <1>2 DEF UseComposite, lifeVars
  <2> QED
    BY <2>1, CompInvUse
<1>3. CASE MountChild
  <2> DEFINE c == Head(mounting)
  <2>1. /\ phase = "backends" /\ phase' = phase /\ mounting # <<>> /\ mounting \in Seq(Mounts)
        /\ mountBackend(c.path, c.prefix) \/ UNCHANGED compVars
    BY <1>3 DEF MountChild, LifeInv, OrderInv
  <2>2. c \in Mounts
    BY <2>1, HeadTailProperties
  <2>3. c.path \in Rule /\ c.path # <<>> /\ c.prefix \in Rule
    BY <2>2 DEF Mounts, Rule
  <2> QED
    BY <2>1, <2>3, CompInvMount, CompInvSame
<1>4. CASE Next /\ ~UseComposite /\ ~MountChild
  <2>1. UNCHANGED compVars /\ (phase' \in Unused => phase \in Unused)
    BY <1>4 DEF Next, Initialize, SortStep, SortEnds, BuildBackend, BackendsDone, BuildFrontend,
       InitializeEnds, Start, Stop, Destroy, ServerRound, UpdaterRound, DropUpdaters, DropConnections,
       DropFrontend, DropBackends, UseMediated, lifeVars, Unused
  <2> QED
    BY <2>1, CompInvSame
<1> QED
  BY <1>1, <1>2, <1>3, <1>4

(* What has its place is read from it.                                     *)
LEMMA PlacedIsRead == CompInv => WrittenIsRead
<1> SUFFICES ASSUME CompInv, ~odd PROVE WrittenIsRead
  BY DEF WrittenIsRead
<1>1. MountTypes /\ Placed(store, due)
  BY DEF CompInv
<1>2. \A l \in DOMAIN due : l \in Rule /\ ~Odd(l)
  BY <1>1 DEF Placed
<1>3. ASSUME NEW l \in DOMAIN due PROVE Readable(l) /\ getNode(l) = [label |-> l, value |-> due[l]]
  <2> DEFINE m == getRelevantBackend(l)
  <2>1. Key(l) \in DOMAIN store[m] /\ store[m][Key(l)] = due[l]
    BY <1>1, <1>3 DEF Placed
  <2>2. m = Root \/ m # l
    BY <1>1, <1>2, <1>3, CutAt DEF Odd
  <2>3. prefixLabels(CutOff(l, m), shortenLabels(PrefixOf(m), Key(l))) = l
    BY <1>1, <1>2, <1>3, WrittenUnderKey
  <2>4. Readable(l)
    BY <2>1, <2>2 DEF Readable, Key
  <2>5. getNode(l) = [label |-> l, value |-> due[l]]
    BY <2>1, <2>3 DEF getNode, Key
  <2> QED
    BY <2>4, <2>5
<1>4. ASSUME NEW l \in DOMAIN store[Root], NEW m \in DOMAIN mounted PROVE ~LiesUnder(l, m)
  <2>1. PICK k \in DOMAIN due : getRelevantBackend(k) = Root /\ Key(k) = l
    BY <1>1, <1>4 DEF Placed
  <2>2. k = l /\ ~Odd(l)
    BY <1>1, <1>2, <2>1, WrittenUnderKey
  <2> QED
    BY <1>1, <2>1, <2>2 DEF Odd, Hidden, MountTypes, Root
<1>5. getFullTree = DOMAIN due
  <2>1. ASSUME NEW l \in DOMAIN due PROVE l \in getFullTree
    <3> DEFINE m == getRelevantBackend(l)
    <3>1. Key(l) \in DOMAIN store[m] /\ l \in Rule /\ ~Odd(l)
      BY <1>1, <1>2, <2>1 DEF Placed
    <3>2. CASE m = Root
      BY <1>1, <3>1, <3>2, WrittenUnderKey DEF getFullTree
    <3>3. CASE m # Root
      <4>1. m \in DOMAIN mounted
        BY <1>1, <3>1, <3>3, CutAt
      <4>2. /\ shortenLabels(PrefixOf(m), Key(l)) = Seen(l) /\ IsPrefix(PrefixOf(m), Key(l))
            /\ prefixLabels(Append(m, Slash), Seen(l)) = l
        BY <1>1, <3>1, <3>3, WrittenUnderKey
      <4>3. Seen(l) \in RedirectedTree(m)
        BY <3>1, <4>2 DEF RedirectedTree
      <4> QED
        BY <4>1, <4>2, <4>3 DEF getFullTree
    <3> QED
      BY <3>2, <3>3
  <2>2. ASSUME NEW l \in getFullTree PROVE l \in DOMAIN due
    <3>1. CASE l \in DOMAIN store[Root]
      <4>1. PICK k \in DOMAIN due : getRelevantBackend(k) = Root /\ Key(k) = l
        BY <1>1, <3>1 DEF Placed
      <4> QED
        BY <1>1, <1>2, <4>1, WrittenUnderKey
    <3>2. CASE l \notin DOMAIN store[Root]
      <4>1. PICK m \in DOMAIN mounted : \E t \in RedirectedTree(m) : l = prefixLabels(Append(m, Slash), t)
        BY <2>2, <3>2 DEF getFullTree
      <4>2. PICK t \in RedirectedTree(m) : l = prefixLabels(Append(m, Slash), t)
        BY <4>1
      <4>3. PICK k \in DOMAIN store[m] : t = shortenLabels(PrefixOf(m), k)
        BY <4>2 DEF RedirectedTree
      <4>4. PICK x \in DOMAIN due : getRelevantBackend(x) = m /\ Key(x) = k
        BY <1>1, <4>3 DEF Placed
      <4>5. m # Root
        BY <1>1 DEF MountTypes, Root
      <4>6. t = Seen(x) /\ prefixLabels(Append(m, Slash), Seen(x)) = x
        BY <1>1, <1>2, <4>3, <4>4, <4>5, WrittenUnderKey
      <4> QED
        BY <4>2, <4>4, <4>6
    <3> QED
      BY <3>1, <3>2
  <2> QED
    BY <2>1, <2>2
<1> QED
  BY <1>3, <1>4, <1>5 DEF WrittenIsRead

(* CompositeBackend and RedirectedBackend, for every set of mounts,        *)
(* prefixes and labels: what was written is read back under its label,     *)
(* unless the mounts confuse labels.                                       *)
THEOREM CompositeKeepsLabels == Spec => []WrittenIsRead
<1>1. Init => LifeInv /\ CompInv
  BY LifeInvInit, CompInvInit
<1>2. LifeInv /\ CompInv /\ [Next]_vars => LifeInv' /\ CompInv'
  BY LifeInvStep, CompInvStep
<1> QED
  BY <1>1, <1>2, PlacedIsRead, PTL DEF Spec
================================================================================
