------------------------------- MODULE Mediator -------------------------------
(***************************************************************************)
(* CloningMediator and YAMLMediator: two backends that a pair of listeners *)
(* keeps alike, and the two flags by which a listener tells the echo of    *)
(* its own write from a change of the other side.                          *)
(*                                                                         *)
(* One node is followed.  Side B of a YAML mediator is the property that   *)
(* holds the document, and the document is the node it describes.          *)
(***************************************************************************)
EXTENDS Naturals, Sequences, SequencesExt

CONSTANTS MaxWrites, \* bound: changes made by users
          MaxEchoes, \* bound: notifications waiting on one side
          Nothing,   \* maybe<TreeNode>(): no node, or no node holding the document
          Empty,     \* a document without the node
          Broken     \* a text YAML::Load rejects

(* The nodes users write: the version, and a value that tells writes apart. *)
Nodes == [version : Nat, value : Nat]

ASSUME MediatorAssumption ==
  /\ {MaxWrites, MaxEchoes} \subseteq Nat
  /\ Nothing # Empty /\ Nothing # Broken /\ Empty # Broken
  /\ \A x \in {Nothing, Empty, Broken} : x \notin Nodes

Sides == {"A", "B"}
Other(s) == IF s = "A" THEN "B" ELSE "A"

VARIABLES
  link,     \* [flavor: "clone", "versioned", "yaml"; queued: threadsafe sides]
  side,     \* side[s]: what backend s holds
  pending,  \* pending[s]: notifications of s not yet given to the listener
  busy,     \* busy[s]: processingA_ / processingB_, set by the listener on s
  job,      \* job[s]: the listener on s at work: [at, note]
  muddled,  \* history: a change was ignored or a callback threw
  writes    \* changes made by users so far

medVars == <<link, side, pending, busy, job, muddled, writes>>

Idle == [at |-> "idle", note |-> Nothing]

(* A node that is gone becomes an empty document, and an empty document    *)
(* leaves no node.                                                         *)
updateYAMLFrom(x) == IF x = Nothing THEN Empty ELSE x
getNodeFromYAML(x) == IF x = Empty THEN Nothing ELSE x

(* The form the listener on s gives to a node on the other side.           *)
Image(s, x) == CASE link.flavor # "yaml" -> x
                 [] link.flavor = "yaml" /\ s = "A" -> updateYAMLFrom(x)
                 [] OTHER -> getNodeFromYAML(x)

MediatorInit(l) ==
  /\ link = l
  /\ side = [s \in Sides |-> IF l.flavor = "yaml" /\ s = "B" THEN Empty ELSE Nothing]
  /\ pending = [s \in Sides |-> <<>>]
  /\ busy = [s \in Sides |-> FALSE]
  /\ job = [s \in Sides |-> Idle]
  /\ muddled = FALSE
  /\ writes = 0

Quiet == \A s \in Sides : pending[s] = <<>> /\ job[s] = Idle

-------------------------------------------------------------------------------
(* Users.  Behind SimpleBackend the listeners run within the call, on the   *)
(* caller's thread; ThreadsafeBackend puts the notification on a stack.     *)
Put(s, x) ==
  /\ side' = [side EXCEPT ![s] = x]
  /\ pending' = [pending EXCEPT ![s] = Append(@, x)]

Change(s, x) ==
  /\ writes < MaxWrites
  /\ Len(pending[s]) < MaxEchoes
  /\ ~link.queued => Quiet
  /\ Put(s, x)
  /\ writes' = writes + 1
  /\ UNCHANGED <<link, busy, job, muddled>>

VersionOf(x) == IF x \in {Nothing, Empty, Broken} THEN 0 ELSE x.version

UserUpsert(s) == Change(s, [version |-> VersionOf(side[s]) + 1, value |-> writes])
UserDelete(s) == side[s] # Nothing /\ Change(s, Nothing)
UserBreaks == link.flavor = "yaml" /\ Change("B", Broken)

-------------------------------------------------------------------------------
(* isProcessing: the listener on the other side is at work.                *)
Ignores(s) == busy[Other(s)]

(* The sides hold different nodes.                                         *)
Apart == side["B"] # Image("A", side["A"])

(* processNotifications takes the newest notification first; a listener of *)
(* a SimpleBackend is called with the only one there is.                   *)
Begin(s) ==
  /\ pending[s] # <<>> /\ job[s] = Idle
  /\ pending' = [pending EXCEPT ![s] = Front(@)]
  /\ LET note == Last(pending[s]) IN
       \/ /\ Ignores(s)
          /\ muddled' = (muddled \/ (Apart /\ job[Other(s)] # Idle))
          /\ UNCHANGED <<busy, job>>
       \/ /\ ~Ignores(s)
          /\ busy' = [busy EXCEPT ![s] = TRUE]
          /\ job' = [job EXCEPT ![s] = [at |-> "read", note |-> note]]
          /\ UNCHANGED muddled
  /\ UNCHANGED <<link, side, writes>>

(* An exception leaves the flag set.                                       *)
Throws(s) == link.flavor = "yaml" /\ s = "B" /\ job[s].note \in {Nothing, Broken}

Newer(from, to) == VersionOf(from) >= VersionOf(to)

(* The node is compared with what the other side holds and written there.  *)
Wanted(s, from, to) ==
  /\ Image(s, from) # to
  /\ link.flavor = "versioned" /\ from # Nothing /\ to # Nothing => Newer(from, to)

Carry(s) ==
  LET to == side[Other(s)]
      from == job[s].note
  IN  /\ job[s].at = "read" /\ ~Throws(s)
      /\ job' = [job EXCEPT ![s].at = "reset"]
      /\ \/ /\ Wanted(s, from, to)
            /\ Put(Other(s), Image(s, from))
         \/ ~Wanted(s, from, to) /\ UNCHANGED <<side, pending>>
      /\ UNCHANGED <<link, busy, muddled, writes>>

Fail(s) ==
  /\ job[s].at = "read" /\ Throws(s)
  /\ job' = [job EXCEPT ![s] = Idle]
  /\ muddled' = TRUE
  /\ UNCHANGED <<link, side, pending, busy, writes>>

(* Mutant: the flag stays set.                                             *)
ResetForgotten(s) == busy[s]

ResetTo(s) == FALSE

(* setProcessing.store(false); the call into a SimpleBackend has returned  *)
(* only when its own listener has.                                         *)
Finish(s) ==
  /\ job[s].at = "reset"
  /\ ~link.queued => pending[Other(s)] = <<>> /\ job[Other(s)] = Idle
  /\ busy' = [busy EXCEPT ![s] = ResetTo(s)]
  /\ job' = [job EXCEPT ![s] = Idle]
  /\ UNCHANGED <<link, side, pending, muddled, writes>>

MediatorNext ==
  \/ \E s \in Sides : UserUpsert(s) \/ UserDelete(s) \/ Begin(s) \/ Carry(s) \/ Fail(s) \/ Finish(s)
  \/ UserBreaks

(* Once every notification has been heard the two backends hold the same   *)
(* node: mediatorCallback and the YAML callbacks neither lose a change nor *)
(* leave an old node behind when threadsafe backends give the newest       *)
(* notification first and each write echoes.  Excepted are a notification  *)
(* ignored while the other listener was at work on a different node, and   *)
(* an exception of the YAML callback, which leaves its flag set            *)
(* (yaml_mediator.cpp:235).                                                *)
SidesAgree == Quiet /\ ~muddled => ~Apart
===============================================================================
