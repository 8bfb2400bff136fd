--------------------------- MODULE ClientCallsProofs ---------------------------
(***************************************************************************)
(* Proofs about ClientCalls, for any users making any calls any number of  *)
(* times.                                                                  *)
(*                                                                         *)
(* Neither invariant is inductive.  That a call which is alone gets its    *)
(* own answer rests on what is out and on who waits from the moment its    *)
(* request was queued, and on the answer being stored before it is         *)
(* signalled; that the updater waits only after a crossing rests on what   *)
(* every thread inside a window of a fetch, or on its way back to one,     *)
(* knows of the server sync.                                               *)
(***************************************************************************)
EXTENDS ClientCalls, TLAPS

Requests == [by : Threads, n : Nat, slot : Slots \cup {"journal", "sync"}]

Places == {"idle", "reread", "marked", "queued", "waiting", "woken", "flush", "outwait",
           "lastwait", "applying", "off", "loop", "signal", "applied", "complete"}

Types ==
  /\ pending \in Seq(Requests) /\ flying \subseteq Requests /\ answered \subseteq Requests
  /\ job \in Requests
  /\ slot \in [Slots -> Requests]
  /\ own \in [Threads -> [by : Threads, n : Nat, slot : Slots]]
  /\ pc \in [Threads -> Places] /\ call \in [Threads -> CallKinds \cup {"none"}]
  /\ todo \in [Threads -> Nat] /\ alone \in [Threads -> BOOLEAN]

(* A thread in awaitResponse, or about to enter or to leave it. *)
Awaiting == {"queued", "waiting", "woken"}

(* Thread t can find the answer, or the signal that ends its wait follows. *)
AnswerStored(t) ==
  \/ pc[t] = "waiting" /\ responseReady
  \/ pc[t] = "woken"
  \/ pc[Updater] = "signal"

(* What a call that is alone may rely on. *)
Undisturbed(t) ==
  /\ \A y \in Threads \ {t} : pc[y] \notin Awaiting
  /\ \A q \in Outstanding : Signalling(q) => q = own[t]
  /\ pc[t] \notin Awaiting \/ call[t] = "apply" => own[t].slot = "boolResponse"
  /\ AnswerStored(t) => slot[own[t].slot] = own[t]

AloneInv ==
  /\ \A t \in Threads : alone[t] => Undisturbed(t)
  /\ pc[Updater] = "signal" => Signalling(job)

(* A thread that writes in a window, or waits for such a write. *)
CrossInv ==
  /\ own[Updater].n > 0 => crossed
  /\ \A t \in Threads :
        /\ pc[t] = "off" /\ serverSyncOn => crossed
        /\ pc[t] \in Awaiting /\ own[t].slot = "boolResponse" /\ call[t] \in Fetches \cup {"none"}
              => crossed
        /\ pc[t] = "reread" => call[t] = "apply"
        /\ pc[t] = "marked" => call[t] # "apply"

Inv == Types /\ AloneInv /\ CrossInv

--------------------------------------------------------------------------------
LEMMA Constants ==
  /\ Updater \in Threads /\ Updater \notin Users /\ Users \subseteq Threads
  /\ NoRequest \in Requests /\ Journal \in Requests /\ Sync \in Requests
  /\ ~Signalling(NoRequest) /\ ~Signalling(Journal) /\ ~Signalling(Sync)
  /\ NoRequest.slot \in Slots /\ NoRequest.n = 0
BY CallsAssumption DEF Threads, Requests, NoRequest, Journal, Sync, Signalling, Slots

LEMMA Appended ==
  ASSUME NEW S, NEW q \in Seq(S), NEW r \in S
  PROVE  Append(q, r) \in Seq(S) /\ Range(Append(q, r)) \subseteq Range(q) \cup {r}
BY DEF Range

LEMMA Removed ==
  ASSUME NEW S, NEW q \in Seq(S), q # <<>>
  PROVE  /\ Head(q) \in S /\ Head(q) \in Range(q)
         /\ Tail(q) \in Seq(S) /\ Range(Tail(q)) \subseteq Range(q)
BY DEF Range

--------------------------------------------------------------------------------
(* Types *)

LEMMA PushType ==
  ASSUME Types, NEW t \in Threads, NEW s \in Slots, Push(t, s)
  PROVE  /\ pending' \in Seq(Requests) /\ flying' = flying /\ answered' = answered
         /\ own' \in [Threads -> [by : Threads, n : Nat, slot : Slots]]
         /\ alone' \in [Threads -> BOOLEAN]
<1> DEFINE r == [by |-> t, n |-> own[t].n + 1, slot |-> s]
<1>1. r \in [by : Threads, n : Nat, slot : Slots] /\ r \in Requests
  BY DEF Types, Requests
<1>2. pending' = Append(pending, r) /\ own' = [own EXCEPT ![t] = r]
  BY DEF Push
<1>3. alone' \in [Threads -> BOOLEAN]
  BY DEF Push
<1> HIDE DEF r
<1> QED BY <1>1, <1>2, <1>3, Appended DEF Push, Types

Calls == CallKinds \cup {"none"}

--------------------------------------------------------------------------------
(* The kinds of steps *)

\* A thread outside awaitResponse goes on without queueing a request.
LEMMA MoveStep ==
  ASSUME Inv, NEW t \in Threads, NEW w \in Places \ (Awaiting \cup {"signal"}), NEW k \in Calls,
         pc[t] \notin Awaiting,
         pc' = [pc EXCEPT ![t] = w], call' = [call EXCEPT ![t] = k],
         w = "reread" => k = "apply", w = "marked" => k # "apply",
         todo' \in [Threads -> Nat],
         UNCHANGED <<pending, flying, answered, job, slot, own, responseReady>>,
         alone' \in [Threads -> BOOLEAN], \A x \in Threads : alone'[x] => alone[x],
         crossed => crossed', w = "off" /\ serverSyncOn' => crossed',
         serverSyncOn' => serverSyncOn \/ \A x \in Threads \ {t} : pc[x] = "off" => crossed'
  PROVE  Inv'
<1>1. Types'
  BY DEF Inv, Types, Calls
<1>2. pc'[t] = w /\ call'[t] = k /\ \A x \in Threads \ {t} : pc'[x] = pc[x] /\ call'[x] = call[x]
  BY DEF Inv, Types
<1>3. pc'[Updater] = "signal" => pc[Updater] = "signal"
  BY <1>2, Constants
<1>4. Outstanding' = Outstanding
  BY DEF Outstanding
<1>5. ASSUME NEW x \in Threads, alone'[x] PROVE Undisturbed(x)'
  <2>1. Undisturbed(x)
    BY <1>5 DEF Inv, AloneInv
  <2>2. \A y \in Threads \ {x} : pc'[y] \notin Awaiting
    BY <1>2, <2>1 DEF Undisturbed
  <2>3. AnswerStored(x)' => AnswerStored(x)
    BY <1>2, <1>3 DEF AnswerStored, Awaiting
  <2>4. pc'[x] \notin Awaiting \/ call'[x] = "apply" => own[x].slot = "boolResponse"
    BY <1>2, <2>1 DEF Undisturbed
  <2> QED BY <1>4, <2>1, <2>2, <2>3, <2>4 DEF Undisturbed, Signalling
<1>6. AloneInv'
  BY <1>3, <1>5 DEF Inv, AloneInv, Signalling
<1>7. CrossInv'
  <2>1. own'[Updater].n > 0 => crossed'
    BY DEF Inv, CrossInv
  <2>2. ASSUME NEW x \in Threads
        PROVE  /\ pc'[x] = "off" /\ serverSyncOn' => crossed'
               /\ pc'[x] \in Awaiting /\ own'[x].slot = "boolResponse"
                     /\ call'[x] \in Fetches \cup {"none"} => crossed'
               /\ pc'[x] = "reread" => call'[x] = "apply"
               /\ pc'[x] = "marked" => call'[x] # "apply"
    <3>1. CASE x = t
      BY <1>2, <3>1
    <3>2. CASE x # t
      BY <1>2, <3>2 DEF Inv, CrossInv
    <3> QED BY <3>1, <3>2
  <2> QED BY <2>1, <2>2 DEF CrossInv
<1> QED BY <1>1, <1>6, <1>7 DEF Inv

\* A thread queues a request.
LEMMA PushStep ==
  ASSUME Inv, NEW t \in Threads, NEW s \in Slots, Push(t, s),
         NEW w \in {"queued", "reread", "idle"}, NEW k \in Calls,
         pc' = [pc EXCEPT ![t] = w], call' = [call EXCEPT ![t] = k],
         s # "boolResponse" => w = "queued" /\ k # "apply", w = "reread" => k = "apply",
         todo' \in [Threads -> Nat],
         UNCHANGED <<job, slot, responseReady, serverSyncOn, crossed>>,
         t = Updater => crossed,
         w = "queued" /\ s = "boolResponse" /\ k \in Fetches \cup {"none"} => crossed
  PROVE  Inv'
<1> DEFINE r == [by |-> t, n |-> own[t].n + 1, slot |-> s]
<1>1. Types'
  BY PushType DEF Inv, Types, Calls, Places
<1>2. pc'[t] = w /\ call'[t] = k /\ \A x \in Threads \ {t} : pc'[x] = pc[x] /\ call'[x] = call[x]
  BY DEF Inv, Types
<1>3. /\ own'[t] = r /\ \A x \in Threads \ {t} : own'[x] = own[x]
  BY DEF Push, Inv, Types
<1>4. \A q \in Outstanding' : q \in Outstanding \/ q = r
  <2>1. r \in Requests
    BY DEF Inv, Types, Requests
  <2>2. pending' = Append(pending, r) /\ flying' = flying /\ answered' = answered
    BY DEF Push
  <2> HIDE DEF r
  <2> QED BY <2>1, <2>2, Appended DEF Outstanding, Inv, Types
<1>5. ASSUME NEW x \in Threads, alone'[x]
      PROVE  /\ x = t /\ \A q \in Outstanding : ~Signalling(q)
             /\ \A y \in Threads \ {t} : pc[y] \notin {"reread", "queued", "waiting", "woken"}
  BY <1>5 DEF Push
<1>6. pc'[Updater] = "signal" => pc[Updater] = "signal"
  BY <1>2, Constants
<1>7. AloneInv'
  <2>1. ASSUME NEW x \in Threads, alone'[x] PROVE Undisturbed(x)'
    <3>1. x = t
      BY <1>5, <2>1
    <3>2. \A y \in Threads \ {x} : pc'[y] \notin Awaiting
      BY <1>2, <1>5, <2>1 DEF Awaiting
    <3>3. \A q \in Outstanding' : Signalling(q)' => q = own'[x]
      BY <1>3, <1>4, <1>5, <2>1, <3>1 DEF Signalling
    <3>4. own'[x].slot = s
      BY <1>3, <3>1
    <3>5. ~AnswerStored(x)'
      <4>1. pc'[x] \notin {"waiting", "woken"}
        BY <1>2, <3>1
      <4>2. pc[Updater] # "signal"
        BY <1>5, <2>1 DEF Inv, AloneInv, Outstanding
      <4> QED BY <1>6, <4>1, <4>2 DEF AnswerStored
    <3>6. pc'[x] \notin Awaiting \/ call'[x] = "apply" => own'[x].slot = "boolResponse"
      BY <1>2, <3>1, <3>4 DEF Awaiting
    <3> QED BY <3>2, <3>3, <3>5, <3>6 DEF Undisturbed
  <2> QED BY <1>6, <2>1 DEF Inv, AloneInv, Signalling
<1>8. CrossInv'
  <2>1. own'[Updater].n > 0 => crossed'
    BY <1>3, Constants DEF Inv, CrossInv
  <2>2. ASSUME NEW x \in Threads
        PROVE  /\ pc'[x] = "off" /\ serverSyncOn' => crossed'
               /\ pc'[x] \in Awaiting /\ own'[x].slot = "boolResponse"
                     /\ call'[x] \in Fetches \cup {"none"} => crossed'
               /\ pc'[x] = "reread" => call'[x] = "apply"
               /\ pc'[x] = "marked" => call'[x] # "apply"
    <3>1. CASE x = t
      BY <1>2, <1>3, <3>1 DEF Awaiting
    <3>2. CASE x # t
      BY <1>2, <1>3, <3>2 DEF Inv, CrossInv
    <3> QED BY <3>1, <3>2
  <2> QED BY <2>1, <2>2 DEF CrossInv
<1> QED BY <1>1, <1>7, <1>8 DEF Inv

\* Requests and answers travel; no thread goes on.
LEMMA WireStep ==
  ASSUME Inv,
         pending' \in Seq(Requests), flying' \subseteq Requests, answered' \subseteq Requests,
         job' = job,
         Outstanding' \subseteq Outstanding \cup {Journal, Sync},
         UNCHANGED <<waits, syncs, pc, call, todo, own, alone>>
  PROVE  Inv'
<1>1. Types'
  BY DEF Inv, Types, waits
<1>2. ASSUME NEW x \in Threads, alone'[x] PROVE Undisturbed(x)'
  <2>1. Undisturbed(x) /\ (AnswerStored(x)' => AnswerStored(x))
    BY <1>2 DEF Inv, AloneInv, AnswerStored, waits
  <2>2. \A q \in Outstanding' : Signalling(q)' => q = own'[x]
    BY <2>1, Constants DEF Undisturbed, Signalling
  <2> QED BY <2>1, <2>2 DEF Undisturbed, waits
<1>3. AloneInv' /\ CrossInv'
  BY <1>2 DEF Inv, AloneInv, CrossInv, Signalling, syncs
<1> QED BY <1>1, <1>3 DEF Inv

\* A thread enters awaitResponse, or goes on in it.
LEMMA WaitStep ==
  ASSUME Inv, NEW t \in Threads, NEW w \in Awaiting,
         pc[t] \in Awaiting \cup {"reread"}, pc' = [pc EXCEPT ![t] = w], call' = call,
         w = "woken" => pc[t] = "woken" \/ (pc[t] = "waiting" /\ responseReady),
         w = "waiting" /\ responseReady' => pc[t] = "waiting" /\ responseReady,
         responseReady' => responseReady,
         alone' \in [Threads -> BOOLEAN], \A x \in Threads : alone'[x] => alone[x],
         pc[t] = "reread" => \A x \in Threads \ {t} : ~alone'[x],
         UNCHANGED <<pending, flying, answered, slot, job, syncs, todo, own>>
  PROVE  Inv'
<1>1. Types'
  BY DEF Inv, Types, Awaiting, Places
<1>2. pc'[t] = w /\ \A x \in Threads \ {t} : pc'[x] = pc[x]
  BY DEF Inv, Types
<1>3. pc'[Updater] = "signal" => pc[Updater] = "signal"
  BY <1>2, Constants DEF Awaiting
<1>4. Outstanding' = Outstanding
  BY DEF Outstanding
<1>5. ASSUME NEW x \in Threads, alone'[x] PROVE Undisturbed(x)'
  <2>1. Undisturbed(x) /\ x = t
    BY <1>5 DEF Inv, AloneInv, Undisturbed
  <2>2. \A y \in Threads \ {x} : pc'[y] \notin Awaiting
    BY <1>2, <2>1 DEF Undisturbed
  <2>3. AnswerStored(x)' => AnswerStored(x)
    BY <1>2, <1>3, <2>1 DEF AnswerStored
  <2>4. pc'[x] \notin Awaiting \/ call'[x] = "apply" => own[x].slot = "boolResponse"
    BY <1>2, <2>1 DEF Undisturbed
  <2> QED BY <1>4, <2>1, <2>2, <2>3, <2>4 DEF Undisturbed, Signalling
<1>6. AloneInv'
  BY <1>3, <1>5 DEF Inv, AloneInv, Signalling
<1>7. CrossInv'
  <2>1. own'[Updater].n > 0 => crossed'
    BY DEF Inv, CrossInv, syncs
  <2>2. ASSUME NEW x \in Threads
        PROVE  /\ pc'[x] = "off" /\ serverSyncOn' => crossed'
               /\ pc'[x] \in Awaiting /\ own'[x].slot = "boolResponse"
                     /\ call'[x] \in Fetches \cup {"none"} => crossed'
               /\ pc'[x] = "reread" => call'[x] = "apply"
               /\ pc'[x] = "marked" => call'[x] # "apply"
    <3>1. CASE x = t
      <4>1. pc'[x] \notin {"off", "reread", "marked"}
        BY <1>2, <3>1 DEF Awaiting
      <4>2. "apply" \notin Fetches \cup {"none"}
        BY DEF Fetches
      <4>3. pc[x] = "reread" => call[x] = "apply"
        BY DEF Inv, CrossInv
      <4> QED BY <3>1, <4>1, <4>2, <4>3 DEF Inv, CrossInv, syncs
    <3>2. CASE x # t
      BY <1>2, <3>2 DEF Inv, CrossInv, syncs
    <3> QED BY <3>1, <3>2
  <2> QED BY <2>1, <2>2 DEF CrossInv
<1> QED BY <1>1, <1>6, <1>7 DEF Inv

\* The thread reads its answer; it was alone or nobody is.
LEMMA TakeStep ==
  ASSUME Inv, NEW t \in Threads, Take(t)
  PROVE  Inv'
<1> DEFINE s == Awaited(t)
           w == CASE s = "none" -> "flush"
                  [] s = "boolResponse" /\ call[t] \in Fetches \cup {"none"} -> "off"
                  [] s \notin {"none", "boolResponse"} /\ call[t] \in Fetches -> "applying"
                  [] OTHER -> "idle"
           k == IF w = "idle" THEN "none" ELSE call[t]
<1>1. /\ pc[t] = "woken" /\ pc' = [pc EXCEPT ![t] = w] /\ call' = [call EXCEPT ![t] = k]
      /\ slot' = [slot EXCEPT ![s] = NoRequest] /\ alone' = [alone EXCEPT ![t] = FALSE]
      /\ UNCHANGED <<pending, flying, answered, responseReady, job, todo, own, serverSyncOn, crossed>>
  BY DEF Take, Go, wire, syncs
<1>2. w \in {"flush", "off", "applying", "idle"}
  OBVIOUS
<1>3. w = "off" => crossed
  <2> SUFFICES ASSUME w = "off" PROVE crossed
    OBVIOUS
  <2>1. s = "boolResponse" /\ call[t] \in Fetches \cup {"none"}
    OBVIOUS
  <2>2. own[t].slot = "boolResponse"
    BY <2>1 DEF Awaited, Fetches
  <2> QED BY <1>1, <2>1, <2>2 DEF Inv, CrossInv, Awaiting
<1>4. k \in Calls
  BY DEF Inv, Types, Calls
<1> HIDE DEF s, w, k
<1>5. Types'
  BY <1>1, <1>2, <1>4, Constants DEF Inv, Types, Calls, Places
<1>6. pc'[t] = w /\ call'[t] = k /\ \A x \in Threads \ {t} : pc'[x] = pc[x] /\ call'[x] = call[x]
  BY <1>1 DEF Inv, Types
<1>7. \A x \in Threads : ~alone'[x]
  <2> SUFFICES ASSUME NEW x \in Threads, alone'[x] PROVE FALSE
    OBVIOUS
  <2>1. x # t /\ alone[x]
    BY <1>1 DEF Inv, Types
  <2> QED BY <1>1, <2>1 DEF Inv, AloneInv, Undisturbed, Awaiting
<1>8. pc'[Updater] = "signal" => pc[Updater] = "signal"
  BY <1>2, <1>6, Constants
<1>9. AloneInv'
  BY <1>1, <1>7, <1>8 DEF Inv, AloneInv, Signalling
<1>10. CrossInv'
  <2>1. own'[Updater].n > 0 => crossed'
    BY <1>1 DEF Inv, CrossInv
  <2>2. ASSUME NEW x \in Threads
        PROVE  /\ pc'[x] = "off" /\ serverSyncOn' => crossed'
               /\ pc'[x] \in Awaiting /\ own'[x].slot = "boolResponse"
                     /\ call'[x] \in Fetches \cup {"none"} => crossed'
               /\ pc'[x] = "reread" => call'[x] = "apply"
               /\ pc'[x] = "marked" => call'[x] # "apply"
    <3>1. CASE x = t
      BY <1>1, <1>2, <1>3, <1>6, <3>1 DEF Awaiting
    <3>2. CASE x # t
      BY <1>1, <1>6, <3>2 DEF Inv, CrossInv
    <3> QED BY <3>1, <3>2
  <2> QED BY <2>1, <2>2 DEF CrossInv
<1> QED BY <1>5, <1>9, <1>10 DEF Inv

\* The updater goes on with the answers; only the last of these steps ends waits.
LEMMA UpdaterStep ==
  ASSUME Inv, NEW w \in {"loop", "signal", "applied", "applying", "complete"},
         pc[Updater] \notin Awaiting, pc' = [pc EXCEPT ![Updater] = w], call' = call,
         pending' \in Seq(Requests), flying' \subseteq Requests, answered' \subseteq Requests,
         job' \in Requests, Outstanding' \subseteq Outstanding \cup {Journal, Sync, NoRequest},
         w = "signal" => Signalling(job') /\ job' \in Outstanding,
         \/ slot' = slot /\ w # "signal"
         \/ w = "signal" /\ slot' = [slot EXCEPT ![job'.slot] = job'],
         responseReady' => responseReady \/ pc[Updater] = "signal",
         todo' \in [Threads -> Nat],
         UNCHANGED <<syncs, own, alone>>
  PROVE  Inv'
<1>1. slot' \in [Slots -> Requests]
  BY DEF Inv, Types, Signalling
<1>2. Types'
  BY <1>1, Constants DEF Inv, Types, Places
<1>3. pc'[Updater] = w /\ \A x \in Threads \ {Updater} : pc'[x] = pc[x]
  BY Constants DEF Inv, Types
<1>4. w \notin Awaiting
  BY DEF Awaiting
<1>5. ASSUME NEW x \in Threads, alone'[x] PROVE Undisturbed(x)'
  <2>1. Undisturbed(x) /\ own'[x] = own[x]
    BY <1>5 DEF Inv, AloneInv
  <2>2. \A y \in Threads \ {x} : pc'[y] \notin Awaiting
    BY <1>3, <1>4, <2>1 DEF Undisturbed
  <2>3. \A q \in Outstanding' : Signalling(q)' => q = own'[x]
    BY <2>1, Constants DEF Undisturbed, Signalling
  <2>4. pc'[x] \notin Awaiting \/ call'[x] = "apply" => own'[x].slot = "boolResponse"
    BY <1>3, <2>1 DEF Undisturbed
  <2>5. CASE w = "signal"
    <3>1. job' = own[x]
      BY <2>1, <2>5 DEF Undisturbed
    <3>2. slot'[own[x].slot] = own[x]
      BY <2>5, <3>1 DEF Inv, Types
    <3> QED BY <2>1, <2>2, <2>3, <2>4, <3>2 DEF Undisturbed
  <2>6. CASE w # "signal"
    <3>1. AnswerStored(x)' => AnswerStored(x)
      BY <1>3, <2>6, Constants, <1>4 DEF AnswerStored, Awaiting
    <3> QED BY <2>1, <2>2, <2>3, <2>4, <2>6, <3>1 DEF Undisturbed
  <2> QED BY <2>5, <2>6
<1>6. AloneInv'
  BY <1>3, <1>5 DEF AloneInv, Signalling
<1>7. CrossInv'
  <2>1. \A x \in Threads : pc'[x] = pc[x] \/ pc'[x] \notin Awaiting \cup {"off", "reread", "marked"}
    BY <1>3, <1>4
  <2> QED BY <2>1 DEF Inv, CrossInv, syncs
<1> QED BY <1>2, <1>6, <1>7 DEF Inv

--------------------------------------------------------------------------------
(* The invariant *)

LEMMA InvInit == Init => Inv
<1> SUFFICES ASSUME Init PROVE Inv
  OBVIOUS
<1>1. \A t \in Threads : [NoRequest EXCEPT !.by = t] \in [by : Threads, n : Nat, slot : Slots]
  BY Constants DEF NoRequest, Slots
<1>2. Types
  <2>1. \A t \in Threads : (IF t = Updater THEN "loop" ELSE "idle") \in Places
    BY DEF Places
  <2>2. pending \in Seq(Requests)
    BY DEF Init
  <2> QED BY <1>1, <2>1, <2>2, Constants DEF Init, Types
<1>3. pc[Updater] = "loop" /\ own[Updater].n = 0
  BY Constants DEF Init, NoRequest
<1>4. \A t \in Threads : ~alone[t] /\ pc[t] \in {"loop", "idle"}
  BY DEF Init
<1>5. AloneInv
  BY <1>3, <1>4 DEF AloneInv
<1>6. CrossInv
  BY <1>3, <1>4 DEF CrossInv, Awaiting
<1> QED BY <1>2, <1>5, <1>6 DEF Inv

LEMMA StartStep ==
  ASSUME Inv, NEW u \in Users, Start(u)
  PROVE  Inv'
<1>1. u \in Threads /\ u # Updater /\ pc[u] = "idle" /\ todo \in [Threads -> Nat]
  BY Constants DEF Start, Inv, Types
<1>2. UNCHANGED <<slot, job, responseReady, serverSyncOn, crossed>>
  BY DEF Start, waits, syncs
<1>3. pc[u] \notin Awaiting /\ "boolResponse" \in Slots /\ Fetches \cup {"none"} \subseteq Calls
  BY <1>1 DEF Awaiting, Slots, Calls, CallKinds
<1>4. ASSUME NoPush PROVE /\ UNCHANGED <<pending, flying, answered, own>> /\ alone' = alone
                          /\ alone' \in [Threads -> BOOLEAN]
  BY <1>4 DEF NoPush, wire, Inv, Types
<1>5. {"upsert", "apply", "process", "none"} \subseteq Calls
      /\ {"idle", "reread", "marked"} \subseteq Places \ (Awaiting \cup {"signal"})
      /\ {"upsert", "apply", "process"} \cap (Fetches \cup {"none"}) = {}
  BY DEF Calls, CallKinds, Places, Awaiting, Fetches
<1>6. CASE Upsert(u)
  <2>1. CASE serverSyncOn
    <3>1. Push(u, "boolResponse") /\ pc' = [pc EXCEPT ![u] = "queued"]
          /\ call' = [call EXCEPT ![u] = "upsert"] /\ todo' = todo
      BY <1>6, <2>1 DEF Upsert, Begin
    <3> QED BY <1>1, <1>2, <1>3, <1>5, <3>1, PushStep
  <2>2. CASE ~serverSyncOn
    <3>1. NoPush /\ pc' = [pc EXCEPT ![u] = "idle"] /\ call' = [call EXCEPT ![u] = "none"]
          /\ todo' = todo
      BY <1>6, <2>2 DEF Upsert, Begin
    <3> QED BY <1>1, <1>2, <1>3, <1>4, <1>5, <2>2, <3>1, MoveStep
  <2> QED BY <2>1, <2>2
<1>7. CASE Apply(u)
  <2>1. pc' = [pc EXCEPT ![u] = "reread"] /\ call' = [call EXCEPT ![u] = "apply"] /\ todo' = todo
    BY <1>7 DEF Apply, Begin
  <2>2. CASE serverSyncOn
    <3>1. Push(u, "boolResponse")
      BY <1>7, <2>2 DEF Apply
    <3> QED BY <1>1, <1>2, <1>3, <1>5, <2>1, <3>1, PushStep
  <2>3. CASE ~serverSyncOn
    <3>1. NoPush
      BY <1>7, <2>3 DEF Apply
    <3> QED BY <1>1, <1>2, <1>3, <1>4, <1>5, <2>1, <2>3, <3>1, MoveStep
  <2> QED BY <2>2, <2>3
<1>8. CASE Listen(u)
  <2>1. call[u] \in Calls /\ call' = [call EXCEPT ![u] = call[u]] /\ pc' = [pc EXCEPT ![u] = "idle"]
    BY <1>1, <1>8 DEF Listen, Inv, Types, Calls
  <2>2. Push(u, "boolResponse") /\ todo' = todo
    BY <1>8 DEF Listen
  <2> QED BY <1>1, <1>2, <1>3, <2>1, <2>2, PushStep
<1>9. CASE ProcessNotifications(u)
  <2>1. NoPush /\ pc' = [pc EXCEPT ![u] = "marked"] /\ call' = [call EXCEPT ![u] = "process"]
        /\ todo' = todo
    BY <1>9 DEF ProcessNotifications, Begin
  <2> QED BY <1>1, <1>2, <1>3, <1>4, <1>5, <2>1, MoveStep
<1>10. ASSUME NEW k \in Fetches, Fetch(u, k) PROVE Inv'
  <2>1. /\ Push(u, FetchSlot(k)) /\ pc' = [pc EXCEPT ![u] = "queued"] /\ call' = [call EXCEPT ![u] = k]
        /\ todo' = [todo EXCEPT ![u] = FetchWrites(k)]
    BY <1>10 DEF Fetch, Begin
  <2>2. FetchSlot(k) \in Slots /\ FetchSlot(k) # "boolResponse"
    BY DEF FetchSlot, Slots
  <2>3. FetchWrites(k) \in Nat /\ k \in Calls /\ k # "apply"
    BY DEF FetchWrites, Fetches, Calls, CallKinds
  <2>4. todo' \in [Threads -> Nat]
    BY <1>1, <2>1, <2>3
  <2> QED BY <1>1, <1>2, <2>1, <2>2, <2>3, <2>4, PushStep
<1> QED BY <1>6, <1>7, <1>8, <1>9, <1>10 DEF Start

\* The steps of any thread inside a call.
LEMMA InCallStep ==
  ASSUME Inv, NEW t \in Threads, InCall(t) \/ WakeSpuriously(t)
  PROVE  Inv'
<1>1. /\ todo \in [Threads -> Nat] /\ alone \in [Threads -> BOOLEAN] /\ call \in [Threads -> Calls]
      /\ pc \in [Threads -> Places] /\ call[t] \in Calls
  BY DEF Inv, Types, Calls
<1>2. ASSUME NEW w, w # "idle", Go(t, w)
      PROVE  /\ pc' = [pc EXCEPT ![t] = w] /\ call' = call
             /\ call' = [call EXCEPT ![t] = call[t]]
  BY <1>1, <1>2 DEF Go
<1>3. CASE AwaitResponse(t)
  <2>1. /\ pc[t] = "queued" /\ ~responseReady' /\ Go(t, "waiting")
        /\ UNCHANGED <<pending, flying, answered, slot, job, syncs, todo, own, alone>>
    BY <1>3 DEF AwaitResponse, wire
  <2>2. "waiting" \in Awaiting /\ pc[t] \in Awaiting
    BY <2>1 DEF Awaiting
  <2> QED BY <1>1, <1>2, <2>1, <2>2, WaitStep
<1>4. CASE Wake(t) \/ WakeSpuriously(t)
  <2> DEFINE w == IF responseReady THEN "woken" ELSE "waiting"
  <2>1. /\ pc[t] = "waiting" /\ responseReady' = responseReady /\ Go(t, w)
        /\ UNCHANGED <<pending, flying, answered, slot, job, syncs, todo, own, alone>>
    BY <1>4 DEF Wake, WakeSpuriously, wire, waits
  <2>2. w \in Awaiting /\ w # "idle" /\ pc[t] \in Awaiting
    BY <2>1 DEF Awaiting
  <2>3. w = "woken" => responseReady
    OBVIOUS
  <2> HIDE DEF w
  <2>4. pc' = [pc EXCEPT ![t] = w] /\ call' = call
    BY <1>2, <2>1, <2>2
  <2> QED BY <1>1, <2>1, <2>2, <2>3, <2>4, WaitStep
<1>5. CASE DisableServerSync(t)
  <2>1. /\ pc[t] = "applying" /\ ~serverSyncOn' /\ Go(t, "off") /\ crossed' = crossed
        /\ UNCHANGED <<pending, flying, answered, slot, job, responseReady, todo, own, alone>>
    BY <1>5 DEF DisableServerSync, wire, waits
  <2>2. "off" \in Places \ (Awaiting \cup {"signal"}) /\ pc[t] \notin Awaiting
    BY <2>1 DEF Places, Awaiting
  <2> QED BY <1>1, <1>2, <2>1, <2>2, MoveStep
<1>6. CASE WriteInWindow(t)
  <2>1. /\ pc[t] = "off" /\ todo[t] > 0 /\ todo' = [todo EXCEPT ![t] = @ - 1]
        /\ UNCHANGED <<slot, job, responseReady, serverSyncOn, crossed>>
    BY <1>6 DEF WriteInWindow, waits, syncs
  <2>2. todo' \in [Threads -> Nat]
    BY <1>1, <2>1
  <2>3. CASE serverSyncOn
    <3>1. Push(t, "boolResponse") /\ Go(t, "queued") /\ crossed /\ "boolResponse" \in Slots
      BY <1>6, <2>1, <2>3 DEF WriteInWindow, Inv, CrossInv, Slots
    <3> QED BY <1>1, <1>2, <2>1, <2>2, <3>1, PushStep
  <2>4. CASE ~serverSyncOn
    <3>1. /\ Go(t, "off") /\ alone' = alone
          /\ UNCHANGED <<pending, flying, answered, own>>
      BY <1>6, <2>4 DEF WriteInWindow, NoPush, wire
    <3>2. "off" \in Places \ (Awaiting \cup {"signal"}) /\ pc[t] \notin Awaiting
      BY <2>1 DEF Places, Awaiting
    <3> QED BY <1>1, <1>2, <2>1, <2>2, <2>4, <3>1, <3>2, MoveStep
  <2> QED BY <2>3, <2>4
<1>7. CASE EnableServerSync(t)
  <2> DEFINE w == IF t = Updater THEN "applied" ELSE "idle"
             k == IF w = "idle" THEN "none" ELSE call[t]
  <2>1. /\ pc[t] = "off" /\ pc' = [pc EXCEPT ![t] = w] /\ call' = [call EXCEPT ![t] = k]
        /\ crossed' = (crossed \/ \E x \in Threads \ {t} : pc[x] = "off")
        /\ UNCHANGED <<pending, flying, answered, slot, job, responseReady, todo, own, alone>>
    BY <1>7 DEF EnableServerSync, Go, wire, waits
  <2>2. w \in Places \ (Awaiting \cup {"signal"}) /\ w \notin {"off", "reread", "marked"} /\ pc[t] \notin Awaiting
    BY <2>1 DEF Places, Awaiting
  <2>3. k \in Calls
    BY <1>1 DEF Calls
  <2> HIDE DEF w, k
  <2>4. (crossed => crossed') /\ \A x \in Threads \ {t} : pc[x] = "off" => crossed'
    BY <2>1
  <2> QED BY <1>1, <2>1, <2>2, <2>3, <2>4, MoveStep
<1> QED BY <1>3, <1>4, <1>5, <1>6, <1>7, TakeStep DEF InCall

\* The steps that only users take.
LEMMA UserStepKeeps ==
  ASSUME Inv, NEW u \in Users, UserStep(u)
  PROVE  Inv'
<1>1. /\ u \in Threads /\ u # Updater
      /\ todo \in [Threads -> Nat] /\ alone \in [Threads -> BOOLEAN] /\ call \in [Threads -> Calls]
      /\ pc \in [Threads -> Places] /\ call[u] \in Calls /\ "none" \in Calls
  BY Constants DEF Inv, Types, Calls
<1>2. ASSUME NEW w, w # "idle", Go(u, w)
      PROVE  /\ pc' = [pc EXCEPT ![u] = w] /\ call' = call
             /\ call' = [call EXCEPT ![u] = call[u]]
  BY <1>1, <1>2 DEF Go
<1>3. ASSUME Go(u, "idle")
      PROVE  pc' = [pc EXCEPT ![u] = "idle"] /\ call' = [call EXCEPT ![u] = "none"]
  BY <1>3 DEF Go
<1>4. {"idle", "outwait", "lastwait"} \subseteq Places \ (Awaiting \cup {"signal"})
  BY DEF Places, Awaiting
<1>5. CASE Reread(u)
  <2>1. /\ pc[u] = "reread" /\ alone' = [x \in Threads |-> alone[x] /\ (x = u \/ ~serverSyncOn)]
        /\ UNCHANGED <<pending, flying, answered, slot, job, responseReady, syncs, serverSyncOn,
                       crossed, todo, own>>
    BY <1>5 DEF Reread, wire, waits, syncs
  <2>2. /\ alone' \in [Threads -> BOOLEAN] /\ \A x \in Threads : alone'[x] => alone[x]
        /\ serverSyncOn => \A x \in Threads \ {u} : ~alone'[x]
        /\ pc[u] \notin Awaiting /\ "queued" \in Awaiting
    BY <2>1 DEF Awaiting
  <2>3. CASE serverSyncOn
    <3>1. Go(u, "queued")
      BY <1>5, <2>3 DEF Reread
    <3> QED BY <1>1, <1>2, <2>1, <2>2, <2>3, <3>1, WaitStep
  <2>4. CASE ~serverSyncOn
    <3>1. Go(u, "idle")
      BY <1>5, <2>4 DEF Reread
    <3> QED BY <1>1, <1>3, <1>4, <2>1, <2>2, <2>4, <3>1, MoveStep
  <2> QED BY <2>3, <2>4
<1>6. CASE QueueProcess(u)
  <2>1. /\ pc[u] = "marked" /\ pc[u] \notin Awaiting
        /\ UNCHANGED <<slot, job, responseReady, serverSyncOn, crossed, todo>>
    BY <1>6 DEF QueueProcess, waits, syncs, Awaiting
  <2>2. CASE serverSyncOn
    <3>1. Push(u, "none") /\ Go(u, "queued") /\ "none" \in Slots
      BY <1>6, <2>2 DEF QueueProcess, Slots
    <3>2. call[u] # "apply"
      BY <1>1, <2>1 DEF Inv, CrossInv
    <3> QED BY <1>1, <1>2, <2>1, <3>1, <3>2, PushStep
  <2>3. CASE ~serverSyncOn
    <3>1. Go(u, "idle") /\ UNCHANGED <<pending, flying, answered, own>> /\ alone' = alone
      BY <1>6, <2>3 DEF QueueProcess, NoPush, wire
    <3> QED BY <1>1, <1>3, <1>4, <2>1, <2>3, <3>1, MoveStep
  <2> QED BY <2>2, <2>3
<1>7. CASE Flush(u) \/ Outwait(u) \/ Flushed(u)
  <2>1. /\ pc[u] \notin Awaiting /\ alone' = alone
        /\ UNCHANGED <<pending, flying, answered, slot, job, responseReady, serverSyncOn,
                       crossed, todo, own>>
    BY <1>7 DEF Flush, Outwait, Flushed, wire, waits, syncs, Awaiting
  <2>2. PICK w \in {"idle", "outwait", "lastwait"} : Go(u, w)
    BY <1>7 DEF Flush, Outwait, Flushed
  <2>3. CASE w = "idle"
    BY <1>1, <1>3, <1>4, <2>1, <2>2, <2>3, MoveStep
  <2>4. CASE w # "idle"
    BY <1>1, <1>2, <1>4, <2>1, <2>2, <2>4, MoveStep
  <2> QED BY <2>3, <2>4
<1> QED BY <1>1, <1>5, <1>6, <1>7, InCallStep DEF UserStep

\* The updater takes an answer from the wire.
LEMMA HandleStep ==
  ASSUME Inv, NEW r \in answered, ProcessHTTP3Response(r)
  PROVE  Inv'
<1>1. /\ pc[Updater] = "loop" /\ answered' = answered \ {r} /\ job' = r
      /\ UNCHANGED <<flying, responseReady, syncs, own, alone>>
  BY DEF ProcessHTTP3Response
<1>2. r \in Requests /\ r \in Outstanding
  BY DEF Inv, Types, Outstanding
<1>3. /\ pending \in Seq(Requests) /\ call \in [Threads -> Calls]
      /\ todo \in [Threads -> Nat] /\ flying' \subseteq Requests /\ answered' \subseteq Requests
      /\ pc[Updater] \notin Awaiting
  BY <1>1 DEF Inv, Types, Calls, Awaiting
<1>4. ASSUME NEW w, w # "idle", Go(Updater, w)
      PROVE  pc' = [pc EXCEPT ![Updater] = w] /\ call' = call
  BY <1>3, <1>4, Constants DEF Go
<1>5. CASE StoreResponse(r)
  <2>1. /\ Signalling(r) /\ slot' = [slot EXCEPT ![r.slot] = r] /\ Go(Updater, "signal")
        /\ pending' = pending /\ todo' = todo
    BY <1>5 DEF StoreResponse
  <2>2. Outstanding' \subseteq Outstanding
    BY <1>1, <1>2, <2>1 DEF Outstanding
  <2> QED BY <1>1, <1>2, <1>3, <1>4, <2>1, <2>2, UpdaterStep
<1>6. CASE ApplyJournal(r)
  <2>1. /\ slot' = slot
        /\ pending' = pending \/ pending' = Append(pending, Sync)
        /\ todo' = todo \/ todo' = [todo EXCEPT ![Updater] = 1]
    BY <1>6 DEF ApplyJournal
  <2>2. PICK w \in {"applied", "applying"} : Go(Updater, w)
    BY <1>6 DEF ApplyJournal
  <2>3. todo' \in [Threads -> Nat]
    BY <1>3, <2>1
  <2>4. pending' \in Seq(Requests) /\ Range(pending') \subseteq Range(pending) \cup {Sync}
    <3>1. Append(pending, Sync) \in Seq(Requests)
          /\ Range(Append(pending, Sync)) \subseteq Range(pending) \cup {Sync}
      BY <1>3, Appended, Constants
    <3> QED BY <1>3, <2>1, <3>1
  <2>5. Outstanding' \subseteq Outstanding \cup {Sync}
    BY <1>1, <1>2, <2>4 DEF Outstanding
  <2>6. w \notin {"idle", "signal"}
    BY <2>2
  <2> QED BY <1>1, <1>2, <1>3, <1>4, <2>1, <2>2, <2>3, <2>4, <2>5, <2>6, UpdaterStep
<1> QED BY <1>5, <1>6 DEF ProcessHTTP3Response

LEMMA HandlingStep ==
  ASSUME Inv, ResponseSignal \/ ClearBlock \/ SetJournalRequestComplete
  PROVE  Inv'
<1>1. PICK w \in {"loop", "complete"} : Go(Updater, w)
  BY DEF ResponseSignal, ClearBlock, SetJournalRequestComplete
<1>2. /\ pc[Updater] \notin Awaiting /\ (responseReady' => responseReady \/ pc[Updater] = "signal")
      /\ job' \in {job, NoRequest}
      /\ UNCHANGED <<pending, flying, answered, slot, syncs, todo, own, alone>>
  BY DEF ResponseSignal, ClearBlock, SetJournalRequestComplete, wire, waits, Awaiting
<1>3. pc' = [pc EXCEPT ![Updater] = w] /\ call' = call
  BY <1>1, Constants DEF Go, Inv, Types
<1>4. Outstanding' \subseteq Outstanding \cup {NoRequest}
  BY <1>2 DEF Outstanding
<1>5. /\ pending' \in Seq(Requests) /\ flying' \subseteq Requests /\ answered' \subseteq Requests
      /\ job' \in Requests /\ todo' \in [Threads -> Nat]
  BY <1>2, Constants DEF Inv, Types
<1> QED BY <1>1, <1>2, <1>3, <1>4, <1>5, UpdaterStep

LEMMA TravelStep ==
  ASSUME Inv, SendRequest \/ SendJournal \/ Lose \/ \E r \in flying : Answer(r)
  PROVE  Inv'
<1>1. pending \in Seq(Requests) /\ flying \subseteq Requests /\ answered \subseteq Requests
  BY DEF Inv, Types
<1>2. job' = job /\ UNCHANGED <<waits, syncs, pc, call, todo, own, alone>>
  BY DEF SendRequest, SendJournal, Lose, Answer
<1>3. CASE SendRequest
  <2>1. /\ pending # <<>> /\ pending' = Tail(pending) /\ answered' = answered
        /\ flying' = flying \cup (IF connected THEN {Head(pending)} ELSE {})
    BY <1>3 DEF SendRequest
  <2>2. /\ Head(pending) \in Requests /\ Head(pending) \in Range(pending)
        /\ Tail(pending) \in Seq(Requests) /\ Range(Tail(pending)) \subseteq Range(pending)
    BY <1>1, <2>1, Removed
  <2>3. Outstanding' \subseteq Outstanding
    BY <1>2, <2>1, <2>2 DEF Outstanding
  <2> QED BY <1>1, <1>2, <2>1, <2>2, <2>3, WireStep
<1>4. CASE SendJournal
  <2>1. /\ pending' = pending /\ answered' = answered
        /\ flying' = flying \cup (IF connected THEN {Journal} ELSE {})
    BY <1>4 DEF SendJournal
  <2>2. Outstanding' \subseteq Outstanding \cup {Journal}
    BY <1>2, <2>1 DEF Outstanding
  <2> QED BY <1>1, <1>2, <2>1, <2>2, Constants, WireStep
<1>5. CASE Lose
  <2>1. pending' = pending /\ answered' = answered /\ flying' = {}
    BY <1>5 DEF Lose
  <2>2. Outstanding' \subseteq Outstanding
    BY <1>2, <2>1 DEF Outstanding
  <2> QED BY <1>1, <1>2, <2>1, <2>2, WireStep
<1>6. ASSUME NEW r \in flying, Answer(r) PROVE Inv'
  <2>1. pending' = pending /\ answered' = answered \cup {r} /\ flying' = flying \ {r}
    BY <1>6 DEF Answer
  <2>2. Outstanding' \subseteq Outstanding
    BY <1>2, <2>1 DEF Outstanding
  <2> QED BY <1>1, <1>2, <2>1, <2>2, WireStep
<1> QED BY <1>3, <1>4, <1>5, <1>6

LEMMA InvStep == Inv /\ [Next]_vars => Inv'
<1> SUFFICES ASSUME Inv, [Next]_vars PROVE Inv'
  OBVIOUS
<1>1. CASE UNCHANGED vars
  <2>1. /\ pending' = pending /\ job' = job /\ Outstanding' = Outstanding
        /\ UNCHANGED <<waits, syncs, pc, call, todo, own, alone, flying, answered>>
    BY <1>1 DEF vars, wire, Outstanding
  <2> QED BY <2>1, WireStep DEF Inv, Types
<1> QED BY <1>1, StartStep, UserStepKeeps, InCallStep, HandleStep, HandlingStep, TravelStep, Constants
        DEF Next, Handling

LEMMA InvHolds == Spec => []Inv
BY InvInit, InvStep, PTL DEF Spec

--------------------------------------------------------------------------------
(* However many threads call and whatever they call: a call that had       *)
(* nobody else's request out and nobody else waiting since it queued its   *)
(* own is woken by its own answer and reads that one, not the answer of    *)
(* the journal and not what an earlier call left in responseReady or in    *)
(* the response members (awaitResponse, processHTTP3Response).             *)
THEOREM AloneIsServed == Spec => []AloneGetsOwnAnswer
<1>1. Inv => AloneGetsOwnAnswer
  <2> SUFFICES ASSUME Inv, NEW t \in Threads, alone[t], pc[t] = "woken"
               PROVE  slot[Awaited(t)] = own[t]
    BY DEF AloneGetsOwnAnswer
  <2>1. Undisturbed(t) /\ AnswerStored(t)
    BY DEF Inv, AloneInv, AnswerStored
  <2>2. Awaited(t) = own[t].slot
    BY <2>1 DEF Awaited, Undisturbed
  <2> QED BY <2>1, <2>2 DEF Undisturbed
<1> QED BY <1>1, InvHolds, PTL

(* The updater sends a write of its own to the server, and so waits for an *)
(* answer that only it could take from the wire, only after another thread *)
(* called enableServerSync inside its window.                              *)
THEOREM UpdaterWaits == Spec => []UpdaterWaitsOnlyIfCrossed
<1>1. Inv => UpdaterWaitsOnlyIfCrossed
  BY DEF Inv, CrossInv, UpdaterWaitsOnlyIfCrossed
<1> QED BY <1>1, InvHolds, PTL
================================================================================
