-------------------------- MODULE ThreadsafeBackend --------------------------
(***************************************************************************)
(* ThreadsafeBackend: several threads share one backend; tree_mutex_ guards *)
(* the backend, notification_mutex_ guards the stack of notifications that  *)
(* worker threads deliver with processNotifications.                        *)
(*                                                                         *)
(* A thread holds tree_mutex_ while the backend below runs the wrapped      *)
(* callbacks, each of which takes notification_mutex_ to push; listener     *)
(* callbacks run with neither mutex held and may call the backend again.    *)
(* One node is enough here: how labels select listeners is the matter of    *)
(* module SimpleBackend.  A node is the number of the write that made it.   *)
(***************************************************************************)
EXTENDS Integers, Sequences, FiniteSets

CONSTANTS
    Threads,            \* threads that call the backend
    Workers,            \* the ones that call processNotifications
    Listeners,          \* listener names
    NoOne,              \* no thread holds the mutex
    Workload,           \* the kinds of call the threads make
    MaxCalls            \* bound: calls in a behaviour

ASSUME ThreadsAssumption ==
    /\ NoOne \notin Threads \union Listeners
    /\ Workers \subseteq Threads
    /\ Workload \subseteq {"write", "register", "deregister", "notify"}
    /\ MaxCalls \in Nat

VARIABLES
    treeMutex,          \* holder of tree_mutex_
    noteMutex,          \* holder of notification_mutex_
    node,               \* the node of the backend below
    registered,         \* the listeners of the backend below
    notes,              \* notification_stack_
    pc,                 \* per thread: where its call is
    call,               \* per thread: what it is calling
    todo,               \* per thread: listeners still to be notified
    worker,             \* per thread: inside processNotifications
    hand,               \* per worker: the notification it has popped
    draining,           \* history: what a thread has deregistered, not yet drained
    gone,               \* history: listeners deregistered and drained
    calls               \* how much of MaxCalls is used up

locks == <<treeMutex, noteMutex>>
shared == <<node, registered, notes>>
vars == <<locks, shared, pc, call, todo, worker, hand, draining, gone, calls>>

Call == [kind : {"none", "write", "register", "deregister", "notify"},
         name : Listeners \union {NoOne}]

NoCall == [kind |-> "none", name |-> NoOne]
Note == [name : Listeners, node : Nat]
NoNote == <<>>

-----------------------------------------------------------------------------
(* Calls that go through tree_mutex_ *)

Start(t, c, at) ==
    /\ c.kind \in Workload
    /\ calls < MaxCalls
    /\ calls' = calls + 1
    /\ call' = [call EXCEPT ![t] = c]
    /\ pc' = [pc EXCEPT ![t] = at]
    /\ UNCHANGED <<locks, shared, todo, worker, hand, draining, gone>>

\* upsertNode, deleteNode, applyTransaction and the like; also from a listener
\* callback.
StartWrite(t) ==
    /\ pc[t] \in {"idle", "callback"}
    /\ Start(t, [kind |-> "write", name |-> NoOne], "lockTree")

StartRegister(t, x) ==
    /\ pc[t] = "idle"
    /\ Start(t, [kind |-> "register", name |-> x], "lockTree")

StartDeregister(t, x) ==
    /\ pc[t] = "idle"
    /\ x \in registered
    /\ Start(t, [kind |-> "deregister", name |-> x], "lockTree")

LockTree(t) ==
    /\ pc[t] = "lockTree"
    /\ treeMutex = NoOne
    /\ treeMutex' = t
    /\ pc' = [pc EXCEPT ![t] = "inTree"]
    /\ UNCHANGED <<noteMutex, shared, call, todo, worker, hand, draining, gone, calls>>

\* The backend below does the work; a write goes on to notify.
InTree(t) ==
    /\ pc[t] = "inTree"
    /\ \/ /\ call[t].kind = "write"
          /\ node' = calls
          /\ todo' = [todo EXCEPT ![t] = registered]
          /\ UNCHANGED <<registered, draining, gone>>
       \/ /\ call[t].kind = "register"
          /\ registered' = registered \union {call[t].name}
          /\ gone' = gone \ {call[t].name}
          /\ draining' = [u \in Threads |->
                            IF draining[u] = call[t].name THEN NoOne ELSE draining[u]]
          /\ UNCHANGED <<node, todo>>
       \/ /\ call[t].kind = "deregister"
          /\ registered' = registered \ {call[t].name}
          /\ draining' = [draining EXCEPT ![t] = call[t].name]
          /\ UNCHANGED <<node, todo, gone>>
    /\ pc' = [pc EXCEPT ![t] = "notify"]
    /\ UNCHANGED <<locks, notes, call, worker, hand, calls>>

\* Mutant: the wrapper keeps the name of the call instead of the listener's.
PushForCaller(t) ==
    /\ pc[t] = "notify"
    /\ noteMutex = NoOne
    /\ \E x \in todo[t] :
         /\ notes' = Append(notes, [name |-> call[t].name, node |-> node])
         /\ todo' = [todo EXCEPT ![t] = @ \ {x}]
    /\ UNCHANGED <<locks, node, registered, pc, call, worker, hand, draining, gone, calls>>

\* The wrapped callback of one listener: lock, push, unlock.
Push(t) ==
    /\ pc[t] = "notify"
    /\ noteMutex = NoOne
    /\ \E x \in todo[t] :
         /\ notes' = Append(notes, [name |-> x, node |-> node])
         /\ todo' = [todo EXCEPT ![t] = @ \ {x}]
    /\ UNCHANGED <<locks, node, registered, pc, call, worker, hand, draining, gone, calls>>

\* Mutant: tree_mutex_ is not released when there is nobody to notify.
ReturnHolding(t) ==
    /\ pc[t] = "notify"
    /\ todo[t] = {}
    /\ treeMutex' = IF treeMutex = t /\ registered # {} THEN NoOne ELSE treeMutex
    /\ noteMutex' = IF noteMutex = t THEN NoOne ELSE noteMutex
    /\ pc' = [pc EXCEPT ![t] = IF worker[t] THEN "callback" ELSE "idle"]
    /\ call' = [call EXCEPT ![t] = NoCall]
    /\ UNCHANGED <<shared, todo, worker, hand, draining, gone, calls>>

\* The call returns, to its caller or to the callback that made it.
Return(t) ==
    /\ pc[t] = "notify"
    /\ todo[t] = {}
    /\ treeMutex' = IF treeMutex = t THEN NoOne ELSE treeMutex
    /\ noteMutex' = IF noteMutex = t THEN NoOne ELSE noteMutex
    /\ pc' = [pc EXCEPT ![t] = IF worker[t] THEN "callback" ELSE "idle"]
    /\ call' = [call EXCEPT ![t] = NoCall]
    /\ UNCHANGED <<shared, todo, worker, hand, draining, gone, calls>>

-----------------------------------------------------------------------------
(* notifyListeners: notification_mutex_ is held across the walk of the        *)
(* listeners below, whose wrapped callbacks lock it again.                    *)

StartNotify(t) ==
    /\ pc[t] = "idle"
    /\ Start(t, [kind |-> "notify", name |-> NoOne], "lockNotes")

LockNotes(t) ==
    /\ pc[t] = "lockNotes"
    /\ noteMutex = NoOne
    /\ noteMutex' = t
    /\ pc' = [pc EXCEPT ![t] = "walk"]
    /\ UNCHANGED <<treeMutex, shared, call, todo, worker, hand, draining, gone, calls>>

Walk(t) ==
    /\ pc[t] = "walk"
    /\ todo' = [todo EXCEPT ![t] = registered]
    /\ pc' = [pc EXCEPT ![t] = "notify"]
    /\ UNCHANGED <<locks, shared, call, worker, hand, draining, gone, calls>>

-----------------------------------------------------------------------------
(* processNotifications *)

Enter(t) ==
    /\ t \in Workers
    /\ pc[t] = "idle"
    /\ worker' = [worker EXCEPT ![t] = TRUE]
    /\ pc' = [pc EXCEPT ![t] = "pop"]
    /\ UNCHANGED <<locks, shared, call, todo, hand, draining, gone, calls>>

\* Lock, take the newest notification, unlock.
Pop(t) ==
    /\ pc[t] = "pop"
    /\ noteMutex = NoOne
    /\ notes # <<>>
    /\ hand' = [hand EXCEPT ![t] = notes[Len(notes)]]
    /\ notes' = SubSeq(notes, 1, Len(notes) - 1)
    /\ pc' = [pc EXCEPT ![t] = "popped"]
    /\ UNCHANGED <<locks, node, registered, call, todo, worker, draining, gone, calls>>

\* The listener's own callback starts.
Deliver(t) ==
    /\ pc[t] = "popped"
    /\ pc' = [pc EXCEPT ![t] = "callback"]
    /\ UNCHANGED <<locks, shared, call, todo, worker, hand, draining, gone, calls>>

\* It ends, and the worker goes back for the mutex.
Delivered(t) ==
    /\ pc[t] = "callback"
    /\ hand' = [hand EXCEPT ![t] = NoNote]
    /\ pc' = [pc EXCEPT ![t] = "pop"]
    /\ UNCHANGED <<locks, shared, call, todo, worker, draining, gone, calls>>

\* Mutant: processNotifications returns while notifications are left.
LeaveEarly(t) ==
    /\ pc[t] = "pop"
    /\ noteMutex = NoOne
    /\ worker' = [worker EXCEPT ![t] = FALSE]
    /\ pc' = [pc EXCEPT ![t] = "idle"]
    /\ gone' = gone \union ({draining[t]} \intersect Listeners)
    /\ draining' = [draining EXCEPT ![t] = NoOne]
    /\ UNCHANGED <<locks, shared, call, todo, hand, calls>>

\* The stack is empty: processNotifications returns.
Leave(t) ==
    /\ pc[t] = "pop"
    /\ noteMutex = NoOne
    /\ notes = <<>>
    /\ worker' = [worker EXCEPT ![t] = FALSE]
    /\ pc' = [pc EXCEPT ![t] = "idle"]
    /\ gone' = gone \union ({draining[t]} \intersect Listeners)
    /\ draining' = [draining EXCEPT ![t] = NoOne]
    /\ UNCHANGED <<locks, shared, call, todo, hand, calls>>

-----------------------------------------------------------------------------
Init ==
    /\ treeMutex = NoOne /\ noteMutex = NoOne
    /\ node = 0 /\ registered = {} /\ notes = <<>>
    /\ pc = [t \in Threads |-> "idle"]
    /\ call = [t \in Threads |-> NoCall]
    /\ todo = [t \in Threads |-> {}]
    /\ worker = [t \in Threads |-> FALSE]
    /\ hand = [t \in Threads |-> NoNote]
    /\ draining = [t \in Threads |-> NoOne]
    /\ gone = {}
    /\ calls = 0

\* What a thread does next without deciding to: the steps of calls under way.
Step(t) ==
    \/ LockTree(t) \/ InTree(t) \/ Push(t) \/ Return(t)
    \/ LockNotes(t) \/ Walk(t)
    \/ Pop(t) \/ Deliver(t) \/ Delivered(t) \/ Leave(t)

Next ==
    \E t \in Threads :
        \/ StartWrite(t) \/ StartNotify(t) \/ Enter(t)
        \/ \E x \in Listeners : StartRegister(t, x) \/ StartDeregister(t, x)
        \/ Step(t)

Spec == Init /\ [][Next]_vars

\* Threads are scheduled; calls are started or not as the threads please.
FairSpec == Spec /\ \A t \in Threads : WF_vars(Step(t))

-----------------------------------------------------------------------------
(* Properties *)

TypeOK ==
    /\ treeMutex \in Threads \union {NoOne}
    /\ noteMutex \in Threads \union {NoOne}
    /\ node \in 0..MaxCalls
    /\ registered \in SUBSET Listeners
    /\ notes \in Seq(Note)
    /\ pc \in [Threads -> {"idle", "lockTree", "inTree", "notify", "lockNotes",
                           "walk", "pop", "popped", "callback"}]
    /\ call \in [Threads -> Call]
    /\ todo \in [Threads -> SUBSET Listeners]
    /\ worker \in [Threads -> BOOLEAN]
    /\ hand \in [Threads -> Note \union {NoNote}]
    /\ draining \in [Threads -> Listeners \union {NoOne}]
    /\ gone \in SUBSET Listeners
    /\ calls \in 0..MaxCalls

\* After a thread has deregistered a listener and run processNotifications, no
\* notification for that listener is delivered, or will be, until it registers
\* again (threadsafe_backend.h:41-43, threadsafe_backend.cpp:73-93).
QuietAfterDrain ==
    \A x \in gone :
        /\ \A k \in DOMAIN notes : notes[k].name # x
        /\ \A t \in Threads : pc[t] = "popped" => hand[t].name # x

\* A thread holds notification_mutex_ and is about to lock it again.
LocksItselfOut(t) == pc[t] = "notify" /\ noteMutex = t /\ todo[t] # {}

\* Every call returns, also the calls listener callbacks make, as long as no
\* thread has locked itself out in notifyListeners: the order in which writers,
\* callbacks and workers take the two mutexes never makes them wait for each
\* other (threadsafe_backend.cpp:4-93).
CallsReturnUnlessLockedOut ==
    \A t \in Threads :
        pc[t] # "idle" ~> (pc[t] = "idle" \/ \E u \in Threads : LocksItselfOut(u))
=============================================================================
