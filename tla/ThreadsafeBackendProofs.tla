----------------------- MODULE ThreadsafeBackendProofs -----------------------
(***************************************************************************)
(* Proofs about ThreadsafeBackend: whoever deregisters a listener and then *)
(* drains the notifications has silenced it, for any number of threads and *)
(* listeners, provided one thread alone calls processNotifications.        *)
(***************************************************************************)
EXTENDS ThreadsafeBackend, TLAPS, SequenceTheorems

\* A call that goes through the tree, and the listener it names.
TreeKinds == {"write", "register", "deregister"}

CallsNamed ==
    \A t \in Threads :
        /\ pc[t] \in {"lockTree", "inTree"} => call[t].kind \in TreeKinds
        /\ pc[t] \in {"lockNotes", "walk"} => call[t].kind = "notify"
        /\ call[t].kind \in {"register", "deregister"} => call[t].name \in Listeners

\* A thread that reads or changes the listeners below holds tree_mutex_, or
\* notification_mutex_ if it came in through notifyListeners.
Locked ==
    \A t \in Threads :
        /\ pc[t] = "inTree" => treeMutex = t
        /\ pc[t] = "walk" => noteMutex = t
        /\ pc[t] = "notify" =>
             IF call[t].kind = "notify" THEN noteMutex = t ELSE treeMutex = t

\* Whom a thread has still to notify: registered listeners only, as long as
\* tree_mutex_ keeps others from deregistering them.
TodoRegistered ==
    \A t \in Threads :
        /\ pc[t] # "notify" => todo[t] = {}
        /\ pc[t] = "notify" /\ call[t].kind # "notify" => todo[t] \subseteq registered

\* The stack is emptied by workers only.
WorkersPop ==
    \A t \in Threads :
        /\ worker[t] => t \in Workers
        /\ pc[t] \in {"pop", "popped", "callback"} => t \in Workers
        /\ pc[t] = "popped" => hand[t] \in Note

\* What is being drained or has been is no longer registered, and nobody is
\* about to notify what has been.
Deregistered ==
    /\ gone \intersect registered = {}
    /\ \A t \in Threads : /\ draining[t] \notin registered
                          /\ todo[t] \intersect gone = {}

\* What holds whichever threads are workers.
Base ==
    /\ TypeOK
    /\ CallsNamed
    /\ Locked
    /\ TodoRegistered
    /\ WorkersPop
    /\ Deregistered

-----------------------------------------------------------------------------
(* The invariant without the history of drained listeners *)

LEMMA BaseInit == Init => Base
<1> SUFFICES ASSUME Init PROVE Base
  OBVIOUS
<1> USE ThreadsAssumption DEF Init
<1>1. TypeOK
  BY DEF TypeOK, Call, NoCall, NoNote, Note
<1>2. CallsNamed /\ Locked /\ TodoRegistered
  BY DEF CallsNamed, Locked, TodoRegistered, NoCall, TreeKinds
<1>3. WorkersPop
  BY DEF WorkersPop
<1>4. Deregistered
  BY DEF Deregistered
<1> QED BY <1>1, <1>2, <1>3, <1>4 DEF Base

LEMMA BaseStep == Base /\ [Next]_vars => Base'
<1> SUFFICES ASSUME Base, [Next]_vars PROVE Base'
  OBVIOUS
<1> USE ThreadsAssumption DEF Base, locks, shared
<1>1. ASSUME NEW t \in Threads, StartWrite(t) PROVE Base'
  <2>1. TypeOK'
    BY <1>1 DEF StartWrite, Start, TypeOK, Call, NoCall, Note, NoNote, CallsNamed, TreeKinds
  <2>2. CallsNamed'
    BY <1>1 DEF StartWrite, Start, TypeOK, Call, NoCall, CallsNamed, TreeKinds
  <2>3. Locked'
    BY <1>1 DEF StartWrite, Start, TypeOK, Locked, CallsNamed, TreeKinds
  <2>4. TodoRegistered'
    BY <1>1 DEF StartWrite, Start, TypeOK, Locked, CallsNamed, TreeKinds, TodoRegistered
  <2>5. WorkersPop'
    BY <1>1 DEF StartWrite, Start, TypeOK, WorkersPop
  <2>6. Deregistered'
    BY <1>1 DEF StartWrite, Start, TypeOK, Deregistered, CallsNamed, Locked, TodoRegistered, TreeKinds
  <2> QED BY <2>1, <2>2, <2>3, <2>4, <2>5, <2>6
<1>2. ASSUME NEW t \in Threads, StartNotify(t) PROVE Base'
  <2>1. TypeOK'
    BY <1>2 DEF StartNotify, Start, TypeOK, Call, NoCall, Note, NoNote, CallsNamed, TreeKinds
  <2>2. CallsNamed'
    BY <1>2 DEF StartNotify, Start, TypeOK, Call, NoCall, CallsNamed, TreeKinds
  <2>3. Locked'
    BY <1>2 DEF StartNotify, Start, TypeOK, Locked, CallsNamed, TreeKinds
  <2>4. TodoRegistered'
    BY <1>2 DEF StartNotify, Start, TypeOK, Locked, CallsNamed, TreeKinds, TodoRegistered
  <2>5. WorkersPop'
    BY <1>2 DEF StartNotify, Start, TypeOK, WorkersPop
  <2>6. Deregistered'
    BY <1>2 DEF StartNotify, Start, TypeOK, Deregistered, CallsNamed, Locked, TodoRegistered, TreeKinds
  <2> QED BY <2>1, <2>2, <2>3, <2>4, <2>5, <2>6
<1>3. ASSUME NEW t \in Threads, Enter(t) PROVE Base'
  <2>1. TypeOK'
    BY <1>3 DEF Enter, TypeOK, Call, NoCall, Note, NoNote, CallsNamed, TreeKinds
  <2>2. CallsNamed'
    BY <1>3 DEF Enter, TypeOK, Call, NoCall, CallsNamed, TreeKinds
  <2>3. Locked'
    BY <1>3 DEF Enter, TypeOK, Locked, CallsNamed, TreeKinds
  <2>4. TodoRegistered'
    BY <1>3 DEF Enter, TypeOK, Locked, CallsNamed, TreeKinds, TodoRegistered
  <2>5. WorkersPop'
    BY <1>3 DEF Enter, TypeOK, WorkersPop
  <2>6. Deregistered'
    BY <1>3 DEF Enter, TypeOK, Deregistered, CallsNamed, Locked, TodoRegistered, TreeKinds
  <2> QED BY <2>1, <2>2, <2>3, <2>4, <2>5, <2>6
<1>4. ASSUME NEW t \in Threads, LockTree(t) PROVE Base'
  <2>1. TypeOK'
    BY <1>4 DEF LockTree, TypeOK, Call, NoCall, Note, NoNote, CallsNamed, TreeKinds
  <2>2. CallsNamed'
    BY <1>4 DEF LockTree, TypeOK, Call, NoCall, CallsNamed, TreeKinds
  <2>3. Locked'
    BY <1>4 DEF LockTree, TypeOK, Locked, CallsNamed, TreeKinds
  <2>4. TodoRegistered'
    BY <1>4 DEF LockTree, TypeOK, Locked, CallsNamed, TreeKinds, TodoRegistered
  <2>5. WorkersPop'
    BY <1>4 DEF LockTree, TypeOK, WorkersPop
  <2>6. Deregistered'
    BY <1>4 DEF LockTree, TypeOK, Deregistered, CallsNamed, Locked, TodoRegistered, TreeKinds
  <2> QED BY <2>1, <2>2, <2>3, <2>4, <2>5, <2>6
<1>5. ASSUME NEW t \in Threads, InTree(t) PROVE Base'
  <2>1. TypeOK'
    BY <1>5 DEF InTree, TypeOK, Call, NoCall, Note, NoNote, CallsNamed, TreeKinds
  <2>2. CallsNamed'
    BY <1>5 DEF InTree, TypeOK, Call, NoCall, CallsNamed, TreeKinds
  <2>3. Locked'
    BY <1>5 DEF InTree, TypeOK, Locked, CallsNamed, TreeKinds
  <2>4. TodoRegistered'
    BY <1>5 DEF InTree, TypeOK, Locked, CallsNamed, TreeKinds, TodoRegistered
  <2>5. WorkersPop'
    BY <1>5 DEF InTree, TypeOK, WorkersPop
  <2>6. Deregistered'
    BY <1>5 DEF InTree, TypeOK, Deregistered, CallsNamed, Locked, TodoRegistered, TreeKinds
  <2> QED BY <2>1, <2>2, <2>3, <2>4, <2>5, <2>6
<1>6. ASSUME NEW t \in Threads, Push(t) PROVE Base'
  <2>1. TypeOK'
    BY <1>6 DEF Push, TypeOK, Call, NoCall, Note, NoNote, CallsNamed, TreeKinds
  <2>2. CallsNamed'
    BY <1>6 DEF Push, TypeOK, Call, NoCall, CallsNamed, TreeKinds
  <2>3. Locked'
    BY <1>6 DEF Push, TypeOK, Locked, CallsNamed, TreeKinds
  <2>4. TodoRegistered'
    BY <1>6 DEF Push, TypeOK, Locked, CallsNamed, TreeKinds, TodoRegistered
  <2>5. WorkersPop'
    BY <1>6 DEF Push, TypeOK, WorkersPop
  <2>6. Deregistered'
    BY <1>6 DEF Push, TypeOK, Deregistered, CallsNamed, Locked, TodoRegistered, TreeKinds
  <2> QED BY <2>1, <2>2, <2>3, <2>4, <2>5, <2>6
<1>7. ASSUME NEW t \in Threads, Return(t) PROVE Base'
  <2>1. TypeOK'
    BY <1>7 DEF Return, TypeOK, Call, NoCall, Note, NoNote, CallsNamed, TreeKinds
  <2>2. CallsNamed'
    BY <1>7 DEF Return, TypeOK, Call, NoCall, CallsNamed, TreeKinds
  <2>3. Locked'
    BY <1>7 DEF Return, TypeOK, Locked, CallsNamed, TreeKinds
  <2>4. TodoRegistered'
    BY <1>7 DEF Return, TypeOK, Locked, CallsNamed, TreeKinds, TodoRegistered
  <2>5. WorkersPop'
    BY <1>7 DEF Return, TypeOK, WorkersPop
  <2>6. Deregistered'
    BY <1>7 DEF Return, TypeOK, Deregistered, CallsNamed, Locked, TodoRegistered, TreeKinds
  <2> QED BY <2>1, <2>2, <2>3, <2>4, <2>5, <2>6
<1>8. ASSUME NEW t \in Threads, LockNotes(t) PROVE Base'
  <2>1. TypeOK'
    BY <1>8 DEF LockNotes, TypeOK, Call, NoCall, Note, NoNote, CallsNamed, TreeKinds
  <2>2. CallsNamed'
    BY <1>8 DEF LockNotes, TypeOK, Call, NoCall, CallsNamed, TreeKinds
  <2>3. Locked'
    BY <1>8 DEF LockNotes, TypeOK, Locked, CallsNamed, TreeKinds
  <2>4. TodoRegistered'
    BY <1>8 DEF LockNotes, TypeOK, Locked, CallsNamed, TreeKinds, TodoRegistered
  <2>5. WorkersPop'
    BY <1>8 DEF LockNotes, TypeOK, WorkersPop
  <2>6. Deregistered'
    BY <1>8 DEF LockNotes, TypeOK, Deregistered, CallsNamed, Locked, TodoRegistered, TreeKinds
  <2> QED BY <2>1, <2>2, <2>3, <2>4, <2>5, <2>6
<1>9. ASSUME NEW t \in Threads, Walk(t) PROVE Base'
  <2>1. TypeOK'
    BY <1>9 DEF Walk, TypeOK, Call, NoCall, Note, NoNote, CallsNamed, TreeKinds
  <2>2. CallsNamed'
    BY <1>9 DEF Walk, TypeOK, Call, NoCall, CallsNamed, TreeKinds
  <2>3. Locked'
    BY <1>9 DEF Walk, TypeOK, Locked, CallsNamed, TreeKinds
  <2>4. TodoRegistered'
    BY <1>9 DEF Walk, TypeOK, Locked, CallsNamed, TreeKinds, TodoRegistered
  <2>5. WorkersPop'
    BY <1>9 DEF Walk, TypeOK, WorkersPop
  <2>6. Deregistered'
    BY <1>9 DEF Walk, TypeOK, Deregistered, CallsNamed, Locked, TodoRegistered, TreeKinds
  <2> QED BY <2>1, <2>2, <2>3, <2>4, <2>5, <2>6
<1>10. ASSUME NEW t \in Threads, Pop(t) PROVE Base'
  <2>1. TypeOK'
    <3> DEFINE rest == SubSeq(notes, 1, Len(notes) - 1)
    <3>1. notes \in Seq(Note) /\ notes # <<>>
      BY <1>10 DEF Pop, TypeOK
    <3>2. Len(notes) \in Nat \ {0} /\ \A k \in 1..Len(notes) : notes[k] \in Note
      BY <3>1, EmptySeq, ElementOfSeq
    <3>3. rest \in Seq(Note) /\ notes[Len(notes)] \in Note
      BY <3>2, SubSeqProperties
    <3> HIDE DEF rest
    <3>4. notes' = rest
      BY <1>10 DEF Pop, rest
    <3> QED BY <1>10, <3>3, <3>4 DEF Pop, TypeOK
  <2>2. CallsNamed'
    BY <1>10 DEF Pop, TypeOK, Call, NoCall, CallsNamed, TreeKinds
  <2>3. Locked'
    BY <1>10 DEF Pop, TypeOK, Locked, CallsNamed, TreeKinds
  <2>4. TodoRegistered'
    BY <1>10 DEF Pop, TypeOK, Locked, CallsNamed, TreeKinds, TodoRegistered
  <2>5. WorkersPop'
    BY <1>10 DEF Pop, TypeOK, WorkersPop
  <2>6. Deregistered'
    BY <1>10 DEF Pop, TypeOK, Deregistered, CallsNamed, Locked, TodoRegistered, TreeKinds
  <2> QED BY <2>1, <2>2, <2>3, <2>4, <2>5, <2>6
<1>11. ASSUME NEW t \in Threads, Deliver(t) PROVE Base'
  <2>1. TypeOK'
    BY <1>11 DEF Deliver, TypeOK, Call, NoCall, Note, NoNote, CallsNamed, TreeKinds
  <2>2. CallsNamed'
    BY <1>11 DEF Deliver, TypeOK, Call, NoCall, CallsNamed, TreeKinds
  <2>3. Locked'
    BY <1>11 DEF Deliver, TypeOK, Locked, CallsNamed, TreeKinds
  <2>4. TodoRegistered'
    BY <1>11 DEF Deliver, TypeOK, Locked, CallsNamed, TreeKinds, TodoRegistered
  <2>5. WorkersPop'
    BY <1>11 DEF Deliver, TypeOK, WorkersPop
  <2>6. Deregistered'
    BY <1>11 DEF Deliver, TypeOK, Deregistered, CallsNamed, Locked, TodoRegistered, TreeKinds
  <2> QED BY <2>1, <2>2, <2>3, <2>4, <2>5, <2>6
<1>12. ASSUME NEW t \in Threads, Delivered(t) PROVE Base'
  <2>1. TypeOK'
    BY <1>12 DEF Delivered, TypeOK, Call, NoCall, Note, NoNote, CallsNamed, TreeKinds
  <2>2. CallsNamed'
    BY <1>12 DEF Delivered, TypeOK, Call, NoCall, CallsNamed, TreeKinds
  <2>3. Locked'
    BY <1>12 DEF Delivered, TypeOK, Locked, CallsNamed, TreeKinds
  <2>4. TodoRegistered'
    BY <1>12 DEF Delivered, TypeOK, Locked, CallsNamed, TreeKinds, TodoRegistered
  <2>5. WorkersPop'
    BY <1>12 DEF Delivered, TypeOK, WorkersPop
  <2>6. Deregistered'
    BY <1>12 DEF Delivered, TypeOK, Deregistered, CallsNamed, Locked, TodoRegistered, TreeKinds
  <2> QED BY <2>1, <2>2, <2>3, <2>4, <2>5, <2>6
<1>13. ASSUME NEW t \in Threads, Leave(t) PROVE Base'
  <2>1. TypeOK'
    BY <1>13 DEF Leave, TypeOK, Call, NoCall, Note, NoNote, CallsNamed, TreeKinds
  <2>2. CallsNamed'
    BY <1>13 DEF Leave, TypeOK, Call, NoCall, CallsNamed, TreeKinds
  <2>3. Locked'
    BY <1>13 DEF Leave, TypeOK, Locked, CallsNamed, TreeKinds
  <2>4. TodoRegistered'
    BY <1>13 DEF Leave, TypeOK, Locked, CallsNamed, TreeKinds, TodoRegistered
  <2>5. WorkersPop'
    BY <1>13 DEF Leave, TypeOK, WorkersPop
  <2>6. Deregistered'
    BY <1>13 DEF Leave, TypeOK, Deregistered, CallsNamed, Locked, TodoRegistered, TreeKinds
  <2> QED BY <2>1, <2>2, <2>3, <2>4, <2>5, <2>6
<1>14. ASSUME NEW t \in Threads, NEW x \in Listeners, StartRegister(t, x) PROVE Base'
  <2>1. TypeOK'
    BY <1>14 DEF StartRegister, Start, TypeOK, Call, NoCall, Note, NoNote, CallsNamed, TreeKinds
  <2>2. CallsNamed'
    BY <1>14 DEF StartRegister, Start, TypeOK, Call, NoCall, CallsNamed, TreeKinds
  <2>3. Locked'
    BY <1>14 DEF StartRegister, Start, TypeOK, Locked, CallsNamed, TreeKinds
  <2>4. TodoRegistered'
    BY <1>14 DEF StartRegister, Start, TypeOK, Locked, CallsNamed, TreeKinds, TodoRegistered
  <2>5. WorkersPop'
    BY <1>14 DEF StartRegister, Start, TypeOK, WorkersPop
  <2>6. Deregistered'
    BY <1>14 DEF StartRegister, Start, TypeOK, Deregistered, CallsNamed, Locked, TodoRegistered, TreeKinds
  <2> QED BY <2>1, <2>2, <2>3, <2>4, <2>5, <2>6
<1>15. ASSUME NEW t \in Threads, NEW x \in Listeners, StartDeregister(t, x) PROVE Base'
  <2>1. TypeOK'
    BY <1>15 DEF StartDeregister, Start, TypeOK, Call, NoCall, Note, NoNote, CallsNamed, TreeKinds
  <2>2. CallsNamed'
    BY <1>15 DEF StartDeregister, Start, TypeOK, Call, NoCall, CallsNamed, TreeKinds
  <2>3. Locked'
    BY <1>15 DEF StartDeregister, Start, TypeOK, Locked, CallsNamed, TreeKinds
  <2>4. TodoRegistered'
    BY <1>15 DEF StartDeregister, Start, TypeOK, Locked, CallsNamed, TreeKinds, TodoRegistered
  <2>5. WorkersPop'
    BY <1>15 DEF StartDeregister, Start, TypeOK, WorkersPop
  <2>6. Deregistered'
    BY <1>15 DEF StartDeregister, Start, TypeOK, Deregistered, CallsNamed, Locked, TodoRegistered, TreeKinds
  <2> QED BY <2>1, <2>2, <2>3, <2>4, <2>5, <2>6
<1>16. CASE UNCHANGED vars
  BY <1>16 DEF vars, TypeOK, CallsNamed, Locked, TodoRegistered, WorkersPop, Deregistered
<1> QED
  BY <1>1, <1>2, <1>3, <1>4, <1>5, <1>6, <1>7, <1>8, <1>9, <1>10, <1>11, <1>12, <1>13, <1>14, <1>15, <1>16 DEF Next, Step

\* The mutexes, the calls and the notifications are always what their
\* declarations say (threadsafe_backend.h:46-54).
THEOREM ThreadsTypeCorrect == Spec => []TypeOK
<1>1. Base => TypeOK
  BY DEF Base
<1> QED BY <1>1, BaseInit, BaseStep, PTL DEF Spec

-----------------------------------------------------------------------------
(* One worker *)

IInv == Base /\ QuietAfterDrain

\* The step that could go wrong is the one that makes a listener "gone": the
\* stack is empty then, no other worker has a notification in its hand, and a
\* thread about to push one would hold a mutex or notify a registered listener.
LEMMA QuietStep ==
  ASSUME \A u, v \in Workers : u = v, IInv, [Next]_vars
  PROVE  QuietAfterDrain'
<1> USE ThreadsAssumption DEF IInv, Base, locks, shared
<1>1. ASSUME NEW t \in Threads, InTree(t) PROVE QuietAfterDrain'
  BY <1>1 DEF InTree, TypeOK, QuietAfterDrain
<1>2. ASSUME NEW t \in Threads, Push(t) PROVE QuietAfterDrain'
  <2>1. PICK y \in todo[t] : notes' = Append(notes, [name |-> y, node |-> node])
    BY <1>2 DEF Push
  <2>2. y \in Listeners /\ y \notin gone /\ node \in Nat
    BY <2>1 DEF TypeOK, Deregistered
  <2>3. [name |-> y, node |-> node] \in Note
    BY <2>2 DEF Note
  <2>4. \A k \in DOMAIN notes' : notes'[k].name = y \/ (k \in DOMAIN notes /\ notes'[k] = notes[k])
    BY <2>1, <2>3, AppendProperties, LenProperties DEF TypeOK
  <2> QED BY <1>2, <2>2, <2>4 DEF Push, QuietAfterDrain
<1>3. ASSUME NEW t \in Threads, Pop(t) PROVE QuietAfterDrain'
  <2>1. notes \in Seq(Note) /\ notes # <<>>
    BY <1>3 DEF Pop, TypeOK
  <2>2. Len(notes) \in Nat \ {0} /\ DOMAIN notes = 1..Len(notes)
        /\ \A k \in 1..Len(notes) : notes[k] \in Note
    BY <2>1, EmptySeq, ElementOfSeq, LenProperties
  <2>3. \A k \in DOMAIN notes' : k \in DOMAIN notes /\ notes'[k] = notes[k]
    <3> DEFINE rest == SubSeq(notes, 1, Len(notes) - 1)
    <3>1. /\ rest \in Seq(Note)
          /\ Len(rest) = Len(notes) - 1
          /\ \A k \in 1..Len(notes) - 1 : rest[k] = notes[k]
      BY <2>2, SubSeqProperties
    <3>2. DOMAIN rest = 1..Len(notes) - 1
      BY <3>1, LenProperties
    <3> HIDE DEF rest
    <3>3. notes' = rest
      BY <1>3 DEF Pop, rest
    <3> QED BY <2>2, <3>1, <3>2, <3>3
  <2>4. /\ hand' = [hand EXCEPT ![t] = notes[Len(notes)]]
        /\ pc' = [pc EXCEPT ![t] = "popped"]
        /\ gone' = gone
    BY <1>3 DEF Pop
  <2>5. \A x \in gone : notes[Len(notes)].name # x
    BY <2>2 DEF QuietAfterDrain
  <2> QED BY <2>3, <2>4, <2>5 DEF QuietAfterDrain, TypeOK
<1>4. ASSUME NEW t \in Threads, Leave(t) PROVE QuietAfterDrain'
  <2>1. \A u \in Threads : pc[u] # "popped"
    BY <1>4 DEF Leave, WorkersPop, TypeOK
  <2>2. notes' = <<>> /\ \A u \in Threads : pc'[u] # "popped"
    BY <1>4, <2>1 DEF Leave, TypeOK
  <2> QED BY <2>2 DEF QuietAfterDrain
<1>5. ASSUME NEW t \in Threads, Return(t) PROVE QuietAfterDrain'
  BY <1>5 DEF Return, TypeOK, QuietAfterDrain
<1>6. ASSUME NEW t \in Threads,
             \/ StartWrite(t) \/ StartNotify(t) \/ Enter(t)
             \/ \E x \in Listeners : StartRegister(t, x) \/ StartDeregister(t, x)
             \/ LockTree(t) \/ LockNotes(t) \/ Walk(t) \/ Deliver(t) \/ Delivered(t)
      PROVE  QuietAfterDrain'
  BY <1>6 DEF StartWrite, StartNotify, Enter, StartRegister, StartDeregister, Start,
              LockTree, LockNotes, Walk, Deliver, Delivered, TypeOK, QuietAfterDrain
<1>7. CASE UNCHANGED vars
  BY <1>7 DEF vars, QuietAfterDrain
<1> QED BY <1>1, <1>2, <1>3, <1>4, <1>5, <1>6, <1>7 DEF Next, Step

\* With one thread that processes notifications, a listener that has been
\* deregistered and drained hears nothing more until it registers again,
\* whatever any number of threads write, register or notify meanwhile
\* (threadsafe_backend.cpp:73-93).
THEOREM QuietCorrect ==
  ASSUME \A u, v \in Workers : u = v
  PROVE  Spec => []QuietAfterDrain
<1>1. Init => IInv
  <2>1. Init => QuietAfterDrain
    BY DEF Init, QuietAfterDrain
  <2> QED BY <2>1, BaseInit DEF IInv
<1>2. IInv /\ [Next]_vars => IInv'
  BY BaseStep, QuietStep DEF IInv
<1>3. IInv => QuietAfterDrain
  BY DEF IInv
<1> QED BY <1>1, <1>2, <1>3, PTL DEF Spec
=============================================================================
