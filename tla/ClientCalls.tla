------------------------------ MODULE ClientCalls ------------------------------
(***************************************************************************)
(* The blocking mode of Http3ClientBackend: user threads that queue a      *)
(* request and wait for "a response", and the updater thread of            *)
(* Http3ClientBackendUpdater that sends the requests, asks for the journal *)
(* and applies the answers.  The critical sections of handlerMutex_,       *)
(* backendMutex_ and blockingMutex_ are one step each; what the trees hold *)
(* is the subject of JournalSync and is left out here.                     *)
(***************************************************************************)
EXTENDS Naturals, Sequences, FiniteSets, Functions

CONSTANTS Users,      \* the threads that call the backend
          Updater,    \* the updater thread
          Scenarios   \* who makes which calls, and how many (a bound)

Threads == Users \cup {Updater}

(* The calls.  A fetch is getMutablePageTree, requestFullTreeSync or       *)
(* requestStaticNodeData; they differ in the member the answer is put into *)
(* and in how many writes follow with the server sync off.                 *)
Fetches == {"page", "full", "static"}
CallKinds == {"upsert", "apply", "listen", "process"} \cup Fetches

ASSUME CallsAssumption == /\ Updater \notin Users
                          /\ Scenarios \subseteq [may : [Users -> SUBSET CallKinds], max : Nat]

(* A request: the thread it was queued for, which of its requests it is    *)
(* and the member its answer is put into ("none" where the answer is only  *)
(* signalled).  The updater's own requests are the journal and, when the   *)
(* journal has a gap, the page tree marked isJournalRequest.               *)
Slots == {"boolResponse", "vectorTreeResponse", "chunksResponse", "none"}
Journal == [by |-> Updater, n |-> 0, slot |-> "journal"]
Sync    == [by |-> Updater, n |-> 0, slot |-> "sync"]
NoRequest == [by |-> Updater, n |-> 0, slot |-> "none"]
FetchSlot(k) == IF k = "static" THEN "chunksResponse" ELSE "vectorTreeResponse"
FetchWrites(k) == CASE k = "full" -> 2 [] k = "page" -> 1 [] OTHER -> 0

VARIABLES
  scenario,      \* the calls the users of this behaviour make; never changes
  pending,       \* pendingRequests_
  flying,        \* ongoingRequests_ whose answer may still come
  answered,      \* answers that reached the client and wait for the updater
  connected,     \* the connection; it is never made again once it is lost
  responseReady,
  slot,          \* slot[s]: the request whose answer the member s holds
  woken,         \* threads notified by responseCondition, not yet run
  serverSyncOn,
  crossed,       \* history: a thread turned the sync on in another's window
  notificationBlock, journalRequestWaiting,
  job,           \* the answer the updater is handling
  pc, call,      \* per thread: where it is and in which call
  todo,          \* per thread: its writes with the sync off still to come
  own,           \* per thread: the request it queued last
  alone          \* history: since then nobody else had a request out

wire    == <<scenario, pending, flying, answered, connected>>
waits   == <<responseReady, slot, woken>>
syncs   == <<serverSyncOn, crossed>>
journal == <<notificationBlock, journalRequestWaiting>>
vars    == <<wire, waits, syncs, journal, job, pc, call, todo, own, alone>>

--------------------------------------------------------------------------------
Signalling(r) == r.slot \in Slots /\ r # NoRequest
Outstanding == Range(pending) \cup flying \cup answered \cup {job}

(* Queueing a request for thread t whose answer goes to slot s.  Everyone  *)
(* else in a call is no longer alone; t is if nothing else is out.         *)
Push(t, s) ==
  LET r == [by |-> t, n |-> own[t].n + 1, slot |-> s]
  IN /\ pending' = Append(pending, r)
     /\ own' = [own EXCEPT ![t] = r]
     /\ alone' = [x \in Threads |->
                    /\ x = t
                    /\ \A q \in Outstanding : ~Signalling(q)
                    /\ \A y \in Threads \ {t} : pc[y] \notin {"reread", "queued", "waiting", "woken"}]
     /\ UNCHANGED <<scenario, flying, answered, connected>>
NoPush == UNCHANGED <<wire, own, alone>>

(* Thread t goes on; a call that ends is forgotten.                        *)
Go(t, where) == /\ pc' = [pc EXCEPT ![t] = where]
                /\ call' = [call EXCEPT ![t] = IF where = "idle" THEN "none" ELSE @]
Begin(u, k, where) == /\ pc' = [pc EXCEPT ![u] = where]
                      /\ call' = [call EXCEPT ![u] = IF where = "idle" THEN "none" ELSE k]

(* A user's call begins.  upsertNode, deleteNode, openTransactionLayer and *)
(* closeTransactionLayers write the cache and, the sync being off, return  *)
(* at once.                                                                *)
Upsert(u) ==
  /\ IF serverSyncOn THEN Push(u, "boolResponse") /\ Begin(u, "upsert", "queued")
                     ELSE NoPush /\ Begin(u, "upsert", "idle")
  /\ UNCHANGED <<notificationBlock, todo>>

(* applyTransaction looks at serverSyncOn_ again, without the lock, before *)
(* it waits.                                                               *)
Apply(u) ==
  /\ IF serverSyncOn THEN Push(u, "boolResponse") ELSE NoPush
  /\ Begin(u, "apply", "reread")
  /\ UNCHANGED <<notificationBlock, todo>>

(* registerNodeListener, deregisterNodeListener and notifyListeners queue  *)
(* a request and wait for nothing.                                         *)
Listen(u) ==
  /\ serverSyncOn /\ Push(u, "boolResponse")
  /\ UNCHANGED <<pc, call, notificationBlock, todo>>

ProcessNotifications(u) ==
  /\ notificationBlock' = TRUE
  /\ NoPush /\ Begin(u, "process", "marked")
  /\ UNCHANGED todo

Fetch(u, k) ==
  /\ Push(u, FetchSlot(k)) /\ Begin(u, k, "queued")
  /\ todo' = [todo EXCEPT ![u] = FetchWrites(k)]
  /\ UNCHANGED notificationBlock

Start(u) ==
  /\ pc[u] = "idle" /\ own[u].n < scenario.max
  /\ \/ "upsert"  \in scenario.may[u] /\ Upsert(u)
     \/ "apply"   \in scenario.may[u] /\ Apply(u)
     \/ "listen"  \in scenario.may[u] /\ Listen(u)
     \/ "process" \in scenario.may[u] /\ ProcessNotifications(u)
     \/ \E k \in Fetches \cap scenario.may[u] : Fetch(u, k)
  /\ UNCHANGED <<waits, syncs, journalRequestWaiting, job>>

Reread(u) ==
  /\ pc[u] = "reread"
  /\ Go(u, IF serverSyncOn THEN "queued" ELSE "idle")
  /\ alone' = [x \in Threads |-> alone[x] /\ (x = u \/ ~serverSyncOn)]
  /\ UNCHANGED <<wire, waits, syncs, journal, job, todo, own>>

(* processNotifications once it has run the cache's own.                   *)
QueueProcess(u) ==
  /\ pc[u] = "marked"
  /\ IF serverSyncOn THEN Push(u, "none") /\ Go(u, "queued") ELSE NoPush /\ Go(u, "idle")
  /\ UNCHANGED <<waits, syncs, journal, job, todo>>

--------------------------------------------------------------------------------
(* Mutant: the wait does not reset responseReady.                          *)
AwaitWithoutReset(t) ==
  /\ pc[t] = "queued"
  /\ Go(t, IF responseReady THEN "woken" ELSE "waiting")
  /\ UNCHANGED <<wire, waits, syncs, journal, job, todo, own, alone>>

(* awaitResponse resets responseReady and waits.                           *)
AwaitResponse(t) ==
  /\ pc[t] = "queued"
  /\ responseReady' = FALSE
  /\ Go(t, "waiting")
  /\ UNCHANGED <<wire, slot, woken, syncs, journal, job, todo, own, alone>>

(* The wait ends for a notified thread that finds responseReady set; if it *)
(* does not, it goes back to sleep.  A thread may also wake for no reason. *)
Wake(t) ==
  /\ pc[t] = "waiting" /\ t \in woken
  /\ woken' = woken \ {t}
  /\ Go(t, IF responseReady THEN "woken" ELSE "waiting")
  /\ UNCHANGED <<wire, responseReady, slot, syncs, journal, job, todo, own, alone>>

WakeSpuriously(t) ==
  /\ pc[t] = "waiting" /\ t \notin woken /\ responseReady
  /\ Go(t, "woken")
  /\ UNCHANGED <<wire, waits, syncs, journal, job, todo, own, alone>>

(* The member a thread reads: applyTransaction may wait for an answer      *)
(* though it queued nothing, the sync having come on in between.           *)
Awaited(t) == IF call[t] = "apply" THEN "boolResponse" ELSE own[t].slot

(* awaitBoolResponse and its siblings read and reset their member; a write *)
(* made in a window goes back to it, a fetch opens its window.             *)
Take(t) ==
  LET s == Awaited(t)
  IN /\ pc[t] = "woken"
     /\ slot' = [slot EXCEPT ![s] = NoRequest]
     /\ alone' = [alone EXCEPT ![t] = FALSE]
     /\ Go(t, CASE s = "none" -> "flush"
                [] s = "boolResponse" /\ call[t] \in Fetches \cup {"none"} -> "off"
                [] s \notin {"none", "boolResponse"} /\ call[t] \in Fetches -> "applying"
                [] OTHER -> "idle")
     /\ UNCHANGED <<wire, responseReady, woken, syncs, journal, job, todo, own>>

(* Mutant: the window opens without turning the sync off.                  *)
DisableForgotten(t) ==
  /\ pc[t] = "applying"
  /\ Go(t, "off")
  /\ UNCHANGED <<wire, waits, syncs, journal, job, todo, own, alone>>

(* disableServerSync ... upsertNode ... enableServerSync: the window in    *)
(* which a fetch or the updater writes an answer into the cache.           *)
DisableServerSync(t) ==
  /\ pc[t] = "applying"
  /\ serverSyncOn' = FALSE
  /\ Go(t, "off")
  /\ UNCHANGED <<wire, waits, crossed, journal, job, todo, own, alone>>

(* A write that finds the sync on is sent to the server and waited for.    *)
WriteInWindow(t) ==
  /\ pc[t] = "off" /\ todo[t] > 0
  /\ todo' = [todo EXCEPT ![t] = @ - 1]
  /\ IF serverSyncOn THEN Push(t, "boolResponse") /\ Go(t, "queued")
                     ELSE NoPush /\ Go(t, "off")
  /\ UNCHANGED <<waits, syncs, journal, job>>

EnableServerSync(t) ==
  /\ pc[t] = "off" /\ todo[t] = 0
  /\ serverSyncOn' = TRUE
  /\ crossed' = (crossed \/ \E x \in Threads \ {t} : pc[x] = "off")
  /\ Go(t, IF t = Updater THEN "applied" ELSE "idle")
  /\ UNCHANGED <<wire, waits, journal, job, todo, own, alone>>

(* processNotifications then waits for the journal, for a second one when  *)
(* a journal request is out that may have been answered too early.         *)
Flush(u) ==
  /\ pc[u] = "flush"
  /\ Go(u, IF journalRequestWaiting THEN "outwait" ELSE "lastwait")
  /\ UNCHANGED <<wire, waits, syncs, journal, job, todo, own, alone>>

Outwait(u) ==
  /\ pc[u] = "outwait" /\ ~notificationBlock
  /\ notificationBlock' = TRUE
  /\ Go(u, "lastwait")
  /\ UNCHANGED <<wire, waits, syncs, journalRequestWaiting, job, todo, own, alone>>

Flushed(u) ==
  /\ pc[u] = "lastwait" /\ ~notificationBlock
  /\ Go(u, "idle")
  /\ UNCHANGED <<wire, waits, syncs, journal, job, todo, own, alone>>

--------------------------------------------------------------------------------
(* The updater thread.  maintainRequestHandlers sends one pending request  *)
(* and, when none is out and its time has come, a journal request.         *)
SendRequest ==
  /\ pc[Updater] = "loop" /\ pending # <<>>
  /\ pending' = Tail(pending)
  /\ flying' = flying \cup (IF connected THEN {Head(pending)} ELSE {})
  /\ UNCHANGED <<scenario, answered, connected, waits, syncs, journal, job, pc, call, todo, own, alone>>

SendJournal ==
  /\ pc[Updater] = "loop" /\ ~journalRequestWaiting
  /\ journalRequestWaiting' = TRUE
  /\ flying' = flying \cup (IF connected THEN {Journal} ELSE {})
  /\ UNCHANGED <<scenario, pending, answered, connected, waits, syncs, notificationBlock, job, pc, call, todo, own, alone>>

(* processRequestStream runs the handler of an answer.  That of a user's   *)
(* request is stored under handlerMutex_; the signal follows.              *)
StoreResponse(r) ==
  /\ Signalling(r)
  /\ slot' = [slot EXCEPT ![r.slot] = r]
  /\ Go(Updater, "signal")
  /\ UNCHANGED <<pending, todo>>

(* The journal: with a gap the page tree is asked for, otherwise its       *)
(* notifications, if it has any, are applied.  The page tree so asked for  *)
(* is applied and signals nobody.                                          *)
ApplyJournal(r) ==
  /\ r \in {Journal, Sync}
  /\ \/ /\ r = Journal /\ Sync \notin Outstanding
        /\ pending' = Append(pending, Sync)
        /\ Go(Updater, "applied") /\ UNCHANGED todo
     \/ /\ r = Journal
        /\ Go(Updater, "applied") /\ UNCHANGED <<pending, todo>>
     \/ /\ Go(Updater, "applying")
        /\ todo' = [todo EXCEPT ![Updater] = 1]
        /\ UNCHANGED pending
  /\ UNCHANGED slot

ProcessHTTP3Response(r) ==
  /\ pc[Updater] = "loop" /\ r \in answered
  /\ answered' = answered \ {r}
  /\ job' = r
  /\ StoreResponse(r) \/ ApplyJournal(r)
  /\ UNCHANGED <<scenario, flying, connected, responseReady, woken, syncs, journal, own, alone>>

(* responseSignal: notify_one wakes one of the sleeping threads.           *)
ResponseSignal ==
  LET sleeping == {t \in Threads : pc[t] = "waiting"} \ woken
  IN /\ pc[Updater] = "signal"
     /\ responseReady' = TRUE
     /\ \/ sleeping = {} /\ UNCHANGED woken
        \/ \E t \in sleeping : woken' = woken \cup {t}
     /\ job' = NoRequest
     /\ Go(Updater, "loop")
     /\ UNCHANGED <<wire, slot, syncs, journal, todo, own, alone>>

(* updateLastNotification and the branches before it clear the block; the  *)
(* handler of a journal then calls setJournalRequestComplete.              *)
ClearBlock ==
  /\ pc[Updater] = "applied"
  /\ notificationBlock' = FALSE
  /\ Go(Updater, "complete")
  /\ UNCHANGED <<wire, waits, syncs, journalRequestWaiting, job, todo, own, alone>>

(* Mutant: journalRequestWaiting_ is not reset.                            *)
CompleteForgotten ==
  /\ pc[Updater] = "complete"
  /\ job' = NoRequest
  /\ Go(Updater, "loop")
  /\ UNCHANGED <<wire, waits, syncs, journal, todo, own, alone>>

SetJournalRequestComplete ==
  /\ pc[Updater] = "complete"
  /\ journalRequestWaiting' = (journalRequestWaiting /\ job # Journal)
  /\ job' = NoRequest
  /\ Go(Updater, "loop")
  /\ UNCHANGED <<wire, waits, syncs, notificationBlock, todo, own, alone>>

(* The server, and the connection to it.                                   *)
Answer(r) ==
  /\ connected /\ r \in flying
  /\ flying' = flying \ {r}
  /\ answered' = answered \cup {r}
  /\ UNCHANGED <<scenario, pending, connected, waits, syncs, journal, job, pc, call, todo, own, alone>>

Lose ==
  /\ connected /\ connected' = FALSE
  /\ flying' = {}
  /\ UNCHANGED <<scenario, pending, answered, waits, syncs, journal, job, pc, call, todo, own, alone>>

--------------------------------------------------------------------------------
Init ==
  /\ scenario \in Scenarios
  /\ pending = <<>> /\ flying = {} /\ answered = {} /\ connected = TRUE
  /\ responseReady = FALSE /\ slot = [s \in Slots |-> NoRequest] /\ woken = {}
  /\ serverSyncOn = TRUE /\ crossed = FALSE
  /\ notificationBlock = FALSE /\ journalRequestWaiting = FALSE
  /\ job = NoRequest
  /\ pc = [t \in Threads |-> IF t = Updater THEN "loop" ELSE "idle"]
  /\ call = [t \in Threads |-> "none"]
  /\ todo = [t \in Threads |-> 0]
  /\ own = [t \in Threads |-> [NoRequest EXCEPT !.by = t]]
  /\ alone = [t \in Threads |-> FALSE]

(* The steps of a thread inside a call; the updater takes those of a       *)
(* window too.                                                             *)
InCall(t) == \/ AwaitResponse(t) \/ Wake(t) \/ Take(t)
             \/ DisableServerSync(t) \/ WriteInWindow(t) \/ EnableServerSync(t)
UserStep(u) == Reread(u) \/ QueueProcess(u) \/ Flush(u) \/ Outwait(u) \/ Flushed(u) \/ InCall(u)
Handling == ResponseSignal \/ ClearBlock \/ SetJournalRequestComplete \/ InCall(Updater)

Next == \/ \E u \in Users : Start(u) \/ UserStep(u)
        \/ \E t \in Threads : WakeSpuriously(t)
        \/ SendRequest \/ SendJournal
        \/ \E r \in answered : ProcessHTTP3Response(r)
        \/ Handling
        \/ \E r \in flying : Answer(r)
        \/ Lose

Spec == Init /\ [][Next]_vars

(* The threads run, the updater's loop comes round to each of its duties   *)
(* (SF: it is not in the loop while it handles an answer), its clock goes  *)
(* on so that a journal is due again and again, and while there is a       *)
(* connection every request is answered.                                   *)
By(t, r) == r.by = t /\ Signalling(r)
FairSpec ==
  /\ Spec
  /\ \A u \in Users : WF_vars(UserStep(u))
  /\ WF_vars(Handling)
  /\ SF_vars(SendRequest) /\ SF_vars(SendJournal)
  /\ \A t \in Threads : /\ SF_vars(\E r \in answered : By(t, r) /\ ProcessHTTP3Response(r))
                        /\ WF_vars(\E r \in flying : By(t, r) /\ Answer(r))
  /\ \A r \in {Journal, Sync} : SF_vars(ProcessHTTP3Response(r)) /\ WF_vars(Answer(r))

--------------------------------------------------------------------------------
(* A call that was alone, nobody else's request being out and nobody else  *)
(* waiting since it queued its own, is woken by the answer of its own      *)
(* request and returns that: neither the journal the updater keeps asking  *)
(* for nor what an earlier call left in responseReady and in the response  *)
(* members reaches it (awaitResponse, processHTTP3Response).               *)
AloneGetsOwnAnswer ==
  \A t \in Threads : alone[t] /\ pc[t] = "woken" => slot[Awaited(t)] = own[t]

(* The updater thread, which alone can end a wait, waits itself only if    *)
(* another thread turned the server sync on while the updater was writing  *)
(* an answer into the cache: otherwise the writes it makes for the journal *)
(* and for the page tree are not sent back to the server.                  *)
UpdaterWaitsOnlyIfCrossed == own[Updater].n > 0 => crossed

(* A call that is alone and waits before its answer has come is woken, and *)
(* processNotifications ends once it waits for the journal, while the      *)
(* connection lasts and the updater does not wait itself.  (A caller whose *)
(* answer came between queueing and waiting is promised nothing:           *)
(* awaitResponse has reset the flag that answer had set.)                  *)
Promised(u) == \/ pc[u] = "waiting" /\ alone[u] /\ own[u] \in Outstanding
               \/ pc[u] \in {"outwait", "lastwait"}
Excused(u) == ~connected \/ own[Updater].n > 0 \/ (pc[u] = "waiting" /\ ~alone[u])
PromisedCallsReturn ==
  \A u \in Users : Promised(u) ~> (Excused(u) \/ pc[u] \in {"woken", "idle"})
================================================================================
