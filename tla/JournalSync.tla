---------------------------- MODULE JournalSync ----------------------------
(***************************************************************************)
(* Journal replication between one Http3ServerRoute and the caches of its  *)
(* Http3ClientBackends.                                                    *)
(*                                                                         *)
(* The server keeps a bounded journal of numbered notifications; a client  *)
(* polls it with the last number it has seen, replays the answer into its  *)
(* local cache, and falls back to fetching the page of mutable nodes when  *)
(* the numbers show a gap.  Every request travels on a stream of its own,  *)
(* so requests and answers of one client overtake each other.              *)
(*                                                                         *)
(* The clients run in non-blocking mode and in the explicit work mode of   *)
(* http3_client_backend.h (one thread feathers its own calls with          *)
(* maintainRequestHandlers and processRequestStream), so a handler is      *)
(* atomic with respect to the user's calls.  Labels are flat: notification *)
(* of parents about children belongs to module SimpleBackend, and so do    *)
(* transactions.                                                           *)
(***************************************************************************)
EXTENDS Integers, Sequences

CONSTANTS
    Clients,            \* the Http3ClientBackend instances
    Labels,             \* label rules of the mutable nodes
    Values,             \* contents of a node
    Nothing,            \* fplus::nothing<TreeNode>()
    NoLabel,            \* the empty label of a tracking-only notification
    MaxJournalSize,     \* maxJournalSize_ of the route
    StreamIds,          \* bound: requests of one client in flight
    Workload,           \* the kinds of call the users of the clients make
    MaxOps,             \* bound: user calls in a behaviour
    MaxRestarts         \* bound: server restarts in a behaviour

ASSUME JournalAssumption ==
    /\ Nothing \notin Values
    /\ NoLabel \notin Labels
    /\ MaxJournalSize \in Nat \ {0}
    /\ Workload \subseteq {"upsert", "delete", "register", "deregister", "notify",
                            "process", "pageTree", "fullTree"}
    /\ MaxOps \in Nat
    /\ MaxRestarts \in Nat

VARIABLES
    tree,               \* server: contents of backend_
    listeningLabels,    \* server: keys of listeningLabels_
    mutablePage,        \* server: child names of the MutableNodes page
    journal,            \* server: journal_
    cache,              \* client: contents of localBackend_
    lastNotification,   \* client: lastNotification_.first
    journalWaiting,     \* client: journalRequestWaiting_
    pending,            \* client: pendingRequests_
    streams,            \* ongoing requests and their answers, per client
    ops, restarts,      \* how much of the bounds is used up
    log                 \* history: every notification since the server started

serverVars == <<tree, listeningLabels, mutablePage, journal, log>>
clientVars == <<cache, lastNotification, journalWaiting, pending>>
vars == <<serverVars, clientVars, streams, ops, restarts>>

-----------------------------------------------------------------------------
(* Data *)

Node == Values \union {Nothing}
NodeMap == [Labels -> Node]

Notification == [seq : Nat, label : Labels \union {NoLabel}, node : Node]

\* An entry that carries a sequence number and nothing else.
Mark(n) == [seq |-> n, label |-> NoLabel, node |-> Nothing]

Upsert(l, n)   == [type |-> "upsert", label |-> l, node |-> n]
Delete(l)      == [type |-> "delete", label |-> l]
Register(l)    == [type |-> "register", label |-> l]
Deregister(l)  == [type |-> "deregister", label |-> l]
NotifyOf(l, n) == [type |-> "notify", label |-> l, node |-> n]
Process        == [type |-> "process"]
\* Mutant: after a gap the client asks for the journal again.
AskAgain       == [type |-> "journal", last |-> 0]
GetPageTree    == [type |-> "pageTree"]
GetFullTree    == [type |-> "fullTree"]
GetJournal(n)  == [type |-> "journal", last |-> n]

\* The requests that wait in pendingRequests_; a journal request never does.
QueuedRequest ==
    [type : {"upsert"}, label : Labels, node : Values]
      \union [type : {"notify"}, label : Labels, node : Node]
      \union [type : {"delete", "register", "deregister"}, label : Labels]
      \union [type : {"process", "pageTree", "fullTree"}]

Request == QueuedRequest \union [type : {"journal"}, last : Nat]

NoRequest == [type |-> "none"]
NoNodes == [l \in Labels |-> Nothing]

\* A stream carries one request and then its answer: nodes or notifications.
Stream == [phase : {"idle", "sent", "answered"},
           request : Request \union {NoRequest},
           nodes : NodeMap,
           entries : Seq(Notification)]

Carrying(phase, request, nodes, entries) ==
    [phase |-> phase, request |-> request, nodes |-> nodes, entries |-> entries]

Idle == Carrying("idle", NoRequest, NoNodes, <<>>)
Started(request) == Carrying("sent", request, NoNodes, <<>>)

LastSeq(j) == j[Len(j)].seq

-----------------------------------------------------------------------------
(* The server route *)

InitialJournal == <<Mark(0)>>

\* Mutant: the journal is never trimmed.
NotifyUntrimmed(j, l, n) ==
    Append(j, [seq |-> LastSeq(j) + 1, label |-> l, node |-> n])

\* The callback registered for a listened label: number, append, drop the
\* oldest entry of an overfull journal.
Notify(j, l, n) ==
    LET longer == Append(j, [seq |-> LastSeq(j) + 1, label |-> l, node |-> n])
    IN  IF Len(longer) > MaxJournalSize THEN Tail(longer) ELSE longer

\* Mutant: a deletion reaches no listener.
AnnouncePresent(l, n) ==
    IF l \in listeningLabels /\ n # Nothing
      THEN /\ journal' = Notify(journal, l, n)
           /\ log' = Append(log, [label |-> l, node |-> n])
      ELSE UNCHANGED <<journal, log>>

\* backend_.notifyListeners, as far as the route listens to the label itself.
Announce(l, n) ==
    IF l \in listeningLabels
      THEN /\ journal' = Notify(journal, l, n)
           /\ log' = Append(log, [label |-> l, node |-> n])
      ELSE UNCHANGED <<journal, log>>

\* backend_.upsertNode / deleteNode, which notify before they return.
ServerStore(l, n) ==
    /\ tree' = [tree EXCEPT ![l] = n]
    /\ Announce(l, n)
    /\ UNCHANGED <<listeningLabels, mutablePage>>

WrongJournalSequence(j) == <<Mark(0), Mark(2), Mark(LastSeq(j))>>

\* std::lower_bound over the journal.
LowerBound(j, n) ==
    CHOOSE k \in 1..Len(j) + 1 :
        /\ \A i \in 1..k - 1 : j[i].seq < n
        /\ k <= Len(j) => j[k].seq >= n

\* Mutant: a position older than the journal is answered with what is left.
JournalReplyFromOldest(j, n) ==
    LET it == LowerBound(j, n)
    IN  IF it = Len(j) + 1 /\ n # LastSeq(j)
          THEN WrongJournalSequence(j)
          ELSE SubSeq(j, it, Len(j))

\* The journal branch of buildResponseChunks: the entries from position n on, or
\* three entries with a hole between them when the journal does not hold n.
JournalReply(j, n) ==
    LET it == LowerBound(j, n)
    IN  IF \/ it = Len(j) + 1 /\ n # LastSeq(j)
           \/ n < j[1].seq
          THEN WrongJournalSequence(j)
          ELSE SubSeq(j, it, Len(j))

Present(nodes, ls) == [l \in Labels |-> IF l \in ls THEN nodes[l] ELSE Nothing]

Answer(c, i, nodes, entries) ==
    streams' = [streams EXCEPT
        ![c][i] = Carrying("answered", streams[c][i].request, nodes, entries)]

\* The branches of buildResponseChunks for the requests of these clients.
ServeUpsert(c, i) ==
    /\ streams[c][i].request.type = "upsert"
    /\ ServerStore(streams[c][i].request.label, streams[c][i].request.node)
    /\ Answer(c, i, NoNodes, <<>>)

ServeDelete(c, i) ==
    /\ streams[c][i].request.type = "delete"
    /\ ServerStore(streams[c][i].request.label, Nothing)
    /\ Answer(c, i, NoNodes, <<>>)

ServePageTree(c, i) ==
    /\ streams[c][i].request.type = "pageTree"
    /\ Answer(c, i, Present(tree, mutablePage), <<>>)
    /\ UNCHANGED serverVars

ServeFullTree(c, i) ==
    /\ streams[c][i].request.type = "fullTree"
    /\ Answer(c, i, tree, <<>>)
    /\ UNCHANGED serverVars

\* One listener of the route for all clients; a label listened to for the first
\* time is added to the page.
ServeRegister(c, i) ==
    /\ streams[c][i].request.type = "register"
    /\ listeningLabels' = listeningLabels \union {streams[c][i].request.label}
    /\ mutablePage' = IF streams[c][i].request.label \in listeningLabels
                        THEN mutablePage
                        ELSE mutablePage \union {streams[c][i].request.label}
    /\ Answer(c, i, NoNodes, <<>>)
    /\ UNCHANGED <<tree, journal, log>>

\* Deregistering is refused, because the listener serves all clients; the
\* backend has no notifications of its own to process.
ServeNothing(c, i) ==
    /\ streams[c][i].request.type \in {"deregister", "process"}
    /\ Answer(c, i, NoNodes, <<>>)
    /\ UNCHANGED serverVars

\* A notification without a change of the tree.
ServeNotify(c, i) ==
    /\ streams[c][i].request.type = "notify"
    /\ Announce(streams[c][i].request.label, streams[c][i].request.node)
    /\ Answer(c, i, NoNodes, <<>>)
    /\ UNCHANGED <<tree, listeningLabels, mutablePage>>

ServeJournal(c, i) ==
    /\ streams[c][i].request.type = "journal"
    /\ Answer(c, i, NoNodes, JournalReply(journal, streams[c][i].request.last))
    /\ UNCHANGED serverVars

\* processResponseStream with a complete request.
ServerHandle(c, i) ==
    /\ streams[c][i].phase = "sent"
    /\ \/ ServeUpsert(c, i) \/ ServeDelete(c, i) \/ ServePageTree(c, i)
       \/ ServeFullTree(c, i) \/ ServeRegister(c, i) \/ ServeNothing(c, i)
       \/ ServeNotify(c, i) \/ ServeJournal(c, i)
    /\ UNCHANGED <<clientVars, ops, restarts>>

\* The process is replaced.  The journal and the listeners are in memory only;
\* the tree and its pages survive with a file backend and are lost with a
\* memory backend.  Requests in flight are lost with the connection.
ServerRestart ==
    /\ restarts < MaxRestarts
    /\ restarts' = restarts + 1
    /\ journal' = InitialJournal
    /\ log' = <<>>
    /\ listeningLabels' = {}
    /\ \/ UNCHANGED <<tree, mutablePage>>
       \/ /\ tree' = [l \in Labels |-> Nothing]
          /\ mutablePage' = {}
    /\ streams' = [c \in Clients |-> [i \in StreamIds |-> Idle]]
    /\ UNCHANGED <<clientVars, ops>>

-----------------------------------------------------------------------------
(* The client backend and its updater *)

\* A user's call: the cache changes at once, the request is queued.
Call(c, newCache, request) ==
    /\ request.type \in Workload
    /\ ops < MaxOps
    /\ ops' = ops + 1
    /\ cache' = [cache EXCEPT ![c] = newCache]
    /\ pending' = [pending EXCEPT ![c] = Append(@, request)]
    /\ UNCHANGED <<serverVars, lastNotification, journalWaiting, streams,
                   restarts>>

UpsertNode(c, l, n) ==
    Call(c, [cache[c] EXCEPT ![l] = n], Upsert(l, n))

DeleteNode(c, l) ==
    Call(c, [cache[c] EXCEPT ![l] = Nothing], Delete(l))

RegisterNodeListener(c, l) ==
    Call(c, cache[c], Register(l))

DeregisterNodeListener(c, l) ==
    Call(c, cache[c], Deregister(l))

NotifyListeners(c, l, n) ==
    Call(c, cache[c], NotifyOf(l, n))

ProcessNotifications(c) ==
    Call(c, cache[c], Process)

GetMutablePageTree(c) ==
    Call(c, cache[c], GetPageTree)

RequestFullTreeSync(c) ==
    Call(c, cache[c], GetFullTree)

\* maintainRequestHandlers for one backend: at most one queued request is given
\* a stream; a journal request is added when one is due and none is waiting.
MaintainRequestHandlers(c, due) ==
    /\ \/ /\ pending[c] # <<>>
          /\ ~due
          /\ \E i \in StreamIds :
               /\ streams[c][i].phase = "idle"
               /\ streams' =
                    [streams EXCEPT ![c][i] = Started(Head(pending[c]))]
          /\ pending' = [pending EXCEPT ![c] = Tail(@)]
          /\ UNCHANGED journalWaiting
       \/ /\ pending[c] = <<>>
          /\ due
          /\ ~journalWaiting[c]
          /\ \E i \in StreamIds :
               /\ streams[c][i].phase = "idle"
               /\ streams' = [streams EXCEPT
                    ![c][i] = Started(GetJournal(lastNotification[c]))]
          /\ journalWaiting' = [journalWaiting EXCEPT ![c] = TRUE]
          /\ UNCHANGED pending
       \/ /\ pending[c] # <<>>
          /\ due
          /\ ~journalWaiting[c]
          /\ \E i, k \in StreamIds :
               /\ i # k
               /\ streams[c][i].phase = "idle"
               /\ streams[c][k].phase = "idle"
               /\ streams' = [streams EXCEPT
                    ![c][i] = Started(Head(pending[c])),
                    ![c][k] = Started(GetJournal(lastNotification[c]))]
          /\ pending' = [pending EXCEPT ![c] = Tail(@)]
          /\ journalWaiting' = [journalWaiting EXCEPT ![c] = TRUE]
    /\ UNCHANGED <<serverVars, cache, lastNotification, ops, restarts>>

\* Mutant: only the first entry of an answer is compared.
GapBeforeAnswer(es, last) == last < es[1].seq

\* The numbers of an answer do not continue the ones the client has.
NotificationGap(es, last) ==
    \/ last < es[1].seq
    \/ \E k \in 2..Len(es) : es[k].seq > es[k - 1].seq + 1

\* Mutant: the oldest entry for a label wins.
ReplayOldest(nodes, es, last) ==
    [l \in Labels |->
        LET hits == {k \in 1..Len(es) : es[k].seq > last /\ es[k].label = l}
        IN  IF hits = {} THEN nodes[l]
            ELSE es[CHOOSE k \in hits : \A m \in hits : k <= m].node]

\* processOneNotification for every entry newer than last, in order: the last
\* one for a label wins, entries without a label change nothing.
Replay(nodes, es, last) ==
    [l \in Labels |->
        LET hits == {k \in 1..Len(es) : es[k].seq > last /\ es[k].label = l}
        IN  IF hits = {} THEN nodes[l]
            ELSE es[CHOOSE k \in hits : \A m \in hits : m <= k].node]

\* upsertNode of the nodes of a page with the server sync off.
Overlay(nodes, page) ==
    [l \in Labels |-> IF page[l] = Nothing THEN nodes[l] ELSE page[l]]

\* Mutant: the flag of the waiting request is not taken back.
JournalRequestNeverComplete(c) == UNCHANGED journalWaiting

SetJournalRequestComplete(c) ==
    journalWaiting' = [journalWaiting EXCEPT ![c] = FALSE]

\* processHTTP3Response of a complete journal answer, then
\* setJournalRequestComplete and the release of the stream.
ProcessJournalResponse(c, i) ==
    LET es == streams[c][i].entries
        gap == NotificationGap(es, lastNotification[c])
    IN  /\ streams[c][i].phase = "answered"
        /\ streams[c][i].request.type = "journal"
        /\ cache' = IF gap THEN cache
                    ELSE [cache EXCEPT
                            ![c] = Replay(@, es, lastNotification[c])]
        /\ pending' = IF gap
                        THEN [pending EXCEPT ![c] = Append(@, GetPageTree)]
                        ELSE pending
        /\ lastNotification' = [lastNotification EXCEPT ![c] = LastSeq(es)]
        /\ SetJournalRequestComplete(c)
        /\ streams' = [streams EXCEPT ![c][i] = Idle]
        /\ UNCHANGED <<serverVars, ops, restarts>>

\* Answers to the other requests: only the ones that carry nodes change the
\* cache.  requestFullTreeSync deletes label "" first, which no node has.
ProcessOtherResponse(c, i) ==
    /\ streams[c][i].phase = "answered"
    /\ streams[c][i].request.type # "journal"
    /\ cache' = IF streams[c][i].request.type \in {"pageTree", "fullTree"}
                  THEN [cache EXCEPT ![c] = Overlay(@, streams[c][i].nodes)]
                  ELSE cache
    /\ streams' = [streams EXCEPT ![c][i] = Idle]
    /\ UNCHANGED <<serverVars, lastNotification, journalWaiting, pending, ops,
                   restarts>>

-----------------------------------------------------------------------------
Init ==
    /\ tree \in NodeMap
    /\ listeningLabels = {}
    /\ mutablePage = {}
    /\ journal = InitialJournal
    /\ log = <<>>
    /\ cache = [c \in Clients |-> [l \in Labels |-> Nothing]]
    /\ lastNotification = [c \in Clients |-> 0]
    /\ journalWaiting = [c \in Clients |-> FALSE]
    /\ pending = [c \in Clients |-> <<>>]
    /\ streams = [c \in Clients |-> [i \in StreamIds |-> Idle]]
    /\ ops = 0
    /\ restarts = 0

UserCall(c) ==
    \/ \E l \in Labels :
         \/ \E n \in Values : UpsertNode(c, l, n)
         \/ DeleteNode(c, l)
         \/ RegisterNodeListener(c, l)
         \/ DeregisterNodeListener(c, l)
         \/ \E n \in Node : NotifyListeners(c, l, n)
    \/ ProcessNotifications(c)
    \/ GetMutablePageTree(c)
    \/ RequestFullTreeSync(c)

Next ==
    \/ \E c \in Clients :
         \/ UserCall(c)
         \/ \E due \in BOOLEAN : MaintainRequestHandlers(c, due)
         \/ \E i \in StreamIds :
              \/ ServerHandle(c, i)
              \/ ProcessJournalResponse(c, i)
              \/ ProcessOtherResponse(c, i)
    \/ ServerRestart

Spec == Init /\ [][Next]_vars

\* The updater thread and the server thread loop for ever, and every stream
\* QUIC keeps open is delivered.
Fairness ==
    \A c \in Clients :
        /\ WF_vars(MaintainRequestHandlers(c, FALSE))
        /\ WF_vars(MaintainRequestHandlers(c, TRUE))
        /\ \A i \in StreamIds :
             /\ WF_vars(ServerHandle(c, i))
             /\ WF_vars(ProcessJournalResponse(c, i))
             /\ WF_vars(ProcessOtherResponse(c, i))

FairSpec == Spec /\ Fairness

-----------------------------------------------------------------------------
(* Properties *)

TypeOK ==
    /\ tree \in NodeMap
    /\ listeningLabels \in SUBSET Labels
    /\ mutablePage \in SUBSET Labels
    /\ journal \in Seq(Notification)
    /\ log \in Seq([label : Labels, node : Node])
    /\ cache \in [Clients -> NodeMap]
    /\ lastNotification \in [Clients -> Nat]
    /\ journalWaiting \in [Clients -> BOOLEAN]
    /\ pending \in [Clients -> Seq(QueuedRequest)]
    /\ streams \in [Clients -> [StreamIds -> Stream]]
    /\ ops \in 0..MaxOps
    /\ restarts \in 0..MaxRestarts

\* The journal is the unbroken, bounded tail of everything the server has
\* notified since it started, entry by entry (http3_server.cpp:121-130).
JournalIsTailOfLog ==
    /\ Len(journal) \in 1..MaxJournalSize
    /\ LastSeq(journal) = Len(log)
    /\ \A k \in 1..Len(journal) :
         /\ journal[k].seq = Len(log) - (Len(journal) - k)
         /\ journal[k].seq > 0 =>
              /\ journal[k].label = log[journal[k].seq].label
              /\ journal[k].node = log[journal[k].seq].node

\* es is the part of the log lg that continues position n: the entry numbered n
\* itself and every later one at the time of the answer, without holes.
ContinuesAt(lg, es, n) ==
    /\ Len(es) >= 1
    /\ n + Len(es) - 1 <= Len(lg)
    /\ \A k \in 1..Len(es) :
         /\ es[k].seq = n + k - 1
         /\ es[k].seq > 0 =>
              /\ es[k].label = lg[es[k].seq].label
              /\ es[k].node = lg[es[k].seq].node

\* es has the shape of WrongJournalSequence.
SaysWrong(es) == Len(es) = 3 /\ es[1].seq = 0 /\ es[2].seq = 2

\* A client never has two journal requests under way, the one it has asks for
\* its current position, and the answer in flight either continues exactly
\* there or says that it cannot (http3_client_backend.cpp:711-726,
\* http3_server.cpp:177-213): a delayed answer is never stale.
JournalAnswerFitsPosition ==
    \A c \in Clients : \A i \in StreamIds :
        streams[c][i].request.type = "journal" =>
            /\ journalWaiting[c]
            /\ streams[c][i].request.last = lastNotification[c]
            /\ \A k \in StreamIds :
                 streams[c][k].request.type = "journal" => k = i
            /\ streams[c][i].phase = "answered" =>
                 \/ ContinuesAt(log, streams[c][i].entries, lastNotification[c])
                 \/ SaysWrong(streams[c][i].entries)

\* What a cache becomes when the notifications a+1 .. b of the server reach it
\* exactly once and in order.
AfterLog(nodes, a, b) ==
    [l \in Labels |->
        LET hits == {k \in a + 1 .. b : log[k].label = l}
        IN  IF hits = {} THEN nodes[l]
            ELSE log[CHOOSE k \in hits : \A m \in hits : m <= k].node]

\* When a client moves its position in the journal it has either applied every
\* notification in between, once and in order, or it has queued a request for
\* the mutable page: no notification is ever skipped silently, however long
\* answers are delayed and however often the journal overflows or restarts
\* (http3_client_backend.cpp:517-553, http3_server.cpp:177-213).
NoNotificationSkipped ==
    [][\A c \in Clients :
         lastNotification'[c] # lastNotification[c] =>
            \/ pending'[c] = Append(pending[c], GetPageTree)
            \/ /\ lastNotification'[c] \in lastNotification[c] + 1 .. Len(log)
               /\ cache'[c] = AfterLog(cache[c], lastNotification[c],
                                       lastNotification'[c])]_vars

\* The client has nothing left to send or to receive and has seen the whole
\* journal.
Quiet(c) ==
    /\ pending[c] = <<>>
    /\ \A i \in StreamIds : streams[c][i].phase = "idle"
    /\ lastNotification[c] = Len(log)

Notified(l) == \E k \in 1..Len(log) : log[k].label = l

\* A client that has caught up with the journal holds the server's node for
\* every label the server has notified and still has.
LiveNodesCurrent ==
    \A c \in Clients : Quiet(c) =>
        \A l \in Labels :
            Notified(l) /\ tree[l] # Nothing => cache[c][l] = tree[l]

\* A client that has caught up with the journal holds no node the server has
\* notified as deleted.
DeletedNodesGone ==
    \A c \in Clients : Quiet(c) =>
        \A l \in Labels :
            Notified(l) /\ tree[l] = Nothing => cache[c][l] = Nothing

\* Once the users stop calling, every client ends up, for good, with the
\* server's view of every notified label.
EventuallyCurrent ==
    \A c \in Clients :
        <>[](\A l \in Labels : Notified(l) => cache[c][l] = tree[l])
=============================================================================
