---------------------------- MODULE MCStreamQueues ----------------------------
(* Instances of the transport queues for TLC. *)
EXTENDS StreamQueues

(* A node to be written: a count and a text of one chunk each; the answer, a
   node with contents.  The other instance has the shortest messages. *)
UpsertOneNode == Message("nodes", <<Node(8, 0)>>)
NodeWithContents == Message("node", Node(8, 1))
Label == Message("label", <<>>)
NothingThere == Message("node", NoNode)

(* State constraint: what the other threads do after a thread of the client has
   ended for good is not explored. *)
BothThreadsRun == cw.pc # "searching" /\ cio.pc # "dead"
===============================================================================
