------------------------------- MODULE FileStore -------------------------------
(***************************************************************************)
(* FileBackend: a node is a directory, a .node file beside it and one      *)
(* content file per property, and every write is a sequence of steps on    *)
(* the disk.  Any of them may fail, and the program may stop between two.  *)
(* The watches and the listeners are left out.                             *)
(***************************************************************************)
EXTENDS Naturals, Sequences, FiniteSets, SequencesExt

CONSTANTS Labels,     \* label rules: sequences of names, names being
                      \* sequences of letters
          Infos,      \* the property infos, in the order of their text
          MaxVersion, \* max_version_sequence
          Requests,   \* the calls made: see Begin
          MaxCalls,   \* bound: calls in a behaviour
          MaxFaults,  \* bound: failures and crashes in a behaviour
          Absent,     \* no file, no node, no version expected
          Torn        \* a file opened for writing and not written

Versions == 0..(MaxVersion - 1)

ASSUME StoreAssumption ==
  /\ MaxVersion \in Nat \ {0}
  /\ \A l \in Labels : l # <<>> /\ \A i \in 1..Len(l) : SubSeq(l, 1, i) \in Labels

(* A property: [name, type, value]; an unnamed one has the name "".  Two   *)
(* properties have the same info when name and type agree.                 *)
Info(p) == [name |-> p.name, type |-> p.type]
InfoRank(i) == CHOOSE k \in 1..Len(Infos) : Infos[k] = i

(* The paths.  A label's files lie in its parent's directory.              *)
Parent(l) == Front(l)
Above(l) == {SubSeq(l, 1, i) : i \in 1..Len(l)}
Below(l) == {m \in Labels : m # l /\ IsPrefix(l, m)}
Siblings(l) == {m \in Labels : Parent(m) = Parent(l) /\ m # l}

VARIABLES
  dirs,      \* the labels whose directory exists
  nodeFile,  \* nodeFile[l]: the version in l's .node file, Torn or Absent
  content,   \* the content files: [label, order, name, type, value]
  kind,      \* the call under way: "upsert", "delete", "apply", or "none"
  queue,     \* the changes of the call not yet begun: [label, node]
  steps,     \* the disk steps of the change under way, in order
  success,   \* the result the call is going to return
  asked,     \* history: the changes of the call
  exact,     \* history: they met no leftovers
  trouble,   \* history: a failure the call does not look at
  calls, faults  \* the calls and the faults so far

disk == <<dirs, nodeFile, content>>
call == <<kind, queue, asked>>
vars == <<disk, call, steps, success, exact, trouble, calls, faults>>

--------------------------------------------------------------------------------
(* Mutant: no letter is compared.                                          *)
StartsAnyhow(m, l) == Parent(m) = Parent(l)

(* Names.  strncmp compares only as many letters as the node's name has.   *)
StartsWith(m, l) == Parent(m) = Parent(l) /\ IsPrefix(Last(l), Last(m))

(* readContentFileNames: in the parent's directory, every content file     *)
(* whose name begins with the node's name, sorted as text.                 *)
Matched(l) == {f \in content : StartsWith(f.label, l)}
TextOrder(f, g) ==
  \/ Len(Last(f.label)) < Len(Last(g.label))
  \/ f.label = g.label /\ f.order < g.order
  \/ f.label = g.label /\ f.order = g.order /\ InfoRank(Info(f)) < InfoRank(Info(g))
readContentFileNames(l) == SetToSortSeq(Matched(l), TextOrder)

(* parsePropertyInfos: the text between the second and the last dot is the *)
(* name; where these are one dot the length wraps and the type is taken.   *)
Parsed(f) == [name |-> IF f.name = "" THEN f.type ELSE f.name, type |-> f.type]

(* What writeContentFiles leaves of a value: floating point numbers are    *)
(* formatted with six digits.                                              *)
Formatted(p) == IF p.type = "double" /\ p.value = "fine" THEN "coarse" ELSE p.value

(* readContentFiles: a property for each file, in the order of the names.   *)
readContentFiles(files) ==
  [i \in DOMAIN files |->
     [name |-> Parsed(files[i]).name, type |-> files[i].type, value |-> files[i].value]]

(* readNodeFromFiles; a .node file that does not parse reads as nothing.   *)
readNodeFromFiles(l) ==
  IF nodeFile[l] \notin Versions THEN Absent
  ELSE [version |-> nodeFile[l], props |-> readContentFiles(readContentFileNames(l))]

--------------------------------------------------------------------------------
(* The disk steps of one change.  A step says which file it is about and   *)
(* what the caller does when it fails: "return" false, "note" it in the    *)
(* result and go on, or "ignore" it; "leave" gives up this node only.      *)
ContentFile(l, i, p) == [label |-> l, order |-> i - 1, name |-> p.name, type |-> p.type, value |-> Torn]
Unlink(f, fails) == [do |-> "remove", file |-> f, fails |-> fails]

(* Mutant: properties the node no longer has stay.                         *)
removeNothing(l, props) == <<>>

(* upsertNode removes the files of the properties the node no longer has,  *)
(* under the name they would have at the place they were read from.        *)
removeMissing(l, props) ==
  LET old == readNodeFromFiles(l)
      gone == IF old = Absent THEN <<>>
              ELSE SelectSeq([i \in DOMAIN old.props |-> ContentFile(l, i, old.props[i])],
                             LAMBDA f : \A j \in DOMAIN props : Info(props[j]) # Info(f))
  IN [i \in DOMAIN gone |-> Unlink(gone[i], "return")]

(* writeNodeToFiles: the directories from the top, the .node file, the     *)
(* content files; each file is emptied when it is opened.                  *)
writeNodeToFiles(l, node, fails) ==
  [i \in DOMAIN l |-> [do |-> "mkdir", label |-> SubSeq(l, 1, i), fails |-> "ignore"]]
  \o <<[do |-> "openNode", label |-> l, fails |-> fails],
       [do |-> "writeNode", label |-> l, version |-> node.version, fails |-> "ignore"]>>
  \o FlattenSeq([i \in DOMAIN node.props |->
       LET f == ContentFile(l, i, node.props[i])
       IN <<[do |-> "open", file |-> f, fails |-> fails],
            [do |-> "write", file |-> [f EXCEPT !.value = Formatted(node.props[i])], fails |-> "ignore"]>>])

(* deleteNodeFiles: the directory with all it holds, then the content      *)
(* files, listed when their turn comes, then the .node file.               *)
deleteNodeFiles(l) ==
  <<[do |-> "erase", label |-> l, fails |-> "note"], [do |-> "list", label |-> l, fails |-> "note"],
    [do |-> "removeNode", label |-> l, fails |-> "note"]>>

Plan(k, c) == IF c.node = Absent THEN deleteNodeFiles(c.label)
              ELSE IF k = "upsert"
                   THEN removeMissing(c.label, c.node.props) \o writeNodeToFiles(c.label, c.node, "return")
                   ELSE writeNodeToFiles(c.label, c.node, "leave")

(* canPerformSubTransaction: the node has the version the caller expects   *)
(* (Absent for none) and the change's version follows it; of a child only  *)
(* the expectation is checked, and not at all for a deletion without one.  *)
canPerformSubTransaction(cs) ==
  LET old(c) == IF readNodeFromFiles(c.label) = Absent THEN Absent ELSE readNodeFromFiles(c.label).version
      parent == Head(cs)
  IN /\ old(parent) = parent.expect
     /\ parent.expect # Absent =>
          /\ parent.node # Absent
          /\ parent.node.version = (parent.expect + 1) % MaxVersion
          /\ \A c \in Range(Tail(cs)) :
               \/ old(c) = c.expect
               \/ c.expect = Absent /\ c.node = Absent

--------------------------------------------------------------------------------
(* History: nothing on the disk stands in the way of a change.  The files  *)
(* of the node are those of one earlier list of named properties or there  *)
(* are none, a property kept keeps its place, and no sibling's name goes   *)
(* on from the node's.  applyTransaction removes no property.              *)
Own(l) == {f \in content : f.label = l}
GoesOn(m, l) == Parent(m) = Parent(l) /\ IsPrefix(Last(l), Last(m))
Undamaged(l) ==
  /\ nodeFile[l] \in Versions \/ Own(l) = {}
  /\ {f.order : f \in Own(l)} = 0..(Cardinality(Own(l)) - 1)
  /\ \A f \in Own(l) : f.name # ""
Stable(l, props) ==
  \A f \in Own(l), j \in DOMAIN props : Info(f) = Info(props[j]) => f.order = j - 1
Clean(k, c) ==
  /\ \A m \in Siblings(c.label) : ~GoesOn(m, c.label) \/ Own(m) = {}
  /\ c.node # Absent =>
       /\ Undamaged(c.label) /\ Stable(c.label, c.node.props)
       /\ k = "apply" => \A f \in Own(c.label) : \E j \in DOMAIN c.node.props : Info(f) = Info(c.node.props[j])

Idle == /\ kind' = "none" /\ queue' = <<>> /\ steps' = <<>> /\ asked' = <<>>
        /\ success' = TRUE /\ exact' = TRUE /\ trouble' = FALSE

(* A call: upsertNode with a list of nodes, deleteNode, or                 *)
(* applyTransaction with one sub-transaction, which throws when it may not *)
(* be performed.                                                           *)
Begin(r) ==
  /\ kind = "none"
  /\ r.kind = "apply" => canPerformSubTransaction(r.changes)
  /\ calls < MaxCalls /\ calls' = calls + 1
  /\ kind' = r.kind /\ queue' = r.changes /\ asked' = r.changes
  /\ UNCHANGED <<disk, steps, success, exact, trouble, faults>>

BeginChange ==
  /\ kind # "none" /\ steps = <<>> /\ queue # <<>>
  /\ steps' = Plan(kind, Head(queue))
  /\ queue' = Tail(queue)
  /\ exact' = (exact /\ Clean(kind, Head(queue)))
  /\ UNCHANGED <<disk, kind, asked, success, trouble, calls, faults>>

Return ==
  /\ kind # "none" /\ steps = <<>> /\ queue = <<>>
  /\ Idle
  /\ UNCHANGED <<disk, calls, faults>>

--------------------------------------------------------------------------------
(* What a step does when the system call succeeds.  A file needs the       *)
(* directory it lies in; removing what is not there is no failure.         *)
HasDirectory(l) == Parent(l) = <<>> \/ Parent(l) \in dirs
SameFile(f, g) == f.label = g.label /\ f.order = g.order /\ Info(f) = Info(g)
Without(f) == {g \in content : ~SameFile(f, g)}

DoStep ==
  LET s == Head(steps)
  IN /\ steps # <<>>
     /\ \/ /\ s.do = "mkdir" /\ HasDirectory(s.label)
           /\ dirs' = dirs \cup {s.label}
           /\ UNCHANGED <<nodeFile, content>>
        \/ /\ s.do \in {"openNode", "writeNode", "removeNode"}
           /\ s.do # "removeNode" => HasDirectory(s.label)
           /\ nodeFile' = [nodeFile EXCEPT ![s.label] = CASE s.do = "openNode"  -> Torn
                                                          [] s.do = "writeNode" -> s.version
                                                          [] OTHER              -> Absent]
           /\ UNCHANGED <<dirs, content>>
        \/ /\ s.do \in {"open", "write"} /\ HasDirectory(s.file.label)
           /\ content' = Without(s.file) \cup {s.file}
           /\ UNCHANGED <<dirs, nodeFile>>
        \/ /\ s.do = "remove"
           /\ content' = Without(s.file)
           /\ UNCHANGED <<dirs, nodeFile>>
     /\ steps' = Tail(steps)
     /\ UNCHANGED <<call, success, exact, trouble, calls, faults>>

(* deleteDirectoryRecursively removes one entry after another, and the     *)
(* directory last.                                                         *)
EraseEntry ==
  LET s == Head(steps)
      l == s.label
  IN /\ steps # <<>> /\ s.do = "erase" /\ l \in dirs
     /\ \/ \E f \in {g \in content : g.label \in Below(l)} :
             content' = content \ {f} /\ UNCHANGED <<dirs, nodeFile>>
        \/ \E m \in {k \in Below(l) : nodeFile[k] # Absent} :
             nodeFile' = [nodeFile EXCEPT ![m] = Absent] /\ UNCHANGED <<dirs, content>>
        \/ \E m \in {l} \cup Below(l) :
             /\ m \in dirs /\ Below(m) \cap dirs = {}
             /\ \A k \in Below(m) : nodeFile[k] = Absent /\ Own(k) = {}
             /\ dirs' = dirs \ {m} /\ UNCHANGED <<nodeFile, content>>
     /\ UNCHANGED <<call, steps, success, exact, trouble, calls, faults>>

Erased ==
  /\ steps # <<>> /\ Head(steps).do = "erase" /\ Head(steps).label \notin dirs
  /\ steps' = Tail(steps)
  /\ UNCHANGED <<disk, call, success, exact, trouble, calls, faults>>

(* The content files are listed, each to be removed.                       *)
ListContent ==
  /\ steps # <<>> /\ Head(steps).do = "list"
  /\ LET files == readContentFileNames(Head(steps).label)
     IN steps' = [i \in DOMAIN files |-> Unlink(files[i], "note")] \o Tail(steps)
  /\ UNCHANGED <<disk, call, success, exact, trouble, calls, faults>>

(* A system call fails.  Writing to an open file fails without a word, and *)
(* so, for applyTransaction, does all else.  An erase also fails because   *)
(* is_dir_dirent returns no value: a file is opened as a directory, or a   *)
(* directory that is not empty removed as a file.                          *)
FailStep ==
  LET s == Head(steps)
  IN /\ steps # <<>> /\ s.do # "list"
     /\ s.do = "erase" => s.label \in dirs
     /\ CASE s.fails = "return" -> Idle
          [] s.fails = "leave"  -> steps' = <<>> /\ trouble' = TRUE /\ UNCHANGED <<call, success, exact>>
          [] s.fails = "note"   -> /\ steps' = Tail(steps) /\ success' = FALSE
                                   /\ trouble' = (trouble \/ kind = "apply") /\ UNCHANGED <<call, exact>>
          [] s.fails = "ignore" -> steps' = Tail(steps) /\ trouble' = TRUE /\ UNCHANGED <<call, success, exact>>
     /\ faults < MaxFaults /\ faults' = faults + 1
     /\ UNCHANGED <<disk, calls>>

(* The program stops; the disk is found as it was left.                    *)
Crash ==
  /\ kind # "none" /\ Idle
  /\ faults < MaxFaults /\ faults' = faults + 1
  /\ UNCHANGED <<disk, calls>>

Init ==
  /\ dirs = {} /\ nodeFile = [l \in Labels |-> Absent] /\ content = {}
  /\ kind = "none" /\ queue = <<>> /\ steps = <<>> /\ asked = <<>>
  /\ success = TRUE /\ exact = TRUE /\ trouble = FALSE
  /\ calls = 0 /\ faults = 0

Next == \/ \E r \in Requests : Begin(r)
        \/ BeginChange \/ DoStep \/ EraseEntry \/ Erased \/ ListContent \/ FailStep
        \/ Return \/ Crash

Spec == Init /\ [][Next]_vars

--------------------------------------------------------------------------------
(* The labels a change may touch: its own, those below it when it deletes, *)
(* and the siblings whose name goes on from the node's name, or the other  *)
(* way round, because readContentFileNames takes their files for the       *)
(* node's.                                                                 *)
Reach(c) == {c.label} \cup (IF c.node = Absent THEN Below(c.label) ELSE {})
            \cup {m \in Siblings(c.label) : GoesOn(m, c.label) \/ GoesOn(c.label, m)}

(* Whatever fails and wherever the program stops, what getNode returns     *)
(* changes only for labels in the reach of the call under way: the rest of *)
(* the tree is neither lost nor altered (upsertNode, deleteNodeFiles,      *)
(* performSubTransaction).                                                 *)
OthersUntouched ==
  [][\A l \in Labels : readNodeFromFiles(l)' # readNodeFromFiles(l)
                         => \E i \in DOMAIN asked : l \in Reach(asked[i])]_vars

(* A call that returns true, no failure having been passed over, has done  *)
(* what it was asked to.  A node written reads back with its version, and  *)
(* each of its properties with the value the formatting leaves of it; if   *)
(* no leftovers were in the way these are its only properties, in order.   *)
(* Of a node deleted and all below it nothing is left on the disk that a   *)
(* later write could bring back.                                           *)
Stored(l, node) ==
  LET read  == readNodeFromFiles(l)
      wrote == [i \in DOMAIN node.props |-> [node.props[i] EXCEPT !.value = Formatted(node.props[i]),
                                                                 !.name = Parsed(node.props[i]).name]]
  IN /\ read # Absent
     /\ read.version = node.version
     /\ Range(wrote) \subseteq Range(read.props)
     /\ exact => read.props = wrote
     /\ Above(l) \subseteq dirs
Gone(l) == \A m \in {l} \cup Below(l) : m \notin dirs /\ nodeFile[m] = Absent /\ Own(m) = {}
ReturnedTrueMeansDone ==
  [][Return /\ success /\ ~trouble =>
       \A i \in DOMAIN asked :
         LET c == asked[i]
         IN (\A j \in DOMAIN asked : j > i => c.label \notin Reach(asked[j]) /\ asked[j].label \notin Below(c.label))
            => IF c.node = Absent THEN Gone(c.label) ELSE Stored(c.label, c.node)]_vars
================================================================================
