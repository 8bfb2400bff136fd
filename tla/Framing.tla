-------------------------------- MODULE Framing --------------------------------
(***************************************************************************)
(* How the requests and answers of a backend are cut into chunks, and how   *)
(* the receiver, who gets them one at a time, tells that a message is       *)
(* whole.  No chunk says how many follow: the number is worked out from     *)
(* lengths and counts found in the chunks that are there.  A text is its    *)
(* length, the contents of a node are the number of chunks they fill.       *)
(***************************************************************************)
EXTENDS Integers, Sequences, SequencesExt, FiniteSetsExt

CONSTANTS MaxPayload,   \* bytes of a chunk after its header
          Texts,        \* lengths of the text of a node, without the count
          LabelTexts,   \* lengths of the text in front of a node
          MaxContents   \* bound: chunks of contents of a node

SizeT == 8           \* sizeof(size_t), in front of a text
CountDigits == 16    \* hexadecimal digits of the count, at the end of a node
NothingText == 7     \* the length of "Nothing"

ASSUME FramingAssumption ==
    /\ MaxPayload \in Nat /\ MaxPayload >= SizeT + CountDigits
    /\ Texts \subseteq Nat /\ LabelTexts \subseteq Nat /\ MaxContents \in Nat

(* What the decoders look at in a chunk: its size, the number in its first
   bytes, the number in its last bytes.  Where a text stands in their place the
   bytes read as a length make one that no message reaches. *)
NoNumber == -1
Piece(size, length, count) == [size |-> size, length |-> length, count |-> count]

(* Results of the decoders besides the index after the last chunk used. *)
Nothing == 0
Throws == -1

-------------------------------------------------------------------------------
(* Encoders *)

(* A label fits one chunk; those that hold a number are read again. *)
encode_label(count) == <<Piece(1, NoNumber, count)>>

(* The first chunk starts with the length of the text. *)
encode_long_string(len, count) ==
    LET first == Min({MaxPayload, len + SizeT})
        rest == len - (first - SizeT)
        more == (rest + MaxPayload - 1) \div MaxPayload
    IN  [k \in 1 .. 1 + more |->
            Piece(IF k = 1 THEN first ELSE Min({MaxPayload, rest - (k - 2) * MaxPayload}),
                  IF k = 1 THEN len ELSE NoNumber,
                  IF k = 1 + more THEN count ELSE NoNumber)]

NoNode == [text |-> NothingText, contents |-> 0, just |-> FALSE]
Node(text, contents) == [text |-> text, contents |-> contents, just |-> TRUE]

(* The text of a node ends with the number of chunks its contents take. *)
encode_MaybeTreeNode(node) ==
    IF ~node.just THEN encode_long_string(NothingText, NoNumber)
    ELSE encode_long_string(node.text + CountDigits, node.contents)
         \o [k \in 1 .. node.contents |-> Piece(MaxPayload, NoNumber, NoNumber)]

encode_VectorTreeNode(nodes) ==
    encode_label(Len(nodes)) \o FlattenSeq([k \in DOMAIN nodes |-> encode_MaybeTreeNode(nodes[k])])

encode_SequentialNotification(n) ==
    encode_long_string(n.label, NoNumber) \o encode_MaybeTreeNode(n.node)

encode_VectorSequentialNotification(s) ==
    encode_label(Len(s)) \o FlattenSeq([k \in DOMAIN s |-> encode_SequentialNotification(s[k])])

encode_NewNodeVersion(v) ==
    encode_long_string(v.label, NoNumber) \o encode_MaybeTreeNode(v.node)

encode_SubTransaction(s) ==
    encode_label(Len(s.descendants)) \o encode_NewNodeVersion(s.main)
    \o FlattenSeq([k \in DOMAIN s.descendants |-> encode_NewNodeVersion(s.descendants[k])])

encode_Transaction(t) ==
    encode_label(Len(t)) \o FlattenSeq([k \in DOMAIN t |-> encode_SubTransaction(t[k])])

-------------------------------------------------------------------------------
(* Is the message there?  enc are the chunks so far, start how many of them
   belong to what was decoded before. *)

(* n things one after the other, each tested by Can. *)
Each(Can(_, _), n, start, enc) ==
    FoldLeft(LAMBDA at, k : IF at > 0 THEN Can(at, enc) ELSE at, start, [k \in 1 .. n |-> k])

Counted(Can(_, _), start, enc) ==
    IF start >= Len(enc) THEN Nothing ELSE Each(Can, enc[start + 1].count, start + 1, enc)

can_decode_label(start, enc) == IF start >= Len(enc) THEN Nothing ELSE start + 1

(* Mutant: the length in front of the text is not counted. *)
can_decode_without_length(start, enc) ==
    IF start >= Len(enc) \/ enc[start + 1].length = NoNumber THEN Nothing
    ELSE LET more == (enc[start + 1].length - 1) \div MaxPayload
         IN  IF start + 1 + more > Len(enc) THEN Nothing ELSE start + 1 + more

can_decode_long_string(start, enc) ==
    IF start >= Len(enc) \/ enc[start + 1].length = NoNumber THEN Nothing
    ELSE LET len == enc[start + 1].length
             Offset(k) == len - (MaxPayload - SizeT) - k * MaxPayload
             more == Min({k \in 0 .. 1 + len \div MaxPayload : Offset(k) <= 0})
         IN  IF start + 1 + more > Len(enc) THEN Nothing ELSE start + 1 + more

(* The count is looked for in the last chunk of the text.  A chunk too small for
   it is taken for a text of its own, which it is only when it is "Nothing". *)
can_decode_MaybeTreeNode(start, enc) ==
    LET s == can_decode_long_string(start, enc)
    IN  CASE s = Nothing -> Nothing
          [] s > 0 /\ enc[s].size < CountDigits ->
                IF enc[s].length = NothingText THEN s ELSE Throws
          [] OTHER -> IF s + enc[s].count > Len(enc) THEN Nothing ELSE s + enc[s].count

can_decode_VectorTreeNode(start, enc) == Counted(can_decode_MaybeTreeNode, start, enc)

can_decode_SequentialNotification(start, enc) ==
    LET s == can_decode_long_string(start, enc)
    IN  IF s = Nothing THEN Nothing ELSE can_decode_MaybeTreeNode(s, enc)

can_decode_VectorSequentialNotification(start, enc) ==
    Counted(can_decode_SequentialNotification, start, enc)

(* Here the text in front of the node is tested as a label: one chunk. *)
can_decode_NewNodeVersion(start, enc) ==
    LET s == can_decode_label(start, enc)
    IN  IF s = Nothing THEN Nothing ELSE can_decode_MaybeTreeNode(s, enc)

can_decode_SubTransaction(start, enc) ==
    IF start >= Len(enc) THEN Nothing
    ELSE Each(can_decode_NewNodeVersion, 1 + enc[start + 1].count, start + 1, enc)

can_decode_Transaction(start, enc) == Counted(can_decode_SubTransaction, start, enc)

-------------------------------------------------------------------------------
(* Decoders, by the chunks they use; they run once the message is whole *)

decode_MaybeTreeNode(start, enc) ==
    LET s == can_decode_long_string(start, enc)
    IN  CASE s = Nothing -> Throws
          [] s > 0 /\ enc[start + 1].length = NothingText -> s
          [] OTHER -> s + enc[s].count

decode_VectorTreeNode(start, enc) == Counted(decode_MaybeTreeNode, start, enc)

decode_SequentialNotification(start, enc) ==
    IF can_decode_long_string(start, enc) # start + 1 THEN Throws
    ELSE decode_MaybeTreeNode(start + 1, enc)

decode_VectorSequentialNotification(start, enc) ==
    Counted(decode_SequentialNotification, start, enc)

decode_NewNodeVersion(start, enc) == decode_SequentialNotification(start, enc)

decode_SubTransaction(start, enc) ==
    Each(decode_NewNodeVersion, 1 + enc[start + 1].count, start + 1, enc)

decode_Transaction(start, enc) == Counted(decode_SubTransaction, start, enc)

-------------------------------------------------------------------------------
(* Messages: what each kind of request and answer carries *)

Message(type, body) == [type |-> type, body |-> body]

Encoded(m) ==
    CASE m.type = "label" -> encode_label(NoNumber)
      [] m.type = "node" -> encode_MaybeTreeNode(m.body)
      [] m.type = "nodes" -> encode_VectorTreeNode(m.body)
      [] m.type = "position" -> encode_SequentialNotification(m.body)
      [] m.type = "journal" -> encode_VectorSequentialNotification(m.body)
      [] m.type = "transaction" -> encode_Transaction(m.body)
      [] m.type = "notify" -> encode_label(NoNumber) \o encode_MaybeTreeNode(m.body)

(* The decoder pushRequestChunk and pushResponseChunk choose by the signal. *)
can_decode(type, enc) ==
    CASE type = "label" -> can_decode_label(0, enc)
      [] type = "node" -> can_decode_MaybeTreeNode(0, enc)
      [] type = "nodes" -> can_decode_VectorTreeNode(0, enc)
      [] type = "position" -> can_decode_SequentialNotification(0, enc)
      [] type = "journal" -> can_decode_VectorSequentialNotification(0, enc)
      [] type = "transaction" -> can_decode_Transaction(0, enc)
      [] type = "notify" -> can_decode_MaybeTreeNode(can_decode_label(0, enc), enc)

decode(type, enc) ==
    CASE type = "label" -> 1
      [] type = "node" -> decode_MaybeTreeNode(0, enc)
      [] type = "nodes" -> decode_VectorTreeNode(0, enc)
      [] type = "position" -> decode_SequentialNotification(0, enc)
      [] type = "journal" -> decode_VectorSequentialNotification(0, enc)
      [] type = "transaction" -> decode_Transaction(0, enc)
      [] type = "notify" -> decode_MaybeTreeNode(1, enc)

Nodes == {Node(text, n) : text \in Texts, n \in 0 .. MaxContents}
Changes == [label : LabelTexts, node : Nodes \cup {NoNode}]
SubTransactions == [main : Changes, descendants : SeqOf(Changes, 1)]

Messages ==
    {Message("label", <<>>)}
    \cup {Message(type, n) : type \in {"node", "notify"}, n \in Nodes \cup {NoNode}}
    \cup {Message("nodes", s) : s \in SeqOf(Nodes, 2)}
    \cup {Message("position", c) : c \in Changes}
    \cup {Message("journal", s) : s \in SeqOf(Changes, 2)}
    \cup {Message("transaction", t) : t \in SeqOf(SubTransactions, 1)}
    \cup {Message("transaction", [k \in 1 .. 2 |-> [main |-> s[k], descendants |-> <<>>]]) :
              s \in [1 .. 2 -> Changes]}

(* The texts the decoders are made for: the count of a node is not torn apart by
   the end of a chunk, and what stands in front of a node fits a chunk. *)
CountInOneChunk(node) ==
    LET e == encode_long_string(node.text + CountDigits, 0)
    IN  node.just => e[Len(e)].size >= CountDigits
LabelInOneChunk(c) == c.label + SizeT <= MaxPayload
FitsChange(c) == CountInOneChunk(c.node) /\ LabelInOneChunk(c)

Fits(m) ==
    CASE m.type = "label" -> TRUE
      [] m.type \in {"node", "notify"} -> CountInOneChunk(m.body)
      [] m.type = "nodes" -> \A k \in DOMAIN m.body : CountInOneChunk(m.body[k])
      [] m.type = "position" -> FitsChange(m.body)
      [] m.type = "journal" -> \A k \in DOMAIN m.body : FitsChange(m.body[k])
      [] m.type = "transaction" ->
            \A k \in DOMAIN m.body :
                /\ FitsChange(m.body[k].main)
                /\ \A j \in DOMAIN m.body[k].descendants : FitsChange(m.body[k].descendants[j])

(* The receiver takes a message for whole with its last chunk: never earlier,
   whatever the lengths of its texts, and at that chunk, using all of them and
   with nothing left for the decoder to throw at, when the message fits. *)
CompleteOnLastChunk ==
    \A m \in Messages :
        LET e == Encoded(m)
        IN  /\ \A n \in 0 .. Len(e) - 1 : can_decode(m.type, SubSeq(e, 1, n)) <= 0
            /\ Fits(m) => can_decode(m.type, e) = Len(e) /\ decode(m.type, e) = Len(e)
===============================================================================
