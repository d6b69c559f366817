---------------------------- MODULE StreamDecoding ----------------------------
(***************************************************************************)
(* A search result on its way into the page: the server's objects, chunks  *)
(* of any size, and the three generators that pull from each other,        *)
(* decodeBufferPairs, decodePathsVals and iterFoldTree of                  *)
(* utils/encoder/streamEncoding.ts, up to the loop of getRunData.ts.       *)
(*                                                                         *)
(* The nodes of the objects sent so far are numbered.  A node with a       *)
(* record has two frames on the wire, its path and its value; each of the  *)
(* generators is at some node.  A chunk's bytes are counted, not kept:     *)
(* which frame they belong to follows from the sizes.                      *)
(***************************************************************************)
EXTENDS StreamCodec, FiniteSets, SequencesExt

CONSTANTS
  Objects,    \* the runs and the progress reports the server may send
  MaxObjects, \* bound: objects in a result
  HeaderSize  \* bytes of the length before a frame: 4 in the code

\* An object has a key, a run's hash or the name of a report, and nodes, parents
\* before their children and these one after the other: their paths below the key,
\* and what is there.
IsObject(o) ==
  /\ o.key \in Name
  /\ o.paths \in Seq(Seq(Key)) /\ o.paths # <<>> /\ o.paths[1] = <<>>
  /\ o.tree \in [{o.paths[i] : i \in DOMAIN o.paths} -> {"object", "array", "leaf"}]
  /\ \A i, j \in DOMAIN o.paths : o.paths[i] = o.paths[j] => i = j
  /\ \A i \in 2..Len(o.paths) :
       LET parent == Front(o.paths[i])
           siblings == {Last(o.paths[j]) : j \in {k \in 2..(i - 1) : Front(o.paths[k]) = parent}}
       IN /\ o.paths[i] # <<>> /\ IsPrefix(parent, o.paths[i - 1])
          /\ o.tree[parent] # "leaf"
          /\ o.tree[parent] = "array" =>
               \E n \in 0..i : /\ Last(o.paths[i]) = <<"int", n>>
                              /\ siblings = {"int"} \X (0..(n - 1))

ASSUME StreamConstants ==
  /\ HeaderSize \in Nat \ {0} /\ MaxObjects \in Nat
  /\ \A o \in Objects : IsObject(o)

VARIABLES
  given,   \* the objects the server has sent, and after which node each begins
  nodes,   \* their nodes
  coming,  \* bytes not received yet
  pc,      \* which generator works, or waits, or how the stream has ended
  last,    \* the stream is over: what is there is handed on for the last time
  part,    \* decodeBufferPairs: "header" or "payload" of a frame is next
  half,    \* "path" or "value", the frame it belongs to
  have,    \* bytes in the buffer
  taken,   \* the node up to which both frames were taken
  decoded, \* decodePathsVals: the node it has decoded
  pieces,  \* pieces_state
  todo,    \* the nodes it yields, until iterFoldTree has folded them
  started, \* iterFoldTree: it has had the root
  firsts,  \* first_records: not folded before the next ones
  path,    \* its path
  tree,    \* the object it is building: its nodes by their paths
  objects  \* what getRunData has received

serverVars == <<given, nodes>>
bufferVars == <<part, half, have, taken>>
pathVars == <<decoded, pieces>>
foldVars == <<path, tree, objects>>
sdVars == <<serverVars, coming, pc, last, bufferVars, pathVars, todo, started, firsts, foldVars>>

-----------------------------------------------------------------------------
(* The server: unfold_tree and collect_streamable_data *)

NodesOf(o) ==
  [i \in DOMAIN o.paths |-> [keys |-> <<o.key>> \o o.paths[i], val |-> o.tree[o.paths[i]]]]

\* A container gets a record of its own if it is an array or empty.
Records(ns) ==
  {i \in DOMAIN ns : ~ /\ ns[i].val = "object"
                       /\ i < Len(ns) /\ IsStrictPrefix(ns[i].keys, ns[i + 1].keys)}

\* Sizes of frames: one byte for a key; a leaf's value has a byte more than a flag.
FrameSize(node, h) ==
  IF h = "path" THEN Len(node.keys) ELSE IF node.val = "leaf" THEN 2 ELSE 1

\* Numbered within their frames, the length before it included.
BytesOf(ns) ==
  UNION {{f} \X (1..(HeaderSize + FrameSize(ns[f[1]], f[2]))) : f \in Records(ns) \X {"path", "value"}}

Over == {"over", "corrupted", "failed", "refused"}

\* The next run or report; hashes and the numbers of reports differ.
Send ==
  /\ pc \notin Over /\ Len(given) < MaxObjects
  /\ \E o \in Objects :
       /\ \A i \in DOMAIN given : given[i].key # o.key
       /\ given' = Append(given, [key |-> o.key, tree |-> o.tree, from |-> Len(nodes)])
       /\ nodes' = nodes \o NodesOf(o)
       /\ coming' = coming + Cardinality(BytesOf(NodesOf(o)))
  /\ UNCHANGED <<pc, last, bufferVars, pathVars, todo, started, firsts, foldVars>>

\* What the page should make of it.
Sent == [i \in DOMAIN given |-> [key |-> given[i].key, tree |-> given[i].tree]]

-----------------------------------------------------------------------------
(* decodeBufferPairs *)

\* The next node with a record.
NextRecord(i) ==
  CHOOSE j \in Records(nodes) : j > i /\ \A k \in Records(nodes) : k > i => j <= k

Needed == IF part = "header" THEN HeaderSize ELSE FrameSize(nodes[NextRecord(taken)], half)

TakeHeader ==
  /\ pc = "read" /\ part = "header" /\ have >= Needed
  /\ have' = have - Needed /\ part' = "payload"
  /\ UNCHANGED <<serverVars, coming, pc, last, half, taken, pathVars, todo, started, firsts, foldVars>>

TakePayload ==
  /\ pc = "read" /\ part = "payload" /\ have >= Needed
  /\ have' = have - Needed /\ part' = "header"
  /\ \/ half = "path" /\ half' = "value" /\ taken' = taken
     \/ half = "value" /\ half' = "path" /\ taken' = NextRecord(taken)
  /\ UNCHANGED <<serverVars, coming, pc, last, pathVars, todo, started, firsts, foldVars>>

\* Mutant: nothing is handed on within a frame.
Await_WithinFrame ==
  /\ pc = "read" /\ have < Needed
  /\ pc' = IF part = "header" THEN "decode" ELSE "wait"
  /\ UNCHANGED <<serverVars, coming, last, bufferVars, pathVars, todo, started, firsts, foldVars>>

\* Too few bytes: the records that are complete are handed on before the next chunk
\* is awaited.
Await ==
  /\ pc = "read" /\ have < Needed
  /\ pc' = "decode"
  /\ UNCHANGED <<serverVars, coming, last, bufferVars, pathVars, todo, started, firsts, foldVars>>

Chunk ==
  /\ pc = "wait"
  /\ \E n \in 1..coming : have' = have + n /\ coming' = coming - n
  /\ pc' = "read"
  /\ UNCHANGED <<serverVars, last, part, half, taken, pathVars, todo, started, firsts, foldVars>>

\* The stream is over, also before everything has come: the server ends it when it
\* is cancelled.  Within or before a header nobody notices.
StreamEnds ==
  /\ pc = "wait"
  /\ \/ part = "header" /\ pc' = "decode" /\ last' = TRUE
     \/ part = "payload" /\ pc' = "corrupted" /\ last' = last
  /\ UNCHANGED <<serverVars, coming, bufferVars, pathVars, todo, started, firsts, foldVars>>

\* The reader fails, or the request is aborted.
ReaderFails ==
  /\ pc = "wait" /\ pc' = "failed"
  /\ UNCHANGED <<serverVars, coming, last, bufferVars, pathVars, todo, started, firsts, foldVars>>

-----------------------------------------------------------------------------
(* decodePathsVals *)

\* How far two paths agree.
Common(p, q) ==
  LET agree == {n \in 0..Len(p) : n <= Len(q) /\ \A i \in 1..n : p[i] = q[i]}
  IN CHOOSE n \in agree : \A m \in agree : m <= n

\* Mutant: only the record itself.
WithParents_None(keys, val) == << [keys |-> keys, val |-> val] >>

\* What a record at keys stands for: the objects on the way to it that are not there
\* yet, and itself.
WithParents(keys, val) ==
  LET known == Common(keys, pieces)
      root == IF decoded = 0 /\ keys # <<>> THEN << [keys |-> <<>>, val |-> "object"] >> ELSE <<>>
      between == [l \in 1..(Len(keys) - 1 - known) |->
                    [keys |-> SubSeq(keys, 1, known + l), val |-> "object"]]
  IN root \o between \o << [keys |-> keys, val |-> val] >>

\* A record; its path is read from its bytes.
DecodeRecord ==
  /\ pc = "decode" /\ decoded < taken
  /\ LET i == NextRecord(decoded)
         keys == splitPath(encode_path(nodes[i].keys))
     IN /\ todo' = todo \o WithParents(keys, nodes[i].val)
        /\ pieces' = keys /\ decoded' = i
  /\ UNCHANGED <<serverVars, coming, pc, last, bufferVars, started, firsts, foldVars>>

\* Lists that are not empty are yielded, and an empty one at the end.  Of the first
\* one iterFoldTree takes the root, and the rest when it has the next.
YieldNodes ==
  /\ pc = "decode" /\ decoded = taken
  /\ pc' = "fold"
  /\ \/ /\ ~started /\ todo # <<>>
        /\ started' = TRUE /\ firsts' = Tail(todo) /\ todo' = <<>>
     \/ /\ started /\ (todo # <<>> \/ last)
        /\ todo' = firsts \o todo /\ firsts' = <<>> /\ started' = started
     \/ /\ todo = <<>> /\ ~(started /\ last)
        /\ UNCHANGED <<todo, started, firsts>>
  /\ UNCHANGED <<serverVars, coming, last, bufferVars, pathVars, foldVars>>

-----------------------------------------------------------------------------
(* iterFoldTree at level 1, and getRunData *)

\* The children of a node in the tree so far.
Children(t, p) == {q \in DOMAIN t : Len(q) = Len(p) + 1 /\ IsPrefix(p, q)}

\* Between the last child of an array and the one at k there are nulls.
Nulls(t, p, k) == {Append(p, <<"int", i>>) : i \in Cardinality(Children(t, p))..(k - 1)}

\* The node is added to the one its keys hang on.
Grown(t, keys, val) ==
  LET new == Tail(keys)
      nulls == IF t[Front(new)] = "array" THEN Nulls(t, Front(new), Last(new)[2]) ELSE {}
  IN IF new = <<>> THEN [q \in {new} |-> val]
     ELSE [q \in (DOMAIN t) \cup nulls \cup {new} |->
             IF q = new THEN val ELSE IF q \in nulls THEN "null" ELSE t[q]]

\* What is built is given away when the keys leave it.
GiveAway(c) ==
  objects' = IF c = 0 /\ path # <<>> THEN Append(objects, [key |-> path[1], tree |-> tree])
                                     ELSE objects

\* The next node: back to the one its keys hang on.  A second one for a path, or one
\* for a node above, is refused.
FoldNode ==
  /\ pc = "fold" /\ todo # <<>>
  /\ LET keys == Head(todo).keys
         c == Common(path, keys)
     IN /\ GiveAway(c)
        /\ IF Len(keys) = c + 1
           THEN /\ path' = keys /\ tree' = Grown(tree, keys, Head(todo).val)
                /\ pc' = pc
           ELSE pc' = "refused" /\ UNCHANGED <<path, tree>>
  /\ todo' = Tail(todo)
  /\ UNCHANGED <<serverVars, coming, last, bufferVars, pathVars, started, firsts>>

\* The last object is given away as it is.
FoldMore ==
  /\ pc = "fold" /\ todo = <<>>
  /\ \/ last /\ pc' = "over" /\ GiveAway(0)
     \/ ~last /\ pc' = "wait" /\ objects' = objects
  /\ UNCHANGED <<serverVars, coming, last, bufferVars, pathVars, todo, started, firsts, path, tree>>

-----------------------------------------------------------------------------
SDInit ==
  /\ given = <<>> /\ nodes = <<>> /\ coming = 0
  /\ pc = "read" /\ last = FALSE
  /\ part = "header" /\ half = "path" /\ have = 0 /\ taken = 0
  /\ decoded = 0 /\ pieces = <<>> /\ todo = <<>> /\ started = FALSE /\ firsts = <<>>
  /\ path = <<>> /\ tree = <<>> /\ objects = <<>>

SDNext ==
  \/ Send \/ Chunk \/ StreamEnds \/ ReaderFails
  \/ TakeHeader \/ TakePayload \/ Await
  \/ DecodeRecord \/ YieldNodes
  \/ FoldNode \/ FoldMore

SDSpec == SDInit /\ [][SDNext]_sdVars

-----------------------------------------------------------------------------
SDTypeOK ==
  /\ pc \in {"read", "decode", "fold", "wait"} \cup Over
  /\ last \in BOOLEAN /\ started \in BOOLEAN
  /\ part \in {"header", "payload"} /\ half \in {"path", "value"}
  /\ coming \in Nat /\ have \in Nat
  /\ taken \in 0..Len(nodes) /\ decoded \in 0..taken

\* However the bytes are cut into chunks, the page gets the objects the server has
\* sent, whole and in their order, whichever bytes their paths are made of; only the
\* last one may lack nodes, when the stream ends early.  No stream is refused.
DeliveredAsSent ==
  LET n == Len(objects)
      whole == IF pc = "over" /\ coming + have > 0 /\ n > 0 THEN n - 1 ELSE n
  IN /\ pc # "refused"
     /\ n <= Len(Sent) /\ SubSeq(objects, 1, whole) = SubSeq(Sent, 1, whole)
     /\ n > whole => /\ objects[n].key = Sent[n].key
                     /\ \A p \in DOMAIN objects[n].tree :
                          /\ p \in DOMAIN Sent[n].tree
                          /\ objects[n].tree[p] = Sent[n].tree[p]
     /\ pc = "over" /\ coming = 0 => objects = Sent

\* Nothing is held back: while the page waits for bytes, it has every object but
\* the one whose records are still coming.  Only the very first records wait for
\* the next ones.
OneObjectPending ==
  pc = "wait" /\ firsts = <<>> /\ taken > 0 =>
    /\ Len(objects) < Len(given)
    /\ given[Len(objects) + 1].key = nodes[taken].keys[1]

\* The generators pull from each other without holding anything back.
NothingHeldBack == SDTypeOK /\ OneObjectPending

\* Every integer that the decoder does not warn of, because its two high bytes only
\* repeat the sign ("Only 52-bit integers are supported now."), may be the value of a
\* leaf, and then arrives as it was sent.  It does not: see the README.
IntegersDecode ==
  (\E i \in 1..decoded : nodes[i].val = "leaf") =>
    \A v \in -Power[6]..(Power[6] - 1) : decode_q_le(encode_int64(v)) = v
=============================================================================
