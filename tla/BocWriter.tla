----------------------------- MODULE BocWriter ------------------------------
(***************************************************************************)
(* Writing a graph of cells as a bag of cells, in one piece (core/src/     *)
(* cell/boc/serialize.rs) and as a stream of chunks (boc/large.rs).  The   *)
(* walk that orders the cells is taken step by step, the stream chunk by   *)
(* chunk.                                                                  *)
(***************************************************************************)
EXTENDS BocFormat

CONSTANTS RootLists,      \* the roots a bag is written from
          Layers,         \* how many references deep a graph goes
          CHUNK_TARGET    \* a chunk takes cells until it is this long

\* The cells some references away from the roots, and all of them.
Layer(list, n) ==
  LET layer[k \in 0..Layers] ==
        IF k = 0 THEN {list[i] : i \in DOMAIN list}
        ELSE UNION {{c.refs[r] : r \in DOMAIN c.refs} : c \in layer[k - 1]}
  IN layer[n]
Graph(list) == UNION {Layer(list, n) : n \in 0..Layers}

\* A graph has no cycle, so no reference leads on from its last layer; and
\* cells are told apart by their hashes, as OneIdentityOneCell says.
ASSUME WriterAssumption ==
  /\ Layers \in Nat
  /\ \A list \in RootLists :
       /\ list \in Seq(Graph(list))
       /\ \A c \in Layer(list, Layers) : c.refs = <<>>
       /\ \A c \in Graph(list) : Formed(c)
       /\ \A c, d \in Graph(list) : repr_hash(c) = repr_hash(d) => c = d

VARIABLES roots, options,
          stack, seen, order,           \* topological
          header, offsets,              \* worked out before the stream starts
          phase, cursor, running_crc,   \* BocChunks
          out                           \* the chunks so far, run together

writerVars == <<roots, options, stack, seen, order, header, offsets, phase, cursor, running_crc, out>>

BocOptions == [index : BOOLEAN, crc32c : BOOLEAN, stored_hashes : BOOLEAN]
Visit(cell) == [step |-> "visit", cell |-> cell]
Emit(cell) == [step |-> "emit", cell |-> cell]

WriterInit ==
  /\ roots \in RootLists /\ options \in BocOptions
  /\ stack = <<>> /\ seen = {} /\ order = <<>> /\ header = <<>> /\ offsets = <<>>
  /\ phase = "start" /\ cursor = 1 /\ running_crc = CRC32C_INIT /\ out = <<>>

\* An empty list of roots is refused; otherwise the roots are visited first to last.
Start ==
  /\ phase = "start"
  /\ IF roots = <<>> THEN phase' = "refused" /\ stack' = stack
     ELSE phase' = "walk" /\ stack' = [i \in DOMAIN roots |-> Visit(roots[i])]
  /\ UNCHANGED <<roots, options, seen, order, header, offsets, cursor, running_crc, out>>

\* Mutant: a cell reached again is visited again.
VisitCell_Again ==
  /\ phase = "walk" /\ stack # <<>> /\ Head(stack).step = "visit"
  /\ LET cell == Head(stack).cell
     IN /\ seen' = seen \cup {repr_hash(cell)}
        /\ stack' = [i \in DOMAIN cell.refs |-> Visit(cell.refs[i])] \o <<Emit(cell)>> \o Tail(stack)
  /\ UNCHANGED <<roots, options, order, header, offsets, phase, cursor, running_crc, out>>

\* The stack is held top first.
VisitCell ==
  /\ phase = "walk" /\ stack # <<>> /\ Head(stack).step = "visit"
  /\ LET cell == Head(stack).cell
         fresh == repr_hash(cell) \notin seen
     IN /\ seen' = seen \cup {repr_hash(cell)}
        /\ stack' = (IF fresh THEN [i \in DOMAIN cell.refs |-> Visit(cell.refs[i])] \o <<Emit(cell)>> ELSE <<>>)
                      \o Tail(stack)
  /\ UNCHANGED <<roots, options, order, header, offsets, phase, cursor, running_crc, out>>

\* The order is reversed at the end, so each cell emitted goes in front.
EmitCell ==
  /\ phase = "walk" /\ stack # <<>> /\ Head(stack).step = "emit"
  /\ order' = <<Head(stack).cell>> \o order
  /\ stack' = Tail(stack)
  /\ UNCHANGED <<roots, options, seen, header, offsets, phase, cursor, running_crc, out>>

\* The sizes of the cells without their bytes.
ref_size == byte_width(Len(order))
CellLen(cell) ==
  2 + (IF options.stored_hashes THEN stored_len(cell.id) ELSE 0) + Len(DataBytes(cell)) + Len(cell.refs) * ref_size
Offsets ==
  LET end[i \in 0..Len(order)] == IF i = 0 THEN 0 ELSE end[i - 1] + CellLen(order[i])
  IN [i \in DOMAIN order |-> end[i]]

\* The rest of serialize_boc_chunks_with.
Layout ==
  /\ phase = "walk" /\ stack = <<>>
  /\ IF Len(order) > MAX_CELLS
     THEN phase' = "refused" /\ UNCHANGED <<header, offsets, running_crc>>
     ELSE /\ phase' = "header"
          /\ offsets' = Offsets
          /\ header' = HeaderBytes(order, roots, options, ref_size, Offsets)
          /\ running_crc' = crc32c_update(CRC32C_INIT, header')
  /\ UNCHANGED <<roots, options, stack, seen, order, cursor, out>>

NextHeader ==
  /\ phase = "header"
  /\ phase' = "body" /\ out' = header /\ header' = <<>>
  /\ UNCHANGED <<roots, options, stack, seen, order, offsets, cursor, running_crc>>

CellAt(i) == CellBytes(order[i], Children(order)[i], ref_size, options.stored_hashes)

\* The cells from the cursor to the n-th, and the chunk that starts there: up to
\* the first cell that takes it to its target.
Run(n) == Joined([k \in 1..n - cursor + 1 |-> CellAt(cursor + k - 1)])
ChunkEnd ==
  LET full == {n \in cursor..Len(order) : Len(Run(n)) >= CHUNK_TARGET}
  IN IF full = {} THEN Len(order) ELSE Min(full)

NextBody ==
  /\ phase = "body" /\ cursor <= Len(order)
  /\ LET chunk == Run(ChunkEnd)
     IN out' = out \o chunk /\ running_crc' = crc32c_update(running_crc, chunk)
  /\ cursor' = ChunkEnd + 1
  /\ UNCHANGED <<roots, options, stack, seen, order, header, offsets, phase>>

\* Past the last cell the same call goes on to the checksum, or ends.
NextEnd ==
  /\ phase = "body" /\ cursor > Len(order)
  /\ phase' = "done"
  /\ out' = IF options.crc32c THEN Append(out, <<"crc", running_crc>>) ELSE out
  /\ UNCHANGED <<roots, options, stack, seen, order, header, offsets, cursor, running_crc>>

WriterNext == Start \/ VisitCell \/ EmitCell \/ Layout \/ NextHeader \/ NextBody \/ NextEnd
WriterSpec == WriterInit /\ [][WriterNext]_writerVars

-----------------------------------------------------------------------------
\* A stream is the bag.  It holds every cell reachable from the roots once,
\* however many parents it has, each ahead of the cells it references; and the
\* chunks run together are what serialize_boc_with writes in one piece, the
\* sizes stated ahead of the cells being the sizes they turn out to have
\* (topological, BocChunks::next, stored_len).
ChunksAreTheBag ==
  phase = "done" =>
    /\ {order[i] : i \in DOMAIN order} = Graph(roots)
    /\ \A i, j \in DOMAIN order : order[i] = order[j] => i = j
    /\ \A i, j \in DOMAIN order : (\E r \in DOMAIN order[i].refs : order[j] = order[i].refs[r]) => i < j
    /\ out = serialize_boc_with(order, roots, options)
=============================================================================
