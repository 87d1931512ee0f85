------------------------------ MODULE CellCodec -----------------------------
(***************************************************************************)
(* What is written through a builder and read through a slice.  A writer   *)
(* stores fields, some refused, rewinds to an earlier field and builds the *)
(* cell; a reader who knows the same schema loads them back.  And a reader *)
(* meets a cell of another writer, any bits at all, with any load.         *)
(*                                                                         *)
(* A field is the operation `op`, its width or limit `n` and its value `x`. *)
(***************************************************************************)
EXTENDS Slice

CONSTANTS Fields,      \* the fields a writer may store
          MaxFields,   \* the most it stores in one cell
          Probes,      \* the loads tried on a foreign cell
          Foreign,     \* the cells another writer made
          ACCOUNT      \* the bytes of an account

VARIABLES b,      \* the builder; of a foreign cell, the cell
          log,    \* the fields stored, in order
          marks,  \* the builder's bits and references before each of them
          s,      \* the reader's slice
          at,     \* the fields read back
          last,   \* the last load, or the store that spoiled the cell: its field, how it ended, what it got
          pc
vars == <<b, log, marks, s, at, last, pc>>

Idle == [f |-> [op |-> "none", n |-> 0, x |-> 0], why |-> "ok", got |-> "none"]

-----------------------------------------------------------------------------
Store(c, f) ==
  CASE f.op = "bit" -> store_bit(c, f.x)
    [] f.op = "uint" -> store_uint(c, f.x, f.n)
    [] f.op = "int" -> store_int(c, f.x, f.n)
    [] f.op = "u8" -> store_u8(c, f.x)
    [] f.op = "u16" -> store_u16(c, f.x)
    [] f.op = "u32" -> store_u32(c, f.x)
    [] f.op = "i32" -> store_i32(c, f.x)
    [] f.op = "uint128" -> store_uint128(c, f.x, f.n)
    [] f.op = "int128" -> store_int128(c, f.x, f.n)
    [] f.op = "var_uint" -> store_var_uint(c, f.x, f.n)
    [] f.op = "var_int" -> store_var_int(c, f.x, f.n)
    [] f.op = "coins" -> store_coins(c, f.x)
    [] f.op = "same" -> store_same_bit(c, f.x, f.n)
    [] f.op = "bits" -> store_bits(c, f.x)
    [] f.op = "bytes" -> store_bytes(c, f.x)
    [] f.op = "ref" -> store_ref(c, f.x)
    [] f.op = "maybe_ref" -> store_maybe_ref(c, f.x)
    [] f.op = "dict" -> store_dict(c, f.x)
    [] f.op = "slice" -> store_slice(c, f.x)
    [] f.op = "either" -> store_either_ref(c, f.x)
    [] f.op = "maybe_either" -> store_maybe_either_ref(c, f.x)
    [] f.op = "snake" -> store_snake(c, f.x)
    [] f.op = "address" -> store_address(c, f.x)
    [] f.op = "label" -> store_bits(c, store_label(f.x, f.n))

\* The schema ends an inline payload.
Payload(r, maybe) ==
  IF r.why # "ok" THEN r
  ELSE IF r.got.arm # "inline" THEN Got(r.s, r.got.cell)
  ELSE As(load_slice(r.s, Len(maybe[1].bits), Len(maybe[1].refs)), LAMBDA cell : <<cell>>)

\* A label is read under its own limit; a walk that fails in one drops its slice.
LoadLabel(t, max) ==
  LET r == read_label_into(t.bits, max)
  IN IF r.why = "ok" THEN Got(Past(t, r.used, 0), r.label) ELSE Failed(t, r.why)

Load(t, f) ==
  CASE f.op = "bit" -> load_bit(t)
    [] f.op = "uint" -> load_uint(t, f.n)
    [] f.op = "int" -> load_int(t, f.n)
    [] f.op = "u8" -> load_u8(t)
    [] f.op = "u16" -> load_u16(t)
    [] f.op = "u32" -> load_u32(t)
    [] f.op = "i32" -> load_i32(t)
    [] f.op = "uint128" -> load_uint128(t, f.n)
    [] f.op = "int128" -> load_int128(t, f.n)
    [] f.op = "var_uint" -> load_var_uint(t, f.n)
    [] f.op = "var_int" -> load_var_int(t, f.n)
    [] f.op = "coins" -> load_coins(t)
    [] f.op = "same" -> As(load_bits(t, f.n), LAMBDA run : IF run = <<>> THEN f.x ELSE run[f.n])
    [] f.op = "bits" -> load_bits(t, Len(f.x))
    [] f.op = "bytes" -> load_bytes(t, Len(f.x))
    [] f.op = "ref" -> load_ref(t)
    [] f.op = "maybe_ref" -> load_maybe_ref(t)
    [] f.op = "dict" -> load_dict(t, f.n)
    [] f.op = "slice" -> load_slice(t, Len(f.x.bits), Len(f.x.refs))
    [] f.op = "either" -> As(Payload(load_either_ref(t), <<f.x>>), Head)
    [] f.op = "maybe_either" -> Payload(load_maybe_either_ref(t), f.x)
    [] f.op = "snake" -> load_snake(t)
    [] f.op = "address" -> load_address(t, ACCOUNT)
    [] f.op = "label" -> LoadLabel(t, f.n)
    [] f.op = "skip_bits" -> skip_bits(t, f.n)
    [] f.op = "skip_refs" -> skip_refs(t, f.n)
    [] f.op = "skip" -> skip_bits_and_refs(t, f.n, f.x)
    [] f.op = "either_arm" -> load_either_ref(t)
    [] f.op = "maybe_either_arm" -> load_maybe_either_ref(t)
    [] f.op = "preload_uint" -> preload_uint(t, f.n)
    [] f.op = "preload_bit" -> preload_bit(t)
    [] f.op = "peek_ref" -> peek_ref(t)
    [] f.op = "window" -> As(subslice(t, f.n, f.n, 0, f.x), LAMBDA w : to_builder(w).b)

-----------------------------------------------------------------------------
Init ==
  /\ \/ pc = "write" /\ b = new
     \/ pc = "foreign" /\ b \in Foreign
  /\ s = b
  /\ log = <<>> /\ marks = <<>> /\ at = 0 /\ last = Idle

\* A label opens its cell, and a snake takes what is left of it.
MayFollow(f) ==
  /\ f.op = "label" => b = new
  /\ \A i \in DOMAIN log : log[i].op # "snake"

\* One store.  A refusal that leaves part of a field behind ends the cell.
StoreField ==
  /\ pc = "write" /\ Len(log) < MaxFields
  /\ \E f \in Fields :
       LET r == Store(b, f)
       IN /\ MayFollow(f)
          /\ b' = r.b
          /\ \/ /\ r.why = "ok"
                /\ log' = Append(log, f)
                /\ marks' = Append(marks, [bits |-> Len(b.bits), refs |-> Len(b.refs)])
                /\ UNCHANGED <<pc, last>>
             \/ /\ r.why # "ok" /\ r.b = b
                /\ UNCHANGED <<log, marks, pc, last>>
             \/ /\ r.why # "ok" /\ r.b # b
                /\ pc' = "spoiled" /\ last' = [f |-> f, why |-> r.why, got |-> "none"]
                /\ UNCHANGED <<log, marks>>
  /\ UNCHANGED <<s, at>>

\* Back to before a field already stored.
Rewind ==
  /\ pc = "write"
  /\ \E i \in DOMAIN log :
       /\ b' = Then(truncate_bits(b, marks[i].bits), LAMBDA c : truncate_refs(c, marks[i].refs)).b
       /\ log' = SubSeq(log, 1, i - 1) /\ marks' = SubSeq(marks, 1, i - 1)
  /\ UNCHANGED <<s, at, last, pc>>

Build ==
  /\ pc = "write"
  /\ pc' = "read"
  /\ s' = b
  /\ UNCHANGED <<b, log, marks, at, last>>

LoadField ==
  /\ pc = "read" /\ at < Len(log)
  /\ LET r == Load(s, log[at + 1])
     IN /\ s' = r.s
        /\ last' = [f |-> log[at + 1], why |-> r.why, got |-> r.got]
  /\ at' = at + 1
  /\ UNCHANGED <<b, log, marks, pc>>

Probe ==
  /\ pc = "foreign"
  /\ \E f \in Probes :
       LET r == Load(s, f)
       IN /\ s' = r.s
          /\ last' = [f |-> f, why |-> r.why, got |-> r.got]
  /\ pc' = "probed"
  /\ UNCHANGED <<b, log, marks, at>>

Next == StoreField \/ Rewind \/ Build \/ LoadField \/ Probe
Spec == Init /\ [][Next]_vars

-----------------------------------------------------------------------------
\* Whatever was stored, through refusals and rewinds, reads back: every field
\* loads with the value it was stored with, a reference as the same cell, an
\* inline payload in full, and after the last one nothing is left.  Of any cell,
\* no label is longer than the key bits it is read under, which every walk
\* subtracts from the bits still to spend; and stepping over a label leaves the
\* cursor where reading it does, and refuses what reading refuses.
ReadsBack ==
  /\ pc = "read" =>
       /\ at > 0 => (last.why = "ok" /\ last.got = log[at].x)
       /\ at = Len(log) => (s.bits = <<>> /\ s.refs = <<>>)
  /\ (pc = "probed" /\ last.f.op = "label") =>
       LET skipped == skip_label(b.bits, last.f.n)
       IN /\ skipped.why = last.why
          /\ last.why = "ok" => /\ Len(last.got) <= last.f.n
                                /\ s.bits = Rest(b.bits, skipped.used)

\* A variable integer or a label is stored in the one shortest form.  A foreign
\* cell it can be read from spells it in at least as many bits, and one that
\* spells it in as many is the stored one or, of a label, a later constructor;
\* but a variable integer is also read where its length is at or over the limit
\* that every store keeps under.
StoredIsTheShortest ==
  (pc = "probed" /\ last.why = "ok" /\ last.f.op \in {"label", "var_uint", "var_int", "coins"}) =>
    LET used == Len(b.bits) - Len(s.bits)
        theirs == Head_(b.bits, used)
        again == Store(new, [last.f EXCEPT !.x = last.got])
        mine == again.b.bits
        max == IF last.f.op = "coins" THEN 16 ELSE last.f.n
    IN IF again.why = "ok"
       THEN \/ Len(mine) < used
            \/ mine = theirs
            \/ last.f.op = "label" /\ Len(mine) = used /\ (mine[1] < theirs[1] \/ mine[2] < theirs[2])
       ELSE last.f.op # "label" /\ Number(Head_(theirs, BitsOf(max - 1))) >= max

\* The stores of one part, or that look for all their room first.
Whole == {f.op : f \in Fields} \ {"snake", "address"}

\* The bits a failed load has spent: none, but for the discriminators of a
\* reference that is not there and the parts of an address.
MaySpend(op) ==
  CASE op \in {"maybe_ref", "dict", "either", "either_arm"} -> 1
    [] op \in {"maybe_either", "maybe_either_arm"} -> 2
    [] op = "address" -> 3 + BYTE
    [] OTHER -> 0

\* A refused store leaves the builder as it was, whatever it refused, so that a
\* length never stands without its bytes nor a bit without its reference; and a
\* failed load leaves the cursor where it was or just past the discriminators
\* it read, with every reference still to be read, save the one load_dict takes
\* before it judges the width of the keys.  A look ahead moves nothing.
RefusalLeavesNothing ==
  /\ pc = "spoiled" => last.f.op \notin Whole
  /\ (pc = "probed" /\ last.why # "ok" /\ last.f.op # "label") =>
       /\ \E n \in 0..MaySpend(last.f.op) : s.bits = Rest(b.bits, n)
       /\ s.refs = b.refs \/ last.f.op = "dict"
  /\ (pc = "probed" /\ last.f.op \in {"preload_uint", "preload_bit", "peek_ref", "window"}) => s = b
=============================================================================
