----------------------------- MODULE BlockCodec -----------------------------
(***************************************************************************)
(* Accounts, blocks and shard states as core/src/tlb decodes them: fields  *)
(* at no fixed place, found by stepping over the optional parts before     *)
(* them, in cells of which a proof may have pruned any.                    *)
(*                                                                         *)
(* A cell is its kind, bits and references; the root of a dictionary is    *)
(* its entries as well, each the slice of a leaf, since Dict models the    *)
(* walk to one.  Widths are scaled down as in Builder, and a tag is the    *)
(* low bits of the code's.                                                 *)
(***************************************************************************)
EXTENDS Slice, SequencesExt

CONSTANTS HASH,                   \* the bytes of a hash
          VAR_LEN, ANYCAST,       \* the bits of a variable address's length and of an anycast depth
          PFX_LEN, MAX_SHARD_PREFIX_BITS,   \* the bits of a prefix's length, and the longest prefix
          MAX_SPLIT_DEPTH

BLOCK_TAG == 10
BLOCK_INFO_TAG == 7
BLOCK_EXTRA_TAG == 29
MC_BLOCK_EXTRA_TAG == 5
SHARD_STATE_TAG == 2
MC_STATE_EXTRA_TAG == 6
SHARD_DESCR_TAGS == {10, 11}
INFO_REFERENCE == 1
STATE_UPDATE_REFERENCE == 3
EXTRA_REFERENCE == 4
ACCOUNTS_REFERENCE == 2
CUSTOM_REFERENCE == 4

Absent == [lookup |-> "Absent"]
Pruned == [lookup |-> "Pruned"]

parse(cell) == [bits |-> cell.bits, refs |-> cell.refs]
is_exotic(cell) == cell.kind # "ordinary"
Hash(t) == load_bytes(t, HASH)
HashBits == HASH * BYTE

\* The load after one whose value is not kept, and a refusal before any load.
After(r, Load(_)) == IF r.why = "ok" THEN Load(r.s) ELSE r
Fail(why) == Failed(new, why)

-----------------------------------------------------------------------------
(* account.rs and coins.rs.                                                *)

Coins_load(t) == load_var_uint(t, 16)

nonexistent == [balance |-> 0, status |-> [is |-> "nonexistent"], last_trans_lt |-> 0]

skip_anycast(t) ==
  Read(load_bit(t), LAMBDA r, set :
         IF set = 0 THEN Got(r, "none")
         ELSE Read(load_uint(r, ANYCAST), LAMBDA rest, depth : skip_bits(rest, depth)))

skip_address(t) ==
  Read(load_uint(t, 2), LAMBDA r, tag :
         CASE tag = 2 -> After(skip_anycast(r), LAMBDA u : skip_bits(u, BYTE + HashBits))
           [] tag = 3 -> After(skip_anycast(r), LAMBDA u :
                           Read(load_uint(u, VAR_LEN), LAMBDA rest, len : skip_bits(rest, HALF + len)))
           [] OTHER -> Failed(r, "Malformed"))

\* last_paid, and the storage fees owed.
SkipPayment(t) ==
  After(skip_bits(t, HALF), LAMBDA r :
    Read(load_bit(r), LAMBDA rest, set : IF set = 0 THEN Got(rest, "none") ELSE load_var_uint(rest, 16)))

\* Mutant: the older layout, a third counter where the tag sits.
skip_storage_info_ThreeCounters(t) ==
  After(load_var_uint(t, 7), LAMBDA r : After(load_var_uint(r, 7), LAMBDA u :
    After(load_var_uint(u, 7), SkipPayment)))

skip_storage_info(t) ==
  After(load_var_uint(t, 7), LAMBDA r : After(load_var_uint(r, 7), LAMBDA u :
    Read(load_uint(u, 3), LAMBDA rest, tag :
      CASE tag = 0 -> SkipPayment(rest)
        [] tag = 1 -> After(skip_bits(rest, HashBits), SkipPayment)
        [] OTHER -> Failed(rest, "Malformed"))))

\* A flag, and n bits after it when it is set.
SkipFlagged(t, n) == Read(load_bit(t), LAMBDA r, set : skip_bits(r, set * n))

load_status(t) ==
  Read(load_bit(t), LAMBDA r, active :
    IF active = 1
    THEN After(SkipFlagged(r, 5), LAMBDA u : After(SkipFlagged(u, 2), LAMBDA v :
           Read(load_maybe_ref(v), LAMBDA r1, code : Read(load_maybe_ref(r1), LAMBDA r2, data :
             As(load_maybe_ref(r2), LAMBDA library : [is |-> "active", code |-> code, data |-> data])))))
    ELSE Read(load_bit(r), LAMBDA u, frozen :
           IF frozen = 1 THEN As(Hash(u), LAMBDA h : [is |-> "frozen", state_hash |-> h])
           ELSE Got(u, [is |-> "uninit"])))

Account_from_cell(cell) ==
  Read(load_bit(parse(cell)), LAMBDA r, some :
    IF some = 0 THEN Got(r, nonexistent)
    ELSE After(skip_address(r), LAMBDA u : After(skip_storage_info(u), LAMBDA v :
           Read(load_uint(v, WORD), LAMBDA r1, lt : Read(Coins_load(r1), LAMBDA r2, balance :
             After(load_maybe_ref(r2), LAMBDA r3 :
               As(load_status(r3), LAMBDA status :
                  [balance |-> balance, status |-> status, last_trans_lt |-> lt])))))))

\* The bytes as the roots they hold: none at all, not a bag, or a sequence.
Account_decode(state) ==
  CASE state.bytes = "empty" -> Got(new, nonexistent)
    [] state.bytes = "junk" -> Fail("Cell")
    [] OTHER -> IF state.roots = <<>> THEN Fail("Malformed") ELSE Account_from_cell(state.roots[1])

-----------------------------------------------------------------------------
(* block.rs.                                                               *)

\* The reference at an index, or a refusal in its place.
Reference(cell, at, Go(_)) == IF at > Len(cell.refs) THEN Fail("Malformed") ELSE Go(cell.refs[at])

\* A constructor's tag, and what follows it.
Tagged(t, width, tags, Go(_)) ==
  Read(load_uint(t, width), LAMBDA r, tag : IF tag \in tags THEN Go(r) ELSE Failed(r, "WrongConstructor"))

Block_from_cell(cell) == Tagged(parse(cell), HALF, {BLOCK_TAG}, LAMBDA r : Got(r, cell))

\* The declared bits, a one to end them, and zeros.
Mask(prefix, prefix_bits) ==
  LET unit == 2^(WORD - 1 - prefix_bits)
      significant == prefix - (prefix % unit)
  IN IF (significant \div unit) % 2 = 1 THEN significant ELSE significant + unit

read_shard_ident(t) ==
  Tagged(t, 2, {0}, LAMBDA r :
    Read(load_uint(r, PFX_LEN), LAMBDA r1, prefix_bits :
      IF prefix_bits > MAX_SHARD_PREFIX_BITS THEN Failed(r1, "Malformed")
      ELSE Read(load_i32(r1), LAMBDA r2, workchain :
             As(load_uint(r2, WORD), LAMBDA prefix : <<workchain, Mask(prefix, prefix_bits)>>))))

\* The header's tail: gen_utime, two logical times, the validator list's hash,
\* the catchain's number, min_ref_mc_seqno and the key block before.
HeaderTail(t, Go(_)) ==
  Read(load_u32(t), LAMBDA r1, utime : After(skip_bits(r1, WORD + WORD), LAMBDA r2 :
    Read(load_u32(r2), LAMBDA r3, short : Read(load_u32(r3), LAMBDA r4, catchain :
      After(skip_bits(r4, HALF), LAMBDA r5 :
        As(load_u32(r5), LAMBDA prev : Go(<<utime, short, catchain, prev>>)))))))

header(block) ==
  Reference(block, INFO_REFERENCE, LAMBDA info :
    IF is_exotic(info) THEN Fail("NotCovered")
    ELSE Tagged(parse(info), HALF, {BLOCK_INFO_TAG}, LAMBDA r :
      After(skip_bits(r, HALF), LAMBDA r1 : After(skip_bits(r1, 6), LAMBDA r2 :
        Read(load_bit(r2), LAMBDA r3, key :
          After(skip_bits(r3, 1), LAMBDA r4 : After(skip_bits(r4, BYTE), LAMBDA r5 :
            Read(load_u32(r5), LAMBDA r6, seqno : After(skip_bits(r6, HALF), LAMBDA r7 :
              Read(read_shard_ident(r7), LAMBDA r8, ident :
                HeaderTail(r8, LAMBDA tail :
                  [workchain |-> ident[1], shard |-> ident[2], seqno |-> seqno, key_block |-> key,
                   tail |-> tail])))))))))))

skip_currency(t) == After(load_var_uint(t, 16), load_maybe_ref)

\* The masterchain extra of a key block, as far as its configuration.
ConfigOf(custom) ==
  Tagged(parse(custom), 2 * BYTE, {MC_BLOCK_EXTRA_TAG}, LAMBDA r :
    Read(load_bit(r), LAMBDA r0, key :
      IF key = 0 THEN Failed(r0, "NotAKeyBlock")
      ELSE After(load_maybe_ref(r0), LAMBDA r1 : After(load_maybe_ref(r1), LAMBDA r2 :
             After(skip_currency(r2), LAMBDA r3 : After(skip_currency(r3), LAMBDA r4 :
               After(load_ref(r4), LAMBDA r5 : After(skip_bits(r5, HashBits), load_ref))))))))

config(block) ==
  Reference(block, EXTRA_REFERENCE, LAMBDA extra :
    IF is_exotic(extra) THEN Fail("NotCovered")
    ELSE Tagged(parse(extra), HALF, {BLOCK_EXTRA_TAG}, LAMBDA r :
      After(load_ref(r), LAMBDA r1 : After(load_ref(r1), LAMBDA r2 : After(load_ref(r2), LAMBDA r3 :
        After(skip_bits(r3, 2 * HashBits), LAMBDA r4 : Read(load_maybe_ref(r4), LAMBDA r5, custom :
          IF custom = <<>> THEN Failed(r5, "NotAKeyBlock")
          ELSE IF is_exotic(custom[1]) THEN Failed(r5, "NotCovered")
          ELSE ConfigOf(custom[1]))))))))

\* Cell::data, the stored bytes: a last byte that is not full is completed with a one and zeros.
Stored(cell) ==
  LET spare == Len(cell.bits) % BYTE
      run == IF spare = 0 THEN cell.bits ELSE cell.bits \o <<1>> \o [i \in 1..BYTE - spare - 1 |-> 0]
  IN [k \in 1..Len(run) \div BYTE |-> SubSeq(run, (k - 1) * BYTE + 1, k * BYTE)]

\* A type byte and the old hash come before the new one.  The bytes are taken as they are
\* stored, so the bits that complete the last one pass for bits of the hash.
new_state_hash(block) ==
  Reference(block, STATE_UPDATE_REFERENCE, LAMBDA update :
    IF update.kind # "update" \/ Len(Stored(update)) < 1 + 2 * HASH THEN Fail("Malformed")
    ELSE Got(new, SubSeq(Stored(update), 2 + HASH, 1 + 2 * HASH)))

-----------------------------------------------------------------------------
(* shard.rs.                                                               *)

\* Dict::from_root and get: what a dictionary shows of a key, and what its leaf is read as.
DictGet(root, key, Go(_)) ==
  IF is_exotic(root) THEN Got(new, Pruned)
  ELSE IF key \notin DOMAIN root.entries THEN Got(new, Absent)
  ELSE Go(root.entries[key])

ShardState_from_cell(cell) == Tagged(parse(cell), HALF, {SHARD_STATE_TAG}, LAMBDA r : Got(r, cell))

\* The leaf's summary, a split depth and a balance, comes before the account.
ShardAccountEntry_load(leaf) ==
  After(skip_bits(leaf, 5), LAMBDA r1 : After(Coins_load(r1), LAMBDA r2 :
    After(load_maybe_ref(r2), LAMBDA r3 : Read(load_ref(r3), LAMBDA r4, account :
      Read(Hash(r4), LAMBDA r5, hash :
        As(load_uint(r5, WORD), LAMBDA lt :
           [account |-> account, last_trans_hash |-> hash, last_trans_lt |-> lt]))))))

account(state, account_id) ==
  Reference(state, ACCOUNTS_REFERENCE, LAMBDA accounts :
    IF is_exotic(accounts) THEN Got(new, Pruned)
    ELSE Read(load_maybe_ref(parse(accounts)), LAMBDA r, root :
           IF root = <<>> THEN Got(r, Absent)
           ELSE DictGet(root[1], account_id, ShardAccountEntry_load)))

\* The fixed header, the state's tag included, up to the bit that says an extra follows.
skip_to_custom(t) ==
  After(skip_bits(t, HALF + HALF), LAMBDA r :
    Read(load_uint(r, 2), LAMBDA r1, ident :
      IF ident # 0 THEN Failed(r1, "Malformed")
      ELSE After(skip_bits(r1, PFX_LEN + HALF + WORD), LAMBDA r2 :
             After(skip_bits(r2, HALF + HALF + HALF + WORD + HALF + 1), load_bit))))

McStateExtra_from_cell(cell) ==
  Tagged(parse(cell), 2 * BYTE, {MC_STATE_EXTRA_TAG}, LAMBDA r : Got(r, cell))

masterchain_extra(state) ==
  Read(skip_to_custom(parse(state)), LAMBDA r, set :
    IF set = 0 THEN Got(r, Absent)
    ELSE Reference(state, CUSTOM_REFERENCE, LAMBDA cell :
           IF is_exotic(cell) THEN Got(r, Pruned) ELSE McStateExtra_from_cell(cell)))

\* A height, three numbers stepped over, and the block's root hash.
ShardDescr_load(t) ==
  Tagged(t, 4, SHARD_DESCR_TAGS, LAMBDA r :
    Read(load_u32(r), LAMBDA r1, seq_no : After(skip_bits(r1, HALF + WORD + WORD), LAMBDA r2 :
      As(Hash(r2), LAMBDA h : [seq_no |-> seq_no, root_hash |-> h]))))

\* One node of the shard tree: a placeholder, a leaf, or a fork and the half to go on with.
ShardNode(node, account_id, depth) ==
  IF is_exotic(node) THEN Got(new, Pruned)
  ELSE Read(load_bit(parse(node)), LAMBDA r, fork :
         IF fork = 0 THEN ShardDescr_load(r)
         ELSE IF depth >= Len(account_id) THEN Failed(r, "Malformed")
         ELSE Reference(node, account_id[depth + 1] + 1, LAMBDA half : [Got(r, half) EXCEPT !.why = "fork"]))

find_shard(root, account_id) ==
  LET end == FoldLeft(LAMBDA at, depth : IF at.why = "fork" THEN ShardNode(at.got, account_id, depth) ELSE at,
                      [Got(new, root) EXCEPT !.why = "fork"], [i \in 1..MAX_SPLIT_DEPTH + 1 |-> i - 1])
  IN IF end.why = "fork" THEN Fail("Malformed") ELSE end

shard_for(extra, workchain, account_id) ==
  After(skip_bits(parse(extra), 2 * BYTE), LAMBDA r :
    Read(load_maybe_ref(r), LAMBDA r1, root :
      IF root = <<>> THEN Got(r1, Absent)
      ELSE DictGet(root[1], workchain, LAMBDA entry :
             Read(load_ref(entry), LAMBDA r2, tree : find_shard(tree, account_id)))))

-----------------------------------------------------------------------------
(* The chain writes these cells, not this code.  What a reader steps over  *)
(* is written as ones, so that a cursor out of place reads something else. *)

Part(run, refs) == [bits |-> run, refs |-> refs]
Join(parts) == Part(FlattenSeq([i \in DOMAIN parts |-> parts[i].bits]),
                    FlattenSeq([i \in DOMAIN parts |-> parts[i].refs]))
CellOf(parts) == [kind |-> "ordinary", bits |-> Join(parts).bits, refs |-> Join(parts).refs]
Dictionary(entries) == [kind |-> "ordinary", bits |-> <<>>, refs |-> <<>>, entries |-> entries]
Placeholder == [kind |-> "pruned", bits |-> <<0, 1, 1>>, refs |-> <<>>]

Num(value, n) == Part(Uint(value, n), <<>>)
IntPart(value, n) == Part(Twos(value, n), <<>>)
Ones(n) == Part([i \in 1..n |-> 1], <<>>)
Ref(cell) == Part(<<>>, <<cell>>)
MaybeRef(maybe) == Part(<<Len(maybe)>>, maybe)
Var(value, max) == Part(store_var_uint(new, value, max).b.bits, <<>>)
HashOf(h) == Part(Uint(h, HashBits), <<>>)
Optional(maybe, Put(_)) == IF maybe = <<>> THEN Num(0, 1) ELSE Join(<<Num(1, 1), Put(maybe[1])>>)
Marked(n) == CellOf(<<Num(n, WORD)>>)

\* What the proof leaves of a cell: all of it, fewer bits or references, or a placeholder.
Left(damage, name, cell) ==
  IF damage.at # name THEN cell
  ELSE CASE damage.how = "pruned" -> Placeholder
         [] damage.how = "cut" -> [cell EXCEPT !.bits = Head_(@, IF damage.n < Len(@) THEN damage.n ELSE Len(@))]
         [] damage.how = "dropped" -> [cell EXCEPT !.refs = SubSeq(@, 1, Len(@) - 1)]

StatusParts(a) ==
  CASE a.is = "uninit" -> Num(0, 2)
    [] a.is = "frozen" -> Join(<<Num(1, 2), HashOf(a.hash)>>)
    [] a.is = "active" ->
         Join(<<Num(1, 1), Optional(a.split, LAMBDA n : Ones(5)), Optional(a.special, LAMBDA n : Ones(2)),
                MaybeRef(a.code), MaybeRef(a.data), MaybeRef(a.library)>>)

NoAccount == [len |-> "none"]

AccountCell(a) ==
  IF a = NoAccount THEN CellOf(<<Num(0, 1)>>)
  ELSE CellOf(<<Num(1, 1), Num(IF a.len = <<>> THEN 2 ELSE 3, 2),
                Optional(a.anycast, LAMBDA n : Join(<<Num(n, ANYCAST), Ones(n)>>)),
                IF a.len = <<>> THEN Ones(BYTE + HashBits)
                ELSE Join(<<Num(a.len[1], VAR_LEN), Ones(HALF + a.len[1])>>),
                Var(a.used, 7), Var(a.used, 7),
                IF a.extra THEN Join(<<Num(1, 3), Ones(HashBits)>>) ELSE Num(0, 3),
                Ones(HALF), Optional(a.due, LAMBDA v : Var(v, 16)),
                Num(a.lt, WORD), Var(a.balance, 16), MaybeRef(a.currency), StatusParts(a.status)>>)

Ident(x) == Join(<<Num(0, 2), Num(x.prefix_bits, PFX_LEN), IntPart(x.workchain, HALF), Num(x.prefix, WORD)>>)

InfoCell(h) ==
  CellOf(<<Num(BLOCK_INFO_TAG, HALF), Ones(HALF + 6), Num(h.key, 1), Ones(1 + BYTE), Num(h.seqno, HALF),
           Ones(HALF), Ident(h), Num(h.tail[1], HALF), Ones(WORD + WORD), Num(h.tail[2], HALF),
           Num(h.tail[3], HALF), Ones(HALF), Num(h.tail[4], HALF), Ref(Marked(0))>>)

McExtraCell(e) ==
  CellOf(<<Num(MC_BLOCK_EXTRA_TAG, 2 * BYTE), Num(e.key, 1), MaybeRef(e.hashes), MaybeRef(e.fees),
           Var(e.sum, 16), MaybeRef(e.other), Var(e.sum, 16), Num(0, 1), Ref(Marked(3))>>
         \o IF e.key = 1 THEN <<Ones(HashBits), Ref(e.config)>> ELSE <<>>)

ExtraCell(custom) ==
  CellOf(<<Num(BLOCK_EXTRA_TAG, HALF), Ref(Marked(0)), Ref(Marked(1)), Ref(Marked(2)),
           Ones(2 * HashBits), MaybeRef(custom)>>)

UpdateCell(h) == [CellOf(<<Ones(BYTE), HashOf(0), HashOf(h)>>) EXCEPT !.kind = "update"]

BlockCell(info, update, extra) ==
  CellOf(<<Num(BLOCK_TAG, HALF), Ones(HALF), Ref(info), Ref(Marked(1)), Ref(update), Ref(extra)>>)

StateCell(accounts, custom) ==
  CellOf(<<Num(SHARD_STATE_TAG, HALF), Ones(HALF),
           Ident([prefix_bits |-> 0, workchain |-> -1, prefix |-> 0]),
           Ones(4 * HALF + WORD + 1), Num(Len(custom), 1), Ref(Marked(0)), Ref(accounts), Ref(Marked(2))>>
         \o [i \in DOMAIN custom |-> Ref(custom[i])])

EntryPart(x) ==
  Join(<<Ones(5), Var(x.sum, 16), MaybeRef(x.other), Ref(x.account), HashOf(x.hash), Num(x.lt, WORD)>>)

DescrCell(x) ==
  CellOf(<<Num(0, 1), Num(x.tag, 4), Num(x.seq_no, HALF), Ones(HALF + WORD + WORD), HashOf(x.hash), Ones(3)>>)

ForkCell(left, right) == CellOf(<<Num(1, 1), Ref(left), Ref(right)>>)

\* The shard of an account, x.depth forks down, the other halves other shards.
TreeCell(x, account_id, leaf) ==
  LET other == DescrCell([x EXCEPT !.seq_no = 0, !.hash = 0])
  IN FoldLeft(LAMBDA half, i : IF account_id[i] = 0 THEN ForkCell(half, other) ELSE ForkCell(other, half),
              leaf, [k \in 1..x.depth |-> x.depth + 1 - k])

-----------------------------------------------------------------------------
CONSTANTS AccountRecords, HeaderRecords, ExtraRecords, EntryRecords, ShardRecords,
          MaxCut   \* the longest a cut cell is

VARIABLES asked,    \* the structure read: its reader, what was written and what is left of it
          answer    \* how the reader ended and what it got
blockVars == <<asked, answer>>

Nothing == [lookup |-> "none"]
Means(why, got) == [why |-> why, got |-> got]
Outcome(r) == Means(r.why, IF r.why = "ok" THEN r.got ELSE Nothing)

BlockInit == asked = [op |-> "none"] /\ answer = Means("ok", Nothing)

Whole_ == [at |-> "none", how |-> "whole"]
Damages(firm, names) ==
  {Whole_} \cup [at : names, how : {"pruned"}] \cup [at : firm \cup names, how : {"dropped"}]
           \cup {[at |-> name, how |-> "cut", n |-> n] : name \in firm \cup names, n \in 0..MaxCut}

\* One read, of a structure of which at most one cell is damaged.  The firm cells are
\* never placeholders: roots, whose proof would be refused, and leaves of a dictionary.
Asks(op, x, firm, names, CellLeft(_), Reader(_)) ==
  \E damage \in Damages(firm, names) :
       LET cell == CellLeft(damage)
       IN /\ damage = Whole_ \/ cell # CellLeft(Whole_)
          /\ asked' = [op |-> op, x |-> x, damage |-> damage]
          /\ answer' = Outcome(Reader(cell))

Opened(r, Reader(_)) == IF r.why = "ok" /\ r.got \notin {Absent, Pruned} THEN Reader(r.got) ELSE r

ReadAccount ==
  \E a \in AccountRecords :
    Asks("account", a, {"root"}, {},
         LAMBDA d : Left(d, "root", AccountCell(a)),
         LAMBDA cell : Account_decode([bytes |-> "bag", roots |-> <<cell>>]))

\* The bytes are empty, not a bag, or a bag of nothing.
ReadBytes ==
  \E state \in {[bytes |-> "empty"], [bytes |-> "junk"], [bytes |-> "bag", roots |-> <<>>]} :
    /\ asked' = [op |-> "bytes", x |-> state, damage |-> Whole_]
    /\ answer' = Outcome(Account_decode(state))

ReadHeader ==
  \E h \in HeaderRecords :
    Asks("header", h, {}, {"info"},
         LAMBDA d : BlockCell(Left(d, "info", InfoCell(h)), UpdateCell(0), Marked(0)),
         LAMBDA cell : Opened(Block_from_cell(cell), header))

ReadConfig ==
  \E e \in ExtraRecords :
    Asks("config", e, {}, {"extra"} \cup (IF e.custom THEN {"custom"} ELSE {}),
         LAMBDA d : LET custom == IF e.custom THEN <<Left(d, "custom", McExtraCell(e))>> ELSE <<>>
                    IN BlockCell(Marked(0), UpdateCell(0), Left(d, "extra", ExtraCell(custom))),
         LAMBDA cell : Opened(Block_from_cell(cell), config))

ReadStateHash ==
  \E h \in 0..2^HashBits - 1 :
    Asks("update", h, {"block"}, {"update"},
         LAMBDA d : Left(d, "block", BlockCell(Marked(0), Left(d, "update", UpdateCell(h)), Marked(0))),
         LAMBDA cell : As(Opened(Block_from_cell(cell), new_state_hash), LAMBDA got : [state_hash |-> got]))

\* The entry of an account, or of one the dictionary does not hold.
ReadEntry ==
  \E x \in EntryRecords :
    Asks("entry", x, IF x.dict /\ x.held THEN {"leaf"} ELSE {}, {"accounts"} \cup (IF x.dict THEN {"dict"} ELSE {}),
         LAMBDA d : LET leaf == Left(d, "leaf", EntryPart(x))
                        dict == Dictionary([id \in (IF x.held THEN {x.id} ELSE {}) |-> leaf])
                    IN StateCell(Left(d, "accounts",
                                      CellOf(<<MaybeRef(IF x.dict THEN <<Left(d, "dict", dict)>> ELSE <<>>), Ones(5)>>)),
                                 <<>>),
         LAMBDA cell : Opened(ShardState_from_cell(cell), LAMBDA state : account(state, x.id)))

ReadShard ==
  \E x \in ShardRecords :
    Asks("shard", x, {"state"}, (IF x.extra THEN {"custom"} ELSE {})
                     \cup (IF x.extra /\ x.dict THEN {"dict"} ELSE {})
                     \cup (IF x.extra /\ x.dict /\ x.held THEN {"leaf"} ELSE {}),
         LAMBDA d : LET tree == TreeCell(x, x.id, Left(d, "leaf", DescrCell(x)))
                        dict == Dictionary([w \in (IF x.held THEN {0} ELSE {}) |-> Part(<<>>, <<tree>>)])
                        custom == CellOf(<<Num(MC_STATE_EXTRA_TAG, 2 * BYTE),
                                           MaybeRef(IF x.dict THEN <<Left(d, "dict", dict)>> ELSE <<>>)>>)
                    IN Left(d, "state",
                            StateCell(Marked(1), IF x.extra THEN <<Left(d, "custom", custom)>> ELSE <<>>)),
         LAMBDA cell : Opened(ShardState_from_cell(cell), LAMBDA state :
                         Opened(masterchain_extra(state), LAMBDA extra : shard_for(extra, 0, x.id))))

BlockNext ==
  /\ asked.op = "none"
  /\ ReadAccount \/ ReadBytes \/ ReadHeader \/ ReadConfig \/ ReadStateHash \/ ReadEntry \/ ReadShard

-----------------------------------------------------------------------------
HashBytes(h) == Hash(HashOf(h)).got

\* What the structure says, as it was written.
Said(op, x) ==
  CASE op = "account" ->
         IF x = NoAccount THEN Means("ok", nonexistent)
         ELSE Means("ok", [balance |-> x.balance, last_trans_lt |-> x.lt,
                           status |-> CASE x.status.is = "uninit" -> [is |-> "uninit"]
                                        [] x.status.is = "frozen" -> [is |-> "frozen", state_hash |-> HashBytes(x.status.hash)]
                                        [] x.status.is = "active" -> [is |-> "active", code |-> x.status.code, data |-> x.status.data]])
    [] op = "bytes" -> IF x.bytes = "empty" THEN Means("ok", nonexistent)
                       ELSE Means(IF x.bytes = "junk" THEN "Cell" ELSE "Malformed", Nothing)
    [] op = "header" ->
         IF x.prefix_bits > MAX_SHARD_PREFIX_BITS THEN Means("Malformed", Nothing)
         ELSE Means("ok", [workchain |-> x.workchain, seqno |-> x.seqno, key_block |-> x.key, tail |-> x.tail,
                           shard |-> Number(Head_(Uint(x.prefix, WORD), x.prefix_bits) \o <<1>>
                                            \o [i \in 1..WORD - 1 - x.prefix_bits |-> 0])])
    [] op = "config" -> IF x.custom /\ x.key = 1 THEN Means("ok", x.config) ELSE Means("NotAKeyBlock", Nothing)
    [] op = "update" -> Means("ok", [state_hash |-> HashBytes(x)])
    [] op = "entry" ->
         IF ~x.dict \/ ~x.held THEN Means("ok", Absent)
         ELSE Means("ok", [account |-> x.account, last_trans_hash |-> HashBytes(x.hash), last_trans_lt |-> x.lt])
    [] op = "shard" ->
         IF ~x.extra \/ ~x.dict \/ ~x.held THEN Means("ok", Absent)
         ELSE IF x.depth > MAX_SPLIT_DEPTH THEN Means("Malformed", Nothing)
         ELSE Means("ok", [seq_no |-> x.seq_no, root_hash |-> HashBytes(x.hash)])

\* A state update cut short, and one that ends inside the last byte of its new hash.
ShortUpdate == asked.op = "update" /\ asked.damage.at = "update" /\ asked.damage.how = "cut"
EndsInLastByte == ShortUpdate /\ asked.damage.n > 2 * HashBits

\* Whichever optional parts stand before a field, what is read is what was written,
\* the prefix's spare bits apart, which never reach a shard's mask.  Of a structure
\* with a cell cut short or a reference gone, it is that or a refusal: never
\* another value, an absence, or a block without a configuration.  The one
\* exception is a state update that ends inside the last byte of its new hash:
\* new_state_hash answers with that hash, right in every byte but the last.  And
\* where a proof has pruned a cell on the way, the answer is that it is not shown;
\* a pruned state update is no update, and Malformed.
DecodesAsWritten ==
  asked.op # "none" =>
    LET said == Said(asked.op, asked.x)
        how == asked.damage.how
    IN CASE how = "whole" -> answer = said
         [] how = "pruned" -> \/ answer = Means("NotCovered", Nothing)
                              \/ answer = Means("ok", Pruned)
                              \/ said.why = "Malformed" /\ answer = said
                              \/ asked.op = "update" /\ answer = Means("Malformed", Nothing)
         [] EndsInLastByte -> /\ answer.why = "ok"
                              /\ Front(answer.got.state_hash) = Front(said.got.state_hash)
         [] OTHER -> answer = said \/ (answer.why \notin {"ok", "NotAKeyBlock"} /\ answer.got = Nothing)

\* What the doc of new_state_hash says: an update that is not long enough to hold both
\* hashes is Malformed (block.rs:209).
ShortUpdateIsRefused == ShortUpdate => answer = Means("Malformed", Nothing)
=============================================================================
