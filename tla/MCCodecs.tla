------------------------------ MODULE MCCodecs ------------------------------
(***************************************************************************)
(* The cell codec, the text codec and the readers of block structures.     *)
(* They share no state, so the run explores one at a time.                 *)
(***************************************************************************)
EXTENDS CellCodec, TextCodec, BlockCodec

Leaf(run) == [bits |-> run, refs |-> <<>>]
One == Leaf(<<1>>)
Wide == [bits |-> <<1, 0, 1>>, refs |-> <<One>>]

F(op, n, X) == {[op |-> op, n |-> n, x |-> v] : v \in X}

MCFields ==
  UNION {F("bit", 0, {1}), F("uint", 3, {5, 8}), F("uint", WORD, {44}), F("uint", WORD + 1, {0}),
         F("int", 3, {-4, 3, 4}), F("int", 0, {0, 1}), F("int", WORD, {-32}),
         F("u8", 0, {2}), F("u16", 0, {9}), F("u32", 0, {17}), F("i32", 0, {-2}),
         F("uint128", LONG, {200}), F("uint128", LONG + 1, {0}), F("int128", LONG, {-128}),
         F("var_uint", 3, {0, 5, 16}), F("var_uint", 1, {0}), F("var_int", 5, {-2, 2, 127}),
         F("coins", 0, {0, 3, 63}), F("same", 3, {0}), F("bits", 0, {<<0, 1>>}),
         F("bytes", 0, {<<<<1, 1>>, <<0, 1>>>>}),
         F("ref", 0, {One}), F("maybe_ref", 0, {<<>>, <<Wide>>}), F("dict", 4, {<<One>>}),
         F("slice", 0, {Wide}), F("either", 0, {One, Wide, Leaf(<<0, 0, 0, 0, 1, 0, 1>>)}),
         F("maybe_either", 0, {<<>>, <<Leaf(<<1, 0, 0, 0, 0>>)>>}),
         F("snake", 0, {<<>>, [i \in 1..3 |-> <<0, 1>>], [i \in 1..9 |-> <<i % 2, 1>>]}),
         F("address", 0, {[kind |-> "none"], [kind |-> "std", workchain |-> -1, account |-> <<<<1, 0>>>>]}),
         F("label", 5, {<<>>, <<1>>, <<1, 1, 1, 1, 1>>, <<0, 1, 0, 0, 1>>})}

MCProbes ==
  UNION {F("bit", 0, {0}), F("uint", 3, {0}), F("uint", WORD + 1, {0}), F("int", 3, {0}), F("i32", 0, {0}),
         F("int128", LONG, {0}), F("var_uint", 3, {0}), F("var_uint", 6, {0}), F("var_uint", 20, {0}),
         F("var_int", 5, {0}), F("coins", 0, {0}),
         F("bytes", 0, {<<0, 0>>}), F("ref", 0, {0}), F("maybe_ref", 0, {0}), F("dict", 4, {0}),
         F("dict", MAX_BITS + 1, {0}), F("slice", 0, {Wide}), F("either_arm", 0, {0}),
         F("maybe_either_arm", 0, {0}), F("address", 0, {0}), F("skip", 2, {1}),
         F("skip_bits", 4, {0}), F("skip_refs", 1, {0}), F("preload_uint", 4, {0}), F("preload_bit", 0, {0}),
         F("peek_ref", 0, {0}), F("window", 2, {1})}
  \cup UNION {F("label", max, {0}) : max \in 0..5}

MCForeign == {[bits |-> run, refs |-> <<>>] : run \in UNION {Runs(n) : n \in 0..MAX_BITS}}
  \cup {[bits |-> run, refs |-> <<One>>] : run \in UNION {Runs(n) : n \in 0..HALF}}

MCTexts == UNION {[1..n -> Characters] : n \in 0..4}
MCValues == UNION {[1..n -> 0..2^OCTET - 1] : n \in 0..2} \cup {<<1, 15, 8, 3>>, <<0, 0, 0>>, <<15, 15, 15, 7, 9>>}
MCAccounts == [tag : {1, 5, 9, 13, 0, 7}, workchain : {0, 15}, account_id : {<<15, 15>>, <<0, 6>>}]

Has(n) == {<<>>, <<Marked(n)>>}
MCStatuses ==
  {[is |-> "uninit"], [is |-> "frozen", hash |-> 9]}
  \cup [is : {"active"}, split : {<<>>, <<1>>}, special : {<<>>, <<1>>}, code : {<<Marked(11)>>}, data : Has(12), library : {<<>>}]
  \cup [is : {"active"}, split : {<<1>>}, special : {<<>>}, code : Has(11), data : {<<>>}, library : Has(13)]
MCAccountRecords ==
  {NoAccount}
  \cup [len : {<<>>}, anycast : {<<>>, <<2>>}, used : {5}, extra : BOOLEAN, due : {<<>>, <<6>>}, lt : {44},
        balance : {37}, currency : Has(10), status : MCStatuses]
  \cup [len : {<<0>>, <<3>>}, anycast : {<<0>>, <<3>>}, used : {0, 5}, extra : {TRUE}, due : {<<6>>}, lt : {44},
        balance : {0, 37}, currency : {<<>>}, status : {[is |-> "uninit"]}]
MCHeaderRecords ==
  [prefix_bits : 0..2^PFX_LEN - 1, prefix : {0, 21, 40, 2^WORD - 1}, workchain : {-1, 0}, key : {0, 1}, seqno : {6},
   tail : {<<18, 1, 12, 5>>}]
MCExtraRecords ==
  {e \in [custom : BOOLEAN, key : {0, 1}, hashes : Has(11), fees : Has(12), sum : {0, 37}, other : Has(13), config : {Marked(33)}] :
     Len(McExtraCell(e).refs) <= 4}
MCEntryRecords ==
  [dict : BOOLEAN, held : BOOLEAN, id : {<<0, 1>>}, sum : {0, 37}, other : Has(10), account : {Marked(5)}, hash : {9}, lt : {44}]
MCShardRecords ==
  [extra : BOOLEAN, dict : BOOLEAN, held : BOOLEAN, id : {<<0, 1, 1>>, <<1, 0, 0>>}, depth : 0..MAX_SPLIT_DEPTH + 1, tag : {11},
   seq_no : {6}, hash : {9}]

MCInit == Init /\ TextInit /\ BlockInit
MCNext ==
  \/ mode = "idle" /\ asked.op = "none" /\ Next /\ UNCHANGED <<textVars, blockVars>>
  \/ pc = "write" /\ b = new /\ log = <<>> /\ asked.op = "none" /\ TextNext /\ UNCHANGED <<vars, blockVars>>
  \/ pc = "write" /\ b = new /\ log = <<>> /\ mode = "idle" /\ BlockNext /\ UNCHANGED <<vars, textVars>>
MCSpec == MCInit /\ [][MCNext]_<<vars, textVars, blockVars>>
=============================================================================
