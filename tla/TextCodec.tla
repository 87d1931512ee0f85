------------------------------ MODULE TextCodec -----------------------------
(***************************************************************************)
(* Values written as text and keys written as bytes: base64 and hex        *)
(* (core/src/cell/codec.rs), the base64 of both alphabets and the checksum *)
(* of core/src/codec.rs, the addresses of core/src/address.rs and the      *)
(* integer keys of core/src/cell/dict/typed.rs.                            *)
(*                                                                         *)
(* A byte is OCTET bits and a base64 character stands for SEXTET of them,  *)
(* with 3 * OCTET = 4 * SEXTET as in the code.  A character is a number:   *)
(* the value it stands for, or above those one of the two of the other     *)
(* alphabet, the pad or a character of neither.                            *)
(***************************************************************************)
EXTENDS Slice

CONSTANTS OCTET, SEXTET, POLY,   \* the checksum's polynomial, over two bytes
          ID                     \* the bytes of an account id

CONSTANTS Texts,       \* the texts a reader is given
          Values,      \* the bytes a writer is given
          Accounts     \* the addresses that are written

VARIABLES mode, words, meant   \* the step taken, its text and its value
textVars == <<mode, words, meant>>

ASSUME Quantum == 3 * OCTET = 4 * SEXTET

Digits == 0..2^SEXTET - 1
Minus == 2^SEXTET       \* '-', which stands for what '+' does
Under == Minus + 1      \* '_', which stands for what '/' does
Pad == Minus + 2
Junk == Minus + 3
Characters == 0..Junk

None == [ok |-> FALSE, bytes |-> <<>>]
Some(bytes) == [ok |-> TRUE, bytes |-> bytes]

\* A run of bits cut into numbers of `width` bits, what is left over dropped, and
\* the bits of a run of numbers.
Numbers(run, width) == [k \in 1..Len(run) \div width |-> Number(SubSeq(run, (k - 1) * width + 1, k * width))]
BitsOfAll(ns, width) ==
  [i \in 1..width * Len(ns) |-> Uint(ns[((i - 1) \div width) + 1], width)[((i - 1) % width) + 1]]

-----------------------------------------------------------------------------
(* cell/codec.rs.                                                          *)

\* Whole quanta; a short last one spells one character more than its bytes.
base64_encode(bytes) ==
  LET bits == BitsOfAll(bytes, OCTET)
      short == Len(bytes) % 3
      carried == 4 * (Len(bytes) \div 3) + (IF short = 0 THEN 0 ELSE short + 1)
      padded == bits \o [i \in 1..SEXTET * carried - Len(bits) |-> 0]
  IN Numbers(padded, SEXTET) \o [i \in 1..(IF short = 0 THEN 0 ELSE 3 - short) |-> Pad]

Padding(text) == CHOOSE n \in 0..Len(text) :
                   /\ \A i \in Len(text) - n + 1..Len(text) : text[i] = Pad
                   /\ n < Len(text) => text[Len(text) - n] # Pad

\* The bits of a text's characters, of which the last few belong to no byte.
Spare(text) == (SEXTET * Len(text)) % OCTET
SpareIsClear(text) ==
  LET bits == BitsOfAll(text, SEXTET)
  IN \A i \in Len(bits) - Spare(text) + 1..Len(bits) : bits[i] = 0

\* Mutant: the bits no byte carries are not looked at.
base64_decode_Lenient(text) ==
  LET body == Head_(text, Len(text) - Padding(text))
  IN IF Len(text) % 4 # 0 \/ Padding(text) > 2 \/ \E i \in DOMAIN body : body[i] \notin Digits THEN None
     ELSE Some(Numbers(BitsOfAll(body, SEXTET), OCTET))

base64_decode(text) ==
  LET body == Head_(text, Len(text) - Padding(text))
  IN IF Len(text) % 4 # 0 THEN None
     ELSE IF Padding(text) > 2 THEN None
     ELSE IF \E i \in DOMAIN body : body[i] \notin Digits THEN None
     ELSE IF ~SpareIsClear(body) THEN None
     ELSE Some(Numbers(BitsOfAll(body, SEXTET), OCTET))

\* A hex digit is its value, or its value and HexCase above it in the other
\* case; the decimal ones have none.
HexCase == 2^(OCTET \div 2)
nibble(c) == IF c < HexCase THEN c ELSE c - HexCase
IsHex(c) == c < HexCase \/ c \in HexCase + (HexCase \div 2)..2 * HexCase - 1

hex_encode(bytes) == Numbers(BitsOfAll(bytes, OCTET), OCTET \div 2)

hex_decode(text) ==
  IF Len(text) % 2 # 0 THEN None
  ELSE IF \E i \in DOMAIN text : ~IsHex(text[i]) THEN None
  ELSE Some(Numbers(BitsOfAll([i \in DOMAIN text |-> nibble(text[i])], OCTET \div 2), OCTET))

-----------------------------------------------------------------------------
(* codec.rs: characters of either alphabet fed one by one to an            *)
(* accumulator, which gives up a byte whenever it holds one.               *)

sextet(c) == CASE c = Minus -> Minus - 2 [] c = Under -> Minus - 1 [] OTHER -> c
InEither(c) == c \in Digits \cup {Minus, Under}

base64_decode_both(text) ==
  LET body == Head_(text, Len(text) - Padding(text))
      run[n \in 0..Len(body)] ==
        IF n = 0 THEN [acc |-> <<>>, out |-> <<>>]
        ELSE LET prev == run[n - 1]
                 acc == prev.acc \o Uint(sextet(body[n]), SEXTET)
             IN IF Len(acc) < OCTET THEN [prev EXCEPT !.acc = acc]
                ELSE [acc |-> Rest(acc, OCTET), out |-> Append(prev.out, Number(Head_(acc, OCTET)))]
      end == run[Len(body)]
  IN IF Len(text) % 4 # 0 THEN None
     ELSE IF Padding(text) > 2 \/ \E i \in DOMAIN body : ~InEither(body[i]) THEN None
     ELSE IF \E i \in DOMAIN end.acc : end.acc[i] = 1 THEN None
     ELSE Some(end.out)

\* Two bytes of remainder, fed a byte at a time from the top.
Xor(run, with) == [i \in DOMAIN run |-> (run[i] + with[i]) % 2]
crc16(bytes) ==
  LET bits == BitsOfAll(bytes, OCTET)
      width == 2 * OCTET
      crc[n \in 0..Len(bits)] ==
        IF n = 0 THEN [i \in 1..width |-> 0]
        ELSE LET prev == crc[n - 1]
                 shifted == Append(Tail(prev), 0)
             IN IF (prev[1] + bits[n]) % 2 = 1 THEN Xor(shifted, Uint(POLY, width)) ELSE shifted
  IN Numbers(crc[Len(bits)], OCTET)

-----------------------------------------------------------------------------
(* address.rs.  The tag's two top bits are the flags.                      *)

ADDRESS_TAG == 1
TEST_ONLY == 2^(OCTET - 1)
NON_BOUNCEABLE == 2^(OCTET - 2)

Refusal == [ok |-> FALSE, workchain |-> 0, account_id |-> <<>>, bounceable |-> FALSE, test_only |-> FALSE]

\* Mutant: the checksum is taken over the account and not the tag before it.
parse_user_friendly_SkipsTag(text) ==
  LET r == base64_decode_both(text)
      raw == r.bytes
      tag == raw[1]
  IN IF ~r.ok \/ Len(raw) # 4 + ID THEN Refusal
     ELSE IF crc16(SubSeq(raw, 2, 2 + ID)) # SubSeq(raw, 3 + ID, 4 + ID) THEN Refusal
     ELSE IF tag % NON_BOUNCEABLE # ADDRESS_TAG THEN Refusal
     ELSE [ok |-> TRUE, workchain |-> sign_extend(Uint(raw[2], OCTET)), account_id |-> SubSeq(raw, 3, 2 + ID),
           bounceable |-> (tag \div NON_BOUNCEABLE) % 2 = 0, test_only |-> tag >= TEST_ONLY]

parse_user_friendly(text) ==
  LET r == base64_decode_both(text)
      raw == r.bytes
      tag == raw[1]
  IN IF ~r.ok \/ Len(raw) # 4 + ID THEN Refusal
     ELSE IF crc16(SubSeq(raw, 1, 2 + ID)) # SubSeq(raw, 3 + ID, 4 + ID) THEN Refusal
     ELSE IF tag % NON_BOUNCEABLE # ADDRESS_TAG THEN Refusal
     ELSE [ok |-> TRUE, workchain |-> sign_extend(Uint(raw[2], OCTET)), account_id |-> SubSeq(raw, 3, 2 + ID),
           bounceable |-> (tag \div NON_BOUNCEABLE) % 2 = 0, test_only |-> tag >= TEST_ONLY]

\* The raw form carries no flags; its workchain is parsed as a whole integer.
parse_raw(workchain, hex) ==
  LET r == hex_decode(hex)
  IN IF ~r.ok \/ Len(r.bytes) # ID THEN Refusal
     ELSE [ok |-> TRUE, workchain |-> workchain, account_id |-> r.bytes, bounceable |-> TRUE, test_only |-> FALSE]

\* Two addresses are equal when they name the same account.
SameAccount(a, c) == a.workchain = c.workchain /\ a.account_id = c.account_id
-----------------------------------------------------------------------------
(* cell/dict/typed.rs: an integer as the bytes of a dictionary's key, which  *)
(* is key_bits wide.  A byte here is BYTE bits and a key WORD of them.       *)

KeyFails == [ok |-> FALSE, key |-> <<>>]
Filled(fill, run, bits) == [i \in 1..bits - Len(run) |-> fill] \o run

uint_key(key, key_bits) ==
  LET be == Uint(key, WORD)
      cut == WORD - key_bits
  IN IF key_bits % BYTE # 0 THEN KeyFails
     ELSE IF cut <= 0 THEN [ok |-> TRUE, key |-> Filled(0, be, key_bits)]
     ELSE IF \E i \in 1..cut : be[i] # 0 THEN KeyFails
     ELSE [ok |-> TRUE, key |-> Rest(be, cut)]

\* The bytes cut off are the sign's, and so is the first bit kept.
int_key(key, key_bits) ==
  LET be == Twos(key, WORD)
      fill == IF key < 0 THEN 1 ELSE 0
      cut == WORD - key_bits
  IN IF key_bits % BYTE # 0 THEN KeyFails
     ELSE IF cut <= 0 THEN [ok |-> TRUE, key |-> Filled(fill, be, key_bits)]
     ELSE IF cut = WORD \/ (\E i \in 1..cut : be[i] # fill) \/ be[cut + 1] # fill THEN KeyFails
     ELSE [ok |-> TRUE, key |-> Rest(be, cut)]

-----------------------------------------------------------------------------
(* One text or value at a time through the codecs.                         *)

TextInit == mode = "idle" /\ words = <<>> /\ meant = "none"

WriteText ==
  /\ mode = "idle" /\ mode' = "written"
  /\ \E bytes \in Values : meant' = bytes /\ words' = base64_encode(bytes)

ReadText ==
  /\ mode = "idle" /\ mode' = "read"
  /\ \E t \in Texts : words' = t /\ meant' = base64_decode(t)

ReadHex ==
  /\ mode = "idle" /\ mode' = "hex"
  /\ \E t \in Texts : words' = t /\ meant' = hex_decode(t)

\* An address as other tools write it, with one character of it replaced.
Friendly(a) ==
  LET raw == <<a.tag, a.workchain>> \o a.account_id IN base64_encode(raw \o crc16(raw))

ParseAddress ==
  /\ mode = "idle" /\ mode' = "address"
  /\ \E a \in Accounts :
       /\ meant' = a
       /\ \E i \in DOMAIN Friendly(a), c \in Characters : words' = [Friendly(a) EXCEPT ![i] = c]

\* An integer under every width of key.
MakeKey ==
  /\ mode = "idle" /\ mode' = "key"
  /\ \E key \in -(2^(WORD - 1))..2^WORD - 1, key_bits \in 0..WORD + BYTE :
       /\ meant' = [key |-> key, key_bits |-> key_bits]
       /\ words' = <<>>

TextNext == WriteText \/ ReadText \/ ReadHex \/ ParseAddress \/ MakeKey

-----------------------------------------------------------------------------
\* An integer key is its number: it is made exactly when the number fits a width
\* of whole bytes, and reads back as that number, so two numbers never share an
\* entry.  Unsigned keys also compare, bit by bit, as their numbers do, so a walk
\* in key order is a walk in the numbers' order; of signed keys, whose negative
\* numbers come last, nothing is said of the order.
KeysAreTheirNumbers ==
  mode = "key" =>
    LET k == meant.key
        n == meant.key_bits
        u == uint_key(k, n)
        i == int_key(k, n)
        run(key) == [bits |-> key, refs |-> <<>>]
    IN /\ k >= 0 => /\ u.ok = (n % BYTE = 0 /\ k < 2^n)
                    /\ u.ok => Number(u.key) = k /\ Len(u.key) = n
                    /\ (u.ok /\ k > 0) => compare_bits(run(uint_key(k - 1, n).key), run(u.key)) = "Less"
       /\ k < 2^(WORD - 1) => /\ i.ok = (n % BYTE = 0 /\ (n >= WORD \/ (n > 0 /\ FitsSigned(k, n))))
                              /\ i.ok => sign_extend(i.key) = k /\ Len(i.key) = n

\* One text for one value: what is written reads back, a text that is read is
\* the one its value is written as, and the reader of both alphabets reads the
\* same bytes from the same texts once its two extra characters are replaced.
\* Hex is the same but for its case; an integer key is its number.
OneTextOneValue ==
  LET Standard(t) == [i \in DOMAIN t |-> sextet(t[i])]
  IN /\ mode = "written" => (base64_decode(words) = Some(meant) /\ hex_decode(hex_encode(meant)) = Some(meant))
     /\ mode = "read" =>
          /\ meant.ok => base64_encode(meant.bytes) = words
          /\ base64_decode_both(words) = base64_decode(Standard(words))
     /\ (mode = "hex" /\ meant.ok) => hex_encode(meant.bytes) = [i \in DOMAIN words |-> nibble(words[i])]
     /\ KeysAreTheirNumbers

\* A user-friendly address says which account it names: its own text parses to
\* the account and the flags it was written with, equal to the raw form of the
\* same account; with any one character changed to one that stands for another
\* value it is refused, the tag that no workchain or account check would see
\* included; and a tag of another format is refused even under a good checksum.
AddressIsCaught ==
  mode = "address" =>
    LET parsed == parse_user_friendly(words)
        raw == parse_raw(sign_extend(Uint(meant.workchain, OCTET)), hex_encode(meant.account_id))
        sameText == [i \in DOMAIN words |-> sextet(words[i])] = Friendly(meant)
        known == meant.tag % NON_BOUNCEABLE = ADDRESS_TAG
    IN /\ parsed.ok = (sameText /\ known)
       /\ parsed.ok => /\ SameAccount(parsed, raw)
                       /\ parsed.test_only = (meant.tag >= TEST_ONLY)
                       /\ parsed.bounceable = (meant.tag % TEST_ONLY < NON_BOUNCEABLE)
=============================================================================
