# ton-net in TLA+

ton-net is a light client for TON. A process opens an encrypted session to a
liteserver it does not trust (ADNL over TCP), walks signed key-block links from
a block its configuration pins to the head the server names, and reads accounts
with Merkle proofs against that head. A Node binding shares one client between
JavaScript callers. Underneath is an engine for cells: trees of up to 1023 bits
and four references each, the bags that carry them, dictionaries written in
them, and proofs that prune them.

This directory models that program, model-checks the models on small instances
with TLC, and proves the main theorems for every instance with TLAPS. Paths
below are relative to the repository's root; `PROJECT.json` maps every
definition to the lines it models and lists the hazards each property is for.

## 1. Inventory

| Part | State | Operations | What is hard |
|---|---|---|---|
| ADNL connection (`core/src/adnl`) | two AES-CTR keystreams, the `intact` flag | `connect`, `query` (`send`, `recv`) | a future dropped between any two bytes; late answers; the frame budget |
| Validator sets, signatures (`core/src/proof/validators.rs`, `chain.rs`) | members, weights, entries counted | `from_config`, `from_cell`, `carried_weight` | pruned configurations, repeats, junk entries, u64 sums, two thirds exactly |
| Block sync (`core/src/client.rs`, `client/sync.rs`, `proof/chain.rs`) | anchor, walk position, rounds, links, clocks | `connect`, `connect_from`, `sync`, `anchor` | replies of an arbitrary server, deadlines, restarts, i32 against u32 |
| Account reads (`core/src/proof.rs`, `tlb/shard.rs`) | none kept | `account_at`, `verify_account` | what a proof leaves out read as absence |
| Node binding (`bindings/node/src/lib.rs`) | the client behind an async mutex | seven calls, `connect`, `connect_from` | calls interleaved, a session lost under other callers |
| Dictionaries (`core/src/cell/dict*`) | a tree of cells | readers and writers of the plain, augmented and prefix kinds; integer keys | one tree per key set, partial trees, room in a cell |
| Bag readers (`core/src/cell/boc/parse.rs`, `lazy.rs`, `view.rs`, `random.rs`) | cells built so far | parallel parse, lazy build, one cell, verify | thread order, several failures at once, a wrapping counter |
| Bag writers (`boc/serialize.rs`, `large.rs`, `header.rs`, `compress.rs`) | the order, the stream's position | `serialize_boc_with`, the chunked writer | shared cells, field widths at their limits, the two writers against each other and the readers |
| Cells (`core/src/cell/cell*`) | none: values | `classify`, `check_stored`, hashes and depths by level | two cells of one identity; levels under Merkle cells |
| Merkle (`core/src/cell/merkle*`, `usage*`) | the marks of a usage tree | `mark*`, tracing, `prune`, `prove`, `virtualize`, updates | partial bases, shared cells, updates combined |
| Builders, slices (`core/src/cell/builder*`, `slice*`) | bits and references written or left | every store and load | a refusal half way through a store, sign and width at the limits |
| Block structures (`core/src/tlb`) | none: decoders | accounts, headers, configurations, shard states and records | fields behind optional parts, read from cells a proof pruned |
| Text (`core/src/codec.rs`, `address.rs`, `cell/codec.rs`) | none: codecs | base64, hex, addresses | two texts of one value, a mistyped address |
| Transport, handshake, TL records, configuration, dumps, spikes | | | I/O, arithmetic, formatting: section 7 |

What correct means, part by part: a session never decrypts at the wrong
position; a set of signatures is judged by the set in force and each signer is
paid once; the root of trust is always a key block the network committed, and
moves only forward, on proof; an account called proved is what the chain holds;
a dictionary is a function of its entries, and its readers never take a hidden
part for an absent one; what a bag parses to does not depend on threads or on
the order of calls; what one writer writes every reader reads back; cutting a
tree keeps its root hash and shows what was read; a field is decoded where it
was written or the decoder fails; and every call returns.

## 2. Modules

| Module | Models | Runs | Proofs |
|---|---|---|---|
| `AdnlSession` | what a session promises its caller (abstract) | | |
| `AdnlConnection` | `AdnlConnection`, `SessionCiphers`, a liteserver | `MCAdnl` | `AdnlProofs` |
| `LinkSignatures` | `ValidatorSet::from_config`/`from_cell`, `carried_weight` | `MCLinkSignatures` | `LinkProofs` |
| `Anchor` | what a light client promises of its root of trust (abstract) | | |
| `Sync` | `Client::sync`, `Walk`, `verify_chain`, `verify_link` | `MCSync` | `SyncProofs` |
| `AccountProof` | `verify_account`, `find_shard` | `MCClient` | `ClientProofs` |
| `NodeClient` | `TonClient`; extends `Anchor` | `MCClient` | `ClientProofs` |
| `HmLabel` | dictionary edge labels | `MCCodecs`, `MCDict` | |
| `DictTree`, `Dict` | plain and augmented dictionaries | `MCDict` | |
| `PfxDict` | prefix dictionaries | `MCDict` | |
| `BocWaves` | the parallel pass over a bag | `MCBocReaders` | `ReaderProofs` |
| `LazyBoc` | a bag built a cell at a time, beside that pass; extends `BocWaves` | `MCBocReaders` | `ReaderProofs` |
| `CellModel`, `WireCells` | cells, level masks, identities, checks | `MCCells` | `CellProofs` |
| `BocFormat`, `BocWriter` | the bytes of a bag, written whole and as a stream | `MCCells` | `WriterProofs` |
| `BocReader`, `BocRoundTrip` | the readers of those bytes, and a writer and its readers together | `MCCells` | |
| `MerkleCells`, `UsageTree` | proofs and the usage trees they are cut from | `MCCells` | `UsageProofs` |
| `MerkleUpdates` | Merkle updates | `MCCells` | |
| `Builder`, `Slice`, `CellCodec` | stores, loads, and a writer and a reader using them | `MCCodecs` | |
| `TextCodec` | base64, hex, addresses, integer keys | `MCCodecs` | |
| `BlockCodec` | the decoders of `core/src/tlb` | `MCCodecs` | |

How they fit together. `AdnlConnection` implements `AdnlSession`, and a session
that is "open" or "lost" is all `Sync` and `NodeClient` keep of it. The verdict
`LinkSignatures` computes is the relation `Signed` of `Sync`: its run and its
theorems say when a link's signatures carry it, and `Sync` assumes a set that
signed a block committed it. `Sync` implements `Anchor`, and `NodeClient` builds
on `Anchor`'s actions, so its callers share a root of trust that keeps the
promise `Sync` is proved to keep. `DictTree`, `PfxDict` and `Builder` write
labels with `HmLabel`. `BocFormat` and `MerkleCells` build on `CellModel`,
`BocWriter` and `BocReader` on `BocFormat`, and
`CellCodec`, `TextCodec` and `BlockCodec` on `Slice`. `AccountProof` takes a
lookup under pruning as a constant of the chain; `BlockCodec` has the decoding
behind it, and `DictTree` the walk to a leaf that `BlockCodec` leaves out.
Components that share no state are checked in one run, each with the others at
rest.

### The session

A byte on the wire is its keystream position and the frame it belongs to; a
reader at any other position reads noise, which the model turns into every
length and content the code could see. `Query` seals before the first write, as
`send` does; `WriteSome`, `ReadSome` and the rest move one byte, and `Cancel`
drops the future between any two of them. The server reads whole frames and
sends answers (to any query it has heard, late and duplicate ones included),
other messages, messages nobody decodes, and corrupt frames.

### Signatures

One action reads one descriptor or one signature entry. What a proof shows of
the configuration is an input, pruned lookups included. Weights are small
numbers under a small `U64_MAX`, so overflow happens. `valid`, `junk` and
`ended` are history: which members signed, how many entries naming members did
not verify, and whether the loop reached the end of the list.

### The walk

A block identity is a sequence number, a root hash, a file hash and whether it
is of the masterchain. The server's links are a constant: honest ones, and ones
that differ from an honest one in a field. Sequence numbers wrap
at `HALF`, so that the signed comparison of `verify_link` and the unsigned one of
the walk disagree as they do at 2^31. Time, the wall clock's
included, advances while a call waits, up to its deadline. `saved` is
what the caller stored of `anchor()` and the only state a restart keeps.

### Account reads

The chain is a set of constants: which state a block leaves, which accounts and
shards a state holds. A proof names the hash it covers and shows all or part of
what is there. `honest` records whether every answer of this read was whole, for
the completeness property.

### The binding

The mutex is a queue (tokio's is first come first served). Each of the seven
calls locks, makes its queries and unlocks; `account` walks and then reads under
one lock. A timeout loses the session for everyone. JavaScript stores an anchor
it was shown some time ago, and a new process starts from it.

### Dictionaries

A tree is a value: nodes with labels, summaries and the width a label was
written under. A pruned branch keeps the subtree it stands for, which no reader
looks into, so that properties can speak of the whole tree. A value is the
number of bits it takes, and cells are small, so a long label leaves no room for
a large value. The augmented shape's summary adds up and overflows past
`MAX_SUM`. Operations are operators over trees, one step of `Dict` or `PfxDict`
is one call.

### Bags

`BocWaves` reads the cells (a backward or missing reference is refused), sweeps
their heights, and runs one wave of equal height after another, here or on
several threads, each thread judging its share in index order while the others
do theirs. Which cells are bad of themselves is an input. `LazyBoc` keeps the
`Build` record of the code: what is built, the mark each walk leaves, the
counter that wraps. Its `ReadersSpec` puts the two readers over one bag: the lazy
one takes calls once reading and heights have found nothing to refuse, which is
what `read_cells` asks before a `LazyBoc` exists.

`BocFormat` has the bytes. A byte is a tuple saying what it holds: a digit of a
number in base `BASE`, a descriptor, data, a stored hash, or the checksum, which
is the bytes it covers. So a width too narrow for its number loses digits as in
the code, and a corrupt checksum is one of other bytes. `BocFormat` is the whole
writer, `serialize_boc_with`; `BocWriter` takes the ordering walk a visit at a
time and the stream a chunk at a time; `BocReader` has the readers, and
`BocRoundTrip` what they make of a bag that was written. The graph under a list
of roots is the union of its layers, the cells some number of references away;
`Layers` is as deep as any graph goes. A width is the number of digits
`byte_width` finds, at least one and at most `U64_BYTES`.

### Cells and Merkle trees

A hash is the term hashed, so two hashes are equal when the bytes under them
are. A level mask is a set of levels. A refusal's reason is left out. `WireCells`
reads cells of every kind and mask that can arrive, over a pool of those read
before. A place in a tree is the sequence of references followed from the root,
and what the code does by recursion on cells (`prune_cell`, `mark_path_to`) is a
recursive function on the tree's places. `UsageTree` records marks by hash, as
the code does; tracing scopes nest.
`MerkleUpdates` goes through states A, B, C with updates whose sides were cut by
usage trees, combines them, and applies them to whole and partial bases.

### Builders, slices and the codecs above them

Widths keep the code's names over smaller numbers: a byte has `BYTE` bits, a u32
`HALF`, a u64 `WORD`, a u128 `LONG`. A failing operation answers with what it
leaves, since a caller may recover. `CellCodec` has a writer that stores fields,
is refused, rewinds and builds, a reader of the same schema, and a reader of any
cell at all. In `TextCodec` a character is the number it stands for, or one of
the other alphabet, the pad, or junk.

In `BlockCodec` each action takes a record, lays it out as the chain does
(external: modelled from what the decoders expect), damages at most one cell of
it (cut at any bit, its last reference dropped, or pruned) and decodes it.

## 3. Runs

| Run | Shows |
|---|---|
| `adnl_session` | `Synchronized`: while `intact` is up both keystreams stand where the server's stand, whatever was cancelled. `ImplementsSession`: refines `AdnlSession`, so an answer is the answer to the query asked |
| `link_signatures` | `SetInForce`, `VerdictExact`, `GivingUpTakesJunk` over every configuration, set and signature list of three keys |
| `sync_walk` | `TrustsOnlyCommitted`, `AnchorVouchesForHead`, `WalkEndsInTime`, `ImplementsAnchor`; and `SyncReturns`, that every sync comes back |
| `sync_zero_bound` | finding, section 6 |
| `client_calls` | What a call comes back with. One read: `ProvedIsTrue`, what comes back as proved is what the chain holds; `WholeAnswerIsAccepted`, a whole answer is never refused, whatever the order of its roots. Many calls: `AccountRestsOnAnchor`, `AnchorsNeverGoBack`, `LostAnswersNobody`, and `EveryCallReturns`. The two share no state and are explored one at a time |
| `dictionaries` | `Canonical`: one tree per key set after any calls, `subdict` included. `ReadersAreTrue`. `RefusesOnlyTheImpossible`. `NothingIsDropped`. `SummariesAreTrue` with `validate` and `traverse`. The prefix kind: `MinimalForItsKeys`, `PrefixesAnswerTruly` |
| `dict_fork_reference` | finding, section 6 |
| `boc_readers` | `ReportsTheCause` in every interleaving of the threads. `KeptWithItsSubtree`: nothing built twice. `AnswersAsIfFirst`: a lazy answer does not depend on the calls before it, and agrees with the whole pass |
| `cells` | `OneIdentityOneCell`. `PruneKeepsTheRoot`, `ProofShowsWhatWasRead`. `UpdateRebuilds`, `UpdatesCompose`. `ChunksAreTheBag`: a stream holds each reachable cell once, ahead of its references, and is the whole writer's bytes. `WrittenReadsBack`: every reader gets the graph written, or the limit it passes. `NoSlack`: a bag cut short anywhere, or followed by anything, is refused |
| `combine_library` | finding, section 6 |
| `codecs` | `ReadsBack`: fields, labels included, come back. `StoredIsTheShortest`. `RefusalLeavesNothing`: a refused store leaves the builder as it was, a failed load the cursor before the field or just past its discriminators. `OneTextOneValue`, integer keys in the order of their numbers included. `AddressIsCaught`: an address with one character changed never parses. `DecodesAsWritten`: whole structures decode to what was written, damaged ones to that or an error, the update of `short_update` apart |
| `short_update` | finding, section 6 |

Every property also has a mutant in `PROJECT.json`: a definition changed the way
a slip in the code would change it, under which the property fails.

### Bounds

* `adnl_session`: prefixes of two bytes, bodies of one or two, a budget of two
  frames, three queries and three server frames. Enough for a message past the
  ceiling, an answer that comes after its query gave up, a budget spent on
  skipped frames, and a call after the loss of the session.
* `link_signatures`: three keys, weights 0, 1, 2 and 4 under `U64_MAX` = 7, seven
  entries. Six is the attempt budget of three members, so the loop gives up with
  entries left; sums pass the limit; exactly two thirds occurs.
* `sync_walk`: six blocks, three of them key blocks, two links a reply, three a
  sync, two rounds. Each limit is met and passed, and the sequence numbers cross
  the sign. A block is configured to start from; a configuration without one,
  which refuses the first walk, is covered by the theorems only.
* `client_calls`: three accounts, bags of two roots, shards split to a limit of
  two. The deepest shard lies at the limit, where an off-by-one would refuse it.
  Two callers; a third adds only a longer queue.
* `dictionaries`: keys of four bits (prefix keys of up to four), dictionaries
  that start with up to three entries and grow to all the keys, cells with room
  for a large value beside a short label only.
* `boc_readers`: every bag of four cells with up to two references each,
  diamonds and failures on both sides of a shared cell included; one to three
  threads with one cell a share; a walk counter that wraps at two.
* `cells`: up to three cells off the wire, of at most two references, levels 1
  and 2; trees of five cells, at most three references deep
  (`MaxHeight`), with one shared, one with a library cell, one already a skeleton; bags with
  numbers in base 4, so that counts and offsets take one to three digits, root
  lists past one digit, chains one past the depth limit and header ceilings on
  both sides of each bag.
* `codecs`: three stores in cells of ten bits and two references; every cell of
  up to ten bits, and of up to five beside a reference, met by every load; labels to five bits, where all three
  encodings win somewhere and tie somewhere; texts of up to four characters and
  values of up to five bytes of four bits; structures with every combination of
  the optional parts before a field, every cut of one cell, every prunable cell.
  The cells of `BlockCodec` are not held to ten bits.

Deadlock is checked except where the system really stops: a judged signature
list, a finished pass, a built or read cell, and the dictionaries, whose every
call may leave the tree as it was.

### Fairness

`Sync` assumes weak fairness of `Progress`: a waiting sync is polled, its
deadline fires, and a reply it has is checked. That is the executor's and the
timer's contract; nothing is assumed of the server, which may answer late or
never. `NodeClient` assumes that a free mutex is handed to the first in its
queue and that each call the runtime holds is polled. `AdnlConnection` has no timer of its own
(its deadlines are its callers'), so nothing is claimed live about it.

## 4. Proofs

The theorems hold for every value of the constants that satisfies the named
assumptions of each module.

* `AdnlProofs`. `ConstantsAssumption` asks that prefix, frames and budget are
  not empty. `Synchronized` alone is not inductive: while a query is under way
  the flag is down and the keystreams are out of step by what is still to be
  written or was already taken. The inductive invariant says by exactly how
  much, in each control state, and that bytes in flight carry consecutive
  positions. From it follow type correctness, `Synchronized`, `ReadsInStep` (a
  read only meets bytes at its own position), `NoAwaitIntact`, `LostIsFinal` and
  the refinement of `AdnlSession`.
* `LinkProofs`. Type correctness with sums inside u64, `SetInForce`,
  `CountsEverySigner`, and `GivingUpTakesJunk`. The last is a counting argument:
  attempts are the members counted plus the entries that failed, and no more
  members are counted than there are. `VerdictExact` rests on `SumInv`: the total
  and the carried weight are the sums over the members read and the members
  counted. A sum over a finite set is a recursive function here; that it exists,
  grows by the weight of each new member and is monotone is proved from minimal
  counterexamples among finite sets, and monotony under the total is why the
  checked addition of the loop cannot overflow.
* `SyncProofs`. `WorldAssumption` is where trust enters: the configured block is
  a committed key block, and what the validator set of a committed key block
  signed is committed. It says nothing of the server. The invariant ties the
  walk's position to the block it started from, in both orders of sequence
  numbers. Proved: type correctness with the round and link bounds, `TrustsOnlyCommitted`,
  `AnchorVouchesForHead`, `WalkEndsInTime`, `AnchorMovesOnlyOnArrival`, and that
  `Sync` implements `Anchor`.
* `ClientProofs`, first part (`AccountProof`). Soundness (`ProvedIsTrue`) and completeness
  (`WholeAnswerIsAccepted`) of `verify_account`, for every chain, every bag and
  every split depth. What a whole answer is (`Whole`, `WholeBytes`) is said of
  the bag and the bytes, not with the code's own checks; `Found` shows that
  `rooted_at` then finds its root. The world assumes hashes without collisions, and that the
  shard trees of the chain are prefix codes no deeper than the limit.
* `ClientProofs`, second part (`NodeClient`). For any number of callers and any chain: `AccountRestsOnAnchor`,
  `AnchorsNeverGoBack` and `LostAnswersNobody`. None is inductive: that an
  account returned rests on the anchor depends on no other call having walked
  since its own walk ended. `NodeInv` adds the lock discipline (a call past its
  first query holds the lock, and only on an open session), where a pending read
  is, and that the anchor is no older than what any waiting call was shown. A
  step of the holder ends its call or goes on to the next await, and each way is
  one lemma (`EndKeepsDiscipline`, `AwaitKeepsInv`). `NodeAssumption` says only
  that nobody is not a caller.
* `ReaderProofs`, first part (`BocWaves`). For every bag, number of threads and depth limit: `KeptIsFinal`, a
  cell is held exactly when it is sound and its children are held, at every
  moment; `ReportsTheCause`; and `OrderIsInvisible`, that what a finished pass
  holds is the only set the bag allows. The invariant says that a wave's cells
  have their children in earlier waves, and that what a thread has judged is
  judged right before the join. Where an argument needs induction over indices
  it goes through a least counterexample, with the library's well-founded
  minimum on initial segments (`Least`).
* `ReaderProofs`, second part (`LazyBoc`). For every bag, list of roots, sequence of calls and size of the
  walk counter: `KeptWithItsSubtree` and `AnswersAsIfFirst`, and
  `ReportsTheCause` of the pass beside the lazy reader. `LazyAssumption` says only that the counter has a value past zero and
  that lists name cells or a place past the last. `ReachIs` shows the walk's
  recursion has a solution, the least set closed under references; `HoldingIs`,
  that building from the highest index down gives a value to exactly the sound
  cells. `ReadersInv` adds to the two properties that no mark is from a
  generation to come, which is what makes the wrap harmless, that nothing kept is
  bad, and that the bag runs forward once the pass is through. That a failure
  named by a lazy call is one of the pass's goes through `OrderIsInvisible`: the
  cells whose subtree is sound are a set the bag allows, so they are what the
  pass holds.
* `CellProofs`. `OneIdentityOneCell`, for any number of cells of any data, masks
  and references read off the wire. `WireAssumption` bounds masks and reference
  counts as the format does. The chain of hashes of a derived identity is shown
  to exist and to be read back from its last hash; equal descriptors are of equal
  reference counts, masks and exotic flags; a pruned branch hashes data no derived identity is taken
  over. Two cells of one hash then have the same data and descriptor and, a level
  at a time, children of the same hashes, which are in the pool and so equal.
* `UsageProofs`. `PruneKeepsTheRoot` and `ProofShowsWhatWasRead`, for trees of any
  height and any sequence of calls. `UsageAssumption` says what trees are: cells
  as builders and parsers make them, no deeper than `MaxHeight`, and told apart
  by their hashes, which is what `OneIdentityOneCell` says of cells off the wire.
  For the first, all that is needed of the record is that the root stays marked;
  the rest is about one cut. `CutIs` shows that the recursion of `prune_cell` has
  a solution; `LevelZero`, that an ordinary cell's hash and depth at level zero
  depend on its children's at level zero alone, whatever their masks; and
  `CutAnswers`, from the leaves up, that the cut in each place answers with the
  hash and depth of the cell that stands there.
  For the second, `RecordInv` ties the marks to what was asked for, in both
  directions: what was read is marked, a promised cell is reached through marks,
  and every mark is of a cell read or on the way to a promised one. Marks are by
  hash while reads are by place, so the step from one to the other is that cells
  of one hash are one cell. What a place of the cut shows is then read off the
  same recursion, going down through kept cells.
* `WriterProofs`. `ChunksAreTheBag`, for every list of roots, every graph under
  it and every choice of options. `WriterAssumption` says that a graph ends
  (cells have no cycles), that its cells are formed as builders and parsers form
  them, and that their hashes tell them apart; `FormatAssumption`, that a byte
  has bits. The property speaks of the finished stream only. `WalkInv` is what
  makes the order right: a cell is on its way out or out at most once, the cells
  waiting to be emitted lie on one way down the graph, and the references of a
  cell that is waiting are out or ahead of it on the stack; so, the graph having
  no cycles, a cell is put at the front of the order after all it references. `Written` says
  that the bytes so far are the header and the cells behind the cursor, with the
  checksum over exactly those; it needs that the length `stored_len` counts ahead
  of time is the length of what is written later, cell by cell, so that the
  offsets of the index and the size in the header are the ones the stream
  arrives at.

The proofs also cover properties that no run lists, because a listed one implies
or repeats them: `NoAwaitIntact`, `LostIsFinal`, `CountsEverySigner`,
`AnchorMovesOnlyOnArrival`, `KeptIsFinal` and the type invariants.

Only model-checked: everything about liveness and fairness; what recursive
operators compute, which the prover cannot reason about: the dictionaries, whose
trees have no bound a recursive function could run over; Merkle updates
(`UpdateRebuilds`, `UpdatesCompose`), which walk two trees at once; and the
bag's readers (`WrittenReadsBack`, `NoSlack`), which also need that a number is
the sum of its digits; and the codecs, whose widths are powers of two: to the
prover `^` of a variable exponent is an unknown function, and that a number fits
its field is what their properties turn on.

## 5. Assumptions

SHA-256 does not collide and signatures do not forge: a hash is the thing
hashed, `verify` is a Boolean input, and a validator set's signature on a block
means the network committed it. The key exchange agrees on keys or fails.
TCP delivers bytes in order or fails. The clocks are as wide as their
constants.

## 6. Findings

* `sync_zero_bound`: `config.rs` says a head-age bound of zero refuses every
  head; `fresh_enough` accepts one stamped in the clock's own second, or ahead
  of it within the tolerated skew.
* `dict_fork_reference`: `dict.rs` says data no shape accounts for is refused
  before a rebuild; `check_fork` looks at bits only, so a third reference of a
  foreign fork is dropped by a write below it.
* `combine_library`: `merkle/update.rs` says applying a combined update is the
  same as applying the two in turn; `revealed_cells` collects ordinary cells
  only, so a library cell the first update reveals and the second withholds is
  not spliced back, and a base without it refuses the combined update.
  `UpdatesCompose` checks the promise for states without library cells.
* `short_update`: `block.rs` says an update not long enough for both hashes is
  `Malformed`; `new_state_hash` slices the stored bytes, so an update one to
  seven bits short is read, and what completes its last byte is taken for bits
  of the hash. `DecodesAsWritten` states this as its one exception: every byte
  but the last is the one written.

Smaller divergences between comments and code met on the way, for which no run
is kept: `chain.rs:242` takes the not-enough-weight path to be reached only when
the loop ran to its end, and the attempt budget reaches it too; `sync.rs:224`
says a walk longer than the bound cannot end anywhere fresh, and one to a target
stamped ahead of the clock can; `client/proof.rs:31` documents `Error::Cell` for
bytes that are not cells, and `error.rs:252` makes it `Error::Proof`;
`plain.rs:179` does not name `NoRoomForBits` among the failures of `remove`;
`shard.rs:177` promises `None` both for a state without an extra and for one
whose extra was pruned, and the code answers `Absent` and `Pruned`, which
`DecodesAsWritten` tells apart;
`aug.rs:571` documents `Pruned` for `combine_with` where the code reports
`Malformed` or, if the keys merged in lie elsewhere, nothing.

Limits the models made visible, which `WrittenReadsBack` states as its
exceptions: the writers hold a bag neither to `MAX_DEPTH` nor to the decompressed
size the readers allow, and the root count is written in as many bytes as a
reference takes, so a list with more roots than that counts (the same cells
repeated) is written with a count cut short, and refused.

## 7. Not modelled

* The handshake (`adnl/handshake.rs`) and the signatures (`proof/signature.rs`):
  arithmetic on curves and ciphers, a straight line without state. The model of
  the connection starts after the first and takes the verdict of the second.
* SHA-256, CRC-32C and LZ4: external functions; the first two are what they
  cover. The depth of a cell saturates at u16 only past limits every reader
  enforces, and is not given a width.
* The TL records (`tl/`), `lite/client.rs` and `lite/types.rs` beyond the
  outcomes of a query: derived codecs and request builders. What matters of
  them, a reply that does not decode or answers something else, is an outcome in
  `AdnlConnection`, `Sync` and `AccountProof`.
* The socket adapter (`adnl/transport*`), whose failures are `TransportFails`.
* Configuration JSON, error wording, `dump` and `to_json`, currency printing:
  formatting. `payload.rs` and `refs.rs`: where a cell keeps its bytes.
* Conversions between JavaScript and Rust values in the binding.
* The spikes, which nothing uses; and the DHT, the virtual machine and the write
  path named by `docs/roadmap.md`, which do not exist yet.

What could still be added: a composition of the walk with the connection, so
that the session `Sync` sees is `AdnlSession` itself rather than its three
states.

## 8. Running

    tlc -config MCSync.cfg MCSync        # any run: its module and cfg
    tlapm SyncProofs.tla                 # any proof module

The dictionaries, `MerkleUpdates`, `BocReader` and `BocRoundTrip` use recursive
operators, so no proof module extends them. `ReaderProofs`, `UsageProofs` and
`WriterProofs` take ten to fifteen minutes each from nothing, the others less.
