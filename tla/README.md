# A TLA+ verification of libAuthGC

libAuthGC is a C++ library for two-party computation by authenticated garbling
with half gates.  A *garbler* (the `SERVER` of the connection) and an
*evaluator* (the `CLIENT`) hold a Boolean circuit and an input each; after
`full_protocol` the evaluator holds the circuit's output.  Secrets never travel
in clear: every wire has a mask of which each party has a share, every share is
authenticated by a MAC under the other party's global key, and the evaluator
works on masked values with one label per wire.

The models are of two parties that follow the protocol, with every interleaving
of their steps.  What they show is that the protocol is *correct and complete as
coded*: the relations between the two parties' data hold, the output is right,
no check of the code reports an honest peer, nobody waits for ever.  They say
nothing about secrecy or about soundness against a peer that deviates.

## 1. The system

| Part | State | Operations | Works with |
|---|---|---|---|
| `NetIO` (`net-io.hpp`) | sockets and descriptors; two stdio streams with buffers over one socket, `hasSent` | constructors of both roles, `send_data`, `recv_data`, `flush`, `sync`, `send_bool`, `recv_bool`, destructor | every protocol sends and receives through it |
| Correlated OT (`block_correlated_OT.hpp`) | global keys of a sender; the OT instances of a process, by side and role, each bound to a `NetIO` | `Initialize_simple_OT`, `Get_simple_OT`, `extend` of sender and receiver | `NetIO`; called by all authenticated values |
| Authenticated bits and blocks (`authed_bit.*`) | values and MACs at one party, global and local keys at the other | random, fixed (with a difference sent), swap, inverse, flip, `open`, `check_same_bit`, `eqcheck_diff_key` | OT, `NetIO` |
| Global key sampling (`global_key_sampling.hpp`) | `_delta`, `_alpha_0` / `_beta_0` | two constructors | OT, DVZK, `compare_hash_low` |
| DVZK (`DVZK.hpp`) | accumulators A0, A1 of a prover, B of a verifier | constructors, `update`, `prove`, `verify` | OT, `NetIO` |
| Comparisons, coin toss (`util_protocols.cpp`) | none | `compare_hash_high`, `compare_hash_low`, `toss_random_block` | `NetIO` |
| Preprocessing (`preprocess.*`) | matrix, masks, MACs and keys per wire, triples | `preprocess` of both parties, steps 2 to 10 and checks | all of the above |
| Circuits (`circuit.cpp`, `circuit_parser.hpp`) | gates and derived tables | constructor, `and_gate_order`, `xor_source_list`, `gc_check_data`, `independent_index_map` | read by preprocessing, garbling and the GC check |
| Garbling and evaluation (`garble_evaluate.cpp`) | labels, tables, shift bits; masked values | `garble`, `evaluate` | preprocessed shares, `NetIO` |
| Online phase (`2PC_execution.*`) | inputs, output | `online`, `full_protocol` | garbling, OT, `open`, GC check |
| GC check (`gc_check.cpp`) | accumulators, coefficients from a seed | `check` of both | garbled labels, shares, `NetIO` |
| Bit matrices, block helpers (`matrix.*`, `utils.*`) | packed words of a matrix or a bitset | products with bits and blocks, parity, conversions, `merge`, sends | preprocessing, authenticated values |
| EndemicOT (`EndemicOT/`) | receiver's keys, sender's coins | `batch_send`, `batch_receive`, each in two forms | Kyber, `NetIO`; no protocol calls it |
| Kyber (`libs/Kyber/`) | state of the DRBG of `rng.c`, static and without a lock | key pair, encryption, decryption, rejection sampling, `randombytes` | EndemicOT |
| PRNG, hash wrapper, parameters, benchmark | see section 7 | | |

Each party is one thread that runs its functions to the end; the two parties
meet only in the byte streams of `NetIO` and in the OTs over them.  In the tests
both are threads of one process and then share its static state: the OT
instances and Kyber's generator.

What is hard to get right, and to test, in this code:

* *agreement of two programs*: sends and receives, OT constructions and the
  iterators over AND gates must match on every circuit, also without inputs of
  a party or without AND gates;
* *relations that hold across parties*: value, MAC, local key and global key are
  held by two objects in two processes, built over several messages;
* *algebra over many steps*: a triple share or a table entry is right only if ten
  earlier objects are; a slip shows only for some mask bits or circuit shapes;
* *honest failures*: some ten checks throw; each must pass for honest parties;
* *buffering*: deadlock is avoided only by a flush before each receive;
* *what outlives a connection*: OT instances stay in their process, and the two
  ends of one must stay in step over aborted connections and restarts;
* *words, lanes and alignment*: packed rows, vector lanes and 8-byte groups have
  edges that are met for few lengths or few values.

What makes each part correct, in words: a received value is authentic; the two
labels of a wire differ by the garbler's key; the evaluator's label is that of
its masked value; masked values decode to the plain computation; the output is
the circuit's; checks never fail and functions return; bytes arrive in order,
once, and no party waits for a byte in its peer's buffer.  `PROJECT.json` lists
the hazards one by one, with their lines.

## 2. Modules

```
Circuits, PackedOT, DVZK ── Common_proofs ── all proofs but those of NetIO, SharedOT
                                              and EndemicOT
Blocks ── Field ─┬─ TwoPC (EXTENDS AuthedShares, Field) ── TwoPC_proofs
   │             │     implements IdealTwoPC
Circuits ─ AuthedShares ─┐
Field ─ AuthedBits ─ Parties ─┬─ Preprocess ─┬─ PreprocessChecks (also EXTENDS DVZK)
                              │              └─ Preprocess_proofs
                        DVZK ─┴─ GlobalKeySampling ─── GlobalKeySampling_proofs
PreprocessChecks + Preprocess_proofs               ── PreprocessChecks_proofs
NetIO  implements  Channel                         ── NetIO_proofs (also EXTENDS Packing)
SharedOT                                           ── SharedOT_proofs
KyberArith ─┬─ Kyber ── EndemicOT  implements  IdealOT ── EndemicOT_proofs
            └─ Sampling ─┐
                         └─ MCAlgorithms (also EXTENDS Packing, PackedOT, DVZK)
```

* `Blocks` - 128-bit blocks as sets of bit positions (`BlockBits` is a constant);
  XOR, `get_LSB`, `and_all_bits`, and `Authentic`: mac = key + bit * delta.
* `Field` - blocks as a field; `GfMul` is `emp::gfmul`, with the laws assumed
  (commutative, associative, distributive, a one, inverses).
* `Circuits` - gates and the tables the constructor derives from them.
* `AuthedShares` - what a `PreprocessedData` holds and when a pair of them is
  right (`Preprocessed`): the interface between preprocessing and the rest.
* `TwoPC` - garbling, evaluation, online phase and GC check.  Variables follow
  the locals of the functions; `gpc` and `epc` say which call a party is in.  One
  action is a gate of a loop, a call that sends, a receive and what is computed
  from it, or one independent wire of the check.  Streams are queues of messages.
* `IdealTwoPC` - the functionality: one request, one right answer.
* `AuthedBits`, `Parties` - the algebra of authenticated vectors, laid out by
  global key, and the frame of a two-party protocol: objects not yet constructed
  are `Unset`; a correlated OT is a step of both parties (`Together`).
* `Preprocess` - one action per constructed object or message of steps 2 to 10.
  `SparseBitMatrix` (with its overwriting), `populate_wires` and the dual-key
  calculator are operators.  `Result` is what the functions return.
* `PreprocessChecks` - extends it with `check_delta` and `check_beaver_triple`;
  `eqcheck_diff_key` and the comparisons run several times (`round`).
* `DVZK` - prover and verifier, update by update, and the sums and the equation of
  the protocols' proofs of lists.
* `GlobalKeySampling` - both constructors.
* `NetIO`, `Channel` - the two constructors with `bind`, `accept`, the client's
  retries and the descriptors of either side; then two buffered streams over a
  socket of finite capacity, byte by byte, with a flush as a loop of writes; the
  death of a process, which loses its buffer and may cut bytes off its stream; the
  destructors.  `Channel` is the FIFO streams the protocols may take them for.
* `SharedOT` - the static instances of a process over several connections: every
  `Initialize_simple_OT` and `Get_simple_OT` that the functions of a party make, and every
  extension, in their order (extensions of one side with no other call between them
  count as one), with the messages of setup and extension reduced to the setup they
  stem from and their number; exceptions, dying processes, and `NetIO` objects at
  any free address.
* `Packing` - `Matrix<bool>` with padded rows, bitsets on the wire, `send_bool` and
  its alignment.  `PackedOT` - how both sides of the correlated OT flatten
  authenticated blocks by global key, block and bit.
* `KyberArith` - the arithmetic of one 16-bit lane: reduction, compression, message
  coding, `cbd2`.  `Sampling` - rejection sampling over its buffers.  `Kyber` - key
  pair, encryption and decryption over the lanes, and the keys the OT adds up.
* `EndemicOT`, `IdealOT` - the batch functions of both sides in both forms, with
  `randombytes` in two steps, reading and writing its static state; and what they
  promise, the chosen items in order.
* `MCAlgorithms` - calls of the sequential operators of `KyberArith`, `Sampling`,
  `Packing`, `PackedOT` and `DVZK`, one a step.

Three abstractions need a word.  *OT as one step*: IKNP is interactive inside
emp-ot; that an OT is a joint step is sound for honest parties because both
sides block in it until it is complete.  Where the peer continues before the
other side has read (differences, seeds), the message is modelled.  In the online
phase the OT of labels is modelled as its two messages.  *Hashes are injective*:
a commitment, a digest and a comparison stand for what was hashed.  In
`eqcheck_diff_key` the number of bytes that are hashed is kept, as it is not that
of the blocks.  The label hash `H` is any function to blocks.
*Products of polynomials*: the number-theoretic transform and its Montgomery
factors are replaced by the product they compute; the reductions around it are
those of the code.

`map` in `PROJECT.json` names the lines behind each definition.

## 3. Runs

Times are with two workers.

| Run | What is asked | Distinct states |
|---|---|---|
| `safety` | types; message order; free XOR; label of the masked value; masked values; output; no false alarm | 20 784 |
| `live` | both functions return; `IdealTwoPC` is implemented | 1 240 |
| `preprocess` | types; every object authenticated; `AbShares`; the blocks of step 9 share the products; result `Preprocessed`; ends | 1 088 |
| `checks` | no check throws; same tossed seed; both functions return | 2 390 |
| `global_keys` | types; legal keys; no false alarm; ends | 4 608 |
| `netio` | limits of buffers and descriptors; nothing unsent while waiting; implements `Channel`; every byte arrives; nobody waits for a dead peer | 8 230 |
| `shared_ot` | instances in step or refused; a fresh connection is served; every connection ends | 283 235, two minutes |
| `endemic_ot` | the generator is never entered twice and no draw lost; the chosen key is the receiver's; nothing left on the connection; implements `IdealOT` | 23 328, a minute and a quarter |
| `algorithms` | lane arithmetic, rounding, noise margin, sampling, packed products, bits on the wire, packed blocks, proofs of products | 72 243, half a minute |
| `duplicate_ands`, `beaver_check`, `key_comparison` | violations, see section 6 | |

Bounds, and why they are enough to be of use:

* *blocks* have three bits, the field is GF(8) with reduction x^3 + x + 1: a key
  has an LSB and other bits, and products differ from XORs and ANDs.  Small fields
  let equations hold by accident, so shares come from several seeds.
* *circuits*: five, chosen for shapes rather than size.  A NAND; XORs that share a
  source, a flip under an AND, an AND that feeds an AND; an AND of a wire with
  itself and of a negation; a circuit with no AND and no evaluator input; a
  circuit with no garbler input.  With all inputs.
* *shares*: fixed mixing functions of 12 seeds in `MCTwoPC`, 8 in
  `MCPreprocess`, 5 in `MCPreprocessChecks`; the check's challenges are two seeds.
* `CheckBits` keeps two of three bits of the accumulator, as the code compares
  fewer bytes than a block has; `ByteSize` of one bit keeps the ratio of bytes
  to blocks that the hash of `eqcheck_diff_key` depends on.
* `CompressParam` is one column for up to one row and two for more: both one and
  several dual keys occur; zero rows occur in the linear circuit, for
  which no matrix is sent.
* `GlobalKeySampling`: two bits of statistical security, all 64 pairs of keys.
* `NetIO`: buffers of two bytes, a socket of three, five pairs of scripts of the
  kinds that occur (both send first; a message larger than all buffers read in
  other pieces; empty messages; a last message without a receive; flush and sync).
  Either process may die in any step, and `bind` may fail.  No script has both
  parties send first more than all buffers hold: that blocks both, and the
  protocols do not do it.
* `SharedOT`: two addresses, three connections of up to two rounds, two deaths.
  With two addresses a party gets the one of before or the other.
  Two connections are needed to reuse an address, a third to see an instance that
  survived an aborted second; a second round to find an instance on the same
  connection; a second death to have both parties lose theirs in turn.  One process or
  two; builds with one instance a side or one a role.
* `EndemicOT`: polynomials of two coefficients and vectors of two polynomials (the
  code: 256 and 3), where the second coefficient stands for the half of a message
  that is not the caller's; two OTs a batch, three pairs of messages, two seeds; all
  forms on either side, in one process or two.  A sender with the template and a
  receiver one OT at a time do not fit each other, and are left out unless the batch
  has one OT.
* `algorithms`: every 16-bit lane, every noise the margin may be asked for, every
  compressed value; sampling where the triples of the first bytes are each rejected
  in all four ways; words of three bits with up to ten columns and up to eleven bits,
  so that rows end inside, at and past a word; GF(16), one and two global keys, lists
  of one and three triples with no or one wrong product.

Each property is paired in `PROJECT.json` with a mutant, a plausible slip in
one mapped definition, that makes TLC report the property violated.

## 4. Fairness

`WF(Garbler)` and `WF(Evaluator)`: each party is a thread that runs unless it
waits for the peer; the scheduler of the operating system runs it eventually.
`WF(Correlated)`: an OT that both parties have entered completes.  In `NetIO`
each process is weakly fair, from its constructor on; a byte the kernel took can be
read, and nothing is assumed about `Die` or a `bind` that fails.  In `SharedOT` the
steps of each running party are weakly fair, not the connections and not the deaths:
whether and when a process is started again is the user's affair.  In `EndemicOT`
both threads are.  No strong fairness is used: a party has one thing to do at a
time, which stays enabled until it does it.  (A client that is refused is enabled
again at once, so weak fairness of its loop is that of the thread.)

## 5. Proofs

TLAPS checks eight modules: `Common_proofs` (blocks, fields, finite sums, queues, the
numbering of AND gates, proofs of products, packed blocks), `TwoPC_proofs`,
`NetIO_proofs`, `Preprocess_proofs`, `PreprocessChecks_proofs`,
`GlobalKeySampling_proofs`, `SharedOT_proofs` and `EndemicOT_proofs`.  What they state holds for all constants that satisfy the named
assumptions of the modules.

The code adds up blocks in many orders: along a list of XOR sources, over the wires
of a check, over the triples of a proof.  The models write these as sums over sets
(`XorOver`).  `Common_proofs` proves what the proofs need of them (`XorOverAdd`,
`XorOverSymDiff`, `XorOverSwap` and their like) by `SetInduction`: a set of sets that contains the empty one
and is closed under adding an element has every finite set in it, which needs no
operator as a parameter.

### Garbling, evaluation and the online phase

For every circuit, block width, share, label, hash and challenge: setups are
legal (`SetupsAssumption`: a well formed circuit and authenticated shares with right
triples, which is what `ResultIsPreprocessed` below proves of preprocessing), `H`,
`Coeff` and `GfMul` yield blocks (`HashAssumption`, `CoeffAssumption`,
`FieldAssumption`).

* `HalfGate` (in `Common_proofs`) is the algebra of one AND gate: the evaluator's
  label, from two table entries, two MACs and a triple share, is the garbler's
  label of the masked product.
* `AndGateIter`, `AndGateOrderInjective`, `AndGateAtExists` say that the iterator
  of the loops, `and_gate_order` and the list of AND gates are the same numbering;
  `IndependentWireType` that the GC check walks over independent wires.
* `Invariance` proves `Spec => []IInv`.  The properties are not inductive alone:
  an evaluator's label is right because the table it used was made from labels
  that still stand.  So `IInv` adds, for the garbler, that every garbled gate's
  table entry, shift bit and labels satisfy their equations (`Garbled`); for the
  streams, that whatever is on its way is one of the garbler's finished values
  (`Streams`); for the evaluator, which of them it has taken (`Received`) and
  where its loops stand (`Progress`).  There is a lemma for each action.
* Its consequences: `TypeCorrect`, `FreeXorHolds`, `LabelsMatch`,
  `MaskedValuesCorrect`, `OutputIsCorrect`, and `ImplementsIdealSafety`: every
  step is a stutter or the one right answer of `IdealTwoPC`.  `LabelsMatch` and
  `MaskedValuesCorrect` together are the correctness of the garbling scheme.

* `OnlineInvariance` carries a second invariant, `OnlineInv`, for what the two
  functions say to each other after garbling.  `Window` numbers the messages: with
  what the garbler has sent (`Sent`) and the evaluator has taken (`Taken`), the queue is
  the stretch of one list between the two numbers (`Numbered`).  `Requests` and `Places` say
  where one party can be while the other waits.  `Accumulators` is the equation of the
  GC check: each party's accumulator is the sum, over the wires and gates its loop has
  passed, of what that wire or gate contributes.
* `MessagesInOrder` (`StreamAligned`) and `NoAlarm` (`NoFalseAlarm`) follow.  For the
  second, `CheckEquation` shows gate by gate that the terms of garbler and evaluator
  cancel for a right triple, `CheckSum` and `CheckTerm` add
  that up over wires and AND gates, and `GcCheckAgrees` compares the ends.

### The connection

`NetIO_proofs` holds for all scripts of calls, all sizes of buffers and socket and
any processes that may die (`SizesAssumption`, `ScriptsAssumption`).

* `ChannelImplemented`: `Spec => ImplementsChannel`, the whole refinement, as
  `Channel` has no fairness.  A party's stream is three queues in a row (the peer's
  buffer, the socket, its own buffer); each step of a process moves a byte from one
  to the next, puts one in at one end or takes one out at the other, or cuts off an
  end, and the lemmas on queues say what that does to the whole.
* `WaitsFlushed`: `NeverWaitsUnsent`.  It is not inductive: that the buffer is empty
  when `hasSent` is false has to be carried along through sends, flushes of a full
  buffer and receives (`SendsKnown`).
* `TypeCorrect`: the limits of buffers and descriptors.  `Descriptors` ties the
  number of open descriptors to the state of the object and of the client's loop.
* `Numbered`, that the bytes on their way are consecutively numbered from the last
  one read, follows from `Channel`'s steps alone, so it is proved about them once.

What goes over the connection is often bits, and its last section is about them, for
every size of words and groups (`PackingAssumption`):

* `BitsetArrives`: what `receive_boost_bitset` returns is the bitset, or the slice, that
  `send_boost_bitset` was given.  `BitPlace` is the point: `calc_bitset_block` rounds up
  so that the word of the last bit is sent.
* `BoolsArrive`: what `recv_bool` stores is what `send_bool` was given, for every length
  and any two addresses equal modulo the size of a group; with others the two sides cut
  the array at different places, which is the mutant of `PackingRight`.  `PiecesFill`: single bools
  up to an aligned address, groups and the bools that remain cover the array without a
  gap or an overlap.  That the recursive functions in it (`Starts`, `FlattenSeq`) have the values
  of their equations is proved first (`Recursion`), by induction as a lemma on sets of
  numbers (`UpTo`).

### Preprocessing

`Preprocess_proofs` holds for every circuit, width, number of dual keys and outcome of
the OTs (`RandomValuesAssumption`: random bits are bits and random blocks are blocks;
`SetupsAssumption`: the setup is a well formed circuit and legal global keys, which
`KeysAreLegal` proves of key sampling).

* The invariant goes by stages, for an object is right because of the objects it was
  made from: random bits `b*` and `aMatrix`; the dual keys; the products; the fixed
  bits; then wires, masks and triples.  Each stage says that the objects so far have
  their shape, belong together, and that a difference on its way is that of its object.
* `TypeCorrect` (`TypeOK`): each party is at a place of its function, and each of its
  objects unset or of the shape of its constructor.
* `AuthenticationHolds` (`Authenticated`): value, MACs and keys of each of the objects
  belong together.  `AbSharesHold` (`AbShares`): `CellShares`, `DualKeys` and
  `ProductShares` follow one product of bits through the matrix and the dual keys.
* `SumsShareRight` (`SumsShareProducts`): the two blocks of step 9 share the product of the
  joint masks of a gate's inputs, less the evaluator's own product and the garbler's
  triple share, times the product of the global keys.  `SumsShare` adds up its parts: the
  garbler's authenticated product and triple share under deltaB, the term with alpha_0
  that brings them under both keys, and the mixed products of `AbSharesHold`;
  `SumsOfGate` finds them in every state after the step.  It holds for circuits in which
  no two AND gates have the same inputs (`NoSamePairs`): with such gates the sparse
  matrix has not the product of each (finding 1, the run `duplicate_ands`).
* `ResultIsPreprocessed` (`ResultPreprocessed`), on such circuits: `PopulatedG` and
  `PopulatedE` follow `populate_wires` down the gates, `MaskSources` says that what a wire
  gets is the sum over its XOR sources, `SumsOfGate` what the lowest bits of the blocks
  of step 9 are shares of; `ResultAuthentic` and `ResultTriples` put the parts of `Preprocessed` together.  It is the assumption that
  the proofs about `TwoPC` start from.

### The checks that end preprocessing

`PreprocessChecks_proofs` starts from the invariant of `Preprocess_proofs` and holds for
every circuit without two AND gates of the same inputs, every field, number of dual
keys and random choice (`CheckRandomnessAssumption`, `ChallengeAssumption`: what the
checks draw and expand are blocks).  With such a pair `NoFalseAlarm` may be false, for
a verifier then sees a product that is none.

* Two honest parties send what the setup and the objects of preprocessing determine:
  `MessagesToG` and `MessagesToE` list it, 15 messages one way and 7 the other up to
  the toss.  `GarblerPlaces` and `EvaluatorPlaces` say how many a party has read and
  sent where it is, and `Streams` that the queues hold just the ones in between.  So a
  party need not be related to where the other is, only to the lists, and each action
  is a lemma about one party.
* `Known` is what preprocessing leaves for the checks (`KnownAtTheEnd`): the statements
  that `ListAccepted` has the three verifiers accept (`Convinced`), the two
  authentications of tmpDelta that the comparisons of `check_same_bit` need
  (`TmpDeltaTwice`, `SameBits`), and the vector bStar times deltaB under two keys, after
  `inverse_value_and_mac` exchanged values and MACs (`BStarTwice`).
* `KeyedTwice`, `EqAuthentic` and `TermsEqual` are `eqcheck_diff_key`: fixed under the
  other side's key, the MACs of one value under the product of both keys are the same
  by either way, so the two digests are.
* `SpecCheckInv`: `CheckInv` is inductive.  Hence `NoAlarmInChecks` (`NoFalseAlarm`): none
  of the checks that throw fails, in any order of the steps; and `SameBlockTossed`
  (`SameToss`): whoever is past the toss has the other's block in its own.

### Proofs of products

In `Common_proofs`, for any field:

* `StartAccepted` and `UpdateDetects`: if the verifier's equation holds, then after one
  `update` on both sides it holds exactly when the triple is a product, its challenge
  is zero or the global key is.
* `ListDetects` says it of a whole list, as the protocols send one: the verifier accepts
  exactly if the key is zero or the sum of challenge times error over the list is.  So
  right lists are always accepted, and a wrong one slips through for just those
  challenges that cancel its errors.

### Packed blocks

Also in `Common_proofs`.  The other models let one OT give an authenticated block; the
code makes it of 128 OTs of bits, laid out by global key, block and bit.

* `PackedBlocksRight`, for every number of global keys and blocks and every width
  (`BitsNumbered`: a block's bits are numbered from 0): what the OT of bits, the difference
  of `Fix` and the packing of both sides leave at the place where the spans and
  `extract_by_global_key` look are, for each key and block, a MAC and a local key of that
  block under that global key.  `Position` is the arithmetic of the layout,
  `PolyvalMac` turns the equations of the bits into that of the block.
* `ValuesExchanged`: if `gf_inverse` gives inverses, what `inverse_value_and_mac` makes of
  the keys alone are keys under which values and MACs have changed places.  That its chain
  of squarings gives inverses is recursive, and left to the run `algorithms`, in GF(16).

### Global keys

`GlobalKeySampling_proofs` holds for every field, width, number of check bits and
random choice (`FieldAssumption`, `OneAssumption`, `SecurityAssumption`,
`RandomnessAssumption`: sampled keys and challenges are blocks, what the OTs draw bits
and blocks).

* `Control` is a table of where the two parties can be together and how many messages
  are then on their way: no read meets a queue that is not its own message.
* `KeyStage` follows the keys: before the evaluator's key is authenticated; while its
  difference is on its way; authenticated, with the parties' lowest bits on their
  way; flipped by one; settled.  `FlipSettles` is the algebra: the product's lowest
  bit is the sum of the two bits, so both flip exactly when it is 0, and the one's
  local key moves by deltaA as the other's deltaB moves by 1.
* Hence `KeysAreLegal` (`KeysLegal`): whichever party settles first, what both hold
  after it is what preprocessing starts from; and `TypeCorrect`.
* `NoAlarm` (`NoFalseAlarm`): neither constructor throws.  `ChecksInv` says of each
  phase that bits, MACs and keys belong together (under the key the difference on its
  way will make, while it is), that the key in the proofs is the settled one, and what
  the queues hold.  Then `ProductsChecked` turns a legal pair of keys into the lowest
  bits the check expects, and `ListAccepted` of `Common_proofs` has the proof accepted.
  The last check, `compare_hash_low`, passes only because of finding 2: it gets a high
  half.

### The OT instances of a process

`SharedOT_proofs` holds for any addresses and any number of connections, rounds and
deaths (`BoundsAssumption`; `NoneAssumption`: no instance is no instance), for one
process or two and either build.

* `PartyInv` is about one party: a constructor it has passed has left an instance of its
  NetIO's address (`Made`), an instance of this connection was made by such a one
  (`NotBefore`), the second side's is not older than the first's (`Order`), and none has
  counted 0 but while it is set up (`Counts`).  A step of the other party leaves all
  this alone (`OthersStep`), as `CellsDiffer` says that no slot is of both.
* `Pair` is about the two together.  The 26 calls of a party fall into blocks of those it
  can be in without the other having moved (`BlockOf`); both programs have the same
  blocks, one the sender where the other is the receiver (`Mirror`).  Then there are
  five shapes: both quiet at one block; one has asked; it is answered, and the
  answerer is at the next block; that one has asked as well; or (`Apart`) one party makes
  the second instance that the other has of an earlier connection, and they wait
  at different calls.  With each goes what the messages on their way were made from,
  and `SameCount`: if the instances of both ends are of this connection their counts
  are the same, one more at the receiver while its question is on its way.
* `SharedInvariance` says that this holds in every state, by a lemma for each step, and
  `InStepHolds` (`InStep`) follows: what a party reads is what its instance fits, but for
  the recycled.
* `FreshConnectionsServeAll` (`FreshConnectionsServe`): where both begin without an
  instance and nobody dies all instances are of this connection (`Whole`), so none is
  refused or recycled, and a party cannot be done while the other waits, as their blocks
  differ.

### Endemic OT

`EndemicOT_proofs` holds for every length of a batch, all combinations of the forms that
fit each other, all choices and messages, every ring, the ranks 2 to 4 of Kyber and every
generator (`BatchAssumption`, `KyberAssumption`).

* `Control` counts.  A batch is out exactly while the receiver waits for it, and each of its
  OTs is then one message to the sender or one answer (`Turns`).  So the threads
  take turns, whatever form either uses: `RngExclusiveHolds` (`RngExclusive`), as who draws
  has the turn, and `ConnectionLeftEmptyHolds` (`ConnectionLeftEmpty`).
* `Generators` adds what a thread inside `randombytes` has read, and
  `EveryDrawAdvancesHolds` (`EveryDrawAdvances`): no draw is lost to a write in between.
* `Contents` says of every object, message, answer and delivered block which keypair, hash and
  coins it comes from.  `ChosenKeyHolds` (`ChosenKeyIsReceivers`) follows: what the
  sender gets by adding the hash of one key to the other is, byte for byte, the public key
  of the object that will decrypt the item.
* That rests on arithmetic of words.  `Red16Right` is Barrett reduction on all 65536
  lanes, `CSubQRight` and `Remainder` what packing leaves of it, `SubtractAdd`
  that a coefficient from which the hash was taken comes back; `KeypairReduced` and
  `RandomPKReduced` that keys have coefficients below q and that no sum on the way leaves
  a lane.
* `DeliversChosen` is the safety half of `ImplementsOT`: every step writes the chosen items
  that are next, in their order, or nothing.

Its hypotheses are properties of the primitives.  `SampledBelowQ` (rejection sampling
leaves coefficients below q) and `NoiseSmall` (at most 3 either way) hold by
the code of `rejsample.c` and `cbd.c`.  `DecryptsRight`, used by `DeliversChosen` only, says
that no decryption fails among the keypairs and coins that the batch's generators can give;
with Kyber's parameters that is so but for a negligible part of the seeds.
`MCEndemicOT` has TLC evaluate all three for its instance.

### What is only model-checked

* Liveness under fairness, and `ENABLED`: `Termination` (of `TwoPC`, `Preprocess` and
  `GlobalKeySampling`), `ChecksEnd`, `EveryByteArrives`, `PeerEnds`, `SessionsEnd`, the
  liveness half of `ImplementsIdeal` and of `ImplementsOT`.  The prover cannot.
* The properties of `algorithms`.  Rejection sampling is a `RECURSIVE` operator (kept to
  `Sampling`), of which the prover can show nothing; the matrix products and `parity` are
  folds of the community modules, whose recursion would have to be proved for each
  of them, and has not been; the arithmetic of a lane
  (`ArithmeticRight`) TLC checks for every lane, so that there is no larger instance.  Of
  `PackingRight` the bits on the wire are proved in general (`BitsetArrives`, `BoolsArrive`),
  and so is the content of `PackedBlocksAuthentic` and of `ProductsAccepted`.
* That Kyber's decryption fails for no keys and coins the batch can draw.

## 6. Findings

1. *Two AND gates with the same inputs* (`duplicate_ands`).  `SparseBitMatrix`
   keys the products of a party's own masks by the pair of input wires: of several
   ANDs with the same ordered pair only the last keeps its product
   (`preprocess.cpp:33`).  The triple of the others is wrong when the product is 1,
   against the assertion in `DVZK.hpp:60`.  The other preprocessing runs therefore use
   circuits without such pairs.
2. *The comparison of global key sampling* (`key_comparison`).  Both constructors
   call `compare_hash_low`, where one should call `compare_hash_high`, and throw if
   it returns true (`global_key_sampling.hpp:100`, `:206`).  The two slips cancel in
   honest runs and leave no check.
3. *The comparisons of `check_beaver_triple`* (`beaver_check`).  Their results are
   dropped, and they would be false in honest runs: the evaluator's y takes its own
   LSBs where the other terms carry those of both parties.

Not a run:

* `compare_hash_high` and `_low` speak of 128-bit halves of what are 64-bit
  halves, and the second of comparing the high half, where it compares the low one;
  `eqcheck_diff_key` hashes as many bytes as there are blocks.
* OT instances are told apart by the address of the `NetIO` they were made with.
  Another address is refused, so a process serves one connection; but a `NetIO` at the
  address of a destroyed one is taken for it.  If both ends kept their instances and
  were in step when that connection ended the next one works; after an aborted
  connection or a restart of the peer the messages of one setup are read with another.
  `InStep` holds only with this case taken out (`Recycled`, and for a peer whose
  recycled instance died with it after it had sent, the message that is left); the
  connection still ends (`SessionsEnd`).
* In `preprocess.cpp:386` the second comparison, with its send and receive, is skipped
  when the first fails.  With a peer that follows the protocol none fails.
* A `bind` that fails throws from the constructor with the socket open, and a
  client that nobody will ever accept tries for ever: it has no limit of attempts.
* Two parties that both send more than all buffers hold before they receive would
  block each other; no pair of the protocols' messages does.
* `randombytes` of Kyber draws from a state of zeros until it is seeded, and nothing
  but `get_PRNG_Kyber` seeds it.  Threads of one process are kept apart by their
  messages only (`RngExclusive`, which is proved).
* The comment in `PRNG.hpp` names the macro `DEBUG` where the code tests
  `DEBUG_FIXED_SEED`.

## 7. Not modelled

* *A deviating peer*, in any module; secrecy; the strength of any primitive.
  Randomness is an arbitrary constant function of its use.
* *IKNP, AES-based hashing, SHA-256, `emp::PRG`*: libraries.  `SharedOT` keeps of IKNP
  the order of its messages and that both ends advance together.
* *Kyber*: the number-theoretic transform and its tables (replaced by what they
  compute), the hash functions, byte layouts other than those whose rounding matters,
  the builds other than the one that `CMakeLists.txt` selects, and the KEM with its
  test programs, which nothing in the library calls.
* *Parsing of circuit files* and conversions of blocks to strings: text handling
  without state.  `Circuits` starts from the gates.
* *Elliptic-curve sends* of `IOChannel`: only emp-ot's base OT calls them.
* *Moves and concatenations* of authenticated objects, printing, element references
  of a matrix, range assertions.
* *Exceptions that meet `noexcept`*: several functions that send and receive are
  `noexcept`, so that the death of a peer ends the process there; `PeerEnds` says that
  the call ends.
* *`online` on another connection than preprocessing*: `Get_simple_OT` would use the
  instance of the latter's `NetIO`.  `SharedOT` runs whole rounds on one.
* *The benchmark* beyond the rounds it runs on a connection.

## 8. Plan

Done, in this order: `TwoPC` with its ideal and proofs, `Preprocess`,
`PreprocessChecks`, `GlobalKeySampling`, `NetIO`; then `NetIO`'s constructors and
deaths, `SharedOT`, `Kyber` and `EndemicOT`, the packed algorithms and DVZK's updates;
proofs about `NetIO`, `GlobalKeySampling` and DVZK; about `Preprocess`, the messages
and the GC check of `TwoPC`, lists of products, the checks of key sampling and those of
preprocessing, `SharedOT` and `EndemicOT`; the packing of authenticated blocks; and
bits on the wire.
Not built:

* `Session`: key sampling, preprocessing and the online phase as one program, so
  that `LegalKeys` and `Preprocessed` are discharged by composition.  Each is proved
  today at the end of one module and assumed where the next one starts.
