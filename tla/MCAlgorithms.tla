---------------------------- MODULE MCAlgorithms ----------------------------
(***************************************************************************)
(* The sequential algorithms, one call at a time: KyberArith on every      *)
(* 16-bit lane, Packing and PackedOT on small arrays with small words,     *)
(* DVZK's provers and verifiers on short lists.  Every property compares   *)
(* a result with what it should be by the definition of the mathematics.   *)
(***************************************************************************)
EXTENDS Sampling, PackedOT, DVZK, Packing


CONSTANTS
  None,
  Seeds,       \* of pseudo-random contents
  MaxCols,     \* columns of a matrix
  MaxBits,     \* bits of a bitset and bools of an array
  Lists        \* numbers of triples of a proof

VARIABLE call

vars == <<call>>

-----------------------------------------------------------------------------
(* Contents.                                                               *)
Noise(seed, k) == (seed * seed * 31 + seed * 7 + k * k * 13 + k * 5 + seed * k * 3) % 257

NoiseBit(seed, k) == (Noise(seed, k) \div 4) % 2

NoiseBits(seed, tag, n) == [i \in 1 .. n |-> NoiseBit(seed, 19 * tag + i)]

NoiseBlock(seed, tag, k) == {p \in BlockBits : NoiseBit(seed, 41 * tag + 9 * k + p) = 1}

NoiseBlocks(seed, tag, n) == [k \in Upto(n) |-> NoiseBlock(seed, tag, k)]

NonZero(block) == IF block = ZeroBlock THEN One ELSE block

(* GF(16), by x^4 + x + 1. *)
TimesX(b) == {p + 1 : p \in b \ {3}} \oplus (IF 3 \in b THEN {0, 1} ELSE {})

MCGfMul(a, b) ==
  LET xb[p \in 0 .. 3] == IF p = 0 THEN b ELSE TimesX(xb[p - 1])
  IN  XorOver(a, xb)

(* Bytes of eight triples and two bytes more; a triple's kind says which   *)
(* of its two numbers are below q.                                         *)
Kinds == {"both", "low", "high", "none"}

TripleBytes(kind, k) ==
  CASE kind = "both" -> <<k, 16 * k + 12, 200>>
    [] kind = "low"  -> <<k, 240 + k, 255>>
    [] kind = "high" -> <<k, 16 * k + 15, 7>>
    [] kind = "none" -> <<1, 253, 208>>

Stream(kinds) == SeqExt!FlattenSeq([k \in 1 .. 8 |-> TripleBytes(kinds[k], k)]) \o <<3, 4>>

MatrixOf(seed, rows, cols) ==
  [rows |-> rows, cols |-> cols,
   data |-> [w \in 1 .. rows * BlocksPerRow(cols) |->
               {k \in Offsets : NoiseBit(seed, 5 * w + k) = 1}]]

-----------------------------------------------------------------------------
Init == call = None

Lane ==
  \E x \in Word :
    call' = [f |-> "lane", x |-> x, reduced |-> Red16[x], mont |-> ToMont[x]]

Message ==
  \E bit \in {0, 1}, noise \in -900 .. 900 :
    call' = [f |-> "message", bit |-> bit, noise |-> noise,
             back |-> ToMsg[Red16[Wrap(FromMsg(bit) + noise)]]]

Uncompress ==
  \E c \in 0 .. 1023, lane \in 0 .. 1 :
    call' = [f |-> "uncompress", c |-> c, x |-> Decompress10(c, lane),
             x4 |-> Decompress4(c % 16)]

NoiseSample ==
  \E nibble \in 0 .. 15 : call' = [f |-> "cbd", nibble |-> nibble, r |-> Cbd2(nibble)]

Sample ==
  \E kinds \in [1 .. 4 -> Kinds] :
    LET all == [k \in 1 .. 8 |-> IF k <= 4 THEN kinds[k] ELSE kinds[9 - k]]
    IN  call' = [f |-> "sample", stream |-> Stream(all),
                 r |-> GenCoefficients(8, Stream(all), 14, 4, 4, 2)]

Multiply ==
  \E seed \in Seeds, rows \in 1 .. 2, cols \in 0 .. MaxCols :
    LET m == ZeroMatrixRowPadding(MatrixOf(seed, rows, cols))
        bits == NoiseBits(seed, 3, cols)
        blocks == [c \in 1 .. cols |-> NoiseBlock(seed, 5, c)]
    IN  call' = [f |-> "matrix", m |-> m, bits |-> bits, blocks |-> blocks,
                 times |-> MatrixTimesBitset(m, bits),
                 timesBlocks |-> MatrixTimesBlocks(m, blocks),
                 parities |-> [i \in 1 .. rows |-> Parity(Row(m, i - 1))],
                 empties |-> [i \in 1 .. rows |-> IsZero(Row(m, i - 1))]]

SendBits ==
  \E seed \in Seeds, n \in 1 .. MaxBits :
    \E begin, end \in 0 .. n :
      /\ begin < end \/ (begin = 0 /\ end = 0)
      /\ LET bits == NoiseBits(seed, 7, n)
             slice == IF end = 0 THEN bits ELSE SubSeq(bits, begin + 1, end)
         IN  call' = [f |-> "bitset", sent |-> slice,
                      received |-> ReceiveBoostBitset(SendBoostBitset(bits, begin, end),
                                                      Len(slice)),
                      merged |-> Merge(bits, slice), bits |-> bits]

SendBools ==
  \E seed \in Seeds, n \in 0 .. MaxBits, address \in Upto(GroupSize) :
    LET bools == NoiseBits(seed, 11, n)
    IN  call' = [f |-> "bools", sent |-> bools,
                 received |-> RecvBool(SendBool(bools, address), address, n)]

(* Blocks authenticated under one or two global keys: the OT, `Fix' and    *)
(* the packing of both sides, then the exchange of values and MACs.        *)
Authenticate ==
  \E seed \in Seeds, n \in 1 .. 2, keys \in 1 .. 2, scaled \in BOOLEAN :
    LET deltas == [d \in Upto(keys) |-> NonZero(NoiseBlock(seed, 1, d))]
        scalar == NoiseBlock(seed, 2, 0)
        selectors == [b \in Upto(n) |-> NoiseBit(seed, b) = 1]
        blocks == [b \in Upto(n) |-> IF scaled THEN AndAllBits(selectors[b], scalar)
                                     ELSE NoiseBlock(seed, 3, b)]
        len == n * Width
        k1 == NoiseBlocks(seed, 4, keys * len)
        choices == [i \in Upto(len) |-> NoiseBit(seed, 70 + i) = 1]
        macs == Chosen(k1, SecondMessages(k1, deltas, len), RepeatedChoices(choices, keys))
        wanted == IF scaled THEN ScaledBlockBits(scalar, selectors) ELSE BlocksToBits(blocks)
        diff == [i \in Upto(len) |-> choices[i] # wanted[i]]
        local == MovedKeys(k1, deltas, diff)
    IN  call' = [f |-> "blocks", n |-> n, deltas |-> deltas,
                 blocks |-> BitsToBlocks(wanted), wantedBlocks |-> blocks,
                 macs |-> MacChunks(macs, len, keys, n),
                 keys |-> KeyChunks(local, deltas),
                 inverse |-> InverseKeys(KeyChunks(local, deltas), deltas)]

(* Triples whose z is x * y, but at `wrong'; authenticated under delta.    *)
Prove ==
  \E seed \in Seeds, n \in Lists : \E wrong \in 0 .. n :
    LET delta == NonZero(NoiseBlock(seed, 1, 0))
        x == NoiseBlocks(seed, 2, n + 1)
        y == NoiseBlocks(seed, 3, n + 1)
        z == [k \in Upto(n + 1) |-> GfMul(x[k], y[k]) \oplus AndAllBits(k = wrong, One)]
        keyOf(k) == [keyX |-> NoiseBlock(seed, 4, k), keyY |-> NoiseBlock(seed, 5, k),
                     keyZ |-> NoiseBlock(seed, 6, k)]
        mac(key, v) == key \oplus GfMul(v, delta)
        triple(k) == [x |-> x[k], y |-> y[k], macX |-> mac(keyOf(k).keyX, x[k]),
                      macY |-> mac(keyOf(k).keyY, y[k]), macZ |-> mac(keyOf(k).keyZ, z[k])]
        challenge == [k \in Upto(n + 1) |-> NoiseBlock(seed, 7, k)]
        maskKey == NoiseBlock(seed, 8, 0)
        mask == [block |-> NoiseBlock(seed, 9, 0), mac |-> mac(maskKey, NoiseBlock(seed, 9, 0))]
        proof[k \in Nat] ==
          IF k = 0 THEN ProverStart(mask)
          ELSE ProverUpdate(proof[k - 1], challenge[k - 1], triple(k - 1))
        b[k \in Nat] ==
          IF k = 0 THEN maskKey
          ELSE VerifierUpdate(b[k - 1], challenge[k - 1], keyOf(k - 1), delta)
        S == Upto(n)
        p == [x |-> x, y |-> y, macX |-> [k \in S |-> triple(k).macX],
              macY |-> [k \in S |-> triple(k).macY], macZ |-> [k \in S |-> triple(k).macZ]]
        v == [keyX |-> [k \in S |-> keyOf(k).keyX], keyY |-> [k \in S |-> keyOf(k).keyY],
              keyZ |-> [k \in S |-> keyOf(k).keyZ]]
        batch == [a0 |-> A0(S, challenge, p, mask), a1 |-> A1(S, challenge, p, mask)]
    IN  call' = [f |-> "prove",
                 products |-> wrong = n \/ challenge[wrong] = ZeroBlock,
                 accepted |-> Accepts(b[n], proof[n], delta),
                 acceptedBatch |-> Accepts(B(S, challenge, v, maskKey, delta), batch, delta)]

Compute ==
  \/ Lane \/ Message \/ Uncompress \/ NoiseSample \/ Sample \/ Multiply
  \/ SendBits \/ SendBools \/ Authenticate \/ Prove

Next == (call = None /\ Compute) \/ (call # None /\ call' = None)

Spec == Init /\ [][Next]_vars

-----------------------------------------------------------------------------
Is(f) == call # None /\ call.f = f

Rounded(x, bits) == ((x * 2 ^ bits + Q \div 2) \div Q) % 2 ^ bits

(* Coefficients stay reduced through indcpa_enc and indcpa_dec: for every  *)
(* 16-bit sum, red16 gives a number from 0 to q with the same remainder,   *)
(* what csubq makes of it is the remainder itself, and tomont multiplies   *)
(* by 2^16.                                                                *)
ReductionRight ==
  Is("lane") =>
    /\ call.reduced \in 0 .. Q
    /\ CSubQ[call.reduced] = call.x % Q
    /\ (call.mont - call.x * (65536 % Q)) % Q = 0

(* poly_compress takes what poly_reduce leaves, q in the place of some     *)
(* zeros included, without the exact division of the definition: the       *)
(* borrow and the two roundings give the nearest multiple for every lane,  *)
(* to ten bits and to four.  Decompression is the rounded quotient in the  *)
(* odd and in the even lanes, and compressing it gives the bits back.      *)
RoundingRight ==
  /\ Is("lane") =>
       /\ Compress10[call.reduced] = Rounded(call.x % Q, 10)
       /\ Compress4[call.reduced] = Rounded(call.x % Q, 4)
  /\ Is("uncompress") =>
       /\ call.x = (call.c * Q + 512) \div 1024
       /\ call.x4 = ((call.c % 16) * Q + 8) \div 16
       /\ Compress10[call.x] = call.c
       /\ Compress4[call.x4] = call.c % 16

(* A message bit survives decryption exactly as long as the noise that     *)
(* encryption and compression leave is at most 832 either way, 831 upwards *)
(* of a 1.  Noise comes from cbd2, at most 2 a coefficient.                *)
MessageMargin ==
  /\ Is("message") => (call.back = call.bit <=> call.noise \in -832 .. 832 - call.bit)
  /\ Is("cbd") =>
       LET bit == [k \in 0 .. 3 |-> (call.nibble \div 2 ^ k) % 2]
       IN  call.r = (bit[0] + bit[1]) - (bit[2] + bit[3])

(* The arithmetic of a 16-bit lane, where indcpa's coefficients are        *)
(* reduced, rounded and turned into bits of a message and back: nothing    *)
(* of it wraps around or rounds the wrong way for any lane.                *)
ArithmeticRight == ReductionRight /\ RoundingRight /\ MessageMargin

(* gen_matrix: whatever is rejected, the coefficients of a polynomial are  *)
(* the first numbers below q of the whole stream; the vector loops, the    *)
(* scalar loop and the blocks that follow neither skip nor repeat a number *)
(* where one takes over from another.                                      *)
SamplingRight ==
  Is("sample") =>
    LET all == Accepted(call.stream, 0, Len(call.stream))
    IN  call.r = SubSeq(all, 1, IF Len(all) < 8 THEN Len(all) ELSE 8)

(* A packed matrix multiplies bits and blocks as the plain one does, and   *)
(* parity and empty, which look at whole words, agree with the columns:    *)
(* the random words of gen_and_send_matrix are cleared past the last       *)
(* column.                                                                 *)
ProductsRight ==
  Is("matrix") =>
    LET set(i) == {c \in 1 .. call.m.cols : At(call.m, i - 1, c - 1) = 1}
    IN  \A i \in 1 .. call.m.rows :
          /\ call.times[i] = Odd({c \in set(i) : call.bits[c] = 1})
          /\ call.timesBlocks[i] = XorOver(set(i), call.blocks)
          /\ call.parities[i] = Odd(set(i))
          /\ call.empties[i] <=> set(i) = {}

(* A bitset, or a slice of one that starts inside a word, arrives as it    *)
(* was sent, and merge puts the right bitset below the left one.  What     *)
(* recv_bool stores is what send_bool was given, for every length and      *)
(* every alignment the two arrays share.                                   *)
BitsArrive ==
  /\ Is("bitset") => call.received = call.sent /\ call.merged = call.sent \o call.bits
  /\ Is("bools") => call.received = call.sent

(* What matrix.hpp, utils.hpp and net-io.hpp pack into words and bytes     *)
(* comes out as it went in, whatever the lengths and the alignment.        *)
PackingRight == ProductsRight /\ BitsArrive

(* Every block is authenticated under every global key once its bits are   *)
(* packed, on both sides at the same flattened position; the holder of the *)
(* keys then exchanges value and MAC by the inverses of its keys alone.   *)
PackedBlocksAuthentic ==
  Is("blocks") =>
    /\ call.blocks = call.wantedBlocks
    /\ \A d \in DOMAIN call.deltas : \A i \in Upto(call.n) :
         LET block == call.blocks[i]
             mac == SpanAt(call.macs, call.n, d, 0, i)
             key == ExtractByGlobalKey(call.keys, call.n, d)[i]
         IN  /\ mac = key \oplus GfMul(block, call.deltas[d])
             /\ block = call.inverse.localKeys[d * call.n + i]
                          \oplus GfMul(mac, call.inverse.globalKeys[d])

(* The verifier accepts products, taken one by one or as a list, and       *)
(* rejects a list with one wrong product whose challenge is not zero.      *)
ProductsAccepted ==
  Is("prove") => call.accepted = call.products /\ call.acceptedBatch = call.products
=============================================================================
