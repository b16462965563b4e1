------------------------------ MODULE PackedOT ------------------------------
(***************************************************************************)
(* How authenticated blocks are made of bit OTs (block_correlated_OT.hpp,  *)
(* authed_bit.hpp, authed_bit.cpp).  Everything is flattened by global     *)
(* key, then block, then bit: a vector is a function from 0 on.  Sender    *)
(* and receiver reach the same element through their own arithmetic on     *)
(* positions; AuthedBits has the result, one OT of a block.                *)
(***************************************************************************)
EXTENDS Field

Width == Cardinality(BlockBits)          \* BLOCK_BIT_SIZE
Upto(n) == 0 .. n - 1
Size(vector) == Cardinality(DOMAIN vector)

(* polyval: the coefficients from an offset on, times the powers of X. *)
Polyval(coeff, offset) ==
  XorOver(Upto(Width), [k \in Upto(Width) |-> GfMul({k}, coeff[offset + k])])

-----------------------------------------------------------------------------
(***************************************************************************)
(* The OT of both sides: the sender's second messages are the first ones   *)
(* plus the global key of their row, the receiver repeats its choices for  *)
(* every row.                                                              *)
(***************************************************************************)
SecondMessages(k1, deltas, len) ==
  [p \in DOMAIN k1 |-> k1[p] \oplus deltas[p \div len]]

RepeatedChoices(choices, rows) ==
  [p \in Upto(rows * Size(choices)) |-> choices[p % Size(choices)]]

Chosen(k1, k2, choices) == [p \in DOMAIN k1 |-> IF choices[p] THEN k2[p] ELSE k1[p]]

(* The sender's half of `Fix' for a vector of bits. *)
MovedKeys(localKeys, globalKeys, diff) ==
  LET bits == Size(diff)
  IN  [p \in DOMAIN localKeys |->
         localKeys[p] \oplus AndAllBits(diff[p % bits], globalKeys[p \div bits])]

-----------------------------------------------------------------------------
(* Blocks and bits. *)
BlocksToBits(blocks) == [p \in Upto(Width * Size(blocks)) |-> p % Width \in blocks[p \div Width]]

BitsToBlocks(bits) ==
  [b \in Upto(Size(bits) \div Width) |-> {k \in Upto(Width) : bits[b * Width + k]}]

(* scaled_block_bits: the scalar where the selector is set. *)
ScaledBlockBits(scalar, selectors) ==
  [p \in Upto(Width * Size(selectors)) |-> selectors[p \div Width] /\ p % Width \in scalar]

(* polyval_mac_chunks: the receiver's MACs of blocks. *)
MacChunks(macs, totalBits, globalKeySize, blockCount) ==
  [p \in Upto(globalKeySize * blockCount) |->
     Polyval(macs, (p \div blockCount) * totalBits + (p % blockCount) * Width)]

(* Mutant: the rows of blocks follow each other without the rows of bits. *)
KeyChunksOneRow(localKeys, globalKeys) ==
  LET blockSize == Size(localKeys) \div (Size(globalKeys) * Width)
  IN  [p \in Upto(Size(globalKeys) * blockSize) |-> Polyval(localKeys, (p % blockSize) * Width)]

(* The sender's keys of blocks. *)
KeyChunks(localKeys, globalKeys) ==
  LET bits == Size(localKeys) \div Size(globalKeys)
      blockSize == bits \div Width
  IN  [p \in Upto(Size(globalKeys) * blockSize) |->
         Polyval(localKeys, (p \div blockSize) * bits + (p % blockSize) * Width)]

(* get_mac and get_local_key of a span of one global key. *)
SpanAt(vector, size, globalKey, begin, i) == vector[globalKey * size + begin + i]

(* extract_by_global_key: one row. *)
ExtractByGlobalKey(vector, size, globalKey) ==
  [i \in Upto(size) |-> vector[globalKey * size + i]]

-----------------------------------------------------------------------------
(***************************************************************************)
(* gf_inverse: from x^(2^k-1) and x^(2^k-2) to those of 2k, until k is the *)
(* width, a power of two.                                                  *)
(***************************************************************************)
SquareTimes(x, times) ==
  LET f[n \in Nat] == IF n = 0 THEN x ELSE GfMul(f[n - 1], f[n - 1]) IN f[times]

InverseChain(x) ==
  LET f[k \in Nat] ==
        IF k = 1 THEN [minusOne |-> x, minusTwo |-> One]
        ELSE LET half == f[k \div 2]
                 powered == SquareTimes(half.minusOne, k \div 2)
             IN  [minusOne |-> GfMul(powered, half.minusOne),
                  minusTwo |-> GfMul(powered, half.minusTwo)]
  IN  f[Width].minusTwo

(* inverse_value_and_mac of the holder of keys, for every global key; the  *)
(* holder of the blocks swaps blocks and MACs.                             *)
InverseKeys(localKeys, globalKeys) ==
  LET inverses == [d \in DOMAIN globalKeys |-> InverseChain(globalKeys[d])]
      size == Size(localKeys) \div Size(globalKeys)
  IN  [globalKeys |-> inverses,
       localKeys |-> [p \in DOMAIN localKeys |-> GfMul(localKeys[p], inverses[p \div size])]]
=============================================================================
