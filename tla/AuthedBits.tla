----------------------------- MODULE AuthedBits -----------------------------
(***************************************************************************)
(* Authenticated bits and blocks (authed_bit.hpp, authed_bit.cpp) on top   *)
(* of the block-correlated OT (block_correlated_OT.hpp).                   *)
(*                                                                         *)
(* A vector is a function from 0 .. len-1.  The OT's sender has a vector   *)
(* of global keys; its local keys and the receiver's MACs are "global key  *)
(* major": keys[d][i] belongs to global key d and element i.  What the     *)
(* library calls ITMacBits is, here, a vector of bits and its MACs; its    *)
(* ITMacBitKeys the local keys and the global keys.  Blocks are the same   *)
(* with multiplication in the field in the place of AND: the 128 bit OTs   *)
(* of a block, packed by polyval, are one OT of a block.                   *)
(***************************************************************************)
EXTENDS Field

(* Multiples of a global key: by a bit, by a block. *)
ByBits(keys, deltas, bits) ==
  [d \in DOMAIN deltas |->
     [i \in DOMAIN bits |-> keys[d][i] \oplus AndAllBits(bits[i], deltas[d])]]

ByBlocks(keys, deltas, blocks) ==
  [d \in DOMAIN deltas |->
     [i \in DOMAIN blocks |-> keys[d][i] \oplus GfMul(blocks[i], deltas[d])]]

(* Sender::extend and Receiver::extend: the receiver's MACs for its random *)
(* choices.                                                                *)
BitMacs(keys, deltas, choices) == ByBits(keys, deltas, choices)

BlockMacs(keys, deltas, choices) == ByBlocks(keys, deltas, choices)

(* `Fix': the receiver sends the difference between its choices and the    *)
(* values it wants authenticated and keeps its MACs; the sender moves its  *)
(* keys.                                                                   *)
BitDiff(choices, bits) == [i \in DOMAIN bits |-> choices[i] # bits[i]]

BlockDiff(choices, blocks) == [i \in DOMAIN blocks |-> choices[i] \oplus blocks[i]]

FixedBitKeys(keys, deltas, diff) == ByBits(keys, deltas, diff)

FixedBlockKeys(keys, deltas, diff) == ByBlocks(keys, deltas, diff)

(* A vector of one, and the single global key of most senders. *)
Only(x) == [i \in {0} |-> x]

(* What fixing establishes, element by element and key by key. *)
BitsAuthentic(bits, macs, keys, deltas) ==
  \A d \in DOMAIN deltas : \A i \in DOMAIN bits :
    Authentic(bits[i], macs[d][i], keys[d][i], deltas[d])

BlocksAuthentic(blocks, macs, keys, deltas) ==
  \A d \in DOMAIN deltas : \A i \in DOMAIN blocks :
    macs[d][i] = keys[d][i] \oplus GfMul(blocks[i], deltas[d])

-----------------------------------------------------------------------------
(* Matrix<bool> times a vector (matrix.hpp, matrix.cpp): m[r][l] is a bit. *)
TimesBits(m, bits) ==
  [r \in DOMAIN m |-> Cardinality({l \in DOMAIN bits : m[r][l] /\ bits[l]}) % 2 = 1]

TimesBlocks(m, blocks) ==
  [r \in DOMAIN m |-> XorOver({l \in DOMAIN blocks : m[r][l]}, blocks)]
=============================================================================
