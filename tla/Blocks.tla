------------------------------- MODULE Blocks -------------------------------
(***************************************************************************)
(* The algebra of emp::block.  A block is the set of its bit positions     *)
(* that are 1, so that XOR is symmetric difference, the zero block is the  *)
(* empty set and get_LSB asks for position 0.  The width is the constant   *)
(* BlockBits (0..127 in the program), so what is stated here holds for     *)
(* every width.  A bit is a BOOLEAN; the XOR of two bits is #.             *)
(***************************************************************************)
EXTENDS Integers, FiniteSets

CONSTANT BlockBits    \* the bit positions of a block

ASSUME BlockBitsAssumption == BlockBits \subseteq Nat /\ 0 \in BlockBits

Block == SUBSET BlockBits

ZeroBlock == {}

(* _mm_xor_si128 and xor_to. *)
a \oplus b == (a \ b) \cup (b \ a)

(* get_LSB: the bit that carries a masked value through a label. *)
GetLSB(x) == 0 \in x

(* and_all_bits: the block if the bit is set, the zero block otherwise. *)
AndAllBits(bit, x) == IF bit THEN x ELSE ZeroBlock

(* The XOR of f[s] over all s in S: position p is set when an odd number   *)
(* of the blocks have it.                                                  *)
XorOver(S, f) == {p \in BlockBits : Cardinality({s \in S : p \in f[s]}) % 2 = 1}

(* An information-theoretic MAC: the holder of the bit has                 *)
(* mac = key + bit * delta, the other party has the key and delta.         *)
Authentic(bit, mac, key, delta) == mac = key \oplus AndAllBits(bit, delta)
=============================================================================
