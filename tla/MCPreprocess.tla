---------------------------- MODULE MCPreprocess ----------------------------
(***************************************************************************)
(* Preprocess on small circuits, over GF(8).                               *)
(***************************************************************************)
EXTENDS Preprocess, MCField, MCCircuits, MCRandom

CONSTANTS Seeds, Circuits

(* One column for one row, two for more. *)
MCCompressParam(n) == IF n > 1 THEN 2 ELSE 1

(* An AND of the same two wires, in the same order, twice. *)
Twice == Circ(1, 1, 2, 5, <<AND(0, 1, 2), AND(0, 1, 3), XOR(2, 3, 4)>>)

NoDuplicates == CircuitsUnderTest

Duplicated == {Twice}

Keys(seed) ==
  LET delta == Mix(7 * seed + 1) \cup {0}
      other == CHOOSE b \in {Mix(11 * seed + n) : n \in 0 .. 30} : GetLSB(MCGfMul(delta, b))
      alpha == Mix(3 * seed + 5)
  IN  [deltaA |-> delta, deltaB |-> other, alpha0 |-> alpha,
       beta0 |-> alpha \oplus MCGfMul(delta, other)]

MCSetups ==
  {[circuit |-> c, seed |-> seed, deltaA |-> Keys(seed).deltaA, deltaB |-> Keys(seed).deltaB,
    alpha0 |-> Keys(seed).alpha0, beta0 |-> Keys(seed).beta0] : c \in Circuits, seed \in Seeds}
=============================================================================
