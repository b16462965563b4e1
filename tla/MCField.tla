------------------------------- MODULE MCField -------------------------------
(***************************************************************************)
(* GF(8) for model checking: blocks of three bits, and functions that mix  *)
(* integers into pseudo-random blocks and bits.                            *)
(***************************************************************************)
EXTENDS Blocks

(* The integer a block stands for. *)
Num(b) == (IF 0 \in b THEN 1 ELSE 0) + (IF 1 \in b THEN 2 ELSE 0) + (IF 2 \in b THEN 4 ELSE 0)

Mix(n) == {p \in BlockBits : ((n * n + (7 + 4 * p) * n + 3 * p) % 23) % 2 = 1}

(* x * b in GF(2)[x]/(x^3 + x + 1) *)
TimesX(b) == {p + 1 : p \in b \ {2}} \oplus (IF 2 \in b THEN {0, 1} ELSE {})

MCGfMul(a, b) ==
  (AndAllBits(0 \in a, b) \oplus AndAllBits(1 \in a, TimesX(b)))
    \oplus AndAllBits(2 \in a, TimesX(TimesX(b)))
=============================================================================
