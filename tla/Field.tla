-------------------------------- MODULE Field --------------------------------
(***************************************************************************)
(* Blocks as elements of GF(2^128): addition is XOR, GfMul is emp::gfmul.  *)
(* What the protocols rely on is that multiplication distributes over XOR  *)
(* and is commutative and associative, and that a block's lowest bit is    *)
(* its constant coefficient, so that One is the block with bit 0 set.      *)
(***************************************************************************)
EXTENDS Blocks

CONSTANT GfMul(_, _)

ASSUME FieldAssumption ==
  \A x, y \in Block :
    /\ GfMul(x, y) \in Block
    /\ GfMul(x, y) = GfMul(y, x)
    /\ \A z \in Block :
         /\ GfMul(x, y \oplus z) = GfMul(x, y) \oplus GfMul(x, z)
         /\ GfMul(x, GfMul(y, z)) = GfMul(GfMul(x, y), z)

One == {0}

ASSUME OneAssumption ==
  \A x \in Block :
    /\ GfMul(One, x) = x
    /\ x # ZeroBlock => \E y \in Block : GfMul(x, y) = One

(* gf_inverse: the x^(2^128 - 2) of every block that has an inverse. *)
GfInverse(x) == CHOOSE y \in Block : GfMul(x, y) = One

(* vector_inn_prdt_sum_red and vector_inner_product over an index set S. *)
InnerProduct(S, f, g) == XorOver(S, [s \in S |-> GfMul(f[s], g[s])])
=============================================================================
