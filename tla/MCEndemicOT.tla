---------------------------- MODULE MCEndemicOT -----------------------------
(***************************************************************************)
(* EndemicOT with polynomials of two coefficients, the first of which is   *)
(* the block that is kept, and pseudo-random seeds, noise and hashes.      *)
(***************************************************************************)
EXTENDS EndemicOT

Mix(x, y) == ((x + 11) * 3137 + (y + 5) * 7919 + (x + 1) * (y + 3) * 13) % 251

Values == 0 .. 250

(* Coefficients of a uniform polynomial, and noise from -2 to 2. *)
Coefficients ==
  [seed \in Values |-> [place \in 0 .. 3 |-> [k \in 0 .. 1 |->
     (3329 * Mix(Mix(seed, place), k) + 97 * Mix(seed, k)) \div 251 % 3329]]]

Noise ==
  [seed \in Values |-> [nonce \in 0 .. 4 |-> [k \in 0 .. 1 |->
     Cbd2((Mix(Mix(seed, nonce), k) \div 5) % 16)]]]

MCXof(seed, i, j) == Coefficients[seed][2 * i + j]
MCPrf(seed, nonce) == Noise[seed][nonce]

MCHashG(bytes) == [publicseed |-> Mix(bytes, 1), noiseseed |-> Mix(bytes, 2)]
MCHashH(vec) == Mix(Mix(vec[0][0], vec[0][1]), Mix(vec[1][0], vec[1][1]))
MCDraw(state) == Mix(state, 5)

(* Both orders of the blocks 0 and 1, with equal and different memory      *)
(* behind them, and twice the block 1.                                     *)
Item(bit, behind) == [k \in 0 .. 1 |-> IF k = 0 THEN bit ELSE behind]

MCPairs ==
  {[k \in {0, 1} |-> IF k = 0 THEN Item(0, 1) ELSE Item(1, 1)],
   [k \in {0, 1} |-> IF k = 0 THEN Item(1, 0) ELSE Item(0, 1)],
   [k \in {0, 1} |-> Item(1, k)]}

(* What the proofs assume holds of these polynomials. *)
ASSUME MCDecryptsRight == DecryptsRight
ASSUME MCSmall ==
  \A seed \in Values :
    /\ \A i, j \in Indices : \A k \in Positions : MCXof(seed, i, j)[k] \in 0 .. Q - 1
    /\ \A nonce \in 0 .. 2 * K : \A k \in Positions : MCPrf(seed, nonce)[k] \in -3 .. 3
=============================================================================
