----------------------------- MODULE KyberArith -----------------------------
(***************************************************************************)
(* The arithmetic of libs/Kyber on one coefficient, as the 16-bit lanes of *)
(* the vector instructions do it.  A lane is a signed 16-bit integer; only *)
(* what one lane computes is kept, not how lanes are shuffled.  The build  *)
(* is that of CMakeLists.txt: KYBER_90S, KYBER_K=3.                        *)
(***************************************************************************)
EXTENDS Integers, Sequences

Q == 3329          \* KYBER_Q
V == 20159         \* _16XV: floor(2^26/q + 0.5)

Word == (-32768) .. 32767

(* What is left of a number in a lane. *)
Wrap(x) == ((x + 32768) % 65536) - 32768

MulHi(a, b) == (a * b) \div 65536                    \* mulhi_epi16
MulLo(a, b) == Wrap(a * b)                           \* mullo_epi16
MulHrs(a, b) == (((a * b) \div 16384) + 1) \div 2     \* mulhrs_epi16

(* Mutant: the unsigned high product. *)
Red16Unsigned == [x \in Word |-> Wrap(x - MulLo(MulHi(x % 65536, V) \div 1024, Q))]

(* red16: Barrett reduction. *)
Red16 == [x \in Word |-> Wrap(x - MulLo(MulHi(x, V) \div 1024, Q))]

(* csubq: subtract q, add it back to what became negative. *)
CSubQ == [x \in Word |-> LET d == Wrap(x - Q) IN IF d < 0 THEN Wrap(d + Q) ELSE d]

(* fqmulprecomp with MONTSQHI and MONTSQLO. *)
ToMont == [x \in Word |-> Wrap(MulHi(x, 1353) - MulHi(MulLo(x, 20553), Q))]

(* Mutant: no borrow. *)
Compress10NoBorrow == [x \in Word |-> MulHrs(MulHi(Wrap(8 * x), V), 4096) % 1024]

(***************************************************************************)
(* Compression to ten bits: x*8*v/2^16 with a borrow where the low halves  *)
(* show that it was rounded up, then a rounded division by 8.              *)
(***************************************************************************)
Compress10 ==
  [x \in Word |->
     LET low == MulLo(x, Wrap(8 * V))
         diff == Wrap(low - Wrap(x + 15))
         borrow == IF low >= 0 /\ diff < 0 THEN 1 ELSE 0
     IN  MulHrs(MulHi(Wrap(8 * x), V) - borrow, 4096) % 1024]

(* Of two neighbouring lanes one has its ten bits shifted by 3, the other  *)
(* by 5; the factors make up for it.                                       *)
Decompress10(c, lane) == IF lane % 2 = 0 THEN MulHrs(c * 8, 4 * Q) ELSE MulHrs(c * 32, Q)

(* poly_compress and poly_decompress, four bits. *)
Compress4 == [x \in Word |-> MulHrs(MulHi(x, V), 512) % 16]
Decompress4(c) == MulHrs(c * 2048, Q)

(* A bit of a message as a coefficient and back. *)
FromMsg(bit) == IF bit = 1 THEN (Q + 1) \div 2 ELSE 0

(* Mutant: the absolute value, for the complement. *)
ToMsgAbsolute ==
  [x \in Word |-> LET d == Wrap((Q - 1) \div 2 - x)
                      distance == IF d < 0 THEN -d ELSE d
                  IN  IF (Q - 5) \div 4 - distance >= 0 THEN 1 ELSE 0]

ToMsg ==
  [x \in Word |-> LET d == Wrap((Q - 1) \div 2 - x)
                      distance == IF d < 0 THEN -d - 1 ELSE d
                  IN  IF (Q - 5) \div 4 - distance >= 0 THEN 1 ELSE 0]

(***************************************************************************)
(* cbd2 on a nibble: the two even bits minus the two odd ones in pairs,    *)
(* computed with one mask at a time.                                       *)
(***************************************************************************)
Cbd2(nibble) ==
  LET bit == [k \in 0 .. 3 |-> (nibble \div 2 ^ k) % 2]
      pairs == [k \in 0 .. 1 |-> bit[2 * k] + bit[2 * k + 1]]
  IN  (pairs[0] + 3 - pairs[1]) - 3

=============================================================================
