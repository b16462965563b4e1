---------------------------- MODULE Common_proofs ----------------------------
(***************************************************************************)
(* What several proofs share.                                              *)
(*                                                                         *)
(* The algebra of blocks, for blocks of any width: XOR, masking by a bit,  *)
(* the least significant bit, the identity behind one garbled AND gate of  *)
(* garble_evaluate.cpp, and sums of blocks over a finite set; induction    *)
(* over finite sets, queues of messages.                                   *)
(*                                                                         *)
(* The numbering of the AND gates, for circuits of any size.  The program  *)
(* numbers them three times: and_gate_order in circuit.cpp, the            *)
(* andGateIter of each loop over the gates, and the order in which the GC  *)
(* check visits their outputs; the proofs of TwoPC need that the three     *)
(* agree.                                                                  *)
(*                                                                         *)
(* The accumulators of DVZK.hpp: when a list of claimed products is        *)
(* accepted.                                                               *)
(*                                                                         *)
(* The authenticated blocks of authed_bit.cpp, made of one long OT of      *)
(* bits: where each element is, and that the packed ones are authentic.    *)
(***************************************************************************)
EXTENDS DVZK, PackedOT, Circuits, Sequences, FiniteSetsExt, FiniteSetTheorems, SequenceTheorems,
        WellFoundedInduction, TLAPS

(* Every operation on blocks yields a block. *)
LEMMA BlockType ==
  /\ ZeroBlock \in Block
  /\ \A a, b \in Block : a \oplus b \in Block
  /\ \A bit, a : a \in Block => AndAllBits(bit, a) \in Block
  /\ \A S, f : XorOver(S, f) \in Block
BY DEF Block, ZeroBlock, \oplus, AndAllBits, XorOver

(* XOR is associative, commutative and its own inverse. *)
LEMMA XorAlgebra ==
  ASSUME NEW a, NEW b, NEW c
  PROVE  /\ a \oplus b = b \oplus a
         /\ (a \oplus b) \oplus c = a \oplus (b \oplus c)
         /\ a \oplus ZeroBlock = a
         /\ a \oplus a = ZeroBlock
         /\ (a \oplus b) \oplus b = a
BY SMT DEF \oplus, ZeroBlock

(* and_all_bits is linear in the bit. *)
LEMMA AndAllBitsXor ==
  ASSUME NEW x, NEW p \in BOOLEAN, NEW q \in BOOLEAN
  PROVE  AndAllBits(p # q, x) = AndAllBits(p, x) \oplus AndAllBits(q, x)
<1>1. CASE p /\ q
  BY <1>1, XorAlgebra DEF AndAllBits
<1>2. CASE p /\ ~q
  BY <1>2, XorAlgebra DEF AndAllBits
<1>3. CASE ~p /\ q
  BY <1>3, XorAlgebra DEF AndAllBits
<1>4. CASE ~p /\ ~q
  BY <1>4, XorAlgebra DEF AndAllBits
<1> QED  BY <1>1, <1>2, <1>3, <1>4

(* get_LSB is linear, and a global key whose LSB is 1 carries a bit. *)
LEMMA GetLSBXor ==
  ASSUME NEW a, NEW b
  PROVE  /\ GetLSB(a \oplus b) = (GetLSB(a) # GetLSB(b))
         /\ GetLSB(b) => \A bit \in BOOLEAN : GetLSB(AndAllBits(bit, b)) = bit
<1>1. GetLSB(a \oplus b) = (GetLSB(a) # GetLSB(b))
  BY DEF GetLSB, \oplus
<1>2. GetLSB(b) => \A bit \in BOOLEAN : GetLSB(AndAllBits(bit, b)) = bit
  BY DEF GetLSB, AndAllBits, ZeroBlock
<1> QED  BY <1>1, <1>2

(* Half gates: whatever the masked inputs mi and mj of an AND gate are,    *)
(* the label the evaluator computes from its labels, its MACs and the two  *)
(* table entries is the zero label the garbler chose for the output, plus  *)
(* the global key if the masked output is 1.  l.. are the garbler's shares *)
(* of the masks and of the triple, e.. the evaluator's.                    *)
MaskedAnd(mi, mj, li, lj, lo, ei, ej, eo) ==
  ((mi # (li # ei)) /\ (mj # (lj # ej))) # (lo # eo)

HalfGateHolds(hi0, hi1, hj0, hj1, x, d, ki, kj, ko, kt, mi, mj,
              li, lj, lo, lt, ei, ej, eo, et) ==
  LET t0 == ((kj \oplus AndAllBits(lj, d)) \oplus hi0) \oplus hi1
      t1 == (((x \oplus AndAllBits(li, d)) \oplus ki) \oplus hj0) \oplus hj1
      out0 == (((hi0 \oplus hj0) \oplus AndAllBits(lo # lt, d)) \oplus ko) \oplus kt
      hi == IF mi THEN hi1 ELSE hi0
      hj == IF mj THEN hj1 ELSE hj0
      label == IF mi THEN x \oplus d ELSE x
      g0 == t0 \oplus (kj \oplus AndAllBits(ej, d))
      g1 == (t1 \oplus (ki \oplus AndAllBits(ei, d))) \oplus label
  IN  (((((hi \oplus hj) \oplus (ko \oplus AndAllBits(eo, d)))
          \oplus (kt \oplus AndAllBits(et, d)))
        \oplus AndAllBits(mi, g0)) \oplus AndAllBits(mj, g1))
      = out0 \oplus AndAllBits(MaskedAnd(mi, mj, li, lj, lo, ei, ej, eo), d)

LEMMA BooleanXor == \A p, q \in BOOLEAN : (p # q) \in BOOLEAN
OBVIOUS

LEMMA HalfGate ==
  ASSUME NEW hi0, NEW hi1, NEW hj0, NEW hj1, NEW x, NEW d,
         NEW ki, NEW kj, NEW ko, NEW kt,
         NEW mi \in BOOLEAN, NEW mj \in BOOLEAN,
         NEW li \in BOOLEAN, NEW lj \in BOOLEAN, NEW lo \in BOOLEAN, NEW lt \in BOOLEAN,
         NEW ei \in BOOLEAN, NEW ej \in BOOLEAN, NEW eo \in BOOLEAN, NEW et \in BOOLEAN,
         (lt # et) = ((li # ei) /\ (lj # ej))
  PROVE  HalfGateHolds(hi0, hi1, hj0, hj1, x, d, ki, kj, ko, kt, mi, mj,
                       li, lj, lo, lt, ei, ej, eo, et)
<1> DEFINE A(b) == AndAllBits(b, d)
           v == MaskedAnd(mi, mj, li, lj, lo, ei, ej, eo)
           t0 == ((kj \oplus A(lj)) \oplus hi0) \oplus hi1
           t1 == (((x \oplus A(li)) \oplus ki) \oplus hj0) \oplus hj1
           g0 == t0 \oplus (kj \oplus A(ej))
           g1 == t1 \oplus (ki \oplus A(ei))
           hashed(hi, hj) == ((hi \oplus hj) \oplus (ko \oplus A(eo))) \oplus (kt \oplus A(et))
           out0 == (((hi0 \oplus hj0) \oplus A(lo # lt)) \oplus ko) \oplus kt
           sum == (A(lo # lt) \oplus A(eo)) \oplus A(et)
<1>1. ASSUME NEW p \in BOOLEAN, NEW q \in BOOLEAN PROVE A(p # q) = A(p) \oplus A(q)
  BY AndAllBitsXor
<1>2. ASSUME NEW p \in BOOLEAN PROVE A(~p) = A(p) \oplus d
  <2>1. A(p # TRUE) = A(p) \oplus A(TRUE) /\ A(TRUE) = d
    BY <1>1 DEF AndAllBits
  <2>2. (p # TRUE) = ~p
    OBVIOUS
  <2> QED  BY <2>1, <2>2
<1>0. /\ (lo # lt) \in BOOLEAN /\ ((lo # lt) # eo) \in BOOLEAN
      /\ (((lo # lt) # eo) # et) \in BOOLEAN /\ (lj # ej) \in BOOLEAN /\ (li # ei) \in BOOLEAN
      /\ ((((lo # lt) # eo) # et) # (lj # ej)) \in BOOLEAN
  <2> HIDE DEF A, v, t0, t1, g0, g1, hashed, out0, sum
  <2>1. (lo # lt) \in BOOLEAN /\ (lj # ej) \in BOOLEAN /\ (li # ei) \in BOOLEAN
    BY BooleanXor, Zenon
  <2>2. ((lo # lt) # eo) \in BOOLEAN
    BY <2>1, BooleanXor, Zenon
  <2>3. (((lo # lt) # eo) # et) \in BOOLEAN
    BY <2>2, BooleanXor, Zenon
  <2> QED  BY <2>1, <2>2, <2>3, BooleanXor, Zenon
<1>3. A(((lo # lt) # eo) # et) = sum
  <2>1. A(((lo # lt) # eo) # et) = A((lo # lt) # eo) \oplus A(et)
    BY <1>0, <1>1
  <2>2. A((lo # lt) # eo) = A(lo # lt) \oplus A(eo)
    BY <1>0, <1>1
  <2> QED  BY <2>1, <2>2
<1>4. A(lj # ej) = A(lj) \oplus A(ej) /\ A(li # ei) = A(li) \oplus A(ei)
  BY <1>1
<1>5. \A b : AndAllBits(FALSE, b) = ZeroBlock /\ AndAllBits(TRUE, b) = b /\ b \oplus ZeroBlock = b
  BY XorAlgebra DEF AndAllBits
<1>6. CASE ~mi /\ ~mj
  <2>1. v = (((lo # lt) # eo) # et)
    BY <1>6 DEF MaskedAnd
  <2>2. hashed(hi0, hj0) = out0 \oplus sum
    BY SMT DEF \oplus
  <2>3. hashed(hi0, hj0) = out0 \oplus A(v)
    BY <1>3, <2>1, <2>2
  <2>4. AndAllBits(mi, g0) = ZeroBlock /\ \A b : AndAllBits(mj, b) = ZeroBlock
    BY <1>6 DEF AndAllBits
  <2>5. (hashed(hi0, hj0) \oplus ZeroBlock) \oplus ZeroBlock = hashed(hi0, hj0)
    BY XorAlgebra
  <2> QED  BY <1>6, <2>3, <2>4, <2>5 DEF HalfGateHolds
<1>7. CASE mi /\ ~mj
  <2>1. v = ((((lo # lt) # eo) # et) # (lj # ej))
    BY <1>7 DEF MaskedAnd
  <2>2. A(v) = sum \oplus (A(lj) \oplus A(ej))
    <3>1. A(v) = A(((lo # lt) # eo) # et) \oplus A(lj # ej)
      BY <1>0, <1>1, <2>1
    <3> HIDE DEF v, A, sum
    <3> QED  BY <1>3, <1>4, <3>1
  <2>3. hashed(hi1, hj0) \oplus g0 = out0 \oplus (sum \oplus (A(lj) \oplus A(ej)))
    BY SMT DEF \oplus
  <2>4. hashed(hi1, hj0) \oplus g0 = out0 \oplus A(v)
    BY <2>2, <2>3
  <2> QED  BY <1>5, <1>7, <2>4 DEF HalfGateHolds
<1>8. CASE ~mi /\ mj
  <2>1. v = ((((lo # lt) # eo) # et) # (li # ei))
    BY <1>8 DEF MaskedAnd
  <2>2. A(v) = sum \oplus (A(li) \oplus A(ei))
    <3>1. A(v) = A(((lo # lt) # eo) # et) \oplus A(li # ei)
      BY <1>0, <1>1, <2>1
    <3> HIDE DEF v, A, sum
    <3> QED  BY <1>3, <1>4, <3>1
  <2>3. hashed(hi0, hj1) \oplus (g1 \oplus x) = out0 \oplus (sum \oplus (A(li) \oplus A(ei)))
    BY SMT DEF \oplus
  <2>4. hashed(hi0, hj1) \oplus (g1 \oplus x) = out0 \oplus A(v)
    BY <2>2, <2>3
  <2>5. AndAllBits(mi, g0) = ZeroBlock /\ AndAllBits(mj, g1 \oplus x) = g1 \oplus x
    BY <1>8 DEF AndAllBits
  <2>6. hashed(hi0, hj1) \oplus ZeroBlock = hashed(hi0, hj1)
    BY XorAlgebra
  <2> QED  BY <1>8, <2>4, <2>5, <2>6 DEF HalfGateHolds
<1>9. CASE mi /\ mj
  <2> DEFINE w == ((((lo # lt) # eo) # et) # (lj # ej)) # (li # ei)
  <2>1. v = ~w
    BY <1>9 DEF MaskedAnd
  <2>2. A(w) = (sum \oplus (A(lj) \oplus A(ej))) \oplus (A(li) \oplus A(ei))
    <3>1. A(w) = A((((lo # lt) # eo) # et) # (lj # ej)) \oplus A(li # ei)
      BY <1>0, <1>1
    <3>2. A((((lo # lt) # eo) # et) # (lj # ej)) = A(((lo # lt) # eo) # et) \oplus A(lj # ej)
      BY <1>0, <1>1
    <3> HIDE DEF w, A, sum
    <3> QED  BY <1>3, <1>4, <3>1, <3>2
  <2>3. A(v) = A(w) \oplus d
    BY <1>2, <2>1
  <2>4. (hashed(hi1, hj1) \oplus g0) \oplus (g1 \oplus (x \oplus d))
          = out0 \oplus (((sum \oplus (A(lj) \oplus A(ej))) \oplus (A(li) \oplus A(ei))) \oplus d)
    <3> DEFINE p == A(lj) \oplus A(ej)
               q == A(li) \oplus A(ei)
    <3>1. g0 = (hi0 \oplus hi1) \oplus p
      <4> HIDE DEF A
      <4> QED  BY SMT DEF \oplus
    <3>2. g1 \oplus (x \oplus d) = ((hj0 \oplus hj1) \oplus q) \oplus d
      <4> HIDE DEF A
      <4> QED  BY SMT DEF \oplus
    <3> HIDE DEF A, g0, g1, p, q
    <3>3. \A r, t : (hashed(hi1, hj1) \oplus ((hi0 \oplus hi1) \oplus r)) \oplus t
                     = ((hashed(hi0, hj1)) \oplus r) \oplus t
      BY SMT DEF \oplus
    <3>4. \A r : (hashed(hi0, hj1) \oplus r) \oplus (((hj0 \oplus hj1) \oplus q) \oplus d)
                  = hashed(hi0, hj0) \oplus ((r \oplus q) \oplus d)
      BY SMT DEF \oplus
    <3>5. hashed(hi0, hj0) = out0 \oplus sum
      BY SMT DEF \oplus
    <3> HIDE DEF hashed, out0, sum
    <3>6. (out0 \oplus sum) \oplus ((p \oplus q) \oplus d)
            = out0 \oplus (((sum \oplus p) \oplus q) \oplus d)
      BY SMT DEF \oplus
    <3> QED  BY <3>1, <3>2, <3>3, <3>4, <3>5, <3>6 DEF p, q
  <2>5. (hashed(hi1, hj1) \oplus g0) \oplus (g1 \oplus (x \oplus d)) = out0 \oplus A(v)
    BY <2>2, <2>3, <2>4
  <2> QED  BY <1>5, <1>9, <2>5 DEF HalfGateHolds
<1> QED  BY <1>6, <1>7, <1>8, <1>9

(* Two XORs of two blocks, regrouped. *)
LEMMA XorRegroup ==
  ASSUME NEW a, NEW b, NEW p, NEW q
  PROVE  (a \oplus p) \oplus (b \oplus q) = (a \oplus b) \oplus (p \oplus q)
BY SMT DEF \oplus

(***************************************************************************)
(* The equation of the GC check for one AND gate.  The garbler's terms are *)
(* built from its MACs M and from flips f, the evaluator's from its keys K *)
(* and from masked values m; gm and em are the two shares of the masks of  *)
(* the inputs 0 and 1 and of the output o, gt and et those of the triple.  *)
(***************************************************************************)
TripleOf(gt, et, gm0, em0, gm1, em1) == (gt # et) <=> ((gm0 # em0) /\ (gm1 # em1))

MaskedOf(mo, gmo, emo, m0, gm0, em0, m1, gm1, em1) ==
  (mo # (gmo # emo)) <=> ((m0 # (gm0 # em0)) /\ (m1 # (gm1 # em1)))

EvaluatorBit(bp, m0, m1, mo, em0, em1, emo, et) ==
  bp <=> ((((((m0 /\ m1) # mo) # emo) # et) # (m0 /\ em1)) # (m1 /\ em0))

AndGateData(D, K0, K1, Ko, Kt, M0, M1, Mo, Mt, m0, m1, mo, f0, f1,
            gm0, gm1, gmo, gt, em0, em1, emo, et, bp) ==
  /\ D \in Block /\ K0 \in Block /\ K1 \in Block /\ Ko \in Block /\ Kt \in Block
  /\ m0 \in BOOLEAN /\ m1 \in BOOLEAN /\ mo \in BOOLEAN /\ f0 \in BOOLEAN /\ f1 \in BOOLEAN
  /\ gm0 \in BOOLEAN /\ gm1 \in BOOLEAN /\ gmo \in BOOLEAN /\ gt \in BOOLEAN
  /\ em0 \in BOOLEAN /\ em1 \in BOOLEAN /\ emo \in BOOLEAN /\ et \in BOOLEAN
  /\ Authentic(gm0, M0, K0, D) /\ Authentic(gm1, M1, K1, D)
  /\ Authentic(gmo, Mo, Ko, D) /\ Authentic(gt, Mt, Kt, D)
  /\ TripleOf(gt, et, gm0, em0, gm1, em1)
  /\ MaskedOf(mo, gmo, emo, m0, gm0, em0, m1, gm1, em1)
  /\ bp \in BOOLEAN /\ EvaluatorBit(bp, m0, m1, mo, em0, em1, emo, et)

FedTerm(m0, f0, M1, m1, f1, M0) == AndAllBits(m0 # f0, M1) \oplus AndAllBits(m1 # f1, M0)

GarblerTerm(Mo, Mt, f0, M1, f1, M0) ==
  (Mo \oplus Mt) \oplus (AndAllBits(f0, M1) \oplus AndAllBits(f1, M0))

EvaluatorTerm(bp, D, Ko, Kt, m0, K1, m1, K0) ==
  (((AndAllBits(bp, D) \oplus Ko) \oplus Kt) \oplus AndAllBits(m0, K1)) \oplus AndAllBits(m1, K0)

LEMMA CheckEquation ==
  ASSUME NEW D, NEW K0, NEW K1, NEW Ko, NEW Kt, NEW M0, NEW M1, NEW Mo, NEW Mt,
         NEW m0, NEW m1, NEW mo, NEW f0, NEW f1, NEW gm0, NEW gm1, NEW gmo, NEW gt,
         NEW em0, NEW em1, NEW emo, NEW et, NEW bp,
         AndGateData(D, K0, K1, Ko, Kt, M0, M1, Mo, Mt, m0, m1, mo, f0, f1,
                     gm0, gm1, gmo, gt, em0, em1, emo, et, bp)
  PROVE  (FedTerm(m0, f0, M1, m1, f1, M0) \oplus GarblerTerm(Mo, Mt, f0, M1, f1, M0))
           \oplus EvaluatorTerm(bp, D, Ko, Kt, m0, K1, m1, K0) = ZeroBlock
<1> USE DEF FedTerm, GarblerTerm, EvaluatorTerm
<1>0. /\ D \in Block /\ K0 \in Block /\ K1 \in Block /\ Ko \in Block /\ Kt \in Block
      /\ m0 \in BOOLEAN /\ m1 \in BOOLEAN /\ mo \in BOOLEAN /\ f0 \in BOOLEAN /\ f1 \in BOOLEAN
      /\ gm0 \in BOOLEAN /\ gm1 \in BOOLEAN /\ gmo \in BOOLEAN /\ gt \in BOOLEAN
      /\ em0 \in BOOLEAN /\ em1 \in BOOLEAN /\ emo \in BOOLEAN /\ et \in BOOLEAN
      /\ Authentic(gm0, M0, K0, D) /\ Authentic(gm1, M1, K1, D)
      /\ Authentic(gmo, Mo, Ko, D) /\ Authentic(gt, Mt, Kt, D)
      /\ TripleOf(gt, et, gm0, em0, gm1, em1)
      /\ MaskedOf(mo, gmo, emo, m0, gm0, em0, m1, gm1, em1)
      /\ bp \in BOOLEAN /\ EvaluatorBit(bp, m0, m1, mo, em0, em1, emo, et)
  BY Zenon DEF AndGateData
<1> USE <1>0
<1>1. bp <=> ~((m0 /\ gm1 <=> m1 /\ gm0) <=> (gmo <=> gt))
  BY SMT DEF TripleOf, MaskedOf, EvaluatorBit
<1>2. ASSUME NEW p
      PROVE  p \notin ((AndAllBits(m0 # f0, M1) \oplus AndAllBits(m1 # f1, M0))
           \oplus ((Mo \oplus Mt) \oplus (AndAllBits(f0, M1) \oplus AndAllBits(f1, M0))))
          \oplus ((((AndAllBits(bp, D) \oplus Ko) \oplus Kt)
                    \oplus AndAllBits(m0, K1)) \oplus AndAllBits(m1, K0))
  <2>1. /\ p \in M0 <=> ~(p \in K0 <=> (gm0 /\ p \in D))
        /\ p \in M1 <=> ~(p \in K1 <=> (gm1 /\ p \in D))
        /\ p \in Mo <=> ~(p \in Ko <=> (gmo /\ p \in D))
        /\ p \in Mt <=> ~(p \in Kt <=> (gt /\ p \in D))
    BY SMT DEF Authentic, AndAllBits, \oplus, ZeroBlock
  <2>2. ASSUME NEW X, NEW Y PROVE p \in X \oplus Y <=> ~(p \in X <=> p \in Y)
    BY SMT DEF \oplus
  <2>3. ASSUME NEW b \in BOOLEAN, NEW X PROVE p \in AndAllBits(b, X) <=> (b /\ p \in X)
    BY SMT DEF AndAllBits, ZeroBlock
  <2> DEFINE l0 == AndAllBits(m0 # f0, M1)
             l1 == AndAllBits(m1 # f1, M0)
             u0 == AndAllBits(f0, M1)
             u1 == AndAllBits(f1, M0)
             b0 == AndAllBits(bp, D)
             b2 == AndAllBits(m0, K1)
             b3 == AndAllBits(m1, K0)
  <2>4. /\ p \in l0 <=> ((m0 # f0) /\ p \in M1)
        /\ p \in l1 <=> ((m1 # f1) /\ p \in M0)
        /\ p \in u0 <=> (f0 /\ p \in M1)
        /\ p \in u1 <=> (f1 /\ p \in M0)
        /\ p \in b0 <=> (bp /\ p \in D)
        /\ p \in b2 <=> (m0 /\ p \in K1)
        /\ p \in b3 <=> (m1 /\ p \in K0)
    BY <2>3, Zenon
  <2> HIDE DEF l0, l1, u0, u1, b0, b2, b3
  <2>5. /\ p \in l0 <=> (~(m0 <=> f0) /\ p \in M1)
        /\ p \in l1 <=> (~(m1 <=> f1) /\ p \in M0)
    BY <2>4, SMT
  <2>6. p \in (((l0 \oplus l1) \oplus ((Mo \oplus Mt) \oplus (u0 \oplus u1)))
              \oplus ((((b0 \oplus Ko) \oplus Kt) \oplus b2) \oplus b3))
         <=> ~(~(~(p \in l0 <=> p \in l1)
                 <=> ~(~(p \in Mo <=> p \in Mt) <=> ~(p \in u0 <=> p \in u1)))
               <=> ~(~(~(~(p \in b0 <=> p \in Ko) <=> p \in Kt) <=> p \in b2) <=> p \in b3))
    BY SMT DEF \oplus
  <2>7. ~(p \in (((l0 \oplus l1) \oplus ((Mo \oplus Mt) \oplus (u0 \oplus u1)))
              \oplus ((((b0 \oplus Ko) \oplus Kt) \oplus b2) \oplus b3)))
    BY SMT, <1>1, <2>1, <2>4, <2>5, <2>6
  <2> QED  BY <2>7, Zenon DEF l0, l1, u0, u1, b0, b2, b3
<1> QED  BY <1>2, Zenon DEF ZeroBlock

-----------------------------------------------------------------------------
(* Induction over a finite set: what holds of the empty set and survives   *)
(* the addition of an element holds of the whole; good is the set of the   *)
(* subsets it holds of.                                                    *)
LEMMA SetInduction ==
  ASSUME NEW S, IsFiniteSet(S), NEW good,
         {} \in good,
         \A T \in SUBSET S : \A x \in S \ T : T \in good => T \cup {x} \in good
  PROVE  S \in good
<1> DEFINE bad == {T \in SUBSET S : T \notin good}
<1>1. IsWellFoundedOn(StrictSubsetOrdering(S), FiniteSubsetsOf(S))
  BY FS_StrictSubsetOrderingWellFounded
<1>2. bad \subseteq FiniteSubsetsOf(S)
  BY FS_Subset DEF FiniteSubsetsOf
<1>3. SUFFICES ASSUME bad # {} PROVE FALSE
  OBVIOUS
<1>4. PICK T \in bad : \A U \in bad : <<U, T>> \notin StrictSubsetOrdering(S)
  BY <1>1, <1>2, <1>3, WFMin
<1>5. PICK x \in T : TRUE
  OBVIOUS
<1>6. T \ {x} \in SUBSET S /\ x \in S \ (T \ {x}) /\ T = (T \ {x}) \cup {x}
  OBVIOUS
<1>7. T \ {x} \in bad
  BY <1>6
<1>8. <<T \ {x}, T>> \in StrictSubsetOrdering(S)
  BY <1>6 DEF StrictSubsetOrdering
<1> QED  BY <1>4, <1>7, <1>8

(* Induction over the numbers up to n. *)
LEMMA UpToInduction ==
  ASSUME NEW n \in Nat, NEW good, 0 \in good,
         \A i \in 1 .. n : i - 1 \in good => i \in good
  PROVE  \A i \in 0 .. n : i \in good
<1> DEFINE bad == {i \in 0 .. n : i \notin good}
<1>1. SUFFICES ASSUME bad # {} PROVE FALSE
  OBVIOUS
<1>2. IsWellFoundedOn(OpToRel(<, Nat), Nat)
  BY NatLessThanWellFounded
<1>3. bad \subseteq Nat
  OBVIOUS
<1>4. PICK i \in bad : \A j \in bad : <<j, i>> \notin OpToRel(<, Nat)
  BY <1>1, <1>2, <1>3, WFMin
<1>5. i \in 1 .. n /\ i - 1 \in 0 .. n /\ i - 1 \in Nat /\ i \in Nat /\ i - 1 < i
  OBVIOUS
<1>6. i - 1 \in bad
  BY <1>5
<1> DEFINE p == <<i - 1, i>>
<1>7. p \in Nat \X Nat /\ p[1] < p[2]
  BY <1>5
<1> HIDE DEF p
<1>8. p \in OpToRel(<, Nat)
  BY <1>7, Zenon DEF OpToRel
<1>9. <<i - 1, i>> \in OpToRel(<, Nat)
  BY <1>8 DEF p
<1> QED  BY <1>4, <1>6, <1>9, Zenon

(***************************************************************************)
(* Parity.                                                                 *)
(***************************************************************************)
Odd(S) == Cardinality(S) % 2 = 1

LEMMA OddEmpty == Odd({}) = FALSE
BY FS_EmptySet DEF Odd

LEMMA OddAdd ==
  ASSUME NEW S, IsFiniteSet(S), NEW x, x \notin S
  PROVE  IsFiniteSet(S \cup {x}) /\ Odd(S \cup {x}) = ~Odd(S)
<1>1. Cardinality(S) \in Nat
  BY FS_CardinalityType
<1>2. IsFiniteSet(S \cup {x}) /\ Cardinality(S \cup {x}) = Cardinality(S) + 1
  BY FS_AddElement
<1> DEFINE n == Cardinality(S)
<1> HIDE DEF n
<1>3. n \in Nat => ((n + 1) % 2 = 1) = ~(n % 2 = 1)
  OBVIOUS
<1> QED  BY <1>1, <1>2, <1>3 DEF Odd, n

(* Elements that two sets share count twice. *)
LEMMA OddSymDiff ==
  ASSUME NEW S, IsFiniteSet(S), NEW T, IsFiniteSet(T)
  PROVE  IsFiniteSet(SymDiff(S, T)) /\ Odd(SymDiff(S, T)) = (Odd(S) # Odd(T))
<1> DEFINE a == Cardinality(S \ T)
           b == Cardinality(T \ S)
           k == Cardinality(S \cap T)
<1>1. IsFiniteSet(S \ T) /\ IsFiniteSet(T \ S) /\ IsFiniteSet(S \cap T)
  BY FS_Difference, FS_Intersection
<1>2. a \in Nat /\ b \in Nat /\ k \in Nat
  BY <1>1, FS_CardinalityType
<1>3. Cardinality(S) \in Nat /\ Cardinality(T) \in Nat
  BY FS_CardinalityType
<1>4. a = Cardinality(S) - k /\ b = Cardinality(T) - k
  <2>1. T \cap S = S \cap T
    OBVIOUS
  <2>2. a = Cardinality(S) - Cardinality(S \cap T)
    BY FS_Difference
  <2>3. b = Cardinality(T) - Cardinality(T \cap S)
    BY FS_Difference
  <2> QED  BY <2>1, <2>2, <2>3
<1>5. (S \ T) \cap (T \ S) = {} /\ Cardinality({}) = 0
  BY FS_EmptySet
<1>6. IsFiniteSet(SymDiff(S, T)) /\ Cardinality(SymDiff(S, T)) = a + b
  <2>1. /\ IsFiniteSet((S \ T) \cup (T \ S))
        /\ Cardinality((S \ T) \cup (T \ S)) = a + b - Cardinality((S \ T) \cap (T \ S))
    BY <1>1, FS_Union
  <2>2. Cardinality((S \ T) \cap (T \ S)) = 0
    BY <1>5, Zenon
  <2> DEFINE u == Cardinality((S \ T) \cup (T \ S))
  <2>3. u = a + b - 0
    BY <2>1, <2>2
  <2> HIDE DEF a, b, k, u
  <2>4. u = a + b
    BY <1>2, <2>3
  <2> QED  BY <2>1, <2>4, Zenon DEF SymDiff, u
<1> HIDE DEF a, b, k
<1>7. \A m, n \in Nat : \A j \in Nat : (((m + j) % 2 = 1) # ((n + j) % 2 = 1)) = ((m + n) % 2 = 1)
  OBVIOUS
<1>8. Cardinality(S) = a + k /\ Cardinality(T) = b + k
  BY <1>2, <1>3, <1>4
<1>9. /\ Odd(S) = ((a + k) % 2 = 1) /\ Odd(T) = ((b + k) % 2 = 1)
      /\ Odd(SymDiff(S, T)) = ((a + b) % 2 = 1)
  BY <1>6, <1>8 DEF Odd
<1> QED  BY <1>2, <1>6, <1>7, <1>9

(* A set has as many elements as its image under an injection. *)
LEMMA OddImage ==
  ASSUME NEW S, IsFiniteSet(S), NEW f, \A s, t \in S : f[s] = f[t] => s = t
  PROVE  Odd({f[s] : s \in S}) <=> Odd(S)
<1> DEFINE T == {f[s] : s \in S}
           g == [s \in S |-> f[s]]
<1>1. g \in Surjection(S, T) /\ g \in Injection(S, T)
  BY DEF Surjection, Injection, IsInjective
<1>2. Cardinality(T) = Cardinality(S)
  BY <1>1, FS_Surjection
<1> QED  BY <1>2 DEF Odd

LEMMA OddProduct ==
  ASSUME NEW S, IsFiniteSet(S), NEW T, IsFiniteSet(T)
  PROVE  IsFiniteSet(S \X T) /\ Odd(S \X T) = (Odd(S) /\ Odd(T))
<1>1. Cardinality(S) \in Nat /\ Cardinality(T) \in Nat
  BY FS_CardinalityType
<1>2. IsFiniteSet(S \X T) /\ Cardinality(S \X T) = Cardinality(S) * Cardinality(T)
  BY FS_Product
<1>3. ASSUME NEW m \in Nat, NEW n \in Nat
      PROVE  ((m * n) % 2 = 1) = (m % 2 = 1 /\ n % 2 = 1)
  <2>1. PICK i \in Nat, r \in {0, 1} : m = 2 * i + r
    <3>1. m = 2 * (m \div 2) + (m % 2) /\ m \div 2 \in Nat /\ m % 2 \in {0, 1}
      OBVIOUS
    <3> QED  BY <3>1
  <2>2. CASE r = 0
    <3>1. m * n = 2 * (i * n) /\ i * n \in Nat
      BY <2>1, <2>2
    <3>2. \A k \in Nat : ~((2 * k) % 2 = 1)
      OBVIOUS
    <3> QED  BY <2>1, <2>2, <3>1, <3>2
  <2>3. CASE r = 1
    <3>1. m * n = 2 * (i * n) + n /\ i * n \in Nat
      BY <2>1, <2>3
    <3>2. \A k \in Nat : ((2 * k + n) % 2 = 1) = (n % 2 = 1)
      OBVIOUS
    <3>3. m % 2 = 1
      BY <2>1, <2>3
    <3> QED  BY <3>1, <3>2, <3>3
  <2> QED  BY <2>2, <2>3
<1> QED  BY <1>1, <1>2, <1>3 DEF Odd

(***************************************************************************)
(* Sums over a set.                                                        *)
(***************************************************************************)
LEMMA XorOverEmpty == \A f : XorOver({}, f) = ZeroBlock
<1> SUFFICES ASSUME NEW f PROVE XorOver({}, f) = ZeroBlock
  OBVIOUS
<1>1. \A p \in BlockBits : {s \in {} : p \in f[s]} = {}
  OBVIOUS
<1> QED  BY <1>1, OddEmpty DEF XorOver, ZeroBlock, Odd

(* The sum depends on the values only. *)
LEMMA XorOverSame ==
  ASSUME NEW S, NEW f, NEW g, \A s \in S : f[s] = g[s]
  PROVE  XorOver(S, f) = XorOver(S, g)
<1>1. \A p : {s \in S : p \in f[s]} = {s \in S : p \in g[s]}
  OBVIOUS
<1> QED  BY <1>1 DEF XorOver

(* A sum of sums is the sum of the sums. *)
LEMMA XorOverSum ==
  ASSUME NEW S, IsFiniteSet(S), NEW f, NEW g, NEW h, \A s \in S : h[s] = f[s] \oplus g[s]
  PROVE  XorOver(S, h) = XorOver(S, f) \oplus XorOver(S, g)
<1> DEFINE has(p, q) == {s \in S : p \in q[s]}
<1>1. ASSUME NEW p \in BlockBits
      PROVE  Odd(has(p, h)) = (Odd(has(p, f)) # Odd(has(p, g)))
  <2>1. has(p, h) = SymDiff(has(p, f), has(p, g))
    BY DEF SymDiff, \oplus
  <2>2. has(p, f) \in SUBSET S /\ has(p, g) \in SUBSET S
    OBVIOUS
  <2>3. IsFiniteSet(has(p, f)) /\ IsFiniteSet(has(p, g))
    BY <2>2, FS_Subset
  <2> HIDE DEF has
  <2> QED  BY <2>1, <2>3, OddSymDiff
<1>2. \A q : XorOver(S, q) = {p \in BlockBits : Odd(has(p, q))}
  BY DEF XorOver, Odd
<1> HIDE DEF has
<1>3. Odd(S) \in BOOLEAN /\ \A p, q : Odd(has(p, q)) \in BOOLEAN
  BY DEF Odd
<1> QED  BY <1>1, <1>2, <1>3 DEF \oplus

(* An element that two sets share cancels. *)
LEMMA XorOverSymDiff ==
  ASSUME NEW S, IsFiniteSet(S), NEW T, IsFiniteSet(T), NEW f
  PROVE  XorOver(SymDiff(S, T), f) = XorOver(S, f) \oplus XorOver(T, f)
<1> DEFINE has(p, A) == {s \in A : p \in f[s]}
<1>1. ASSUME NEW p \in BlockBits
      PROVE  Odd(has(p, SymDiff(S, T))) = (Odd(has(p, S)) # Odd(has(p, T)))
  <2>1. has(p, SymDiff(S, T)) = SymDiff(has(p, S), has(p, T))
    BY DEF SymDiff
  <2>2. has(p, S) \in SUBSET S /\ has(p, T) \in SUBSET T
    OBVIOUS
  <2>3. IsFiniteSet(has(p, S)) /\ IsFiniteSet(has(p, T))
    BY <2>2, FS_Subset
  <2> HIDE DEF has
  <2> QED  BY <2>1, <2>3, OddSymDiff
<1>2. \A A : XorOver(A, f) = {p \in BlockBits : Odd(has(p, A))}
  BY DEF XorOver, Odd
<1> HIDE DEF has
<1>3. \A p, q : Odd(has(p, q)) \in BOOLEAN
  BY DEF Odd
<1> QED  BY <1>1, <1>2, <1>3 DEF \oplus

LEMMA XorOverSingle ==
  ASSUME NEW x, NEW f, f[x] \in Block
  PROVE  XorOver({x}, f) = f[x]
<1>1. ASSUME NEW p \in BlockBits
      PROVE  Odd({s \in {x} : p \in f[s]}) <=> p \in f[x]
  <2>1. CASE p \in f[x]
    <3>1. {s \in {x} : p \in f[s]} = {} \cup {x}
      BY <2>1
    <3> QED  BY <2>1, <3>1, OddEmpty, OddAdd, FS_EmptySet
  <2>2. CASE p \notin f[x]
    <3>1. {s \in {x} : p \in f[s]} = {}
      BY <2>2
    <3> DEFINE has == {s \in {x} : p \in f[s]}
    <3>2. Odd(has) = FALSE
      BY <3>1, OddEmpty, Zenon
    <3> HIDE DEF has
    <3>3. Odd(has) <=> p \in f[x]
      BY <2>2, <3>2
    <3> QED  BY <3>3 DEF has
  <2> QED  BY <2>1, <2>2
<1> QED  BY <1>1 DEF XorOver, Odd, Block

LEMMA XorOverAdd ==
  ASSUME NEW S, IsFiniteSet(S), NEW x, x \notin S, NEW f, f[x] \in Block
  PROVE  XorOver(S \cup {x}, f) = XorOver(S, f) \oplus f[x]
<1>1. S \cup {x} = SymDiff(S, {x})
  BY DEF SymDiff
<1>2. IsFiniteSet({x})
  BY FS_Singleton
<1>3. XorOver(SymDiff(S, {x}), f) = XorOver(S, f) \oplus XorOver({x}, f)
  BY <1>2, XorOverSymDiff
<1> QED  BY <1>1, <1>3, XorOverSingle

(* Leaving elements out is adding zeros. *)
LEMMA XorOverPart ==
  ASSUME NEW S, NEW T \in SUBSET S, NEW f, NEW g,
         \A s \in S : g[s] = AndAllBits(s \in T, f[s])
  PROVE  XorOver(T, f) = XorOver(S, g)
<1>1. ASSUME NEW p PROVE {s \in T : p \in f[s]} = {s \in S : p \in g[s]}
  BY DEF AndAllBits, ZeroBlock
<1> QED  BY <1>1 DEF XorOver

(* The sum of some copies of a block. *)
LEMMA XorOverCopies ==
  ASSUME NEW S, NEW x \in Block, NEW b, NEW f, \A s \in S : f[s] = AndAllBits(b[s], x)
  PROVE  XorOver(S, f) = AndAllBits(Odd({s \in S : b[s]}), x)
<1>1. ASSUME NEW p \in BlockBits
      PROVE  Odd({s \in S : p \in f[s]}) = (p \in x /\ Odd({s \in S : b[s]}))
  <2>1. CASE p \in x
    <3>1. {s \in S : p \in f[s]} = {s \in S : b[s]}
      BY <2>1 DEF AndAllBits, ZeroBlock
    <3> QED  BY <2>1, <3>1 DEF Odd
  <2>2. CASE p \notin x
    <3>1. {s \in S : p \in f[s]} = {}
      BY <2>2 DEF AndAllBits, ZeroBlock
    <3> QED  BY <2>2, <3>1, OddEmpty
  <2> QED  BY <2>1, <2>2
<1>2. XorOver(S, f) = {p \in BlockBits : Odd({s \in S : p \in f[s]})}
  BY DEF XorOver, Odd
<1>3. Odd({s \in S : b[s]}) \in BOOLEAN
  BY DEF Odd
<1> DEFINE o == Odd({s \in S : b[s]})
           O(p) == Odd({s \in S : p \in f[s]})
<1>4. \A p \in BlockBits : O(p) = (p \in x /\ o)
  BY <1>1
<1>5. XorOver(S, f) = {p \in BlockBits : O(p)}
  BY <1>2
<1> HIDE DEF o, O
<1>6. XorOver(S, f) = AndAllBits(o, x)
  BY <1>4, <1>5 DEF AndAllBits, Block, ZeroBlock
<1> QED  BY <1>6 DEF o

(* A sum of zeros, and a common bit. *)
LEMMA XorOverZero ==
  ASSUME NEW S, NEW f, \A s \in S : f[s] = ZeroBlock
  PROVE  XorOver(S, f) = ZeroBlock
<1>1. \A p : {s \in S : p \in f[s]} = {}
  BY DEF ZeroBlock
<1>2. \A p : Cardinality({s \in S : p \in f[s]}) = 0
  BY <1>1, FS_EmptySet
<1> QED  BY <1>2 DEF XorOver, ZeroBlock

LEMMA XorOverBit ==
  ASSUME NEW S, NEW bit \in BOOLEAN, NEW f, NEW g, \A s \in S : g[s] = AndAllBits(bit, f[s])
  PROVE  XorOver(S, g) = AndAllBits(bit, XorOver(S, f))
<1>1. CASE bit
  <2>1. \A s \in S : g[s] = f[s]
    BY <1>1 DEF AndAllBits
  <2> QED  BY <1>1, <2>1, XorOverSame DEF AndAllBits
<1>2. CASE ~bit
  <2>1. \A s \in S : g[s] = ZeroBlock
    BY <1>2 DEF AndAllBits
  <2> QED  BY <1>2, <2>1, XorOverZero DEF AndAllBits
<1> QED  BY <1>1, <1>2

(* A linear function of a sum. *)
Linear(h) ==
  /\ h \in [Block -> Block]
  /\ \A x, y \in Block : h[x \oplus y] = h[x] \oplus h[y]

LEMMA XorOverLinear ==
  ASSUME NEW S, IsFiniteSet(S), NEW h, Linear(h), NEW f, NEW g,
         \A s \in S : f[s] \in Block /\ g[s] = h[f[s]]
  PROVE  XorOver(S, g) = h[XorOver(S, f)]
<1> DEFINE good == {T \in SUBSET S : XorOver(T, g) = h[XorOver(T, f)]}
<1>1. h[ZeroBlock] = ZeroBlock
  <2>1. ZeroBlock \in Block /\ ZeroBlock \oplus ZeroBlock = ZeroBlock
    BY BlockType, XorAlgebra
  <2>2. h[ZeroBlock] = h[ZeroBlock] \oplus h[ZeroBlock]
    BY <2>1 DEF Linear
  <2> QED  BY <2>2, XorAlgebra
<1>2. {} \in good
  BY <1>1, XorOverEmpty
<1>3. ASSUME NEW T \in SUBSET S, NEW x \in S \ T, T \in good
      PROVE  T \cup {x} \in good
  <2>1. IsFiniteSet(T) /\ g[x] \in Block /\ XorOver(T, f) \in Block
    BY FS_Subset, BlockType DEF Linear
  <2>2. /\ XorOver(T \cup {x}, f) = XorOver(T, f) \oplus f[x]
        /\ XorOver(T \cup {x}, g) = XorOver(T, g) \oplus g[x]
    BY <2>1, XorOverAdd
  <2>3. h[XorOver(T, f) \oplus f[x]] = h[XorOver(T, f)] \oplus h[f[x]]
    BY <2>1 DEF Linear
  <2> QED  BY <1>3, <2>2, <2>3
<1> HIDE DEF good
<1>4. S \in good
  BY <1>2, <1>3, SetInduction
<1> QED  BY <1>4 DEF good

(* The order of two sums does not matter. *)
LEMMA XorOverSwap ==
  ASSUME NEW S, IsFiniteSet(S), NEW T, IsFiniteSet(T), NEW f,
         \A s \in S, t \in T : f[s][t] \in Block
  PROVE  XorOver(S, [s \in S |-> XorOver(T, f[s])])
           = XorOver(T, [t \in T |-> XorOver(S, [s \in S |-> f[s][t]])])
<1> DEFINE rows(A) == XorOver(A, [s \in S |-> XorOver(T, f[s])])
           column(A) == [t \in T |-> XorOver(A, [s \in S |-> f[s][t]])]
           good == {A \in SUBSET S : rows(A) = XorOver(T, column(A))}
<1>1. {} \in good
  <2>1. rows({}) = ZeroBlock /\ \A t \in T : column({})[t] = AndAllBits(FALSE, ZeroBlock)
    BY XorOverEmpty DEF AndAllBits
  <2>2. XorOver(T, column({})) = ZeroBlock
    <3> DEFINE c == column({})
               never == [t \in T |-> FALSE]
    <3>1. \A t \in T : c[t] = AndAllBits(never[t], ZeroBlock)
      BY <2>1
    <3> HIDE DEF c, never
    <3>2. XorOver(T, c) = AndAllBits(Odd({t \in T : never[t]}), ZeroBlock)
      BY <3>1, BlockType, XorOverCopies
    <3> USE DEF c
    <3> QED  BY <3>2 DEF AndAllBits
  <2> QED  BY <2>1, <2>2
<1>2. ASSUME NEW A \in SUBSET S, NEW x \in S \ A, A \in good
      PROVE  A \cup {x} \in good
  <2>1. IsFiniteSet(A)
    BY FS_Subset
  <2>2. rows(A \cup {x}) = rows(A) \oplus XorOver(T, f[x])
    <3>1. [s \in S |-> XorOver(T, f[s])][x] = XorOver(T, f[x]) /\ XorOver(T, f[x]) \in Block
      BY BlockType
    <3> QED  BY <2>1, <3>1, XorOverAdd
  <2>3. ASSUME NEW t \in T
        PROVE  column(A \cup {x})[t] = column(A)[t] \oplus f[x][t]
    <3>1. [s \in S |-> f[s][t]][x] = f[x][t] /\ f[x][t] \in Block
      OBVIOUS
    <3>2. XorOver(A \cup {x}, [s \in S |-> f[s][t]])
            = XorOver(A, [s \in S |-> f[s][t]]) \oplus f[x][t]
      BY <2>1, <3>1, XorOverAdd
    <3> QED  BY <3>2
  <2>4. XorOver(T, column(A \cup {x})) = XorOver(T, column(A)) \oplus XorOver(T, f[x])
    <3> DEFINE c == column(A)
               d == column(A \cup {x})
    <3>1. \A t \in T : d[t] = c[t] \oplus f[x][t]
      BY <2>3
    <3> HIDE DEF c, d
    <3>2. XorOver(T, d) = XorOver(T, c) \oplus XorOver(T, f[x])
      BY <3>1, XorOverSum
    <3> QED  BY <3>2 DEF c, d
  <2> QED  BY <1>2, <2>2, <2>4
<1> HIDE DEF good
<1>3. S \in good
  BY <1>1, <1>2, SetInduction
<1> QED  BY <1>3 DEF good
-----------------------------------------------------------------------------
(* A queue of n messages; no more than two are ever on their way. *)
Holds(q, n) ==
  /\ Len(q) = n /\ (n = 0 => q = <<>>)
  /\ (n = 1 => q = <<q[1]>>) /\ (n = 2 => q = <<q[1], q[2]>>)

LEMMA AppendToOne ==
  ASSUME NEW a, NEW m
  PROVE  Append(<<a>>, m) = <<a, m>>
<1> DEFINE S == {a, m}
<1>1. a \in S /\ m \in S
  OBVIOUS
<1> HIDE DEF S
<1>2. <<a>> \in Seq(S) /\ Len(<<a>>) = 1 /\ <<a>>[1] = a
  BY <1>1
<1>3. <<a, m>> \in Seq(S) /\ Len(<<a, m>>) = 2 /\ <<a, m>>[1] = a /\ <<a, m>>[2] = m
  BY <1>1
<1> DEFINE q == Append(<<a>>, m)
<1>4. /\ q \in Seq(S) /\ Len(q) = Len(<<a>>) + 1 /\ q[Len(<<a>>) + 1] = m
      /\ \A i \in 1 .. Len(<<a>>) : q[i] = <<a>>[i]
  BY <1>1, <1>2, AppendProperties
<1> HIDE DEF q
<1>5. Len(q) = 2 /\ q[1] = a /\ q[2] = m
  BY <1>2, <1>4
<1>6. \A i \in 1 .. Len(q) : i = 1 \/ i = 2
  BY <1>5
<1>7. q = <<a, m>>
  BY <1>3, <1>4, <1>5, <1>6, SeqEqual
<1> QED  BY <1>7 DEF q

LEMMA QueueAppend ==
  ASSUME NEW q, NEW n \in {0, 1}, Holds(q, n), NEW m
  PROVE  /\ Holds(Append(q, m), n + 1) /\ Append(q, m)[n + 1] = m
         /\ n = 1 => Append(q, m)[1] = q[1]
<1>1. CASE n = 0
  <2>1. q = <<>>
    BY <1>1 DEF Holds
  <2>2. Append(<<>>, m) = <<m>> /\ Len(<<m>>) = 1 /\ <<m>>[1] = m
    OBVIOUS
  <2>3. Append(q, m) = <<m>>
    BY <2>1, <2>2, Zenon
  <2> QED  BY <1>1, <2>2, <2>3 DEF Holds
<1>2. CASE n = 1
  <2>1. q = <<q[1]>>
    BY <1>2 DEF Holds
  <2>2. Append(<<q[1]>>, m) = <<q[1], m>>
    BY AppendToOne
  <2>3. Append(q, m) = <<q[1], m>>
    BY <2>1, <2>2, Zenon
  <2> QED  BY <1>2, <2>3 DEF Holds
<1> QED  BY <1>1, <1>2

LEMMA QueueTail ==
  ASSUME NEW q, NEW n \in 0 .. 2, Holds(q, n), q # <<>>
  PROVE  /\ n \in {1, 2} /\ Head(q) = q[1] /\ Holds(Tail(q), n - 1)
         /\ n = 2 => Tail(q)[1] = q[2]
<1>1. n # 0
  BY DEF Holds
<1>2. CASE n = 1
  <2>1. q = <<q[1]>>
    BY <1>2 DEF Holds
  <2>2. Head(<<q[1]>>) = q[1] /\ Tail(<<q[1]>>) = <<>> /\ Len(<<>>) = 0
    OBVIOUS
  <2>3. Head(q) = q[1] /\ Tail(q) = <<>>
    BY <2>1, <2>2, Zenon
  <2> QED  BY <1>2, <2>2, <2>3 DEF Holds
<1>3. CASE n = 2
  <2>1. q = <<q[1], q[2]>>
    BY <1>3 DEF Holds
  <2>2. /\ Head(<<q[1], q[2]>>) = q[1] /\ Tail(<<q[1], q[2]>>) = <<q[2]>>
        /\ Len(<<q[2]>>) = 1 /\ <<q[2]>>[1] = q[2]
    OBVIOUS
  <2>3. Head(q) = q[1] /\ Tail(q) = <<q[2]>>
    BY <2>1, <2>2, Zenon
  <2>4. Tail(q)[1] = q[2] /\ Len(Tail(q)) = 1
    BY <2>2, <2>3, Zenon
  <2>5. Holds(Tail(q), 1)
    BY <2>3, <2>4 DEF Holds
  <2> QED  BY <1>3, <2>3, <2>4, <2>5
<1>4. n \in {1, 2}
  BY <1>1
<1> QED  BY <1>2, <1>3, <1>4, Zenon

-----------------------------------------------------------------------------
(* Circuits. *)

(* and_gate_order is a number, at most the number of AND gates. *)
LEMMA AndGatesFinite ==
  ASSUME NEW c, WellFormed(c), NEW i \in Nat
  PROVE  /\ GateSize(c) \in Nat
         /\ IsFiniteSet(AndGates(c))
         /\ AndGateSize(c) \in Nat
         /\ IsFiniteSet({j \in AndGates(c) : j < i})
         /\ AndGateOrder(c, i) \in 0 .. AndGateSize(c)
<1>1. GateSize(c) \in Nat
  BY DEF WellFormed, GateSize
<1>2. IsFiniteSet(GateIndices(c))
  BY <1>1, FS_Interval DEF GateIndices
<1>3. AndGates(c) \in SUBSET GateIndices(c)
  BY DEF AndGates
<1>4. IsFiniteSet(AndGates(c))
  BY <1>2, <1>3, FS_Subset
<1>5. Cardinality(AndGates(c)) \in Nat
  BY <1>4, FS_CardinalityType
<1>6. {j \in AndGates(c) : j < i} \in SUBSET AndGates(c)
  OBVIOUS
<1>7. /\ IsFiniteSet({j \in AndGates(c) : j < i})
      /\ Cardinality({j \in AndGates(c) : j < i}) <= Cardinality(AndGates(c))
  BY <1>4, <1>6, FS_Subset
<1>8. Cardinality({j \in AndGates(c) : j < i}) \in Nat
  BY <1>7, FS_CardinalityType
<1> QED
  BY <1>1, <1>4, <1>5, <1>7, <1>8 DEF AndGateSize, AndGateOrder

(* The andGateIter of garble, evaluate and the check starts at 0, counts   *)
(* the AND gates it meets and ends at their number.                        *)
LEMMA AndGateIter ==
  ASSUME NEW c, WellFormed(c)
  PROVE  /\ AndGateOrder(c, 1) = 0
         /\ \A i \in GateIndices(c) :
              AndGateOrder(c, i + 1) =
                IF IsAnd(c, i) THEN AndGateOrder(c, i) + 1 ELSE AndGateOrder(c, i)
         /\ AndGateOrder(c, GateSize(c) + 1) = AndGateSize(c)
<1>1. GateSize(c) \in Nat
  BY AndGatesFinite
<1>2. AndGateOrder(c, 1) = 0
  <2>1. {j \in AndGates(c) : j < 1} = {}
    BY <1>1 DEF AndGates, GateIndices
  <2> QED  BY <2>1, FS_EmptySet DEF AndGateOrder
<1>3. ASSUME NEW i \in GateIndices(c)
      PROVE  AndGateOrder(c, i + 1) =
               IF IsAnd(c, i) THEN AndGateOrder(c, i) + 1 ELSE AndGateOrder(c, i)
  <2> DEFINE before == {j \in AndGates(c) : j < i}
  <2>1. i \in Nat /\ \A j \in AndGates(c) : j \in Nat /\ (j < i + 1 <=> j < i \/ j = i)
    BY <1>1 DEF AndGates, GateIndices
  <2>2. IsFiniteSet(before) /\ i \notin before
    BY <2>1, AndGatesFinite
  <2>3. CASE IsAnd(c, i)
    <3>1. i \in AndGates(c)
      BY <2>3 DEF AndGates
    <3>2. {j \in AndGates(c) : j < i + 1} = before \cup {i}
      BY <2>1, <3>1
    <3>3. Cardinality(before \cup {i}) = Cardinality(before) + 1
      BY <2>2, FS_AddElement
    <3> QED  BY <2>3, <3>2, <3>3 DEF AndGateOrder
  <2>4. CASE ~IsAnd(c, i)
    <3>1. i \notin AndGates(c)
      BY <2>4 DEF AndGates
    <3>2. {j \in AndGates(c) : j < i + 1} = before
      BY <2>1, <3>1
    <3> QED  BY <2>4, <3>2 DEF AndGateOrder
  <2> QED  BY <2>3, <2>4
<1>4. AndGateOrder(c, GateSize(c) + 1) = AndGateSize(c)
  <2>1. {j \in AndGates(c) : j < GateSize(c) + 1} = AndGates(c)
    BY <1>1 DEF AndGates, GateIndices
  <2> QED  BY <2>1 DEF AndGateOrder, AndGateSize
<1> QED  BY <1>2, <1>3, <1>4

(* Two AND gates never get the same number, and a gate's number is the     *)
(* index of its entry in every array of andGateSize entries.               *)
LEMMA AndGateOrderInjective ==
  ASSUME NEW c, WellFormed(c)
  PROVE  /\ \A i \in AndGates(c) : AndGateOrder(c, i) \in AndIndices(c)
         /\ \A i, j \in AndGates(c) :
              i < j => AndGateOrder(c, i) < AndGateOrder(c, j)
<1>1. /\ GateSize(c) \in Nat /\ AndGateSize(c) \in Nat
      /\ \A i \in Nat : AndGateOrder(c, i) \in 0 .. AndGateSize(c)
  BY AndGatesFinite
<1>2. \A i \in AndGates(c) : i \in Nat /\ i \in GateIndices(c) /\ IsAnd(c, i)
  BY <1>1 DEF AndGates, GateIndices
<1>3. ASSUME NEW i \in AndGates(c)
      PROVE  AndGateOrder(c, i + 1) = AndGateOrder(c, i) + 1
  BY <1>2, AndGateIter
<1>4. ASSUME NEW i \in AndGates(c)
      PROVE  AndGateOrder(c, i) \in AndIndices(c)
  <2>1. i + 1 \in Nat
    BY <1>2
  <2>2. AndGateOrder(c, i + 1) <= AndGateSize(c)
    BY <1>1, <2>1
  <2> QED  BY <1>1, <1>2, <1>3, <2>2 DEF AndIndices
<1>5. ASSUME NEW i \in AndGates(c), NEW j \in AndGates(c), i < j
      PROVE  AndGateOrder(c, i) < AndGateOrder(c, j)
  <2> DEFINE upto == {k \in AndGates(c) : k < i + 1}
             below == {k \in AndGates(c) : k < j}
  <2>1. upto \in SUBSET below
    BY <1>2, <1>5
  <2>2. IsFiniteSet(below)
    BY <1>2, AndGatesFinite
  <2>3. Cardinality(upto) <= Cardinality(below)
    BY <2>1, <2>2, FS_Subset
  <2>4. AndGateOrder(c, i + 1) <= AndGateOrder(c, j)
    BY <2>3 DEF AndGateOrder
  <2> QED  BY <1>1, <1>2, <1>3, <2>4
<1> QED  BY <1>4, <1>5

(* The GC check finds an AND gate for every number: AndGateAt is the       *)
(* inverse of the numbering.                                               *)
LEMMA AndGateAtExists ==
  ASSUME NEW c, WellFormed(c), NEW k \in AndIndices(c)
  PROVE  AndGateAt(c, k) \in AndGates(c) /\ AndGateOrder(c, AndGateAt(c, k)) = k
<1> DEFINE number == [i \in AndGates(c) |-> AndGateOrder(c, i)]
<1>1. AndGateSize(c) \in Nat /\ IsFiniteSet(AndGates(c))
  BY AndGatesFinite
<1>2. \A i \in AndGates(c) : i \in Nat
  BY AndGatesFinite DEF AndGates, GateIndices
<1>3. number \in Injection(AndGates(c), AndIndices(c))
  <2>1. number \in [AndGates(c) -> AndIndices(c)]
    BY AndGateOrderInjective
  <2>2. ASSUME NEW i \in AndGates(c), NEW j \in AndGates(c), number[i] = number[j]
        PROVE  i = j
    <3>1. AndGateOrder(c, i) = AndGateOrder(c, j)
      BY <2>2
    <3>2. AndGateOrder(c, i) \in Nat
      <4>1. i \in Nat
        BY <1>2
      <4>2. AndGateOrder(c, i) \in 0 .. AndGateSize(c)
        BY <4>1, AndGatesFinite
      <4> QED  BY <4>2
    <3>3. ~(i < j) /\ ~(j < i)
      BY <3>1, <3>2, AndGateOrderInjective
    <3> QED  BY <1>2, <3>3
  <2> QED  BY <2>1, <2>2 DEF Injection, IsInjective
<1>4. IsFiniteSet(AndIndices(c)) /\ Cardinality(AndIndices(c)) = AndGateSize(c)
  BY <1>1, FS_Interval DEF AndIndices
<1>5. number \in Surjection(AndGates(c), AndIndices(c))
  BY <1>3, <1>4, FS_Injection DEF AndGateSize
<1>6. \E i \in AndGates(c) : AndGateOrder(c, i) = k
  BY <1>5 DEF Surjection
<1> QED  BY <1>6 DEF AndGateAt

(* The GC check visits wires of the circuit only, and exactly as many as   *)
(* independent_size says.                                                  *)
LEMMA IndependentWireType ==
  ASSUME NEW c, WellFormed(c), NEW n \in 0 .. (IndependentSize(c) - 1)
  PROVE  /\ IndependentWire(c, n) \in Wires(c)
         /\ ~(n < TotalInputSize(c)) => n - TotalInputSize(c) \in AndIndices(c)
<1>1. /\ TotalInputSize(c) \in Nat /\ c.wireSize \in Nat
      /\ TotalInputSize(c) <= c.wireSize /\ AndGateSize(c) \in Nat
  <2>1. AndGateSize(c) \in Nat
    BY AndGatesFinite
  <2>2. c.inputSize0 \in Nat /\ c.inputSize1 \in Nat /\ c.wireSize \in Nat
        /\ TotalInputSize(c) <= c.wireSize
    BY DEF WellFormed
  <2> QED  BY <2>1, <2>2 DEF TotalInputSize
<1>2. CASE n < TotalInputSize(c)
  BY <1>1, <1>2 DEF IndependentWire, Wires
<1>3. CASE ~(n < TotalInputSize(c))
  <2>1. n - TotalInputSize(c) \in AndIndices(c)
    BY <1>1, <1>3 DEF IndependentSize, AndIndices
  <2>2. AndGateAt(c, n - TotalInputSize(c)) \in GateIndices(c)
    BY <2>1, AndGateAtExists DEF AndGates
  <2>3. c.gates[AndGateAt(c, n - TotalInputSize(c))].out \in Wires(c)
    BY <2>2 DEF WellFormed, GateShape
  <2> QED  BY <1>3, <2>1, <2>3 DEF IndependentWire
<1> QED  BY <1>2, <1>3

(* The wires a circuit's gates touch exist, and each gate adds one wire to *)
(* those that have a value.                                                *)
LEMMA WiresGrow ==
  ASSUME NEW c, WellFormed(c)
  PROVE  /\ GateSize(c) \in Nat
         /\ InputWires(c) \subseteq Wires(c)
         /\ InputWires(c) = GarblerInputs(c) \cup EvaluatorInputs(c)
         /\ GarblerInputs(c) \cap EvaluatorInputs(c) = {}
         /\ \A n \in Outputs(c) : OutputWire(c, n) \in Wires(c)
         /\ WiresBefore(c, 1) = InputWires(c)
         /\ WiresBefore(c, GateSize(c) + 1) = Wires(c)
         /\ \A i \in GateIndices(c) :
              WiresBefore(c, i + 1) = WiresBefore(c, i) \cup {c.gates[i].out}
         /\ \A i \in 1 .. (GateSize(c) + 1) :
              InputWires(c) \subseteq WiresBefore(c, i) /\ WiresBefore(c, i) \subseteq Wires(c)
<1>1. GateSize(c) \in Nat
  BY AndGatesFinite
<1>2. /\ c.inputSize0 \in Nat /\ c.inputSize1 \in Nat /\ c.wireSize \in Nat
      /\ c.outputSize \in Nat /\ c.outputSize <= c.wireSize
      /\ TotalInputSize(c) <= c.wireSize
  BY DEF WellFormed
<1>3. /\ InputWires(c) \subseteq Wires(c)
      /\ InputWires(c) = GarblerInputs(c) \cup EvaluatorInputs(c)
      /\ GarblerInputs(c) \cap EvaluatorInputs(c) = {}
  BY <1>2 DEF InputWires, Wires, TotalInputSize, GarblerInputs, EvaluatorInputs
<1>4. \A n \in Outputs(c) : OutputWire(c, n) \in Wires(c)
  BY <1>2 DEF Outputs, OutputWire, Wires
<1>5. WiresBefore(c, 1) = InputWires(c)
  BY DEF WiresBefore
<1>6. WiresBefore(c, GateSize(c) + 1) = Wires(c)
  BY DEF WellFormed
<1>7. ASSUME NEW i \in GateIndices(c)
      PROVE  WiresBefore(c, i + 1) = WiresBefore(c, i) \cup {c.gates[i].out}
  <2>1. 1 .. ((i + 1) - 1) = (1 .. (i - 1)) \cup {i}
    BY <1>1 DEF GateIndices
  <2> QED  BY <2>1 DEF WiresBefore
<1>8. ASSUME NEW i \in 1 .. (GateSize(c) + 1)
      PROVE  InputWires(c) \subseteq WiresBefore(c, i) /\ WiresBefore(c, i) \subseteq Wires(c)
  <2>1. \A j \in 1 .. (i - 1) : j \in GateIndices(c)
    BY <1>1 DEF GateIndices
  <2>2. \A j \in GateIndices(c) : c.gates[j].out \in Wires(c)
    BY DEF WellFormed, GateShape
  <2> QED  BY <1>3, <2>1, <2>2 DEF WiresBefore
<1> QED  BY <1>1, <1>3, <1>4, <1>5, <1>6, <1>7, <1>8

(* Gates come in topological order and drive a new wire each. *)
LEMMA GateWires ==
  ASSUME NEW c, WellFormed(c), NEW i \in GateIndices(c)
  PROVE  /\ c.gates[i].type \in {"AND", "XOR", "NOT"}
         /\ c.gates[i].in0 \in WiresBefore(c, i) /\ c.gates[i].in0 \in Wires(c)
         /\ c.gates[i].type # "NOT" =>
              c.gates[i].in1 \in WiresBefore(c, i) /\ c.gates[i].in1 \in Wires(c)
         /\ c.gates[i].out \in Wires(c) /\ c.gates[i].out \notin InputWires(c)
         /\ c.gates[i].out \notin WiresBefore(c, i)
BY DEF WellFormed, GateShape

-----------------------------------------------------------------------------
(* f[0] = base and f[1], ..., f[n] are the values of a loop's variables    *)
(* before it and after each of its n rounds.                               *)
IsLoop(f, n, State, base, step) ==
  /\ f \in [0 .. n -> State]
  /\ f[0] = base
  /\ \A i \in 1 .. n : f[i] = step[i][f[i - 1]]

(* A loop has a value after each of its rounds. *)
LEMMA LoopExists ==
  ASSUME NEW n \in Nat, NEW State, NEW base \in State,
         NEW step, step \in [1 .. n -> [State -> State]]
  PROVE  \E f : IsLoop(f, n, State, base, step)
<1> DEFINE Loop(k, f) == f \in [0 .. k -> State] /\ f[0] = base
                         /\ \A i \in 1 .. k : f[i] = step[i][f[i - 1]]
           good == {k \in 0 .. n : \E f : Loop(k, f)}
<1>1. 0 \in good
  <2>1. Loop(0, [i \in 0 .. 0 |-> base])
    OBVIOUS
  <2>2. \E f : Loop(0, f)
    BY <2>1
  <2> HIDE DEF Loop
  <2> QED  BY <2>2
<1>2. ASSUME NEW k \in 1 .. n, k - 1 \in good
      PROVE  k \in good
  <2>1. PICK f : Loop(k - 1, f)
    BY <1>2
  <2> DEFINE g == [i \in 0 .. k |-> IF i = k THEN step[k][f[k - 1]] ELSE f[i]]
  <2>2. /\ k - 1 \in 0 .. (k - 1) /\ f[k - 1] \in State
        /\ \A i \in 0 .. (k - 1) : g[i] = f[i]
    BY <2>1
  <2>3. g \in [0 .. k -> State]
    BY <2>1, <2>2
  <2>4. g[0] = base
    BY <2>1, <2>2
  <2>5. ASSUME NEW i \in 1 .. k PROVE g[i] = step[i][g[i - 1]]
    <3>1. i - 1 \in 0 .. (k - 1) /\ g[i - 1] = f[i - 1]
      BY <2>2
    <3>2. CASE i = k
      BY <3>1, <3>2
    <3>3. CASE i # k
      <4>1. i \in 1 .. (k - 1) /\ g[i] = f[i]
        BY <3>3
      <4> QED  BY <2>1, <3>1, <4>1
    <3> QED  BY <3>2, <3>3
  <2> HIDE DEF g
  <2>6. Loop(k, g)
    BY <2>3, <2>4, <2>5
  <2>7. \E h : Loop(k, h)
    <3> HIDE DEF Loop
    <3> QED  BY <2>6
  <2> HIDE DEF Loop
  <2> QED  BY <2>7
<1> HIDE DEF good
<1>3. \A k \in 0 .. n : k \in good
  BY <1>1, <1>2, UpToInduction
<1>5. n \in good
  BY <1>3
<1>4. \E f : Loop(n, f)
  <2> HIDE DEF Loop
  <2> QED  BY <1>5 DEF good
<1> QED  BY <1>4 DEF IsLoop

(* A loop over the gates that assigns to the output wire of a gate only,   *)
(* and what it leaves in the wires: one has its value for good once its    *)
(* gate was visited, until then it has the one it began with.              *)
AssignsOut(c, f) ==
  \A i \in GateIndices(c) : \A w \in Wires(c) : w # c.gates[i].out => f[i][w] = f[i - 1][w]

LeavesOut(c, f) ==
  /\ \A w \in InputWires(c) : f[GateSize(c)][w] = f[0][w]
  /\ \A i \in GateIndices(c) :
       /\ \A w \in WiresBefore(c, i) : f[i - 1][w] = f[GateSize(c)][w]
       /\ f[i][c.gates[i].out] = f[GateSize(c)][c.gates[i].out]
       /\ f[i - 1][c.gates[i].out] = f[0][c.gates[i].out]

LEMMA GateLoop ==
  ASSUME NEW c, WellFormed(c), NEW f, AssignsOut(c, f)
  PROVE  LeavesOut(c, f)
<1> DEFINE n == GateSize(c)
           kept == {k \in 0 .. n : \A i \in 0 .. k : \A w \in WiresBefore(c, i + 1) :
                                      f[k][w] = f[i][w]}
           untouched == {k \in 0 .. n : \A w \in Wires(c) \ WiresBefore(c, k + 1) :
                                          f[k][w] = f[0][w]}
<1>1. n \in Nat /\ GateIndices(c) = 1 .. n
  BY AndGatesFinite DEF GateIndices
<1>10. \A i \in 1 .. n : \A w \in Wires(c) : w # c.gates[i].out => f[i][w] = f[i - 1][w]
  BY <1>1 DEF AssignsOut
<1>2. 0 \in kept /\ 0 \in untouched
  BY <1>1
<1>3. ASSUME NEW k \in 1 .. n
      PROVE  /\ WiresBefore(c, k + 1) = WiresBefore(c, k) \cup {c.gates[k].out}
             /\ c.gates[k].out \notin WiresBefore(c, k)
             /\ WiresBefore(c, k) \subseteq Wires(c)
             /\ c.gates[k].out \in Wires(c)
             /\ \A i \in 0 .. (k - 1) : WiresBefore(c, i + 1) \subseteq WiresBefore(c, k)
  <2>1. k \in GateIndices(c) /\ k \in 1 .. (n + 1)
    BY <1>1
  <2>2. \A i \in 0 .. (k - 1) : WiresBefore(c, i + 1) \subseteq WiresBefore(c, k)
    BY <1>1 DEF WiresBefore
  <2> QED  BY <2>1, <2>2, WiresGrow, GateWires
<1>4. ASSUME NEW k \in 1 .. n, k - 1 \in kept PROVE k \in kept
  <2>1. ASSUME NEW i \in 0 .. k, NEW w \in WiresBefore(c, i + 1) PROVE f[k][w] = f[i][w]
    <3>1. CASE i = k
      BY <3>1
    <3>2. CASE i # k
      <4>1. i \in 0 .. (k - 1) /\ k - 1 \in 0 .. n
        BY <3>2, <1>1
      <4>2. w \in Wires(c) /\ w # c.gates[k].out
        BY <1>3, <4>1
      <4>3. f[k][w] = f[k - 1][w]
        BY <1>10, <4>2
      <4>4. f[k - 1][w] = f[i][w]
        BY <1>4, <4>1
      <4> QED  BY <4>3, <4>4
    <3> QED  BY <3>1, <3>2
  <2> QED  BY <1>1, <2>1
<1>5. ASSUME NEW k \in 1 .. n, k - 1 \in untouched PROVE k \in untouched
  <2>1. ASSUME NEW w \in Wires(c) \ WiresBefore(c, k + 1) PROVE f[k][w] = f[0][w]
    <3>1. w # c.gates[k].out /\ w \in Wires(c) \ WiresBefore(c, (k - 1) + 1)
      BY <1>3
    <3>2. f[k][w] = f[k - 1][w]
      BY <1>10, <3>1
    <3> QED  BY <1>5, <3>1, <3>2
  <2> QED  BY <1>1, <2>1
<1>6. \A k \in 0 .. n : k \in kept
  <2> HIDE DEF kept, n
  <2> QED  BY <1>1, <1>2, <1>4, UpToInduction
<1>7. \A k \in 0 .. n : k \in untouched
  <2> HIDE DEF untouched, n
  <2> QED  BY <1>1, <1>2, <1>5, UpToInduction
<1>8. \A w \in InputWires(c) : f[n][w] = f[0][w]
  <2>1. n \in kept /\ 0 \in 0 .. n /\ InputWires(c) \subseteq WiresBefore(c, 0 + 1)
    BY <1>1, <1>6, WiresGrow
  <2> QED  BY <2>1
<1>9. ASSUME NEW i \in GateIndices(c)
      PROVE  /\ \A w \in WiresBefore(c, i) : f[i - 1][w] = f[n][w]
             /\ f[i][c.gates[i].out] = f[n][c.gates[i].out]
             /\ f[i - 1][c.gates[i].out] = f[0][c.gates[i].out]
  <2>1. i \in 1 .. n /\ i \in 0 .. n /\ i - 1 \in 0 .. n /\ (i - 1) + 1 = i /\ n \in kept
    BY <1>1, <1>6
  <2>2. \A w \in WiresBefore(c, i) : f[n][w] = f[i - 1][w]
    BY <2>1
  <2>3. c.gates[i].out \in WiresBefore(c, i + 1)
    BY <1>3, <2>1
  <2>4. f[n][c.gates[i].out] = f[i][c.gates[i].out]
    BY <2>1, <2>3
  <2>5. i - 1 \in untouched /\ c.gates[i].out \in Wires(c) \ WiresBefore(c, (i - 1) + 1)
    BY <1>3, <1>7, <2>1
  <2> QED  BY <2>2, <2>4, <2>5
<1> QED  BY <1>8, <1>9 DEF LeavesOut

-----------------------------------------------------------------------------
(* The rows of XORSourceMatrix_: a flag and a list of wires. *)
SourceRow(c) == [list : SUBSET Wires(c), flip : BOOLEAN]

FirstRows(c) ==
  [w \in Wires(c) |-> IF w \in InputWires(c) THEN [NoSource EXCEPT !.list = {w}] ELSE NoSource]

NextRows(c, i, m) == [m EXCEPT ![c.gates[i].out] = SourceOf(c.gates[i], m)]

SourceLoop(c) ==
  LET after[i \in 0 .. GateSize(c)] ==
        IF i = 0
        THEN [w \in Wires(c) |->
               IF w \in InputWires(c) THEN [NoSource EXCEPT !.list = {w}] ELSE NoSource]
        ELSE LET m == after[i - 1]
                 g == c.gates[i]
             IN  [m EXCEPT ![g.out] = SourceOf(g, m)]
  IN  after

LEMMA SourceOfType ==
  ASSUME NEW c, WellFormed(c), NEW i \in GateIndices(c), NEW m \in [Wires(c) -> SourceRow(c)]
  PROVE  NextRows(c, i, m) \in [Wires(c) -> SourceRow(c)]
<1> DEFINE g == c.gates[i]
<1>1. /\ g.type \in {"AND", "XOR", "NOT"} /\ g.in0 \in Wires(c) /\ g.out \in Wires(c)
      /\ g.type # "NOT" => g.in1 \in Wires(c)
  BY GateWires
<1> HIDE DEF g
<1>2. m[g.in0] \in SourceRow(c) /\ m[g.out] \in SourceRow(c)
      /\ (g.type # "NOT" => m[g.in1] \in SourceRow(c))
  BY <1>1
<1>3. CASE g.type = "XOR"
  <2>1. SourceOf(g, m) = [list |-> SymDiff(m[g.in0].list, m[g.in1].list),
                          flip |-> m[g.in0].flip # m[g.in1].flip]
    BY <1>3 DEF SourceOf
  <2>2. SourceOf(g, m) \in SourceRow(c)
    BY <1>2, <1>3, <2>1 DEF SourceRow, SymDiff
  <2> QED  BY <1>1, <2>2 DEF NextRows, g
<1>4. CASE g.type = "AND"
  <2>1. SourceOf(g, m) = [m[g.out] EXCEPT !.list = @ \cup {g.out}]
    BY <1>4 DEF SourceOf
  <2>2. SourceOf(g, m) \in SourceRow(c)
    BY <1>1, <1>2, <2>1 DEF SourceRow
  <2> QED  BY <1>1, <2>2 DEF NextRows, g
<1>5. CASE g.type = "NOT"
  <2>1. SourceOf(g, m) = [list |-> m[g.in0].list, flip |-> ~m[g.in0].flip]
    BY <1>5 DEF SourceOf
  <2>2. SourceOf(g, m) \in SourceRow(c)
    BY <1>2, <2>1 DEF SourceRow
  <2> QED  BY <1>1, <2>2 DEF NextRows, g
<1> QED  BY <1>1, <1>3, <1>4, <1>5

(* SourceMatrix is what the loop of Populate_XOR_source_matrix_ ends with. *)
LEMMA SourceMatrixLoop ==
  ASSUME NEW c, WellFormed(c)
  PROVE  \E f \in [0 .. GateSize(c) -> [Wires(c) -> SourceRow(c)]] :
           /\ f[0] = FirstRows(c) /\ f[GateSize(c)] = SourceMatrix(c)
           /\ \A i \in GateIndices(c) : f[i] = NextRows(c, i, f[i - 1])
<1> DEFINE n == GateSize(c)
           State == [Wires(c) -> SourceRow(c)]
           step == [i \in 1 .. n |-> [m \in State |-> NextRows(c, i, m)]]
<1>1. n \in Nat /\ GateIndices(c) = 1 .. n
  BY AndGatesFinite DEF GateIndices
<1>2. FirstRows(c) \in State
  <2>1. ASSUME NEW w \in Wires(c)
        PROVE  NoSource \in SourceRow(c) /\ [NoSource EXCEPT !.list = {w}] \in SourceRow(c)
    BY DEF NoSource, SourceRow
  <2> QED  BY <2>1 DEF FirstRows
<1>3. ASSUME NEW i \in 1 .. n, NEW m \in State
      PROVE  step[i][m] = NextRows(c, i, m) /\ NextRows(c, i, m) \in State
  BY <1>1, SourceOfType
<1>3a. step \in [1 .. n -> [State -> State]]
  BY <1>3
<1> HIDE DEF n, State, step
<1>4. PICK f : IsLoop(f, n, State, FirstRows(c), step)
  BY <1>1, <1>2, <1>3a, LoopExists
<1>5. /\ f \in [0 .. n -> State] /\ f[0] = FirstRows(c)
      /\ \A i \in 1 .. n : f[i] = step[i][f[i - 1]]
  BY <1>4 DEF IsLoop
<1>6. \A i \in 1 .. n : f[i - 1] \in State /\ f[i] = NextRows(c, i, f[i - 1])
  <2>1. \A i \in 1 .. n : i - 1 \in 0 .. n
    BY <1>1
  <2> QED  BY <1>3, <1>5, <2>1
<1> DEFINE body(h, i) == IF i = 0 THEN FirstRows(c) ELSE NextRows(c, i, h[i - 1])
<1>7. f = [i \in 0 .. n |-> body(f, i)]
  BY <1>1, <1>5, <1>6
<1> DEFINE g == SourceLoop(c)
<1>8. g = [i \in 0 .. n |-> body(g, i)]
  BY <1>7 DEF SourceLoop, FirstRows, NextRows, n
<1>9. g[n] = SourceMatrix(c)
  BY Zenon DEF SourceLoop, SourceMatrix, n
<1> HIDE DEF g
<1>10. g[0] = FirstRows(c) /\ \A i \in 1 .. n : g[i] = NextRows(c, i, g[i - 1])
  BY <1>1, <1>8
<1> DEFINE good == {i \in 0 .. n : g[i] \in State}
<1>11. 0 \in good /\ \A i \in 1 .. n : i - 1 \in good => i \in good
  <2>1. \A i \in 1 .. n : \A m \in State : NextRows(c, i, m) \in State
    BY <1>3
  <2> QED  BY <1>1, <1>2, <1>10, <2>1
<1>12. \A i \in 0 .. n : g[i] \in State
  <2> HIDE DEF good
  <2>1. \A i \in 0 .. n : i \in good
    BY <1>1, <1>11, UpToInduction
  <2> QED  BY <2>1 DEF good
<1>13. g \in [0 .. n -> State]
  BY <1>8, <1>12
<1> QED  BY <1>1, <1>9, <1>10, <1>13 DEF n, State

(* The source lists of a circuit satisfy the equations of its gates: a     *)
(* list is that of the independent wires a wire is the XOR of.             *)
SourceEquation(g, m) ==
  /\ g.type = "AND" => m[g.out] = [list |-> {g.out}, flip |-> FALSE]
  /\ g.type = "XOR" => m[g.out] = [list |-> SymDiff(m[g.in0].list, m[g.in1].list),
                                   flip |-> m[g.in0].flip # m[g.in1].flip]
  /\ g.type = "NOT" => m[g.out] = [list |-> m[g.in0].list, flip |-> ~m[g.in0].flip]

LEMMA SourceLists ==
  ASSUME NEW c, WellFormed(c), NEW m, m = SourceMatrix(c)
  PROVE  /\ m \in [Wires(c) -> SourceRow(c)]
         /\ \A w \in Wires(c) : m[w].list \subseteq Independent(c)
         /\ \A w \in InputWires(c) : m[w] = [list |-> {w}, flip |-> FALSE]
         /\ \A i \in GateIndices(c) : SourceEquation(c.gates[i], m)
<1> DEFINE n == GateSize(c)
           State == [Wires(c) -> SourceRow(c)]
<1>1. n \in Nat /\ GateIndices(c) = 1 .. n
  BY AndGatesFinite DEF GateIndices
<1>2. PICK f \in [0 .. n -> State] :
           /\ f[0] = FirstRows(c) /\ f[n] = m
           /\ \A i \in GateIndices(c) : f[i] = NextRows(c, i, f[i - 1])
  BY SourceMatrixLoop
<1>3. ASSUME NEW i \in GateIndices(c)
      PROVE  /\ f[i - 1] \in State /\ f[i] \in State
             /\ \A w \in Wires(c) : w # c.gates[i].out => f[i][w] = f[i - 1][w]
             /\ f[i][c.gates[i].out] = SourceOf(c.gates[i], f[i - 1])
  <2>1. i - 1 \in 0 .. n /\ i \in 0 .. n
    BY <1>1
  <2>2. f[i - 1] \in State /\ c.gates[i].out \in Wires(c)
    BY <2>1, GateWires
  <2> QED  BY <1>2, <2>1, <2>2 DEF NextRows
<1>4. /\ \A w \in InputWires(c) : m[w] = f[0][w]
      /\ \A i \in GateIndices(c) :
           /\ \A w \in WiresBefore(c, i) : f[i - 1][w] = m[w]
           /\ f[i][c.gates[i].out] = m[c.gates[i].out]
           /\ f[i - 1][c.gates[i].out] = f[0][c.gates[i].out]
  <2>2. AssignsOut(c, f)
    BY <1>3 DEF AssignsOut
  <2>1. LeavesOut(c, f)
    BY <2>2, GateLoop
  <2> QED  BY <1>2, <2>1 DEF LeavesOut
<1>5. m \in State
  BY <1>1, <1>2
<1>6. ASSUME NEW w \in InputWires(c) PROVE m[w] = [list |-> {w}, flip |-> FALSE]
  BY <1>2, <1>4, WiresGrow DEF FirstRows, NoSource
<1>7. ASSUME NEW i \in GateIndices(c)
      PROVE  SourceEquation(c.gates[i], m)
  <2> DEFINE g == c.gates[i]
             r == f[i - 1]
  <2>1. /\ g.in0 \in WiresBefore(c, i) /\ g.out \in Wires(c) /\ g.out \notin InputWires(c)
        /\ g.type # "NOT" => g.in1 \in WiresBefore(c, i)
    BY GateWires
  <2>2. m[g.out] = SourceOf(g, r)
    BY <1>3, <1>4
  <2>3. r[g.in0] = m[g.in0] /\ (g.type # "NOT" => r[g.in1] = m[g.in1])
    BY <1>4, <2>1
  <2>4. r[g.out] = NoSource
    BY <1>2, <1>4, <2>1, ZenonT(40) DEF FirstRows
  <2>5. /\ g.type = "AND" => SourceOf(g, r) = [r[g.out] EXCEPT !.list = @ \cup {g.out}]
        /\ g.type = "XOR" => SourceOf(g, r) = [list |-> SymDiff(r[g.in0].list, r[g.in1].list),
                                               flip |-> r[g.in0].flip # r[g.in1].flip]
        /\ g.type = "NOT" => SourceOf(g, r) = [list |-> r[g.in0].list, flip |-> ~r[g.in0].flip]
    <3> HIDE DEF g, r
    <3> QED  BY DEF SourceOf
  <2>6. ASSUME NEW w PROVE [NoSource EXCEPT !.list = @ \cup {w}] = [list |-> {w}, flip |-> FALSE]
    <3>1. NoSource.list \cup {w} = {w}
      BY DEF NoSource
    <3>2. ASSUME NEW x PROVE [NoSource EXCEPT !.list = x] = [list |-> x, flip |-> FALSE]
      <4> DEFINE s == [NoSource EXCEPT !.list = x]
      <4>1. NoSource \in [list : {{}}, flip : {FALSE}]
        BY DEF NoSource
      <4>2. s \in [list : {x}, flip : {FALSE}]
        BY <4>1
      <4> HIDE DEF s
      <4>3. s = [list |-> x, flip |-> FALSE]
        BY <4>2
      <4> QED  BY <4>3 DEF s
    <3> QED  BY <3>1, <3>2
  <2>7. SourceEquation(g, m)
    <3> HIDE DEF g, r
    <3> QED  BY <2>2, <2>3, <2>4, <2>5, <2>6 DEF SourceEquation
  <2> QED  BY <2>7
<1> DEFINE good == {i \in 0 .. n : \A w \in WiresBefore(c, i + 1) : m[w].list \subseteq Independent(c)}
<1>8. 0 \in good
  <2>1. WiresBefore(c, 0 + 1) = InputWires(c)
    BY WiresGrow
  <2>2. ASSUME NEW w \in InputWires(c) PROVE m[w].list \subseteq Independent(c)
    <3>1. m[w] = [list |-> {w}, flip |-> FALSE] /\ w \in Independent(c)
      BY <1>6 DEF Independent
    <3>2. m[w].list = {w}
      BY <3>1
    <3> QED  BY <3>1, <3>2
  <2>3. \A w \in WiresBefore(c, 0 + 1) : m[w].list \subseteq Independent(c)
    <3> HIDE DEF n, State
    <3> QED  BY <2>1, <2>2
  <2> QED  BY <1>1, <2>3
<1>9. ASSUME NEW i \in 1 .. n, i - 1 \in good PROVE i \in good
  <2> DEFINE g == c.gates[i]
  <2>1. /\ i \in GateIndices(c) /\ g.in0 \in WiresBefore(c, i)
        /\ g.type # "NOT" => g.in1 \in WiresBefore(c, i)
        /\ g.type \in {"AND", "XOR", "NOT"} /\ SourceEquation(g, m)
        /\ g.type = "AND" => i \in AndGates(c)
    BY <1>1, <1>7, GateWires DEF AndGates, IsAnd
  <2>2. WiresBefore(c, i + 1) = WiresBefore(c, i) \cup {g.out}
    BY <2>1, WiresGrow
  <2>3. \A w \in WiresBefore(c, i) : m[w].list \subseteq Independent(c)
    BY <1>9
  <2>4. m[g.out].list \subseteq Independent(c)
    <3>1. CASE g.type = "AND"
      <4>1. g.out \in Independent(c)
        BY <2>1, <3>1 DEF Independent
      <4> HIDE DEF g
      <4>2. m[g.out].list = {g.out}
        BY <2>1, <3>1 DEF SourceEquation
      <4> QED  BY <4>1, <4>2
    <3>2. CASE g.type = "XOR"
      <4> HIDE DEF g
      <4>1. m[g.out].list = SymDiff(m[g.in0].list, m[g.in1].list)
        BY <2>1, <3>2 DEF SourceEquation
      <4> QED  BY <2>1, <2>3, <3>2, <4>1 DEF SymDiff
    <3>3. CASE g.type = "NOT"
      <4> HIDE DEF g
      <4>1. m[g.out].list = m[g.in0].list
        BY <2>1, <3>3 DEF SourceEquation
      <4> QED  BY <2>1, <2>3, <4>1
    <3> QED  BY <2>1, <3>1, <3>2, <3>3
  <2> QED  BY <2>2, <2>3, <2>4
<1>10. \A i \in 0 .. n : i \in good
  <2> HIDE DEF good, n
  <2> QED  BY <1>1, <1>8, <1>9, UpToInduction
<1>11. \A w \in Wires(c) : m[w].list \subseteq Independent(c)
  <2>1. n \in good /\ WiresBefore(c, n + 1) = Wires(c)
    BY <1>1, <1>10, WiresGrow
  <2> QED  BY <2>1
<1> QED  BY <1>5, <1>6, <1>7, <1>11

-----------------------------------------------------------------------------
(* What holds of the independent wires and passes from the inputs of an    *)
(* XOR or NOT gate to its output holds of every wire; good is the set of   *)
(* the wires it holds of.                                                  *)
LEMMA WireInduction ==
  ASSUME NEW c, WellFormed(c), NEW good,
         \A w \in Independent(c) : w \in good,
         \A i \in GateIndices(c) :
           /\ c.gates[i].type = "XOR" /\ c.gates[i].in0 \in good /\ c.gates[i].in1 \in good
                => c.gates[i].out \in good
           /\ c.gates[i].type = "NOT" /\ c.gates[i].in0 \in good => c.gates[i].out \in good
  PROVE  \A w \in Wires(c) : w \in good
<1> DEFINE n == GateSize(c)
           done == {i \in 0 .. n : \A w \in WiresBefore(c, i + 1) : w \in good}
<1>1. n \in Nat /\ GateIndices(c) = 1 .. n
  BY AndGatesFinite DEF GateIndices
<1>2. 0 \in done
  <2>1. WiresBefore(c, 0 + 1) = InputWires(c)
    BY WiresGrow
  <2>2. \A w \in WiresBefore(c, 0 + 1) : w \in good
    BY <2>1 DEF Independent
  <2> QED  BY <1>1, <2>2
<1>3. ASSUME NEW i \in 1 .. n, i - 1 \in done PROVE i \in done
  <2> DEFINE g == c.gates[i]
  <2>1. /\ i \in GateIndices(c) /\ g.in0 \in WiresBefore(c, i)
        /\ g.type # "NOT" => g.in1 \in WiresBefore(c, i)
        /\ g.type \in {"AND", "XOR", "NOT"}
        /\ g.type = "AND" => g.out \in Independent(c)
    BY <1>1, GateWires DEF AndGates, IsAnd, Independent
  <2>2. WiresBefore(c, i + 1) = WiresBefore(c, i) \cup {g.out}
    BY <2>1, WiresGrow
  <2>3. \A w \in WiresBefore(c, i) : w \in good
    BY <1>3
  <2>4. g.out \in good
    BY <2>1, <2>3
  <2>5. \A w \in WiresBefore(c, i + 1) : w \in good
    BY <2>2, <2>3, <2>4
  <2> QED  BY <1>1, <2>5
<1>4. n \in done
  <2>1. \A i \in 0 .. n : i \in done
    <3> HIDE DEF done, n
    <3> QED  BY <1>1, <1>2, <1>3, UpToInduction
  <2> QED  BY <1>1, <2>1
<1> QED  BY <1>4, WiresGrow

(* The values of the wires under a linear map: a bit per wire that follows *)
(* the XOR gates and passes unchanged through NOT gates.                   *)
FollowsGates(c, v) ==
  \A i \in GateIndices(c) :
    /\ c.gates[i].type = "XOR" =>
         (v[c.gates[i].out] <=> (v[c.gates[i].in0] # v[c.gates[i].in1]))
    /\ c.gates[i].type = "NOT" => (v[c.gates[i].out] <=> v[c.gates[i].in0])

(* Such a bit is the XOR of those of the wires in the source list.         *)
LEMMA SourcesSum ==
  ASSUME NEW c, WellFormed(c), NEW m, m = SourceMatrix(c),
         NEW v \in [Wires(c) -> BOOLEAN], FollowsGates(c, v)
  PROVE  \A w \in Wires(c) :
           /\ IsFiniteSet(m[w].list) /\ m[w].list \subseteq Independent(c)
           /\ v[w] <=> Odd({s \in m[w].list : v[s]})
<1> DEFINE ones(w) == {s \in m[w].list : v[s]}
           good == {w \in Wires(c) : v[w] <=> Odd(ones(w))}
<1>1. /\ m \in [Wires(c) -> SourceRow(c)]
      /\ \A w \in Wires(c) : m[w].list \subseteq Independent(c)
      /\ \A w \in InputWires(c) : m[w] = [list |-> {w}, flip |-> FALSE]
      /\ \A i \in GateIndices(c) : SourceEquation(c.gates[i], m)
  BY SourceLists
<1>2. IsFiniteSet(Wires(c)) /\ Independent(c) \subseteq Wires(c)
  <2>1. c.wireSize \in Nat
    BY DEF WellFormed
  <2>2. IsFiniteSet(Wires(c))
    BY <2>1, FS_Interval DEF Wires
  <2>3. \A i \in AndGates(c) : c.gates[i].out \in Wires(c)
    BY GateWires DEF AndGates
  <2> QED  BY <2>2, <2>3, WiresGrow DEF Independent
<1>3. ASSUME NEW w \in Wires(c) PROVE IsFiniteSet(m[w].list) /\ IsFiniteSet(ones(w))
  <2>1. m[w].list \in SUBSET Wires(c) /\ ones(w) \in SUBSET Wires(c)
    BY <1>1, <1>2
  <2> QED  BY <1>2, <2>1, FS_Subset
<1>4. ASSUME NEW w \in Wires(c), m[w].list = {w} PROVE w \in good
  <2>1. CASE v[w]
    <3>1. ones(w) = {} \cup {w}
      BY <1>4, <2>1
    <3>2. Odd({} \cup {w}) = ~Odd({})
      BY OddAdd, FS_EmptySet
    <3> QED  BY <2>1, <3>1, <3>2, OddEmpty
  <2>2. CASE ~v[w]
    <3>1. ones(w) = {}
      BY <1>4, <2>2
    <3> QED  BY <2>2, <3>1, OddEmpty
  <2> QED  BY <2>1, <2>2
<1>5. ASSUME NEW w \in Independent(c) PROVE w \in good
  <2>1. CASE w \in InputWires(c)
    <3>1. m[w] = [list |-> {w}, flip |-> FALSE] /\ w \in Wires(c)
      BY <1>1, <1>2, <2>1
    <3>2. m[w].list = {w}
      BY <3>1
    <3> QED  BY <1>4, <3>1, <3>2
  <2>2. CASE w \notin InputWires(c)
    <3>1. PICK i \in AndGates(c) : w = c.gates[i].out
      BY <2>2 DEF Independent
    <3> DEFINE g == c.gates[i]
    <3>2. SourceEquation(g, m) /\ g.type = "AND" /\ g.out \in Wires(c)
      BY <1>1, GateWires DEF AndGates, IsAnd
    <3> HIDE DEF g
    <3>3. m[g.out].list = {g.out}
      BY <3>2 DEF SourceEquation
    <3>4. g.out \in good
      <4> HIDE DEF good
      <4> QED  BY <1>4, <3>2, <3>3
    <3> QED  BY <3>1, <3>4 DEF g
  <2> QED  BY <2>1, <2>2
<1>6. ASSUME NEW i \in GateIndices(c)
      PROVE  /\ c.gates[i].type = "XOR" /\ c.gates[i].in0 \in good /\ c.gates[i].in1 \in good
                  => c.gates[i].out \in good
             /\ c.gates[i].type = "NOT" /\ c.gates[i].in0 \in good => c.gates[i].out \in good
  <2> DEFINE g == c.gates[i]
  <2>1. /\ SourceEquation(g, m) /\ g.in0 \in Wires(c) /\ g.out \in Wires(c)
        /\ g.type # "NOT" => g.in1 \in Wires(c)
        /\ g.type = "XOR" => (v[g.out] <=> (v[g.in0] # v[g.in1]))
        /\ g.type = "NOT" => (v[g.out] <=> v[g.in0])
    BY <1>1, GateWires DEF FollowsGates
  <2> HIDE DEF g
  <2>2. ASSUME g.type = "XOR", g.in0 \in good, g.in1 \in good PROVE g.out \in good
    <3>1. m[g.out].list = SymDiff(m[g.in0].list, m[g.in1].list)
      BY <2>1, <2>2 DEF SourceEquation
    <3>2. ones(g.out) = SymDiff(ones(g.in0), ones(g.in1))
      BY <3>1 DEF SymDiff
    <3>3. Odd(SymDiff(ones(g.in0), ones(g.in1))) = (Odd(ones(g.in0)) # Odd(ones(g.in1)))
      <4>1. IsFiniteSet(ones(g.in0)) /\ IsFiniteSet(ones(g.in1))
        BY <1>3, <2>1, <2>2
      <4> HIDE DEF ones
      <4> QED  BY <4>1, OddSymDiff
    <3>4. Odd(ones(g.out)) <=> (Odd(ones(g.in0)) # Odd(ones(g.in1)))
      BY <3>2, <3>3, Zenon
    <3>5. (v[g.in0] <=> Odd(ones(g.in0))) /\ (v[g.in1] <=> Odd(ones(g.in1)))
      BY <2>2
    <3>6. v[g.in0] \in BOOLEAN /\ v[g.in1] \in BOOLEAN
          /\ Odd(ones(g.in0)) \in BOOLEAN /\ Odd(ones(g.in1)) \in BOOLEAN
      BY <2>1, <2>2 DEF Odd
    <3>7. v[g.out] <=> Odd(ones(g.out))
      <4> HIDE DEF ones
      <4> QED  BY <2>1, <2>2, <3>4, <3>5, <3>6
    <3> QED  BY <2>1, <3>7
  <2>3. ASSUME g.type = "NOT", g.in0 \in good PROVE g.out \in good
    <3>1. m[g.out].list = m[g.in0].list
      BY <2>1, <2>3 DEF SourceEquation
    <3>2. ones(g.out) = ones(g.in0)
      BY <3>1
    <3>3. v[g.out] <=> Odd(ones(g.out))
      BY <2>1, <2>3, <3>2
    <3> QED  BY <2>1, <3>3
  <2>4. /\ g.type = "XOR" /\ g.in0 \in good /\ g.in1 \in good => g.out \in good
        /\ g.type = "NOT" /\ g.in0 \in good => g.out \in good
    BY <2>2, <2>3
  <2> QED  BY <2>4 DEF g
<1>7. \A w \in Wires(c) : w \in good
  <2> HIDE DEF good
  <2> QED  BY <1>5, <1>6, WireInduction
<1> QED  BY <1>1, <1>3, <1>7

(* The place of an independent wire, and its place without the garbler's   *)
(* inputs, are within the vectors of that many elements.                   *)
LEMMA IndependentIndexType ==
  ASSUME NEW c, WellFormed(c), NEW w \in Independent(c)
  PROVE  /\ IndependentIndex(c, w) \in 0 .. (IndependentSize(c) - 1)
         /\ w \notin GarblerInputs(c) =>
              IndependentIndex(c, w) - c.inputSize0 \in 0 .. (AndGateSize(c) + c.inputSize1 - 1)
<1>1. c.inputSize0 \in Nat /\ c.inputSize1 \in Nat /\ AndGateSize(c) \in Nat
  BY AndGatesFinite DEF WellFormed
<1>2. CASE w \in InputWires(c)
  BY <1>1, <1>2 DEF IndependentIndex, InputWires, GarblerInputs, IndependentSize, TotalInputSize
<1>3. CASE w \notin InputWires(c)
  <2> DEFINE i == CHOOSE j \in AndGates(c) : c.gates[j].out = w
  <2>1. i \in AndGates(c)
    BY <1>3 DEF Independent
  <2>2. AndGateOrder(c, i) \in AndIndices(c)
    BY <2>1, AndGateOrderInjective
  <2>3. IndependentIndex(c, w) = TotalInputSize(c) + AndGateOrder(c, i)
    BY <1>3 DEF IndependentIndex
  <2> HIDE DEF i
  <2> QED  BY <1>1, <2>2, <2>3 DEF IndependentSize, TotalInputSize, AndIndices
<1> QED  BY <1>2, <1>3

(* No two AND gates drive the same wire. *)
LEMMA AndOutputsDiffer ==
  ASSUME NEW c, WellFormed(c), NEW i \in AndGates(c), NEW j \in AndGates(c),
         c.gates[i].out = c.gates[j].out
  PROVE  i = j
<1>1. i \in Nat /\ j \in Nat /\ i \in GateIndices(c) /\ j \in GateIndices(c)
  BY AndGatesFinite DEF AndGates, GateIndices
<1>2. \A a, b \in GateIndices(c) : a \in 1 .. (b - 1) => c.gates[a].out # c.gates[b].out
  BY GateWires DEF WiresBefore
<1>3. i \notin 1 .. (j - 1) /\ j \notin 1 .. (i - 1)
  BY <1>1, <1>2
<1>4. i >= 1 /\ j >= 1
  BY <1>1, AndGatesFinite DEF GateIndices
<1> QED  BY <1>1, <1>3, <1>4

(* The GC check visits every independent wire once. *)
LEMMA CheckOrder ==
  ASSUME NEW c, WellFormed(c)
  PROVE  /\ \A n \in 0 .. (IndependentSize(c) - 1) : IndependentWire(c, n) \in Independent(c)
         /\ \A m, n \in 0 .. (IndependentSize(c) - 1) :
              IndependentWire(c, m) = IndependentWire(c, n) => m = n
         /\ \A w \in Independent(c) :
              \E n \in 0 .. (IndependentSize(c) - 1) : IndependentWire(c, n) = w
         /\ \A i \in AndGates(c) :
              \E n \in 0 .. (IndependentSize(c) - 1) :
                /\ ~(n < TotalInputSize(c)) /\ AndGateAt(c, n - TotalInputSize(c)) = i
                /\ IndependentWire(c, n) = c.gates[i].out
<1> DEFINE T == TotalInputSize(c)
           N == IndependentSize(c)
<1>1. T \in Nat /\ AndGateSize(c) \in Nat /\ N = T + AndGateSize(c)
  <2>1. AndGateSize(c) \in Nat
    BY AndGatesFinite
  <2> QED  BY <2>1 DEF WellFormed, TotalInputSize, IndependentSize
<1>2. ASSUME NEW n \in 0 .. (N - 1)
      PROVE  \/ n < T /\ IndependentWire(c, n) = n /\ n \in InputWires(c)
             \/ /\ ~(n < T) /\ n - T \in AndIndices(c)
                /\ AndGateAt(c, n - T) \in AndGates(c)
                /\ AndGateOrder(c, AndGateAt(c, n - T)) = n - T
                /\ IndependentWire(c, n) = c.gates[AndGateAt(c, n - T)].out
                /\ IndependentWire(c, n) \notin InputWires(c)
  <2>1. CASE n < T
    BY <1>1, <2>1 DEF IndependentWire, InputWires
  <2>2. CASE ~(n < T)
    <3>1. n - T \in AndIndices(c)
      BY <2>2, IndependentWireType
    <3>2. AndGateAt(c, n - T) \in AndGates(c) /\ AndGateOrder(c, AndGateAt(c, n - T)) = n - T
      BY <3>1, AndGateAtExists
    <3>3. c.gates[AndGateAt(c, n - T)].out \notin InputWires(c)
      BY <3>2, GateWires DEF AndGates
    <3> QED  BY <2>2, <3>1, <3>2, <3>3 DEF IndependentWire
  <2> QED  BY <2>1, <2>2
<1>3. \A i, j \in AndGates(c) : c.gates[i].out = c.gates[j].out => i = j
  BY AndOutputsDiffer
<1>4. ASSUME NEW i \in AndGates(c)
      PROVE  \E n \in 0 .. (N - 1) :
               /\ ~(n < T) /\ AndGateAt(c, n - T) = i /\ IndependentWire(c, n) = c.gates[i].out
  <2> DEFINE k == AndGateOrder(c, i)
             n == T + k
  <2>1. k \in AndIndices(c)
    BY AndGateOrderInjective
  <2>2. k \in Nat /\ k < AndGateSize(c)
    BY <1>1, <2>1 DEF AndIndices
  <2>3. n \in 0 .. (N - 1) /\ ~(n < T) /\ n - T = k
    BY <1>1, <2>2
  <2>4. AndGateAt(c, k) \in AndGates(c) /\ AndGateOrder(c, AndGateAt(c, k)) = k
    BY <2>1, AndGateAtExists
  <2>5. AndGateAt(c, k) = i
    <3> DEFINE j == AndGateAt(c, k)
    <3>1. i \in Nat /\ j \in Nat /\ j \in AndGates(c)
      BY <2>4, AndGatesFinite DEF AndGates, GateIndices
    <3>2. ~(i < j) /\ ~(j < i)
      BY <2>2, <2>4, <3>1, AndGateOrderInjective
    <3> QED  BY <3>1, <3>2
  <2>6. IndependentWire(c, n) = c.gates[i].out
    BY <2>3, <2>5 DEF IndependentWire
  <2> QED  BY <2>3, <2>5, <2>6
<1>5. \A n \in 0 .. (N - 1) : IndependentWire(c, n) \in Independent(c)
  BY <1>2 DEF Independent
<1>6. ASSUME NEW m \in 0 .. (N - 1), NEW n \in 0 .. (N - 1),
             IndependentWire(c, m) = IndependentWire(c, n)
      PROVE  m = n
  <2>1. CASE m < T \/ n < T
    BY <1>2, <1>6, <2>1
  <2>2. CASE ~(m < T) /\ ~(n < T)
    <3>1. AndGateAt(c, m - T) = AndGateAt(c, n - T)
      BY <1>2, <1>3, <1>6, <2>2
    <3>2. m - T = n - T
      BY <1>2, <2>2, <3>1
    <3>3. m \in Nat /\ n \in Nat
      BY <1>1
    <3> QED  BY <1>1, <3>2, <3>3
  <2> QED  BY <2>1, <2>2
<1>7. ASSUME NEW w \in Independent(c) PROVE \E n \in 0 .. (N - 1) : IndependentWire(c, n) = w
  <2>1. CASE w \in InputWires(c)
    BY <1>1, <2>1 DEF InputWires, IndependentWire
  <2>2. CASE w \notin InputWires(c)
    BY <1>4, <2>2 DEF Independent
  <2> QED  BY <2>1, <2>2
<1> QED  BY <1>4, <1>5, <1>6, <1>7

(* As many places of the check's order have a wire of W as W has wires. *)
LEMMA CheckOrderOdd ==
  ASSUME NEW c, WellFormed(c), NEW W \in SUBSET Independent(c)
  PROVE  Odd({n \in 0 .. (IndependentSize(c) - 1) : IndependentWire(c, n) \in W}) <=> Odd(W)
<1> DEFINE J == 0 .. (IndependentSize(c) - 1)
           S == {n \in J : IndependentWire(c, n) \in W}
           f == [n \in S |-> IndependentWire(c, n)]
<1>1. IndependentSize(c) \in Int
  <2>1. AndGateSize(c) \in Nat
    BY AndGatesFinite
  <2> QED  BY <2>1 DEF WellFormed, TotalInputSize, IndependentSize
<1>2. IsFiniteSet(S)
  <2>1. IsFiniteSet(J)
    BY <1>1, FS_Interval
  <2> QED  BY <2>1, FS_Subset
<1>3. \A m, n \in S : f[m] = f[n] => m = n
  BY CheckOrder
<1>4. {f[n] : n \in S} = W
  BY CheckOrder
<1> HIDE DEF S, f
<1>5. Odd({f[n] : n \in S}) <=> Odd(S)
  BY <1>2, <1>3, OddImage
<1> QED  BY <1>4, <1>5, Zenon DEF S

(* A plain valuation of the gates, with NOT gates as they are. *)
FollowsPlain(c, v) ==
  \A i \in GateIndices(c) :
    /\ c.gates[i].type = "XOR" =>
         (v[c.gates[i].out] <=> (v[c.gates[i].in0] # v[c.gates[i].in1]))
    /\ c.gates[i].type = "NOT" => (v[c.gates[i].out] <=> ~v[c.gates[i].in0])

(* A wire's value is the sum of its sources' values and its flip. *)
LEMMA SourcesSumFlipped ==
  ASSUME NEW c, WellFormed(c), NEW m, m = SourceMatrix(c),
         NEW v \in [Wires(c) -> BOOLEAN], FollowsPlain(c, v)
  PROVE  \A w \in Wires(c) :
           /\ IsFiniteSet(m[w].list) /\ m[w].list \subseteq Independent(c)
           /\ m[w].flip \in BOOLEAN
           /\ Odd({s \in m[w].list : v[s]}) <=> (v[w] # m[w].flip)
<1> DEFINE u == [w \in Wires(c) |-> v[w] # m[w].flip]
<1>1. /\ m \in [Wires(c) -> SourceRow(c)]
      /\ \A w \in Wires(c) : m[w].list \subseteq Independent(c)
      /\ \A w \in InputWires(c) : m[w] = [list |-> {w}, flip |-> FALSE]
      /\ \A i \in GateIndices(c) : SourceEquation(c.gates[i], m)
  BY SourceLists
<1>2. \A w \in Wires(c) : m[w].flip \in BOOLEAN
  BY <1>1 DEF SourceRow
<1>3. u \in [Wires(c) -> BOOLEAN]
  BY <1>2
<1>9. \A x, L, F : x = [list |-> L, flip |-> F] => x.flip = F
  OBVIOUS
<1>4. FollowsGates(c, u)
  <2> SUFFICES ASSUME NEW i \in GateIndices(c), NEW g, g = c.gates[i]
               PROVE  /\ g.type = "XOR" => (u[g.out] <=> (u[g.in0] # u[g.in1]))
                      /\ g.type = "NOT" => (u[g.out] <=> u[g.in0])
    BY DEF FollowsGates
  <2>1. /\ g.in0 \in Wires(c) /\ g.out \in Wires(c) /\ (g.type # "NOT" => g.in1 \in Wires(c))
        /\ SourceEquation(g, m)
    BY <1>1, GateWires
  <2>2. CASE g.type = "XOR"
    <3>1. v[g.out] <=> (v[g.in0] # v[g.in1])
      BY <2>2 DEF FollowsPlain
    <3>2. m[g.out].flip = (m[g.in0].flip # m[g.in1].flip)
      <4> DEFINE L == SymDiff(m[g.in0].list, m[g.in1].list)
                 F == m[g.in0].flip # m[g.in1].flip
      <4>1. m[g.out] = [list |-> L, flip |-> F]
        BY <2>1, <2>2, Zenon DEF SourceEquation
      <4> HIDE DEF L, F
      <4>2. m[g.out].flip = F
        BY <4>1
      <4> QED  BY <4>2, Zenon DEF F
    <3>3. /\ u[g.out] = (v[g.out] # m[g.out].flip)
          /\ u[g.in0] = (v[g.in0] # m[g.in0].flip)
          /\ u[g.in1] = (v[g.in1] # m[g.in1].flip)
      BY <2>1, <2>2
    <3>4. /\ v[g.out] \in BOOLEAN /\ v[g.in0] \in BOOLEAN /\ v[g.in1] \in BOOLEAN
          /\ m[g.out].flip \in BOOLEAN /\ m[g.in0].flip \in BOOLEAN /\ m[g.in1].flip \in BOOLEAN
      BY <1>2, <2>1, <2>2
    <3> HIDE DEF u
    <3> QED  BY <2>2, <3>1, <3>2, <3>3, <3>4
  <2>3. CASE g.type = "NOT"
    <3>1. v[g.out] <=> ~v[g.in0]
      BY <2>3 DEF FollowsPlain
    <3>2. m[g.out].flip = ~m[g.in0].flip
      <4> DEFINE F == ~m[g.in0].flip
      <4>1. m[g.out] = [list |-> m[g.in0].list, flip |-> F]
        BY <2>1, <2>3, Zenon DEF SourceEquation
      <4> HIDE DEF F
      <4>2. m[g.out].flip = F
        BY <4>1
      <4> QED  BY <4>2, Zenon DEF F
    <3>3. /\ u[g.out] = (v[g.out] # m[g.out].flip)
          /\ u[g.in0] = (v[g.in0] # m[g.in0].flip)
      BY <2>1
    <3>4. /\ v[g.out] \in BOOLEAN /\ v[g.in0] \in BOOLEAN
          /\ m[g.out].flip \in BOOLEAN /\ m[g.in0].flip \in BOOLEAN
      BY <1>2, <2>1
    <3> HIDE DEF u
    <3> QED  BY <2>3, <3>1, <3>2, <3>3, <3>4
  <2> QED  BY <2>2, <2>3
<1>5. \A s \in Independent(c) : s \in Wires(c) /\ m[s].flip = FALSE
  <2>1. ASSUME NEW s \in InputWires(c) PROVE s \in Wires(c) /\ m[s].flip = FALSE
    <3>1. m[s] = [list |-> {s}, flip |-> FALSE]
      BY <1>1, Zenon
    <3> QED  BY <1>9, <3>1, WiresGrow, Zenon
  <2>2. ASSUME NEW i \in AndGates(c), NEW s, s = c.gates[i].out
        PROVE  s \in Wires(c) /\ m[s].flip = FALSE
    <3>1. i \in GateIndices(c) /\ c.gates[i].type = "AND"
      BY DEF AndGates, IsAnd
    <3>2. SourceEquation(c.gates[i], m) /\ s \in Wires(c)
      BY <1>1, <2>2, <3>1, GateWires
    <3>3. m[s] = [list |-> {s}, flip |-> FALSE]
      BY <2>2, <3>1, <3>2, Zenon DEF SourceEquation
    <3> QED  BY <1>9, <3>2, <3>3, Zenon
  <2> QED  BY <2>1, <2>2 DEF Independent
<1>6. \A s \in Independent(c) : u[s] <=> v[s]
  BY <1>5
<1>7. \A w \in Wires(c) :
        /\ IsFiniteSet(m[w].list) /\ m[w].list \subseteq Independent(c)
        /\ u[w] <=> Odd({s \in m[w].list : u[s]})
  <2> HIDE DEF u
  <2> QED  BY <1>3, <1>4, SourcesSum
<1>8. ASSUME NEW w \in Wires(c)
      PROVE  Odd({s \in m[w].list : v[s]}) <=> (v[w] # m[w].flip)
  <2>1. {s \in m[w].list : u[s]} = {s \in m[w].list : v[s]}
    BY <1>6, <1>7
  <2>2. u[w] <=> (v[w] # m[w].flip)
    OBVIOUS
  <2> HIDE DEF u
  <2> QED  BY <1>7, <2>1, <2>2
<1> QED  BY <1>2, <1>7, <1>8

-----------------------------------------------------------------------------
(* DVZK's accumulators, for every field and block width: one call of       *)
(* update keeps the verifier's equation exactly when the triple is a       *)
(* product, or its challenge is zero.                                      *)

(* A value with its MAC and local key under delta. *)
AuthenticBlock(x, mac, key, delta) == mac = key \oplus GfMul(x, delta)

(* What Prover and Verifier hold of a triple they both update with. *)
HoldsTriple(t, k, delta) ==
  /\ {t.x, t.y, t.z, k.keyX, k.keyY, k.keyZ} \subseteq Block
  /\ AuthenticBlock(t.x, t.macX, k.keyX, delta)
  /\ AuthenticBlock(t.y, t.macY, k.keyY, delta)
  /\ AuthenticBlock(t.z, t.macZ, k.keyZ, delta)

-----------------------------------------------------------------------------
LEMMA Product ==
  ASSUME NEW x \in Block, NEW y \in Block, NEW z \in Block
  PROVE  /\ GfMul(x, y) \in Block /\ GfMul(x, y) = GfMul(y, x)
         /\ GfMul(x, y \oplus z) = GfMul(x, y) \oplus GfMul(x, z)
         /\ GfMul(y \oplus z, x) = GfMul(y, x) \oplus GfMul(z, x)
         /\ GfMul(x, GfMul(y, z)) = GfMul(GfMul(x, y), z)
         /\ x \oplus y \in Block
BY FieldAssumption, BlockType

(* A product is zero only when a factor is. *)
LEMMA NoZeroDivisors ==
  ASSUME NEW x \in Block, NEW y \in Block
  PROVE  GfMul(x, y) = ZeroBlock <=> x = ZeroBlock \/ y = ZeroBlock
<1>1. ZeroBlock \in Block /\ One \in Block
  BY BlockBitsAssumption DEF ZeroBlock, One, Block
<1>2. ASSUME NEW a \in Block PROVE GfMul(a, ZeroBlock) = ZeroBlock
  <2>1. GfMul(a, ZeroBlock \oplus ZeroBlock) = GfMul(a, ZeroBlock) \oplus GfMul(a, ZeroBlock)
    BY <1>1, Product
  <2>2. \A b : b \oplus b = ZeroBlock
    BY DEF \oplus, ZeroBlock
  <2> QED  BY <2>1, <2>2
<1>3. ASSUME GfMul(x, y) = ZeroBlock, x # ZeroBlock PROVE y = ZeroBlock
  <2>1. PICK w \in Block : GfMul(x, w) = One
    BY <1>3, OneAssumption
  <2>2. GfMul(w, GfMul(x, y)) = GfMul(GfMul(w, x), y) /\ GfMul(w, x) = GfMul(x, w)
    BY <2>1, Product
  <2>3. GfMul(One, y) = y /\ GfMul(w, ZeroBlock) = ZeroBlock
    BY <1>2, OneAssumption
  <2> QED  BY <1>3, <2>1, <2>2, <2>3
<1>4. GfMul(x, y) = GfMul(y, x)
  BY Product
<1> QED  BY <1>1, <1>2, <1>3, <1>4

(***************************************************************************)
(* What an update adds to b + a0 and to a1 * delta differs by the          *)
(* challenge times the error of the triple, times delta twice.             *)
(***************************************************************************)
UpdateIdentity(x, y, z, kx, ky, kz, d) ==
  LET mx == kx \oplus GfMul(x, d)
      my == ky \oplus GfMul(y, d)
      mz == kz \oplus GfMul(z, d)
      b == GfMul(kx, ky) \oplus GfMul(kz, d)
      a0 == GfMul(mx, my)
      a1 == (mz \oplus GfMul(x, my)) \oplus GfMul(y, mx)
  IN  /\ b \in Block /\ a0 \in Block /\ a1 \in Block
      /\ (b \oplus a0) \oplus GfMul(a1, d) = GfMul(GfMul(z \oplus GfMul(x, y), d), d)

LEMMA UpdateTerms ==
  ASSUME NEW x \in Block, NEW y \in Block, NEW z \in Block, NEW kx \in Block,
         NEW ky \in Block, NEW kz \in Block, NEW d \in Block
  PROVE  UpdateIdentity(x, y, z, kx, ky, kz, d)
<1> DEFINE mx == kx \oplus GfMul(x, d)
           my == ky \oplus GfMul(y, d)
           mz == kz \oplus GfMul(z, d)
           xy == GfMul(x, y)
           kk == GfMul(kx, ky)
           kzd == GfMul(kz, d)
           zdd == GfMul(GfMul(z, d), d)
           kxyd == GfMul(kx, GfMul(y, d))
           kyxd == GfMul(ky, GfMul(x, d))
           xydd == GfMul(GfMul(xy, d), d)
<1>1. /\ {mx, my, mz, xy, kk, kzd, zdd, kxyd, kyxd, xydd} \subseteq Block
      /\ GfMul(x, d) \in Block /\ GfMul(y, d) \in Block /\ GfMul(z, d) \in Block
  <2>1. /\ \A a, b \in Block : GfMul(a, b) \in Block
        /\ \A a, b \in Block : a \oplus b \in Block
    BY FieldAssumption, BlockType
  <2>2. GfMul(x, d) \in Block /\ GfMul(y, d) \in Block /\ GfMul(z, d) \in Block
    BY <2>1
  <2>3. mx \in Block /\ my \in Block /\ mz \in Block /\ xy \in Block /\ kk \in Block
        /\ kzd \in Block
    BY <2>1, <2>2
  <2>4. GfMul(xy, d) \in Block
    BY <2>1, <2>3
  <2>5. zdd \in Block /\ kxyd \in Block /\ kyxd \in Block /\ xydd \in Block
    BY <2>1, <2>2, <2>4
  <2> QED  BY <2>2, <2>3, <2>5
<1>2. GfMul(mx, my) = (kk \oplus kxyd) \oplus (kyxd \oplus xydd)
  <2>1. GfMul(mx, my) = GfMul(mx, ky) \oplus GfMul(mx, GfMul(y, d))
    BY <1>1, Product
  <2>2. GfMul(mx, ky) = kk \oplus kyxd
    BY <1>1, Product
  <2>3. GfMul(mx, GfMul(y, d)) = kxyd \oplus GfMul(GfMul(x, d), GfMul(y, d))
    BY <1>1, Product
  <2>4. GfMul(GfMul(x, d), GfMul(y, d)) = GfMul(GfMul(GfMul(x, d), y), d)
    BY <1>1, Product
  <2>5. GfMul(GfMul(x, d), y) = GfMul(xy, d)
    <3>1. GfMul(GfMul(x, d), y) = GfMul(y, GfMul(x, d))
      BY <1>1, Product
    <3>2. GfMul(y, GfMul(x, d)) = GfMul(GfMul(y, x), d) /\ GfMul(y, x) = xy
      BY Product
    <3> QED  BY <3>1, <3>2
  <2> HIDE DEF mx, my, kk, kxyd, kyxd, xy
  <2>6. GfMul(mx, my) = (kk \oplus kyxd) \oplus (kxyd \oplus xydd)
    BY <2>1, <2>2, <2>3, <2>4, <2>5
  <2> HIDE DEF xydd
  <2>7. (kk \oplus kyxd) \oplus (kxyd \oplus xydd) = (kk \oplus kxyd) \oplus (kyxd \oplus xydd)
    BY SMT DEF \oplus
  <2> QED  BY <2>6, <2>7
<1>3. /\ GfMul(x, my) \in Block /\ GfMul(GfMul(x, my), d) = kyxd \oplus xydd
  <2>1. GfMul(x, my) = GfMul(x, ky) \oplus GfMul(x, GfMul(y, d))
    BY <1>1, Product
  <2>2. GfMul(x, GfMul(y, d)) = GfMul(xy, d) /\ GfMul(xy, d) \in Block
    BY <1>1, Product
  <2>3. GfMul(x, ky) \in Block /\ GfMul(GfMul(x, ky), d) = kyxd
    <3>1. GfMul(x, ky) = GfMul(ky, x) /\ GfMul(ky, x) \in Block
      BY Product
    <3> QED  BY <3>1, Product
  <2> HIDE DEF my, xy, kyxd
  <2>4. GfMul(GfMul(x, ky) \oplus GfMul(xy, d), d)
          = GfMul(GfMul(x, ky), d) \oplus GfMul(GfMul(xy, d), d)
    BY <2>2, <2>3, Product
  <2> QED  BY <1>1, <2>1, <2>2, <2>3, <2>4, Product
<1>4. /\ GfMul(y, mx) \in Block /\ GfMul(GfMul(y, mx), d) = kxyd \oplus xydd
  <2>1. GfMul(y, mx) = GfMul(y, kx) \oplus GfMul(y, GfMul(x, d))
    BY <1>1, Product
  <2>2. GfMul(y, GfMul(x, d)) = GfMul(xy, d) /\ GfMul(xy, d) \in Block
    <3>1. GfMul(y, GfMul(x, d)) = GfMul(GfMul(y, x), d) /\ GfMul(y, x) = xy
      BY Product
    <3> QED  BY <1>1, <3>1, Product
  <2>3. GfMul(y, kx) \in Block /\ GfMul(GfMul(y, kx), d) = kxyd
    <3>1. GfMul(y, kx) = GfMul(kx, y) /\ GfMul(kx, y) \in Block
      BY Product
    <3> QED  BY <3>1, Product
  <2> HIDE DEF mx, xy, kxyd
  <2>4. GfMul(GfMul(y, kx) \oplus GfMul(xy, d), d)
          = GfMul(GfMul(y, kx), d) \oplus GfMul(GfMul(xy, d), d)
    BY <2>2, <2>3, Product
  <2> QED  BY <1>1, <2>1, <2>2, <2>3, <2>4, Product
<1>5. GfMul(mz, d) = kzd \oplus zdd
  BY <1>1, Product
<1>6. GfMul(GfMul(z \oplus xy, d), d) = zdd \oplus xydd
  <2>1. GfMul(z \oplus xy, d) = GfMul(z, d) \oplus GfMul(xy, d) /\ GfMul(xy, d) \in Block
    BY <1>1, Product
  <2> QED  BY <1>1, <2>1, Product
<1> HIDE DEF mx, my, mz, kk, kzd, zdd, kxyd, kyxd, xydd, xy
<1>7. (mz \oplus GfMul(x, my)) \oplus GfMul(y, mx) \in Block
  BY <1>1, <1>3, <1>4, BlockType
<1>8. GfMul((mz \oplus GfMul(x, my)) \oplus GfMul(y, mx), d)
        = ((kzd \oplus zdd) \oplus (kyxd \oplus xydd)) \oplus (kxyd \oplus xydd)
  <2>1. mz \oplus GfMul(x, my) \in Block
    BY <1>1, <1>3, BlockType
  <2>2. GfMul((mz \oplus GfMul(x, my)) \oplus GfMul(y, mx), d)
          = GfMul(mz \oplus GfMul(x, my), d) \oplus GfMul(GfMul(y, mx), d)
    BY <1>4, <2>1, Product
  <2>3. GfMul(mz \oplus GfMul(x, my), d) = GfMul(mz, d) \oplus GfMul(GfMul(x, my), d)
    BY <1>1, <1>3, Product
  <2> QED  BY <1>3, <1>4, <1>5, <2>2, <2>3
<1>9. ((kk \oplus kzd) \oplus ((kk \oplus kxyd) \oplus (kyxd \oplus xydd)))
        \oplus (((kzd \oplus zdd) \oplus (kyxd \oplus xydd)) \oplus (kxyd \oplus xydd))
      = zdd \oplus xydd
  BY SMT DEF \oplus
<1>10. kk \oplus kzd \in Block /\ GfMul(mx, my) \in Block
  BY <1>1, Product
<1>11. ((kk \oplus kzd) \oplus GfMul(mx, my))
         \oplus GfMul((mz \oplus GfMul(x, my)) \oplus GfMul(y, mx), d)
       = GfMul(GfMul(z \oplus xy, d), d)
  BY <1>2, <1>6, <1>8, <1>9
<1> QED  BY <1>7, <1>10, <1>11 DEF UpdateIdentity, mx, my, mz, kk, kzd, xy

-----------------------------------------------------------------------------
(***************************************************************************)
(* A fresh Prover and Verifier satisfy the equation: the proof's mask is   *)
(* authenticated.                                                          *)
(***************************************************************************)
THEOREM StartAccepted ==
  ASSUME NEW delta \in Block, NEW key \in Block, NEW mask,
         mask.block \in Block, AuthenticBlock(mask.block, mask.mac, key, delta)
  PROVE  Accepts(key, ProverStart(mask), delta)
<1>1. /\ ProverStart(mask).a0 = key \oplus GfMul(mask.block, delta)
      /\ ProverStart(mask).a1 = mask.block
  BY DEF ProverStart, AuthenticBlock
<1>2. key \oplus (key \oplus GfMul(mask.block, delta)) = GfMul(mask.block, delta)
  BY SMT DEF \oplus
<1> QED  BY <1>1, <1>2 DEF Accepts

(***************************************************************************)
(* One update of either keeps the equation if the triple is a product, and *)
(* breaks it otherwise, unless its challenge or the global key is zero: an *)
(* honest list of products is accepted whatever its length, and of a list  *)
(* with one error no later update hides it.                                *)
(***************************************************************************)
THEOREM UpdateDetects ==
  ASSUME NEW delta \in Block, NEW challenge \in Block, NEW b \in Block,
         NEW proof, proof.a0 \in Block, proof.a1 \in Block,
         NEW t, NEW k, HoldsTriple(t, k, delta), Accepts(b, proof, delta)
  PROVE  Accepts(VerifierUpdate(b, challenge, k, delta), ProverUpdate(proof, challenge, t), delta)
           <=> challenge = ZeroBlock \/ delta = ZeroBlock \/ t.z = GfMul(t.x, t.y)
<1> DEFINE tb == GfMul(k.keyX, k.keyY) \oplus GfMul(k.keyZ, delta)
           ta0 == GfMul(t.macX, t.macY)
           ta1 == (t.macZ \oplus GfMul(t.x, t.macY)) \oplus GfMul(t.y, t.macX)
           error == t.z \oplus GfMul(t.x, t.y)
           edd == GfMul(GfMul(error, delta), delta)
<1>1. /\ tb \in Block /\ ta0 \in Block /\ ta1 \in Block
      /\ (tb \oplus ta0) \oplus GfMul(ta1, delta) = edd
  <2>1. /\ t.x \in Block /\ t.y \in Block /\ t.z \in Block
        /\ k.keyX \in Block /\ k.keyY \in Block /\ k.keyZ \in Block
        /\ t.macX = k.keyX \oplus GfMul(t.x, delta) /\ t.macY = k.keyY \oplus GfMul(t.y, delta)
        /\ t.macZ = k.keyZ \oplus GfMul(t.z, delta)
    BY DEF HoldsTriple, AuthenticBlock
  <2>2. UpdateIdentity(t.x, t.y, t.z, k.keyX, k.keyY, k.keyZ, delta)
    BY <2>1, UpdateTerms
  <2> QED  BY <2>1, <2>2 DEF UpdateIdentity
<1>2. error \in Block /\ (error = ZeroBlock <=> t.z = GfMul(t.x, t.y))
  <2>1. t.z \in Block /\ GfMul(t.x, t.y) \in Block
    BY Product DEF HoldsTriple
  <2>2. \A p, q : p \oplus q = ZeroBlock <=> p = q
    BY DEF \oplus, ZeroBlock
  <2> QED  BY <2>1, <2>2, BlockType
<1>3. edd \in Block /\ (edd = ZeroBlock <=> error = ZeroBlock \/ delta = ZeroBlock)
  <2> HIDE DEF error
  <2>1. GfMul(error, delta) \in Block
    BY <1>2, Product
  <2>2. edd \in Block
    BY <2>1, Product
  <2>3. edd = ZeroBlock <=> GfMul(error, delta) = ZeroBlock \/ delta = ZeroBlock
    BY <2>1, NoZeroDivisors
  <2>4. GfMul(error, delta) = ZeroBlock <=> error = ZeroBlock \/ delta = ZeroBlock
    BY <1>2, NoZeroDivisors
  <2> QED  BY <2>2, <2>3, <2>4
<1>4. /\ VerifierUpdate(b, challenge, k, delta) = b \oplus GfMul(challenge, tb)
      /\ ProverUpdate(proof, challenge, t).a0 = proof.a0 \oplus GfMul(challenge, ta0)
      /\ ProverUpdate(proof, challenge, t).a1 = proof.a1 \oplus GfMul(challenge, ta1)
  BY DEF VerifierUpdate, ProverUpdate
<1> HIDE DEF tb, ta0, ta1, error, edd
<1>5. GfMul(proof.a1 \oplus GfMul(challenge, ta1), delta)
        = GfMul(proof.a1, delta) \oplus GfMul(challenge, GfMul(ta1, delta))
  <2>1. GfMul(challenge, ta1) \in Block
    BY <1>1, Product
  <2>2. GfMul(proof.a1 \oplus GfMul(challenge, ta1), delta)
          = GfMul(proof.a1, delta) \oplus GfMul(GfMul(challenge, ta1), delta)
    <3>1. \A p, q, r \in Block : GfMul(p \oplus q, r) = GfMul(p, r) \oplus GfMul(q, r)
      BY Product
    <3> QED  BY <2>1, <3>1
  <2>3. GfMul(challenge, GfMul(ta1, delta)) = GfMul(GfMul(challenge, ta1), delta)
    BY <1>1, Product
  <2> QED  BY <2>2, <2>3
<1>6. GfMul(challenge, edd)
        = (GfMul(challenge, tb) \oplus GfMul(challenge, ta0))
            \oplus GfMul(challenge, GfMul(ta1, delta))
  <2>1. GfMul(ta1, delta) \in Block /\ tb \oplus ta0 \in Block
    BY <1>1, Product
  <2>2. GfMul(challenge, (tb \oplus ta0) \oplus GfMul(ta1, delta))
          = GfMul(challenge, tb \oplus ta0) \oplus GfMul(challenge, GfMul(ta1, delta))
    <3>1. \A p, q, r \in Block : GfMul(r, p \oplus q) = GfMul(r, p) \oplus GfMul(r, q)
      BY Product
    <3> QED  BY <2>1, <3>1
  <2>3. GfMul(challenge, tb \oplus ta0) = GfMul(challenge, tb) \oplus GfMul(challenge, ta0)
    BY <1>1, Product
  <2> QED  BY <1>1, <2>2, <2>3
<1>7. b \oplus proof.a0 = GfMul(proof.a1, delta)
  BY DEF Accepts
<1>8. Accepts(VerifierUpdate(b, challenge, k, delta), ProverUpdate(proof, challenge, t), delta)
        <=> GfMul(challenge, edd) = ZeroBlock
  <2>1. \A p, q, r, s, u, v :
          p \oplus q = r => ((p \oplus s) \oplus (q \oplus u) = r \oplus v
                             <=> (s \oplus u) \oplus v = ZeroBlock)
    <3> SUFFICES ASSUME NEW p, NEW q, NEW r, NEW s, NEW u, NEW v, p \oplus q = r
                 PROVE  (p \oplus s) \oplus (q \oplus u) = r \oplus v
                          <=> (s \oplus u) \oplus v = ZeroBlock
      OBVIOUS
    <3>1. (p \oplus s) \oplus (q \oplus u) = (p \oplus q) \oplus (s \oplus u)
      BY SMT DEF \oplus
    <3>2. (p \oplus q) \oplus (s \oplus u) = (p \oplus q) \oplus v <=> s \oplus u = v
      BY SMT DEF \oplus
    <3>3. s \oplus u = v <=> (s \oplus u) \oplus v = ZeroBlock
      BY SMT DEF \oplus, ZeroBlock
    <3> QED  BY <3>1, <3>2, <3>3
  <2> QED  BY <1>4, <1>5, <1>6, <1>7, <2>1 DEF Accepts
<1>9. GfMul(challenge, edd) = ZeroBlock <=> challenge = ZeroBlock \/ edd = ZeroBlock
  BY <1>3, NoZeroDivisors
<1> QED  BY <1>2, <1>3, <1>8, <1>9
-----------------------------------------------------------------------------
(***************************************************************************)
(* The proof of a list, as the protocols make it: S are the positions, and *)
(* a position holds a triple if the prover's and verifier's entries do.    *)
(***************************************************************************)
HoldsAt(s, challenge, p, z, v, delta) ==
  /\ {challenge[s], p.x[s], p.y[s], z[s], v.keyX[s], v.keyY[s], v.keyZ[s]} \subseteq Block
  /\ AuthenticBlock(p.x[s], p.macX[s], v.keyX[s], delta)
  /\ AuthenticBlock(p.y[s], p.macY[s], v.keyY[s], delta)
  /\ AuthenticBlock(z[s], p.macZ[s], v.keyZ[s], delta)

(* By how much the triple at s is not a product. *)
ErrorAt(s, p, z) == z[s] \oplus GfMul(p.x[s], p.y[s])

(* A sum of products with a fixed factor. *)
LEMMA SumTimes ==
  ASSUME NEW S, IsFiniteSet(S), NEW c \in Block, NEW f, NEW g,
         \A s \in S : f[s] \in Block /\ g[s] = GfMul(f[s], c)
  PROVE  XorOver(S, g) = GfMul(XorOver(S, f), c)
<1> DEFINE h == [x \in Block |-> GfMul(x, c)]
<1>1. h \in [Block -> Block] /\ \A x, y \in Block : h[x \oplus y] = h[x] \oplus h[y]
  BY Product
<1>2. \A s \in S : f[s] \in Block /\ g[s] = h[f[s]]
  OBVIOUS
<1>3. XorOver(S, f) \in Block /\ \A x \in Block : h[x] = GfMul(x, c)
  BY BlockType
<1> HIDE DEF h
<1>4. XorOver(S, g) = h[XorOver(S, f)]
  BY <1>1, <1>2, XorOverLinear DEF Linear
<1> QED  BY <1>3, <1>4

(***************************************************************************)
(* The verifier accepts a list exactly when the challenges' combination of *)
(* the triples' errors is zero, or the global key is.                      *)
(***************************************************************************)
THEOREM ListDetects ==
  ASSUME NEW S, IsFiniteSet(S), NEW delta \in Block, NEW maskKey \in Block,
         NEW mask, mask.block \in Block, AuthenticBlock(mask.block, mask.mac, maskKey, delta),
         NEW challenge, NEW p, NEW z, NEW v,
         \A s \in S : HoldsAt(s, challenge, p, z, v, delta)
  PROVE  Accepts(B(S, challenge, v, maskKey, delta),
                 [a0 |-> A0(S, challenge, p, mask), a1 |-> A1(S, challenge, p, mask)], delta)
           <=> \/ delta = ZeroBlock
               \/ InnerProduct(S, challenge, [s \in S |-> ErrorAt(s, p, z)]) = ZeroBlock
<1> DEFINE tb(s) == GfMul(v.keyX[s], v.keyY[s]) \oplus GfMul(v.keyZ[s], delta)
           ta0(s) == GfMul(p.macX[s], p.macY[s])
           ta1(s) == p.macZ[s] \oplus (GfMul(p.x[s], p.macY[s]) \oplus GfMul(p.y[s], p.macX[s]))
           fb == [s \in S |-> GfMul(challenge[s], tb(s))]
           f0 == [s \in S |-> GfMul(challenge[s], ta0(s))]
           f1 == [s \in S |-> GfMul(challenge[s], ta1(s))]
           f1d == [s \in S |-> GfMul(f1[s], delta)]
           fe == [s \in S |-> GfMul(challenge[s], ErrorAt(s, p, z))]
           fed == [s \in S |-> GfMul(fe[s], delta)]
           fedd == [s \in S |-> GfMul(fed[s], delta)]
<1>1. ASSUME NEW s \in S
      PROVE  /\ challenge[s] \in Block /\ tb(s) \in Block /\ ta0(s) \in Block /\ ta1(s) \in Block
             /\ ErrorAt(s, p, z) \in Block
             /\ (tb(s) \oplus ta0(s)) \oplus GfMul(ta1(s), delta)
                  = GfMul(GfMul(ErrorAt(s, p, z), delta), delta)
  <2>1. /\ challenge[s] \in Block /\ p.x[s] \in Block /\ p.y[s] \in Block /\ z[s] \in Block
        /\ v.keyX[s] \in Block /\ v.keyY[s] \in Block /\ v.keyZ[s] \in Block
        /\ p.macX[s] = v.keyX[s] \oplus GfMul(p.x[s], delta)
        /\ p.macY[s] = v.keyY[s] \oplus GfMul(p.y[s], delta)
        /\ p.macZ[s] = v.keyZ[s] \oplus GfMul(z[s], delta)
    BY DEF HoldsAt, AuthenticBlock
  <2>2. UpdateIdentity(p.x[s], p.y[s], z[s], v.keyX[s], v.keyY[s], v.keyZ[s], delta)
    BY <2>1, UpdateTerms
  <2>3. (p.macZ[s] \oplus GfMul(p.x[s], p.macY[s])) \oplus GfMul(p.y[s], p.macX[s]) = ta1(s)
    BY XorAlgebra
  <2>4. ErrorAt(s, p, z) \in Block
    BY <2>1, Product DEF ErrorAt
  <2> QED  BY <2>1, <2>2, <2>3, <2>4 DEF UpdateIdentity, ErrorAt
<1> HIDE DEF tb, ta0, ta1
<1>2. ASSUME NEW s \in S
      PROVE  /\ f1[s] \in Block /\ fe[s] \in Block /\ fed[s] \in Block /\ fedd[s] \in Block
             /\ fb[s] \oplus f0[s] = f1d[s] \oplus fedd[s]
  <2> DEFINE c == challenge[s]
             b == tb(s)
             a0 == ta0(s)
             a1 == ta1(s)
             e == ErrorAt(s, p, z)
  <2>1. /\ c \in Block /\ b \in Block /\ a0 \in Block /\ a1 \in Block /\ e \in Block
        /\ (b \oplus a0) \oplus GfMul(a1, delta) = GfMul(GfMul(e, delta), delta)
    BY <1>1
  <2>2. /\ fb[s] = GfMul(c, b) /\ f0[s] = GfMul(c, a0) /\ f1[s] = GfMul(c, a1)
        /\ fe[s] = GfMul(c, e) /\ f1d[s] = GfMul(GfMul(c, a1), delta)
        /\ fed[s] = GfMul(GfMul(c, e), delta)
        /\ fedd[s] = GfMul(GfMul(GfMul(c, e), delta), delta)
    OBVIOUS
  <2> HIDE DEF c, b, a0, a1, e, fb, f0, f1, f1d, fe, fed, fedd
  <2>3. /\ GfMul(a1, delta) \in Block /\ GfMul(e, delta) \in Block /\ b \oplus a0 \in Block
        /\ GfMul(c, b) \in Block /\ GfMul(c, a0) \in Block /\ GfMul(c, a1) \in Block
        /\ GfMul(c, e) \in Block
    BY <2>1, Product
  <2>4. /\ GfMul(GfMul(c, e), delta) = GfMul(c, GfMul(e, delta))
        /\ GfMul(GfMul(c, a1), delta) = GfMul(c, GfMul(a1, delta))
        /\ GfMul(c, b \oplus a0) = GfMul(c, b) \oplus GfMul(c, a0)
    BY <2>1, <2>3, Product
  <2>5. /\ GfMul(GfMul(c, GfMul(e, delta)), delta) = GfMul(c, GfMul(GfMul(e, delta), delta))
        /\ GfMul(c, GfMul(e, delta)) \in Block
        /\ GfMul(GfMul(c, GfMul(e, delta)), delta) \in Block
    <3>1. \A q, r, t \in Block :
            GfMul(q, r) \in Block /\ GfMul(q, GfMul(r, t)) = GfMul(GfMul(q, r), t)
      BY Product
    <3> DEFINE ed == GfMul(e, delta)
    <3>2. ed \in Block
      BY <2>3
    <3> HIDE DEF ed
    <3>3. GfMul(GfMul(c, ed), delta) = GfMul(c, GfMul(ed, delta)) /\ GfMul(c, ed) \in Block
      BY <2>1, <3>1, <3>2
    <3>4. GfMul(GfMul(c, ed), delta) \in Block
      BY <3>1, <3>3
    <3> QED  BY <3>3, <3>4 DEF ed
  <2>6. GfMul(c, (b \oplus a0) \oplus GfMul(a1, delta))
          = GfMul(c, b \oplus a0) \oplus GfMul(c, GfMul(a1, delta))
    BY <2>1, <2>3, Product
  <2>7. GfMul(c, GfMul(GfMul(e, delta), delta))
          = (GfMul(c, b) \oplus GfMul(c, a0)) \oplus GfMul(c, GfMul(a1, delta))
    BY <2>1, <2>4, <2>6, Zenon
  <2>8. fedd[s] = (fb[s] \oplus f0[s]) \oplus f1d[s]
    BY <2>2, <2>4, <2>5, <2>7, Zenon
  <2>9. \A q, r, t : q = r \oplus t => r = t \oplus q
    BY SMT DEF \oplus
  <2>10. fb[s] \oplus f0[s] = f1d[s] \oplus fedd[s]
    BY <2>8, <2>9
  <2> QED  BY <2>2, <2>3, <2>4, <2>5, <2>10
<1>3. /\ B(S, challenge, v, maskKey, delta) = maskKey \oplus XorOver(S, fb)
      /\ A0(S, challenge, p, mask) = mask.mac \oplus XorOver(S, f0)
      /\ A1(S, challenge, p, mask) = mask.block \oplus XorOver(S, f1)
      /\ InnerProduct(S, challenge, [s \in S |-> ErrorAt(s, p, z)]) = XorOver(S, fe)
  <2>1. fb = [s \in S |-> GfMul(challenge[s], [t \in S |-> tb(t)][s])]
    OBVIOUS
  <2>2. f0 = [s \in S |-> GfMul(challenge[s], [t \in S |-> ta0(t)][s])]
    OBVIOUS
  <2>3. f1 = [s \in S |-> GfMul(challenge[s], [t \in S |-> ta1(t)][s])]
    OBVIOUS
  <2>4. fe = [s \in S |-> GfMul(challenge[s], [t \in S |-> ErrorAt(t, p, z)][s])]
    OBVIOUS
  <2>5. B(S, challenge, v, maskKey, delta) = maskKey \oplus XorOver(S, fb)
    BY <2>1, Zenon DEF B, InnerProduct, tb
  <2>6. A0(S, challenge, p, mask) = mask.mac \oplus XorOver(S, f0)
    BY <2>2, Zenon DEF A0, InnerProduct, ta0
  <2>7. A1(S, challenge, p, mask) = mask.block \oplus XorOver(S, f1)
    BY <2>3, Zenon DEF A1, InnerProduct, ta1
  <2>8. InnerProduct(S, challenge, [s \in S |-> ErrorAt(s, p, z)]) = XorOver(S, fe)
    BY <2>4, Zenon DEF InnerProduct
  <2> QED  BY <2>5, <2>6, <2>7, <2>8
<1>4. \A s \in S : f1d[s] = GfMul(f1[s], delta) /\ fed[s] = GfMul(fe[s], delta)
                  /\ fedd[s] = GfMul(fed[s], delta)
  OBVIOUS
<1> HIDE DEF fb, f0, f1, f1d, fe, fed, fedd
<1>5. XorOver(S, f1d) = GfMul(XorOver(S, f1), delta)
  BY <1>2, <1>4, SumTimes
<1>6. XorOver(S, fedd) = GfMul(GfMul(XorOver(S, fe), delta), delta)
  <2>1. XorOver(S, fed) = GfMul(XorOver(S, fe), delta)
    BY <1>2, <1>4, SumTimes
  <2>2. XorOver(S, fedd) = GfMul(XorOver(S, fed), delta)
    BY <1>2, <1>4, SumTimes
  <2> QED  BY <2>1, <2>2
<1>7. XorOver(S, fb) \oplus XorOver(S, f0) = XorOver(S, f1d) \oplus XorOver(S, fedd)
  <2> DEFINE left == [s \in S |-> fb[s] \oplus f0[s]]
  <2>1. \A s \in S : left[s] = fb[s] \oplus f0[s] /\ left[s] = f1d[s] \oplus fedd[s]
    BY <1>2
  <2> HIDE DEF left
  <2>2. XorOver(S, left) = XorOver(S, fb) \oplus XorOver(S, f0)
    BY <2>1, XorOverSum
  <2>3. XorOver(S, left) = XorOver(S, f1d) \oplus XorOver(S, fedd)
    BY <2>1, XorOverSum
  <2> QED  BY <2>2, <2>3
<1> DEFINE xb == XorOver(S, fb)
           x0 == XorOver(S, f0)
           x1 == XorOver(S, f1)
           xe == XorOver(S, fe)
<1>8. x1 \in Block /\ xe \in Block
  BY BlockType
<1> HIDE DEF xb, x0, x1, xe
<1>9. GfMul(mask.block \oplus x1, delta) = GfMul(mask.block, delta) \oplus GfMul(x1, delta)
  <2>1. \A q, r, t \in Block : GfMul(q \oplus r, t) = GfMul(q, t) \oplus GfMul(r, t)
    BY Product
  <2> QED  BY <1>8, <2>1
<1>10. mask.mac = maskKey \oplus GfMul(mask.block, delta)
  BY DEF AuthenticBlock
<1>11. xb \oplus x0 = GfMul(x1, delta) \oplus GfMul(GfMul(xe, delta), delta)
  BY <1>5, <1>6, <1>7, Zenon DEF xb, x0, x1, xe
<1>12. Accepts(B(S, challenge, v, maskKey, delta),
               [a0 |-> A0(S, challenge, p, mask), a1 |-> A1(S, challenge, p, mask)], delta)
         <=> (maskKey \oplus xb) \oplus (mask.mac \oplus x0) = GfMul(mask.block \oplus x1, delta)
  BY <1>3 DEF Accepts, xb, x0, x1
<1>13. (maskKey \oplus xb) \oplus (mask.mac \oplus x0) = GfMul(mask.block \oplus x1, delta)
         <=> GfMul(GfMul(xe, delta), delta) = ZeroBlock
  <2>1. \A k, b, a, m, d, e :
          b \oplus a = d \oplus e =>
            ((k \oplus b) \oplus ((k \oplus m) \oplus a) = m \oplus d <=> e = ZeroBlock)
    <3> SUFFICES ASSUME NEW k, NEW b, NEW a, NEW m, NEW d, NEW e, b \oplus a = d \oplus e
                 PROVE  (k \oplus b) \oplus ((k \oplus m) \oplus a) = m \oplus d <=> e = ZeroBlock
      OBVIOUS
    <3>1. (k \oplus b) \oplus ((k \oplus m) \oplus a) = m \oplus (b \oplus a)
      BY SMT DEF \oplus
    <3>2. m \oplus (d \oplus e) = m \oplus d <=> e = ZeroBlock
      BY SMT DEF \oplus, ZeroBlock
    <3> QED  BY <3>1, <3>2
  <2> QED  BY <1>9, <1>10, <1>11, <2>1
<1>14. GfMul(GfMul(xe, delta), delta) = ZeroBlock <=> delta = ZeroBlock \/ xe = ZeroBlock
  <2>1. GfMul(xe, delta) \in Block
    BY <1>8, Product
  <2> QED  BY <1>8, <2>1, NoZeroDivisors
<1> QED  BY <1>3, <1>12, <1>13, <1>14 DEF xe

(***************************************************************************)
(* A list of products is accepted, whatever the challenges.                *)
(***************************************************************************)
LEMMA ListAccepted ==
  ASSUME NEW S, IsFiniteSet(S), NEW delta \in Block, NEW maskKey \in Block,
         NEW mask, mask.block \in Block, AuthenticBlock(mask.block, mask.mac, maskKey, delta),
         NEW challenge, NEW p, NEW z, NEW v,
         \A s \in S : HoldsAt(s, challenge, p, z, v, delta) /\ z[s] = GfMul(p.x[s], p.y[s])
  PROVE  Accepts(B(S, challenge, v, maskKey, delta),
                 [a0 |-> A0(S, challenge, p, mask), a1 |-> A1(S, challenge, p, mask)], delta)
<1> DEFINE e == [s \in S |-> ErrorAt(s, p, z)]
           f == [s \in S |-> GfMul(challenge[s], e[s])]
<1>1. ASSUME NEW s \in S PROVE f[s] = ZeroBlock
  <2>1. e[s] = ZeroBlock /\ challenge[s] \in Block
    BY XorAlgebra DEF ErrorAt, HoldsAt
  <2> HIDE DEF e
  <2>2. GfMul(challenge[s], ZeroBlock) = ZeroBlock
    BY <2>1, BlockType, NoZeroDivisors
  <2> QED  BY <2>1, <2>2
<1>2. XorOver(S, f) = ZeroBlock
  <2> HIDE DEF f
  <2> QED  BY <1>1, XorOverZero
<1>3. InnerProduct(S, challenge, e) = ZeroBlock
  BY <1>2 DEF InnerProduct
<1> QED  BY <1>3, ListDetects

(***************************************************************************)
(* Authenticated blocks made of bit OTs.                                   *)
(***************************************************************************)

(* Where element i of row d is in a flattened vector. *)
LEMMA Position ==
  ASSUME NEW n \in Nat, NEW rows \in Nat, NEW d \in 0 .. rows - 1, NEW i \in 0 .. n - 1
  PROVE  /\ d * n + i \in 0 .. rows * n - 1
         /\ (d * n + i) \div n = d /\ (d * n + i) % n = i
<1>1. d * n \in Nat /\ rows * n \in Nat /\ d * n + n <= rows * n
  <2>1. d + 1 <= rows
    OBVIOUS
  <2>2. d * n + n = (d + 1) * n
    OBVIOUS
  <2>3. (d + 1) * n <= rows * n
    BY <2>1
  <2>4. d * n \in Nat /\ rows * n \in Nat
    OBVIOUS
  <2> QED  BY <2>2, <2>3, <2>4
<1>2. d * n + i \in 0 .. rows * n - 1
  BY <1>1
<1>3. (d * n + i) \div n = d /\ (d * n + i) % n = i
  OBVIOUS
<1> QED  BY <1>2, <1>3

LEMMA UptoSize ==
  ASSUME NEW n \in Nat
  PROVE  IsFiniteSet(Upto(n)) /\ Cardinality(Upto(n)) = n
<1>1. IsFiniteSet(0 .. n - 1) /\ Cardinality(0 .. n - 1) = IF 0 > n - 1 THEN 0 ELSE n - 1 - 0 + 1
  BY FS_Interval
<1> QED  BY <1>1 DEF Upto

(* The bits of a block are numbered without gaps. *)
BitsNumbered == IsFiniteSet(BlockBits) /\ BlockBits = Upto(Width)

LEMMA WidthType ==
  ASSUME BitsNumbered
  PROVE  Width \in Nat /\ 1 <= Width /\ IsFiniteSet(Upto(Width))
<1>1. Width \in Nat
  BY FS_CardinalityType DEF BitsNumbered, Width
<1>2. 0 \in 0 .. Width - 1
  BY BlockBitsAssumption DEF BitsNumbered, Upto
<1> QED  BY <1>1, <1>2 DEF BitsNumbered

(* A block is the sum of the powers of X it has, so that polyval gives a   *)
(* product with it.                                                        *)
LEMMA PolyvalOfBits ==
  ASSUME BitsNumbered, NEW block \in Block, NEW delta \in Block, NEW h,
         \A k \in Upto(Width) : h[k] = GfMul({k}, AndAllBits(k \in block, delta))
  PROVE  XorOver(Upto(Width), h) = GfMul(block, delta)
<1> DEFINE W == Upto(Width)
           times == [x \in Block |-> GfMul(x, delta)]
           unit == [k \in W |-> AndAllBits(k \in block, {k})]
<1>1. IsFiniteSet(W) /\ W = BlockBits
  BY WidthType DEF BitsNumbered
<1>2. Linear(times)
  <2>1. times \in [Block -> Block]
    BY Product
  <2>2. ASSUME NEW x \in Block, NEW y \in Block
        PROVE  times[x \oplus y] = times[x] \oplus times[y]
    <3>1. GfMul(x \oplus y, delta) = GfMul(x, delta) \oplus GfMul(y, delta)
      BY Product
    <3> QED  BY <3>1, BlockType
  <2> HIDE DEF times
  <2> QED  BY <2>1, <2>2 DEF Linear
<1>3. ASSUME NEW k \in W
      PROVE  unit[k] \in Block /\ h[k] = times[unit[k]]
  <2>1. {k} \in Block /\ ZeroBlock \in Block
    BY <1>1, BlockType DEF Block
  <2>2. GfMul({k}, ZeroBlock) = ZeroBlock /\ GfMul(ZeroBlock, delta) = ZeroBlock
    BY <2>1, NoZeroDivisors
  <2>3. CASE k \in block
    BY <2>1, <2>3 DEF AndAllBits
  <2>4. CASE k \notin block
    BY <2>1, <2>2, <2>4 DEF AndAllBits
  <2> QED  BY <2>3, <2>4
<1>4. XorOver(W, unit) = block
  <2>1. ASSUME NEW p \in W
        PROVE  Odd({s \in W : p \in unit[s]}) <=> p \in block
    <3>1. CASE p \in block
      <4>1. {s \in W : p \in unit[s]} = {} \cup {p}
        BY <3>1 DEF AndAllBits, ZeroBlock
      <4> QED  BY <3>1, <4>1, OddEmpty, OddAdd, FS_EmptySet
    <3>2. CASE p \notin block
      <4>1. {s \in W : p \in unit[s]} = {}
        BY <3>2 DEF AndAllBits, ZeroBlock
      <4> HIDE DEF unit
      <4> QED  BY <3>2, <4>1, OddEmpty
    <3> QED  BY <3>1, <3>2
  <2>2. XorOver(W, unit) = {p \in W : Odd({s \in W : p \in unit[s]})}
    BY <1>1, Zenon DEF XorOver, Odd
  <2> HIDE DEF unit, W
  <2> QED  BY <1>1, <2>1, <2>2 DEF Block
<1> HIDE DEF W, times, unit
<1>5. XorOver(W, h) = times[XorOver(W, unit)]
  BY <1>1, <1>2, <1>3, XorOverLinear
<1> QED  BY <1>4, <1>5 DEF times, W

(* The MAC of a block packed from those of its bits. *)
LEMMA PolyvalMac ==
  ASSUME BitsNumbered, NEW block \in Block, NEW delta \in Block,
         NEW macs, NEW keys, NEW at \in Nat,
         \A k \in Upto(Width) : /\ keys[at + k] \in Block
                                /\ Authentic(k \in block, macs[at + k], keys[at + k], delta)
  PROVE  Polyval(macs, at) = Polyval(keys, at) \oplus GfMul(block, delta)
<1> DEFINE W == Upto(Width)
           f == [k \in W |-> GfMul({k}, macs[at + k])]
           g == [k \in W |-> GfMul({k}, keys[at + k])]
           h == [k \in W |-> GfMul({k}, AndAllBits(k \in block, delta))]
<1>1. ASSUME NEW k \in W
      PROVE  f[k] = g[k] \oplus h[k]
  <2> DEFINE bit == AndAllBits(k \in block, delta)
             key == keys[at + k]
  <2>1. {k} \in Block /\ bit \in Block /\ key \in Block
    BY BlockType DEF BitsNumbered, Block
  <2>2. macs[at + k] = key \oplus bit
    BY DEF Authentic
  <2> HIDE DEF bit, key
  <2>3. GfMul({k}, key \oplus bit) = GfMul({k}, key) \oplus GfMul({k}, bit)
    BY <2>1, Product
  <2> QED  BY <2>2, <2>3 DEF bit, key
<1>2. IsFiniteSet(W)
  BY WidthType
<1>3. XorOver(W, h) = GfMul(block, delta)
  BY PolyvalOfBits
<1>4. Polyval(macs, at) = XorOver(W, f) /\ Polyval(keys, at) = XorOver(W, g)
  BY DEF Polyval
<1> HIDE DEF W, f, g, h
<1>5. XorOver(W, f) = XorOver(W, g) \oplus XorOver(W, h)
  BY <1>1, <1>2, XorOverSum
<1> QED  BY <1>3, <1>4, <1>5

(***************************************************************************)
(* An authenticated block is an OT of a block: the OT of its bits on both  *)
(* sides, `Fix' and the packing of both leave, for each global key and     *)
(* block, a MAC that is the local key plus the product of block and global *)
(* key, at the place where spans and extract_by_global_key look; and the   *)
(* bits are those of the blocks.  This is what AuthedBits takes for one    *)
(* step, for every number of keys and blocks and every width.              *)
(***************************************************************************)
THEOREM PackedBlocksRight ==
  ASSUME BitsNumbered, NEW rows \in Nat \ {0}, NEW n \in Nat,
         NEW deltas \in [Upto(rows) -> Block], NEW blocks \in [Upto(n) -> Block],
         NEW len, len = n * Width,
         NEW k1 \in [Upto(rows * len) -> Block], NEW choices \in [Upto(len) -> BOOLEAN],
         NEW wanted, wanted = BlocksToBits(blocks),
         NEW diff, diff = [j \in Upto(len) |-> choices[j] # wanted[j]],
         NEW macs,
         macs = Chosen(k1, SecondMessages(k1, deltas, len), RepeatedChoices(choices, rows)),
         NEW keys, keys = MovedKeys(k1, deltas, diff)
  PROVE  /\ BitsToBlocks(wanted) = blocks
         /\ \A d \in Upto(rows) : \A i \in Upto(n) :
              SpanAt(MacChunks(macs, len, rows, n), n, d, 0, i) =
                ExtractByGlobalKey(KeyChunks(keys, deltas), n, d)[i] \oplus GfMul(blocks[i], deltas[d])
<1> USE DEF Upto
<1>1. Width \in Nat /\ 1 <= Width /\ len \in Nat
  BY WidthType
<1>2. Size(choices) = len /\ Size(diff) = len /\ Size(deltas) = rows /\ Size(blocks) = n
  BY <1>1, UptoSize DEF Size
<1>3. rows * len \in Nat
  BY <1>1
<1>4. ASSUME NEW i \in Upto(n), NEW k \in Upto(Width)
      PROVE  i * Width + k \in Upto(len) /\ wanted[i * Width + k] = (k \in blocks[i])
  <2>1. /\ i * Width + k \in 0 .. len - 1
        /\ (i * Width + k) \div Width = i /\ (i * Width + k) % Width = k
    BY <1>1, Position, ZenonT(40)
  <2>2. Width * Size(blocks) = len
    BY <1>1, <1>2
  <2>3. wanted = [p \in Upto(len) |-> p % Width \in blocks[p \div Width]]
    BY <2>2 DEF BlocksToBits
  <2> QED  BY <2>1, <2>3
<1>5. BitsToBlocks(wanted) = blocks
  <2>1. Size(wanted) = len /\ len \div Width = n
    <3>1. Width * Size(blocks) = len
      BY <1>1, <1>2
    <3>2. DOMAIN wanted = Upto(len)
      BY <3>1 DEF BlocksToBits
    <3>3. len \div Width = n
      BY <1>1
    <3> QED  BY <1>1, <3>2, <3>3, UptoSize DEF Size
  <2>2. BitsToBlocks(wanted) = [b \in Upto(n) |-> {k \in Upto(Width) : wanted[b * Width + k]}]
    BY <2>1 DEF BitsToBlocks
  <2>3. ASSUME NEW b \in Upto(n)
        PROVE  {k \in Upto(Width) : wanted[b * Width + k]} = blocks[b]
    <3>1. blocks[b] \subseteq Upto(Width)
      BY DEF BitsNumbered, Block
    <3> QED  BY <1>4, <3>1
  <2> QED  BY <2>2, <2>3
<1>6. ASSUME NEW d \in Upto(rows), NEW i \in Upto(n), NEW k \in Upto(Width)
      PROVE  LET q == (d * len + i * Width) + k
             IN  keys[q] \in Block /\ Authentic(k \in blocks[i], macs[q], keys[q], deltas[d])
  <2> DEFINE j == i * Width + k
             q == d * len + j
             bit == k \in blocks[i]
  <2>1. j \in 0 .. len - 1 /\ wanted[j] = bit /\ bit \in BOOLEAN /\ choices[j] \in BOOLEAN
    BY <1>4
  <2>9. j \in Int /\ (d * len + i * Width) + k = q
    BY <1>1
  <2> HIDE DEF j, bit
  <2>2. q \in 0 .. rows * len - 1 /\ q \div len = d /\ q % len = j
    BY <1>1, <2>1, Position, ZenonT(40)
  <2> HIDE DEF q
  <2>3. k1[q] \in Block /\ deltas[d] \in Block
    BY <2>2
  <2>4. keys[q] = k1[q] \oplus AndAllBits(choices[j] # bit, deltas[d])
    <3>1. diff[j] = (choices[j] # bit)
      BY <2>1
    <3> QED  BY <1>2, <2>2, <3>1 DEF MovedKeys
  <2>5. macs[q] = k1[q] \oplus AndAllBits(choices[j], deltas[d])
    <3>1. RepeatedChoices(choices, rows)[q] = choices[j]
      BY <1>2, <2>2 DEF RepeatedChoices
    <3>2. SecondMessages(k1, deltas, len)[q] = k1[q] \oplus deltas[d]
      BY <2>2 DEF SecondMessages
    <3>3. macs[q] = IF choices[j] THEN k1[q] \oplus deltas[d] ELSE k1[q]
      BY <2>2, <3>1, <3>2 DEF Chosen
    <3> QED  BY <3>3, XorAlgebra DEF AndAllBits
  <2>6. AndAllBits(choices[j] # bit, deltas[d])
          = AndAllBits(choices[j], deltas[d]) \oplus AndAllBits(bit, deltas[d])
    BY <2>1, AndAllBitsXor
  <2>7. Authentic(bit, macs[q], keys[q], deltas[d])
    <3> DEFINE a == AndAllBits(choices[j], deltas[d])
               b == AndAllBits(bit, deltas[d])
    <3>1. keys[q] = k1[q] \oplus (a \oplus b) /\ macs[q] = k1[q] \oplus a
      BY <2>4, <2>5, <2>6
    <3> HIDE DEF a, b
    <3>2. (k1[q] \oplus (a \oplus b)) \oplus b = k1[q] \oplus a
      BY SMT DEF \oplus
    <3>3. macs[q] = keys[q] \oplus b
      BY <3>1, <3>2
    <3> QED  BY <3>3 DEF Authentic, b
  <2>8. keys[q] \in Block
    BY <2>3, <2>4, BlockType
  <2> QED  BY <2>7, <2>8, <2>9 DEF bit
<1>7. Size(keys) \div Size(deltas) = len /\ len \div Width = n
  <2>1. DOMAIN keys = Upto(rows * len)
    BY DEF MovedKeys
  <2>2. Size(keys) = rows * len
    BY <1>3, <2>1, UptoSize DEF Size
  <2>3. (rows * len) \div rows = len /\ len \div Width = n
    BY <1>1
  <2> QED  BY <1>2, <2>2, <2>3
<1>8. ASSUME NEW d \in Upto(rows), NEW i \in Upto(n)
      PROVE  /\ SpanAt(MacChunks(macs, len, rows, n), n, d, 0, i) = Polyval(macs, d * len + i * Width)
             /\ ExtractByGlobalKey(KeyChunks(keys, deltas), n, d)[i]
                  = Polyval(keys, d * len + i * Width)
  <2> DEFINE p == d * n + i
  <2>1. p \in Upto(rows * n) /\ p \div n = d /\ p % n = i /\ d * n + 0 + i = p
    <3>1. p \in Upto(rows * n) /\ p \div n = d /\ p % n = i
      BY Position, ZenonT(40)
    <3>2. d * n \in Int
      OBVIOUS
    <3> QED  BY <3>1, <3>2
  <2> HIDE DEF p
  <2>2. MacChunks(macs, len, rows, n)[p] = Polyval(macs, d * len + i * Width)
    BY <2>1 DEF MacChunks
  <2>3. KeyChunks(keys, deltas)[p] = Polyval(keys, d * len + i * Width)
    <3>1. KeyChunks(keys, deltas) =
            [r \in Upto(rows * n) |-> Polyval(keys, (r \div n) * len + (r % n) * Width)]
      BY <1>2, <1>7, Zenon DEF KeyChunks
    <3> QED  BY <2>1, <3>1
  <2> QED  BY <2>1, <2>2, <2>3 DEF SpanAt, ExtractByGlobalKey, p
<1>9. ASSUME NEW d \in Upto(rows), NEW i \in Upto(n)
      PROVE  Polyval(macs, d * len + i * Width)
               = Polyval(keys, d * len + i * Width) \oplus GfMul(blocks[i], deltas[d])
  <2> DEFINE at == d * len + i * Width
             block == blocks[i]
             delta == deltas[d]
  <2>1. at \in Nat /\ block \in Block /\ delta \in Block
    <3>1. d * len \in Nat /\ i * Width \in Nat
      BY <1>1
    <3> QED  BY <3>1
  <2>2. \A k \in Upto(Width) : /\ keys[at + k] \in Block
                               /\ Authentic(k \in block, macs[at + k], keys[at + k], delta)
    BY <1>6
  <2> HIDE DEF at, block, delta, Upto
  <2>3. Polyval(macs, at) = Polyval(keys, at) \oplus GfMul(block, delta)
    BY <2>1, <2>2, PolyvalMac
  <2> QED  BY <2>3 DEF at, block, delta
<1> QED  BY <1>5, <1>8, <1>9, ZenonT(40)

(***************************************************************************)
(* inverse_value_and_mac: with the inverses of its keys alone the holder   *)
(* of the keys makes the MACs values and the values their MACs, if         *)
(* gf_inverse gives inverses.                                              *)
(***************************************************************************)
THEOREM ValuesExchanged ==
  ASSUME NEW rows \in Nat \ {0}, NEW n \in Nat,
         NEW deltas \in [Upto(rows) -> Block], NEW blocks \in [Upto(n) -> Block],
         NEW keys \in [Upto(rows * n) -> Block], NEW macs,
         \A d \in Upto(rows) : /\ InverseChain(deltas[d]) \in Block
                               /\ GfMul(deltas[d], InverseChain(deltas[d])) = One,
         \A d \in Upto(rows) : \A i \in Upto(n) :
           SpanAt(macs, n, d, 0, i) = SpanAt(keys, n, d, 0, i) \oplus GfMul(blocks[i], deltas[d]),
         NEW inverse, inverse = InverseKeys(keys, deltas)
  PROVE  \A d \in Upto(rows) : \A i \in Upto(n) :
           blocks[i] = SpanAt(inverse.localKeys, n, d, 0, i)
                         \oplus GfMul(SpanAt(macs, n, d, 0, i), inverse.globalKeys[d])
<1> USE DEF Upto
<1>1. Size(keys) \div Size(deltas) = n
  <2>1. rows * n \in Nat /\ (rows * n) \div rows = n
    OBVIOUS
  <2> QED  BY <2>1, UptoSize DEF Size
<1>2. /\ inverse.globalKeys = [d \in Upto(rows) |-> InverseChain(deltas[d])]
      /\ inverse.localKeys = [p \in Upto(rows * n) |->
                                GfMul(keys[p], inverse.globalKeys[p \div n])]
  BY <1>1 DEF InverseKeys
<1> TAKE d \in Upto(rows)
<1> TAKE i \in Upto(n)
<1> DEFINE p == d * n + 0 + i
           key == keys[p]
           block == blocks[i]
           delta == deltas[d]
           inv == InverseChain(delta)
<1>3. p \in Upto(rows * n) /\ p \div n = d
  <2>1. d * n + i \in Upto(rows * n) /\ (d * n + i) \div n = d
    BY Position
  <2>2. d * n \in Int
    OBVIOUS
  <2> QED  BY <2>1, <2>2
<1>4. /\ SpanAt(inverse.localKeys, n, d, 0, i) = GfMul(key, inv)
      /\ inverse.globalKeys[d] = inv
      /\ SpanAt(macs, n, d, 0, i) = key \oplus GfMul(block, delta)
  <2>1. SpanAt(macs, n, d, 0, i) = SpanAt(keys, n, d, 0, i) \oplus GfMul(block, delta)
    OBVIOUS
  <2>2. SpanAt(keys, n, d, 0, i) = key /\ SpanAt(inverse.localKeys, n, d, 0, i) = inverse.localKeys[p]
    BY DEF SpanAt
  <2>3. inverse.globalKeys[d] = inv
    BY <1>2
  <2>4. inverse.localKeys[p] = GfMul(key, inverse.globalKeys[d])
    <3> HIDE DEF p
    <3> QED  BY <1>2, <1>3
  <2> HIDE DEF p, key, block, delta, inv
  <2> QED  BY <2>1, <2>2, <2>3, <2>4
<1>5. /\ key \in Block /\ block \in Block /\ delta \in Block /\ inv \in Block
      /\ GfMul(delta, inv) = One
  BY <1>3
<1> HIDE DEF p, key, block, delta, inv
<1>6. GfMul(key \oplus GfMul(block, delta), inv) = GfMul(key, inv) \oplus block
  <2>1. GfMul(block, delta) \in Block /\ GfMul(block, GfMul(delta, inv)) = GfMul(GfMul(block, delta), inv)
    BY <1>5, Product
  <2>2. GfMul(block, One) = block
    <3>1. One \in Block
      BY BlockBitsAssumption DEF One, Block
    <3> QED  BY <1>5, <3>1, OneAssumption, Product
  <2>3. GfMul(key \oplus GfMul(block, delta), inv)
          = GfMul(key, inv) \oplus GfMul(GfMul(block, delta), inv)
    BY <1>5, <2>1, Product
  <2> QED  BY <1>5, <2>1, <2>2, <2>3
<1>7. GfMul(key, inv) \oplus (GfMul(key, inv) \oplus block) = block
  BY SMT DEF \oplus
<1> QED  BY <1>4, <1>6, <1>7 DEF block
=============================================================================
