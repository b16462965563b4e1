------------------------------- MODULE MCTwoPC -------------------------------
(***************************************************************************)
(* TwoPC on small circuits.  Blocks have three bits; hash and coefficients *)
(* are fixed functions that mix their arguments, multiplication is that of *)
(* GF(8), a field like GF(2^128).  Keys, labels and shares come from seeds,*)
(* so that a setup of every circuit exists for every input and seed.       *)
(***************************************************************************)
EXTENDS TwoPC, MCField, MCCircuits

CONSTANT Seeds

MCH(x, w, t) == Mix(5 * Num(x) + 11 * w + 3 * t + 1)

MCCoeff(seed, k) == Mix(13 * seed + 5 * k + 2)

-----------------------------------------------------------------------------
(* Pseudo-random shares: party 0 is the garbler, 1 the evaluator; tag      *)
(* separates the uses.                                                     *)
Bit(seed, party, tag, w) ==
  ((((seed * seed * 5 + seed * 17 + w * w * 3 + w * 7) % 31) * (2 * tag + 3 + 7 * party)
      + seed + w) % 29) % 2 = 1

Rand(seed, party, tag, w) == Mix(17 * seed + 29 * w + 41 * tag + 53 * party)

(* A value per wire that follows the linear gates: own values on           *)
(* independent wires, op on XOR gates.                                     *)
Spread(c, own, op(_, _)) ==
  LET v[w \in Wires(c)] ==
        IF w \in Independent(c) THEN own[w]
        ELSE LET g == c.gates[CHOOSE i \in GateIndices(c) : c.gates[i].out = w]
             IN  IF g.type = "XOR" THEN op(v[g.in0], v[g.in1]) ELSE v[g.in0]
  IN  v

BitXor(p, q) == p # q

BlockXor(p, q) == p \oplus q

Masks(c, seed, party) ==
  Spread(c, [w \in Independent(c) |->
               IF party = 1 /\ w \in GarblerInputs(c) THEN FALSE
               ELSE Bit(seed, party, 1, w)], BitXor)

Keys(c, seed, party) ==
  Spread(c, [w \in Independent(c) |-> Rand(seed, party, 2, w)], BlockXor)

Delta(seed, party) == Rand(seed, party, 3, 0) \cup (IF party = 0 THEN {0} ELSE {})

TripleKeys(c, seed, party) == [k \in AndIndices(c) |-> Rand(seed, party, 4, k)]

(* The garbler's triple share is random, the evaluator's makes it right. *)
Triple(c, seed, party) ==
  LET mask == [w \in Wires(c) |-> Masks(c, seed, 0)[w] # Masks(c, seed, 1)[w]]
      gate(k) == c.gates[CHOOSE i \in AndGates(c) : AndGateOrder(c, i) = k]
  IN  [k \in AndIndices(c) |->
         IF party = 0 THEN Bit(seed, 0, 5, k)
         ELSE Bit(seed, 0, 5, k) # (mask[gate(k).in0] /\ mask[gate(k).in1])]

Party(c, seed, p) ==
  LET masks == Masks(c, seed, p)
      peerKeys == Keys(c, seed, 1 - p)
      triple == Triple(c, seed, p)
      peerTriple == TripleKeys(c, seed, 1 - p)
      peerDelta == Delta(seed, 1 - p)
  IN  [masks |-> masks, keys |-> Keys(c, seed, p), delta |-> Delta(seed, p),
       macs |-> [w \in Wires(c) |-> peerKeys[w] \oplus AndAllBits(masks[w], peerDelta)],
       triple |-> triple, tripleKeys |-> TripleKeys(c, seed, p),
       tripleMacs |-> [k \in AndIndices(c) |->
                         peerTriple[k] \oplus AndAllBits(triple[k], peerDelta)]]

SetupsOf(c, seed) ==
  {[circuit |-> c, x |-> xs, y |-> ys, g |-> Party(c, seed, 0), e |-> Party(c, seed, 1),
    inputLabels |-> [w \in InputWires(c) |-> Rand(seed, 0, 6, w)]] :
     xs \in [GarblerInputs(c) -> BOOLEAN], ys \in [EvaluatorInputs(c) -> BOOLEAN]}

MCSetups == UNION {SetupsOf(c, seed) : c \in CircuitsUnderTest, seed \in Seeds}
=============================================================================
