----------------------------- MODULE Preprocess -----------------------------
(***************************************************************************)
(* The two preprocess functions up to their consistency checks             *)
(* (preprocess.cpp, preprocess.hpp).  From correlated OTs the parties make *)
(* a share of a mask for every wire and a share of a triple for every AND  *)
(* gate, each share authenticated under the other party's global key.  The *)
(* evaluator's masks are a compressed vector bStar times a public matrix,  *)
(* and the products of the garbler's and the evaluator's masks come from   *)
(* MACs that are themselves authenticated ("dual key").                    *)
(***************************************************************************)
EXTENDS Parties, AuthedShares

CONSTANT CompressParam(_)       \* calc_compression_parameter

circuit == setup.circuit
deltaA == setup.deltaA
deltaB == setup.deltaB

(* evaluatorIndependentWireSize, compressParam and independentWireSize. *)
EvaluatorWires(c) == AndGateSize(c) + c.inputSize1
rows == EvaluatorWires(circuit)
L == CompressParam(rows)

ASSUME SetupsAssumption ==
  \A s \in Setups :
    /\ WellFormed(s.circuit) /\ Parsed(s.circuit) /\ LegalKeys(s)
    /\ CompressParam(EvaluatorWires(s.circuit)) \in Nat \ {0}

(* The names of the vectors drawn at random, and how long they are: one    *)
(* element per column of the matrix, or one per independent wire or less.  *)
RandomVectors ==
  {"bStar", "dualBStar", "dualBStarChoices", "aMatrix", "tmpDelta", "tmpDeltaChoices",
   "tmpDeltaValue", "triple", "tmpDelta5", "tmpDelta5Choices", "evaluatorAnded",
   "garblerAnded", "beaverTriple"}

(* Random bits are bits, random blocks and the OT's local keys are blocks. *)
ASSUME RandomValuesAssumption ==
  \A s \in Setups :
    LET columns == CompressParam(EvaluatorWires(s.circuit))
        positions == Below(columns) \cup Below(IndependentSize(s.circuit))
    IN  /\ \A r \in Below(EvaluatorWires(s.circuit)), l \in Below(columns) :
             RandomBit(s.seed, "matrix", r * columns + l) \in BOOLEAN
        /\ \A name \in RandomVectors, i \in positions :
             /\ RandomBit(s.seed, name, i) \in BOOLEAN
             /\ \A d \in 0 .. columns : RandomBlock(s.seed, name, d, i) \in Block

(* The global keys of the evaluator's two OT senders: sid1 has the MACs of *)
(* dualAuthedBStar and then the evaluator's key, sid2 beta0 and the key.   *)
Sid1(macs) == [d \in 0 .. L |-> IF d = L THEN deltaB ELSE macs[d]]
Sid2 == [d \in {0, 1} |-> IF d = 0 THEN setup.beta0 ELSE deltaB]

GarblerObjects ==
  {"matrix", "bStarKeys", "bKeys", "dualAuthedBStar", "a", "aMacs",
   "tmpDelta", "tmpDeltaMacs", "tmpDeltaMacs5", "triple", "tripleMacs",
   "populated", "evaluatorAndedKeys", "anded", "andedMacs", "sums", "tripleKeys"}

EvaluatorObjects ==
  {"matrix", "bStar", "bStarMacs", "b", "bMacs", "dualMacs", "aKeys",
   "tmpDeltaKeys", "tmpDeltaKeys5", "tripleKeys", "populated", "anded",
   "andedMacs", "garblerAndedKeys", "sums", "triple", "tripleMacs"}

Init ==
  /\ setup \in Setups
  /\ gpc = "matrix" /\ epc = "matrix"
  /\ gb = Unconstructed(GarblerObjects)
  /\ ev = Unconstructed(EvaluatorObjects)
  /\ toG = <<>> /\ toE = <<>>

-----------------------------------------------------------------------------
(***************************************************************************)
(* The compression matrix, of which nothing is sent when it has no rows,   *)
(* then step 2: bStar, authenticated under deltaA, and the evaluator's     *)
(* masks b = matrix * bStar.                                               *)
(***************************************************************************)
SendMatrix ==
  LET m == [r \in Below(rows) |-> [l \in Below(L) |-> RandomBit(setup.seed, "matrix", r * L + l)]]
  IN  /\ EvaluatorStep("matrix", "bStar")
      /\ ev' = [ev EXCEPT !.matrix = m]
      /\ IF rows = 0 THEN Quiet ELSE SendG(m)

(* Mutant: the garbler waits for a matrix without rows. *)
RecvMatrixAlways ==
  /\ GarblerStep("matrix", "bStar")
  /\ ReadG
  /\ gb' = [gb EXCEPT !.matrix = Head(toG)]

RecvMatrix ==
  /\ GarblerStep("matrix", "bStar")
  /\ \/ rows = 0 /\ Quiet /\ gb' = [gb EXCEPT !.matrix = <<>>]
     \/ rows # 0 /\ ReadG /\ gb' = [gb EXCEPT !.matrix = Head(toG)]

BStar ==
  LET deltas == Only(deltaA)
      keys == RandomKeys("bStar", deltas, L)
      bits == RandomBits("bStar", L)
      macs == BitMacs(keys, deltas, bits)
  IN  /\ Together("bStar", "dualBStar", "bStar", "dualBStar")
      /\ gb' = [gb EXCEPT !.bStarKeys = keys[0], !.bKeys = TimesBlocks(gb.matrix, keys[0])]
      /\ ev' = [ev EXCEPT !.bStar = bits, !.bStarMacs = macs[0],
                          !.b = TimesBits(ev.matrix, bits),
                          !.bMacs = TimesBlocks(ev.matrix, macs[0])]
      /\ UNCHANGED <<toG, toE>>

(***************************************************************************)
(* Step 3: the evaluator authenticates bStar * deltaB under deltaA.        *)
(***************************************************************************)
DualBStar ==
  LET deltas == Only(deltaA)
      keys == RandomKeys("dualBStar", deltas, L)
      choices == RandomBlocks("dualBStarChoices", L)
      bStarDeltaB == [l \in Below(L) |-> AndAllBits(ev.bStar[l], deltaB)]
  IN  /\ Together("dualBStar", "dualBStarDiff", "dualBStar", "aMatrix")
      /\ gb' = [gb EXCEPT !.dualAuthedBStar = keys[0]]
      /\ ev' = [ev EXCEPT !.dualMacs = BlockMacs(keys, deltas, choices)[0]]
      /\ toG' = <<BlockDiff(choices, bStarDeltaB)>>
      /\ UNCHANGED toE

(* Mutant: the difference is read and not applied. *)
DualBStarDiffDropped ==
  /\ GarblerStep("dualBStarDiff", "aMatrix")
  /\ ReadG
  /\ UNCHANGED gb

DualBStarDiff ==
  /\ GarblerStep("dualBStarDiff", "aMatrix")
  /\ ReadG
  /\ gb' = [gb EXCEPT !.dualAuthedBStar =
              FixedBlockKeys(Only(@), Only(deltaA), Head(toG))[0]]

(***************************************************************************)
(* Step 4: the garbler's masks a under the L dual keys and deltaB, and a   *)
(* random tmpDelta under the same keys.                                    *)
(***************************************************************************)
AMatrix ==
  LET deltas == Sid1(ev.dualMacs)
      keys == RandomKeys("aMatrix", deltas, IndependentSize(circuit))
      bits == RandomBits("aMatrix", IndependentSize(circuit))
  IN  /\ Together("aMatrix", "tmpDelta", "aMatrix", "tmpDelta")
      /\ gb' = [gb EXCEPT !.a = bits, !.aMacs = BitMacs(keys, deltas, bits)]
      /\ ev' = [ev EXCEPT !.aKeys = keys]
      /\ UNCHANGED <<toG, toE>>

TmpDelta ==
  LET deltas == Sid1(ev.dualMacs)
      keys == RandomKeys("tmpDelta", deltas, 1)
      choices == RandomBlocks("tmpDeltaChoices", 1)
      value == RandomBlocks("tmpDeltaValue", 1)
  IN  /\ Together("tmpDelta", "triple", "tmpDelta", "tmpDeltaDiff")
      /\ gb' = [gb EXCEPT !.tmpDelta = value[0],
                          !.tmpDeltaMacs = BlockMacs(keys, deltas, choices)]
      /\ ev' = [ev EXCEPT !.tmpDeltaKeys = keys]
      /\ toE' = <<BlockDiff(choices, value)>>
      /\ UNCHANGED toG

TmpDeltaDiff ==
  /\ EvaluatorStep("tmpDeltaDiff", "triple")
  /\ ReadE
  /\ ev' = [ev EXCEPT !.tmpDeltaKeys = FixedBlockKeys(@, Sid1(ev.dualMacs), Head(toE))]

(***************************************************************************)
(* Step 5: the garbler's random triple shares, and tmpDelta once more,     *)
(* under beta0 and deltaB.                                                 *)
(***************************************************************************)
(* Mutant: a triple share for every wire of the evaluator's, not every gate. *)
TripleSharesPerWire ==
  LET keys == RandomKeys("triple", Sid2, rows)
      bits == RandomBits("triple", rows)
  IN  /\ Together("triple", "tmpDelta5", "triple", "tmpDelta5")
      /\ gb' = [gb EXCEPT !.triple = bits, !.tripleMacs = BitMacs(keys, Sid2, bits)]
      /\ ev' = [ev EXCEPT !.tripleKeys = keys]
      /\ UNCHANGED <<toG, toE>>

TripleShares ==
  LET keys == RandomKeys("triple", Sid2, AndGateSize(circuit))
      bits == RandomBits("triple", AndGateSize(circuit))
  IN  /\ Together("triple", "tmpDelta5", "triple", "tmpDelta5")
      /\ gb' = [gb EXCEPT !.triple = bits, !.tripleMacs = BitMacs(keys, Sid2, bits)]
      /\ ev' = [ev EXCEPT !.tripleKeys = keys]
      /\ UNCHANGED <<toG, toE>>

TmpDelta5 ==
  LET keys == RandomKeys("tmpDelta5", Sid2, 1)
      choices == RandomBlocks("tmpDelta5Choices", 1)
  IN  /\ Together("tmpDelta5", "populate", "tmpDelta5", "tmpDelta5Diff")
      /\ gb' = [gb EXCEPT !.tmpDeltaMacs5 = BlockMacs(keys, Sid2, choices)]
      /\ ev' = [ev EXCEPT !.tmpDeltaKeys5 = keys]
      /\ toE' = <<BlockDiff(choices, Only(gb.tmpDelta))>>
      /\ UNCHANGED toG

TmpDelta5Diff ==
  /\ EvaluatorStep("tmpDelta5Diff", "populate")
  /\ ReadE
  /\ ev' = [ev EXCEPT !.tmpDeltaKeys5 = FixedBlockKeys(@, Sid2, Head(toE))]

(***************************************************************************)
(* Step 6: masks, MACs and keys of every wire, gate by gate from those of  *)
(* the independent wires.                                                  *)
(***************************************************************************)
PopulateGate(g, independent, p) ==
  [masks |-> [p.masks EXCEPT ![g.out] =
     CASE g.type = "NOT" -> p.masks[g.in0]
       [] g.type = "AND" -> independent.masks[g.out]
       [] g.type = "XOR" -> p.masks[g.in0] # p.masks[g.in1]],
   macs |-> [p.macs EXCEPT ![g.out] =
     CASE g.type = "NOT" -> p.macs[g.in0]
       [] g.type = "AND" -> independent.macs[g.out]
       [] g.type = "XOR" -> p.macs[g.in0] \oplus p.macs[g.in1]],
   keys |-> [p.keys EXCEPT ![g.out] =
     CASE g.type = "NOT" -> p.keys[g.in0]
       [] g.type = "AND" -> independent.keys[g.out]
       [] g.type = "XOR" -> p.keys[g.in0] \oplus p.keys[g.in1]]]

PopulateWires(c, independent) ==
  LET inputs == [masks |-> [w \in Wires(c) |-> w \in InputWires(c) /\ independent.masks[w]],
                 macs |-> [w \in Wires(c) |->
                   IF w \in InputWires(c) THEN independent.macs[w] ELSE ZeroBlock],
                 keys |-> [w \in Wires(c) |->
                   IF w \in InputWires(c) THEN independent.keys[w] ELSE ZeroBlock]]
      after[i \in 0 .. GateSize(c)] ==
        IF i = 0 THEN inputs ELSE PopulateGate(c.gates[i], independent, after[i - 1])
  IN  after[GateSize(c)]

(* Place of an independent wire in a and in b; b has no garbler inputs, so *)
(* that an element of it is zero there.                                    *)
AIndex(w) == IndependentIndex(circuit, w)
BIndex(w) == IndependentIndex(circuit, w) - circuit.inputSize0

OrZero(w, b) == IF w \in GarblerInputs(circuit) THEN ZeroBlock ELSE b[BIndex(w)]

PopulateGarbler ==
  /\ GarblerStep("populate", "evaluatorAnded")
  /\ gb' = [gb EXCEPT !.populated = PopulateWires(circuit,
       [masks |-> [w \in Independent(circuit) |-> gb.a[AIndex(w)]],
        macs |-> [w \in Independent(circuit) |-> gb.aMacs[L][AIndex(w)]],
        keys |-> [w \in Independent(circuit) |-> OrZero(w, gb.bKeys)]])]
  /\ UNCHANGED <<toG, toE>>

PopulateEvaluator ==
  /\ EvaluatorStep("populate", "evaluatorAnded")
  /\ ev' = [ev EXCEPT !.populated = PopulateWires(circuit,
       [masks |-> [w \in Independent(circuit) |->
                     w \notin GarblerInputs(circuit) /\ ev.b[BIndex(w)]],
        macs |-> [w \in Independent(circuit) |-> OrZero(w, ev.bMacs)],
        keys |-> [w \in Independent(circuit) |-> ev.aKeys[L][AIndex(w)]]])]
  /\ UNCHANGED <<toG, toE>>

(***************************************************************************)
(* Step 7: each party authenticates, per AND gate, the product of its own  *)
(* two mask shares.  populate_wires collects the products that are 1 in a  *)
(* SparseBitMatrix, a map from the pair of input wires to the gate's       *)
(* index: of several AND gates with the same pair only the last keeps its  *)
(* entry.                                                                  *)
(***************************************************************************)
SamePair(g, h) == g.in0 = h.in0 /\ g.in1 = h.in1

AndedMasks(c, masks) ==
  [k \in AndIndices(c) |->
     LET i == AndGateAt(c, k)
         g == c.gates[i]
     IN  /\ masks[g.in0] /\ masks[g.in1]
         /\ \A j \in AndGates(c) : j > i => ~SamePair(c.gates[j], g)]

EvaluatorAnded ==
  LET n == AndGateSize(circuit)
      keys == RandomKeys("evaluatorAnded", Only(deltaA), n)
      choices == RandomBits("evaluatorAnded", n)
      bits == AndedMasks(circuit, ev.populated.masks)
  IN  /\ Together("evaluatorAnded", "evaluatorAndedDiff", "evaluatorAnded", "anded")
      /\ ev' = [ev EXCEPT !.anded = bits,
                          !.andedMacs = BitMacs(keys, Only(deltaA), choices)[0]]
      /\ gb' = [gb EXCEPT !.evaluatorAndedKeys = keys[0]]
      /\ toG' = <<BitDiff(choices, bits)>>
      /\ UNCHANGED toE

EvaluatorAndedDiff ==
  /\ GarblerStep("evaluatorAndedDiff", "anded")
  /\ ReadG
  /\ gb' = [gb EXCEPT !.evaluatorAndedKeys =
              FixedBitKeys(Only(@), Only(deltaA), Head(toG))[0]]

GarblerAnded ==
  LET n == AndGateSize(circuit)
      keys == RandomKeys("garblerAnded", Sid2, n)
      choices == RandomBits("garblerAnded", n)
      bits == AndedMasks(circuit, gb.populated.masks)
  IN  /\ Together("anded", "sums", "anded", "andedDiff")
      /\ gb' = [gb EXCEPT !.anded = bits, !.andedMacs = BitMacs(keys, Sid2, choices)]
      /\ ev' = [ev EXCEPT !.garblerAndedKeys = keys]
      /\ toE' = <<BitDiff(choices, bits)>>
      /\ UNCHANGED toG

GarblerAndedDiff ==
  /\ EvaluatorStep("andedDiff", "sums")
  /\ ReadE
  /\ ev' = [ev EXCEPT !.garblerAndedKeys = FixedBitKeys(@, Sid2, Head(toE))]

(***************************************************************************)
(* Step 8: shares of the product of the garbler's mask of wire a and the   *)
(* evaluator's mask of wire b, for independent wires.  The LSB of the      *)
(* parties' cells differs exactly when the product is 1.                   *)
(***************************************************************************)
CompressedRow(matrix, vectors, a, b) ==
  XorOver({l \in Below(L) : matrix[BIndex(b)][l]}, [l \in Below(L) |-> vectors[l][AIndex(a)]])

(* Mutant: the mask of the row's wire in the place of the column's. *)
FromCacheGSwapped(a, b) ==
  IF b \in GarblerInputs(circuit) THEN ZeroBlock
  ELSE CompressedRow(gb.matrix, gb.aMacs, a, b)
         \oplus AndAllBits(gb.a[AIndex(b)],
                           TimesBlocks(gb.matrix, gb.dualAuthedBStar)[BIndex(b)])

FromCacheG(a, b) ==
  IF b \in GarblerInputs(circuit) THEN ZeroBlock
  ELSE CompressedRow(gb.matrix, gb.aMacs, a, b)
         \oplus AndAllBits(gb.a[AIndex(a)],
                           TimesBlocks(gb.matrix, gb.dualAuthedBStar)[BIndex(b)])

FromCacheE(a, b) ==
  IF b \in GarblerInputs(circuit) THEN ZeroBlock ELSE CompressedRow(ev.matrix, ev.aKeys, a, b)

(* operator(): the same for any two wires, over their source lists. *)
SourcePairs(in0, in1) == circuit.sources[in0].list \X circuit.sources[in1].list

AbG(in0, in1) ==
  XorOver(SourcePairs(in0, in1), [p \in SourcePairs(in0, in1) |-> FromCacheG(p[1], p[2])])

AbE(in0, in1) ==
  XorOver(SourcePairs(in0, in1), [p \in SourcePairs(in0, in1) |-> FromCacheE(p[1], p[2])])

(***************************************************************************)
(* Step 9: the sums, whose LSBs the garbler sends and from which the       *)
(* evaluator takes its triple shares.                                      *)
(***************************************************************************)
(* Mutant: without the garbler's share of the product of the global keys. *)
SumGWithoutAlpha0(k) ==
  LET g == circuit.gates[AndGateAt(circuit, k)]
  IN  (gb.andedMacs[0][k] \oplus gb.tripleMacs[0][k])
        \oplus (AbG(g.in0, g.in1) \oplus AbG(g.in1, g.in0))

SumG(k) ==
  LET g == circuit.gates[AndGateAt(circuit, k)]
  IN  ((gb.andedMacs[0][k] \oplus gb.tripleMacs[0][k])
         \oplus AndAllBits(gb.anded[k] # gb.triple[k], setup.alpha0))
        \oplus (AbG(g.in0, g.in1) \oplus AbG(g.in1, g.in0))

SumE(k) ==
  LET g == circuit.gates[AndGateAt(circuit, k)]
  IN  (ev.garblerAndedKeys[0][k] \oplus ev.tripleKeys[0][k])
        \oplus (AbE(g.in0, g.in1) \oplus AbE(g.in1, g.in0))

GarblerSums ==
  LET sums == [k \in AndIndices(circuit) |-> SumG(k)]
  IN  /\ GarblerStep("sums", "beaverTriple")
      /\ gb' = [gb EXCEPT !.sums = sums]
      /\ toE' = Append(toE, [k \in AndIndices(circuit) |-> GetLSB(sums[k])])
      /\ UNCHANGED toG

EvaluatorSums ==
  /\ EvaluatorStep("sums", "lsb")
  /\ ev' = [ev EXCEPT !.sums = [k \in AndIndices(circuit) |-> SumE(k)]]
  /\ UNCHANGED <<toG, toE>>

(* Mutant: without beaverTripleShare ^= authedAndedMasks. *)
RecvLsbWithoutAnded ==
  /\ EvaluatorStep("lsb", "beaverTriple")
  /\ ReadE
  /\ ev' = [ev EXCEPT !.triple =
       [k \in AndIndices(circuit) |-> Head(toE)[k] # GetLSB(ev.sums[k])]]

RecvLsb ==
  /\ EvaluatorStep("lsb", "beaverTriple")
  /\ ReadE
  /\ ev' = [ev EXCEPT !.triple =
       [k \in AndIndices(circuit) |-> (Head(toE)[k] # GetLSB(ev.sums[k])) # ev.anded[k]]]

(* Step 10: the evaluator authenticates its triple shares. *)
BeaverTriple ==
  LET n == AndGateSize(circuit)
      keys == RandomKeys("beaverTriple", Only(deltaA), n)
      choices == RandomBits("beaverTriple", n)
  IN  /\ Together("beaverTriple", "beaverTripleDiff", "beaverTriple", "check")
      /\ gb' = [gb EXCEPT !.tripleKeys = keys[0]]
      /\ ev' = [ev EXCEPT !.tripleMacs = BitMacs(keys, Only(deltaA), choices)[0]]
      /\ toG' = <<BitDiff(choices, ev.triple)>>
      /\ UNCHANGED toE

BeaverTripleDiff ==
  /\ GarblerStep("beaverTripleDiff", "check")
  /\ ReadG
  /\ gb' = [gb EXCEPT !.tripleKeys = FixedBitKeys(Only(@), Only(deltaA), Head(toG))[0]]

(* The values of the two preprocess functions, when their checks pass. *)
Result ==
  [circuit |-> circuit,
   g |-> [masks |-> gb.populated.masks, macs |-> gb.populated.macs,
          keys |-> gb.populated.keys, triple |-> gb.triple,
          tripleMacs |-> gb.tripleMacs[1], tripleKeys |-> gb.tripleKeys,
          delta |-> deltaA],
   e |-> [masks |-> ev.populated.masks, macs |-> ev.populated.macs,
          keys |-> ev.populated.keys, triple |-> ev.triple,
          tripleMacs |-> ev.tripleMacs, tripleKeys |-> ev.tripleKeys[1],
          delta |-> deltaB]]

-----------------------------------------------------------------------------
Correlated ==
  \/ BStar \/ DualBStar \/ AMatrix \/ TmpDelta \/ TripleShares \/ TmpDelta5
  \/ EvaluatorAnded \/ GarblerAnded \/ BeaverTriple

Garbler ==
  \/ RecvMatrix \/ DualBStarDiff \/ PopulateGarbler \/ EvaluatorAndedDiff
  \/ GarblerSums \/ BeaverTripleDiff

Evaluator ==
  \/ SendMatrix \/ TmpDeltaDiff \/ TmpDelta5Diff \/ PopulateEvaluator
  \/ GarblerAndedDiff \/ EvaluatorSums \/ RecvLsb

Prepared == gpc = "check" /\ epc = "check"

Next == Correlated \/ Garbler \/ Evaluator \/ (Prepared /\ UNCHANGED vars)

(* Two live processes and their OT: each keeps running. *)
Fairness == WF_vars(Correlated) /\ WF_vars(Garbler) /\ WF_vars(Evaluator)

Spec == Init /\ [][Next]_vars /\ Fairness

-----------------------------------------------------------------------------
(* Type invariant: the parties are at places of their functions, and every *)
(* object is unset or has the shape of its constructor: a vector of bits,  *)
(* of blocks, or of blocks for each of several global keys.                *)
GarblerPhases ==
  {"matrix", "bStar", "dualBStar", "dualBStarDiff", "aMatrix", "tmpDelta", "triple",
   "tmpDelta5", "populate", "evaluatorAnded", "evaluatorAndedDiff", "anded", "sums",
   "beaverTriple", "beaverTripleDiff", "check"}

EvaluatorPhases ==
  {"matrix", "bStar", "dualBStar", "aMatrix", "tmpDelta", "tmpDeltaDiff", "triple",
   "tmpDelta5", "tmpDelta5Diff", "populate", "evaluatorAnded", "anded", "andedDiff", "sums",
   "lsb", "beaverTriple", "check"}

BitVector(v, n) == v = Unset \/ v \in [Below(n) -> BOOLEAN]
BlockVector(v, n) == v = Unset \/ v \in [Below(n) -> Block]
BlockTable(v, deltas, n) == v = Unset \/ v \in [deltas -> [Below(n) -> Block]]
BitMatrix(v) == v = Unset \/ v \in [Below(rows) -> [Below(L) -> BOOLEAN]]
WireShares(v) ==
  v = Unset \/ v \in [masks : [Wires(circuit) -> BOOLEAN], macs : [Wires(circuit) -> Block],
                      keys : [Wires(circuit) -> Block]]

TypeOK ==
  LET ands == AndGateSize(circuit)
      all == IndependentSize(circuit)
  IN  /\ setup \in Setups
      /\ gpc \in GarblerPhases /\ epc \in EvaluatorPhases
      /\ DOMAIN gb = GarblerObjects /\ DOMAIN ev = EvaluatorObjects
      /\ BitMatrix(gb.matrix) /\ BitMatrix(ev.matrix)
      /\ BitVector(gb.a, all) /\ BitVector(gb.triple, ands) /\ BitVector(gb.anded, ands)
      /\ BitVector(ev.bStar, L) /\ BitVector(ev.b, rows) /\ BitVector(ev.anded, ands)
      /\ BitVector(ev.triple, ands)
      /\ \A v \in {gb.bStarKeys, gb.dualAuthedBStar, ev.bStarMacs, ev.dualMacs} : BlockVector(v, L)
      /\ BlockVector(gb.bKeys, rows) /\ BlockVector(ev.bMacs, rows)
      /\ \A v \in {gb.evaluatorAndedKeys, gb.sums, gb.tripleKeys, ev.andedMacs, ev.sums,
                   ev.tripleMacs} : BlockVector(v, ands)
      /\ gb.tmpDelta = Unset \/ gb.tmpDelta \in Block
      /\ \A v \in {gb.aMacs, ev.aKeys} : BlockTable(v, 0 .. L, all)
      /\ \A v \in {gb.tmpDeltaMacs, ev.tmpDeltaKeys} : BlockTable(v, 0 .. L, 1)
      /\ \A v \in {gb.tmpDeltaMacs5, ev.tmpDeltaKeys5} : BlockTable(v, {0, 1}, 1)
      /\ \A v \in {gb.tripleMacs, ev.tripleKeys, gb.andedMacs, ev.garblerAndedKeys} :
           BlockTable(v, {0, 1}, ands)
      /\ WireShares(gb.populated) /\ WireShares(ev.populated)
      /\ Len(toG) <= 1 /\ Len(toE) <= 2

(***************************************************************************)
(* Whenever no message is on its way, every value that was authenticated   *)
(* has the MAC its owner and its key's owner agree on, under the global    *)
(* key it was made for: random values from the OT on, fixed values as soon *)
(* as the difference was applied, and products with the matrix.            *)
(***************************************************************************)
Both(x, y) == x # Unset /\ y # Unset

BStarAuthentic ==
  Both(gb.bKeys, ev.b) =>
    /\ BitsAuthentic(ev.bStar, Only(ev.bStarMacs), Only(gb.bStarKeys), Only(deltaA))
    /\ BitsAuthentic(ev.b, Only(ev.bMacs), Only(gb.bKeys), Only(deltaA))

DualAuthentic ==
  Both(gb.dualAuthedBStar, ev.dualMacs) =>
    BlocksAuthentic([l \in Below(L) |-> AndAllBits(ev.bStar[l], deltaB)],
                    Only(ev.dualMacs), Only(gb.dualAuthedBStar), Only(deltaA))

AAuthentic ==
  Both(gb.a, ev.aKeys) => BitsAuthentic(gb.a, gb.aMacs, ev.aKeys, Sid1(ev.dualMacs))

TmpDeltaAuthentic ==
  /\ Both(gb.tmpDeltaMacs, ev.tmpDeltaKeys) =>
       BlocksAuthentic(Only(gb.tmpDelta), gb.tmpDeltaMacs, ev.tmpDeltaKeys, Sid1(ev.dualMacs))
  /\ Both(gb.tmpDeltaMacs5, ev.tmpDeltaKeys5) =>
       BlocksAuthentic(Only(gb.tmpDelta), gb.tmpDeltaMacs5, ev.tmpDeltaKeys5, Sid2)

AndedAuthentic ==
  /\ Both(gb.evaluatorAndedKeys, ev.anded) =>
       BitsAuthentic(ev.anded, Only(ev.andedMacs), Only(gb.evaluatorAndedKeys), Only(deltaA))
  /\ Both(gb.anded, ev.garblerAndedKeys) =>
       BitsAuthentic(gb.anded, gb.andedMacs, ev.garblerAndedKeys, Sid2)

TriplesAuthentic ==
  /\ Both(gb.triple, ev.tripleKeys) =>
       BitsAuthentic(gb.triple, gb.tripleMacs, ev.tripleKeys, Sid2)
  /\ Both(gb.tripleKeys, ev.tripleMacs) =>
       BitsAuthentic(ev.triple, Only(ev.tripleMacs), Only(gb.tripleKeys), Only(deltaA))

Authenticated ==
  Drained => /\ BStarAuthentic /\ DualAuthentic /\ AAuthentic /\ TmpDeltaAuthentic
             /\ AndedAuthentic /\ TriplesAuthentic

(***************************************************************************)
(* The cells of DualKeyAuthed_ab_Calculator are shares of the product of   *)
(* the masks times the product of the global keys, for every pair of wires *)
(* of the circuit: what makes their LSBs shares of the product.            *)
(***************************************************************************)
AbShares ==
  Both(gb.populated, ev.populated) =>
    \A in0, in1 \in Wires(circuit) :
      AbG(in0, in1) \oplus AbE(in0, in1) =
        AndAllBits(gb.populated.masks[in0] /\ ev.populated.masks[in1],
                   GfMul(deltaA, deltaB))

(***************************************************************************)
(* authedAndedMasks holds the product of the two input masks of every AND  *)
(* gate: DVZK.hpp asserts it of each triple it is to prove.                *)
(***************************************************************************)
AndedMasksAreProducts ==
  /\ gb.anded # Unset => \A k \in AndIndices(circuit) :
       LET g == circuit.gates[AndGateAt(circuit, k)]
       IN  gb.anded[k] = (gb.populated.masks[g.in0] /\ gb.populated.masks[g.in1])
  /\ ev.anded # Unset => \A k \in AndIndices(circuit) :
       LET g == circuit.gates[AndGateAt(circuit, k)]
       IN  ev.anded[k] = (ev.populated.masks[g.in0] /\ ev.populated.masks[g.in1])

(***************************************************************************)
(* The blocks of step 9, which check_beaver_triple compares as a whole: of *)
(* an AND gate they share the product of the joint masks of its inputs,    *)
(* less the product of the evaluator's own masks and the garbler's triple  *)
(* share, times the product of the global keys.                            *)
(***************************************************************************)
SumsShareProducts ==
  Both(gb.sums, ev.sums) =>
    \A k \in AndIndices(circuit) :
      LET g == circuit.gates[AndGateAt(circuit, k)]
          gm == gb.populated.masks
          em == ev.populated.masks
          product == (gm[g.in0] # em[g.in0]) /\ (gm[g.in1] # em[g.in1])
      IN  gb.sums[k] \oplus ev.sums[k] =
            AndAllBits((product # (em[g.in0] /\ em[g.in1])) # gb.triple[k],
                       GfMul(deltaA, deltaB))

(***************************************************************************)
(* What both functions return is preprocessed data as garbling needs it:   *)
(* authenticated shares that follow the gates, and triples that share the  *)
(* products.  TwoPC starts from data of which this holds.                  *)
(***************************************************************************)
ResultPreprocessed == Prepared => Preprocessed(Result)

(* Preprocessing of two live parties reaches its consistency checks. *)
Termination == <>Prepared
=============================================================================
