----------------------------- MODULE TwoPC_proofs -----------------------------
(***************************************************************************)
(* Proofs about TwoPC, for every well-formed circuit, all inputs, keys,    *)
(* labels and shares that preprocessing may produce, and every hash and    *)
(* block width.                                                            *)
(***************************************************************************)
EXTENDS TwoPC, Common_proofs, SequenceTheorems

(***************************************************************************)
(* The inductive invariant.                                                *)
(***************************************************************************)

(* What garble has produced so far: the equation of every garbled gate.    *)
GateGarbled(i) ==
  LET g == circuit.gates[i]
      k == AndGateOrder(circuit, i)
  IN  /\ g.type = "AND" => /\ tables[k + 1] = <<TableEntry0(g), TableEntry1(g)>>
                           /\ shift[k + 1] = GetLSB(label0[g.out])
                           /\ label0[g.out] = AndLabel0(g, k)
      /\ g.type = "XOR" => label0[g.out] = label0[g.in0] \oplus label0[g.in1]
      /\ g.type = "NOT" => label0[g.out] = label1[g.in0]

Garbled ==
  /\ gpc # "garble" => gateG = GateSize(circuit) + 1
  /\ andG = AndGateOrder(circuit, gateG)
  /\ Len(tables) = andG /\ Len(shift) = andG
  /\ \A i \in 1 .. (gateG - 1) : GateGarbled(i)

SeedKnown == gpc \in {"gk", "done"} => seedG \in Challenges

(* Nothing else than these messages is ever on its way. *)
SentByGarbler ==
  {Msg("tables", tables), Msg("shift", shift),
   Msg("maskedX", MaskedX), Msg("labelsX", LabelsX), Msg("otPads", OtPads),
   Msg("openBits", OpenedBits), Msg("openMacs", OpenedMacs),
   Msg("outputMasks", OutputMasks)}
  \cup {Msg("gk", b) : b \in Block} \cup {Msg("ha", b) : b \in Block}

SentByEvaluator == {Msg("otExtend", {})} \cup {Msg("challenge", seed) : seed \in Challenges}

Streams ==
  /\ gpc = "garble" => toE = <<>> /\ epc = "tables"
  /\ toE \in Seq(SentByGarbler)
  /\ toG \in Seq(SentByEvaluator)

(* What the evaluator took from the stream is what the garbler holds. *)
Received ==
  /\ epc # "tables" => rTables = tables
  /\ epc \notin {"tables", "shift"} => rShift = shift
  /\ epc \notin {"tables", "shift", "maskedX"} =>
       \A w \in GarblerInputs(circuit) : masked[w] = MaskedX[w]
  /\ epc \notin {"tables", "shift", "maskedX", "labelsX"} =>
       \A w \in GarblerInputs(circuit) : labels[w] = LabelFor(masked[w], w)
  /\ epc \notin {"tables", "shift", "maskedX", "labelsX", "otPads"} =>
       \A w \in EvaluatorInputs(circuit) : labels[w] = LabelFor(Choice(w) # G.masks[w], w)
  /\ epc \notin {"tables", "shift", "maskedX", "labelsX", "otPads", "openBits"} =>
       \A w \in EvaluatorInputs(circuit) : masked[w] = (Choice(w) # G.masks[w])

(* Where evaluate stands. *)
Progress ==
  /\ epc \in ReceivingPcs => gateE = 1
  /\ epc \notin ReceivingPcs \cup {"evaluate"} => gateE = GateSize(circuit) + 1
  /\ andE = AndGateOrder(circuit, gateE)
  /\ epc = "check" => challenge \in Challenges

(* The output is decoded from the masked values, and only the GC check can *)
(* still make the evaluator throw.                                         *)
OutputDecoded ==
  epc \in {"challenge", "check", "done", "abort"} => output = OutputOf(circuit, Decoded)

GarblerInv == GarblerTypeOK /\ FreeXor /\ Garbled /\ SeedKnown

EvaluatorInv ==
  /\ EvaluatorTypeOK /\ Received /\ Progress
  /\ LabelMatchesMaskedValue /\ MaskedValueCorrect /\ OutputDecoded

IInv == setup \in Setups /\ GarblerInv /\ EvaluatorInv /\ Streams

-----------------------------------------------------------------------------
(***************************************************************************)
(* Facts about a legal setup and about streams.                            *)
(***************************************************************************)
LEMMA SetupFacts ==
  ASSUME setup \in Setups
  PROVE  /\ WellFormed(circuit)
         /\ ShareShape(circuit, G) /\ ShareShape(circuit, E)
         /\ deltaA \in Block /\ GetLSB(deltaA)
         /\ ShareAuthentic(circuit, G, E) /\ ShareAuthentic(circuit, E, G)
         /\ \A w \in GarblerInputs(circuit) : E.masks[w] = FALSE
         /\ \A i \in GateIndices(circuit) :
              GateShares(circuit.gates[i], G) /\ GateShares(circuit.gates[i], E)
         /\ \A i \in AndGates(circuit) : TripleHolds(setup, i)
         /\ setup.x \in [GarblerInputs(circuit) -> BOOLEAN]
         /\ setup.y \in [EvaluatorInputs(circuit) -> BOOLEAN]
         /\ setup.inputLabels \in [InputWires(circuit) -> Block]
         /\ \A x \in Block, w \in Wires(circuit), t \in {0, 1, 2} : H(x, w, t) \in Block
         /\ \A k \in AndIndices(circuit), seed \in Challenges : Coeff(seed, k) \in Block
<1>1. LegalSetup(setup)
  BY SetupsAssumption
<1>2. ShareShape(circuit, G) => deltaA \in Block
  BY DEF ShareShape, deltaA
<1> QED
  BY <1>1, <1>2, HashAssumption, CoeffAssumption
  DEF LegalSetup, Preprocessed, circuit, G, E, deltaA

(* Sending and receiving keep a stream within the set of its messages. *)
LEMMA StreamOps ==
  ASSUME NEW S, NEW q \in Seq(S)
  PROVE  /\ \A m \in S : Append(q, m) \in Seq(S)
         /\ \A m, n \in S : q \o <<m, n>> \in Seq(S)
         /\ q # <<>> => Head(q) \in S /\ Tail(q) \in Seq(S)
<1>1. \A m, n \in S : <<m, n>> \in Seq(S)
  OBVIOUS
<1> QED  BY <1>1, ConcatProperties, HeadTailProperties, AppendProperties

(* A message is one of those the sender puts on its way, by its kind. *)
LEMMA MessageByKind ==
  /\ \A m \in SentByGarbler :
       /\ m.kind = "tables" => m.val = tables
       /\ m.kind = "shift" => m.val = shift
       /\ m.kind = "maskedX" => m.val = MaskedX
       /\ m.kind = "labelsX" => m.val = LabelsX
       /\ m.kind = "otPads" => m.val = OtPads
       /\ m.kind = "openBits" => m.val = OpenedBits
       /\ m.kind = "openMacs" => m.val = OpenedMacs
       /\ m.kind = "outputMasks" => m.val = OutputMasks
       /\ m.kind = "gk" => m.val \in Block
  /\ \A m \in SentByEvaluator : m.kind = "challenge" => m.val \in Challenges
BY DEF SentByGarbler, SentByEvaluator, Msg

(***************************************************************************)
(* Frames: the garbler's part of the invariant speaks of the garbler's     *)
(* state only, and the evaluator's of its own and of what garble left.     *)
(***************************************************************************)
LEMMA GarblerFrame ==
  ASSUME GarblerInv, UNCHANGED <<setup, garblerVars>>
  PROVE  GarblerInv'
BY DEF GarblerInv, GarblerTypeOK, FreeXor, GarbledWires, Garbled, GateGarbled, TableEntry0,
   TableEntry1, AndLabel0, SeedKnown, garblerVars, garbling, checkingG, circuit, G, deltaA

LEMMA EvaluatorFrame ==
  ASSUME EvaluatorInv, UNCHANGED <<setup, garbling, evaluatorVars>>
  PROVE  EvaluatorInv'
BY DEF EvaluatorInv, EvaluatorTypeOK, Received, Progress, LabelMatchesMaskedValue,
   MaskedValueCorrect, OutputDecoded, EvaluatedWires, Decoded, LabelFor, MaskedX, Choice,
   Input, evaluatorVars, evaluation, checkingE, garbling, circuit, G, E

LEMMA MessagesFrame ==
  ASSUME UNCHANGED <<setup, garbling>>
  PROVE  SentByGarbler' = SentByGarbler /\ SentByEvaluator' = SentByEvaluator
BY DEF SentByGarbler, SentByEvaluator, MaskedX, LabelsX, OtPads, OpenedBits, OpenedMacs,
   OutputMasks, LabelFor, Msg, garbling, circuit, G

(***************************************************************************)
(* Init.                                                                   *)
(***************************************************************************)
LEMMA InitIInv == Init => IInv
<1> SUFFICES ASSUME Init PROVE IInv
  OBVIOUS
<1> USE DEF Init
<1>1. setup \in Setups
  OBVIOUS
<1>2. /\ WellFormed(circuit) /\ deltaA \in Block
      /\ setup.inputLabels \in [InputWires(circuit) -> Block]
  BY <1>1, SetupFacts
<1>3. /\ GateSize(circuit) \in Nat /\ AndGateSize(circuit) \in Nat
      /\ AndGateOrder(circuit, 1) = 0
      /\ TotalInputSize(circuit) \in Nat
      /\ WiresBefore(circuit, 1) = InputWires(circuit)
      /\ InputWires(circuit) \subseteq Wires(circuit)
  <2>1. TotalInputSize(circuit) \in Nat
    BY <1>2 DEF WellFormed, TotalInputSize
  <2> QED  BY <1>2, <2>1, AndGatesFinite, AndGateIter, WiresGrow
<1>4. GarblerTypeOK
  <2>1. label0 \in [Wires(circuit) -> Block] /\ label1 \in [Wires(circuit) -> Block]
    BY <1>2, BlockType
  <2>2. 0 \in 0 .. IndependentSize(circuit)
    BY <1>3 DEF IndependentSize
  <2> QED  BY <1>3, <2>1, <2>2, BlockType DEF GarblerTypeOK, GarblerPcs
<1>5. FreeXor
  BY <1>3 DEF FreeXor, GarbledWires
<1>6. Garbled /\ SeedKnown
  BY <1>3 DEF Garbled, SeedKnown
<1>7. EvaluatorTypeOK
  <2>1. 0 \in 0 .. IndependentSize(circuit)
    BY <1>3 DEF IndependentSize
  <2> QED  BY <1>3, <2>1, BlockType DEF EvaluatorTypeOK, EvaluatorPcs
<1>8. /\ Received /\ Progress /\ LabelMatchesMaskedValue /\ MaskedValueCorrect
      /\ OutputDecoded
  BY <1>3 DEF Received, Progress, LabelMatchesMaskedValue, MaskedValueCorrect,
     EvaluatedWires, ReceivingPcs, OutputDecoded
<1>9. Streams
  BY DEF Streams
<1> QED  BY <1>1, <1>4, <1>5, <1>6, <1>7, <1>8, <1>9 DEF IInv, GarblerInv, EvaluatorInv

(***************************************************************************)
(* garble: the three kinds of gate.                                        *)
(***************************************************************************)

(* What every gate step of garble shares: the wires that already have      *)
(* labels keep them, and with them every garbled gate's equation.          *)
LEMMA GarbledGatesKept ==
  ASSUME setup \in Setups, GarblerInv,
         NEW g, g = circuit.gates[gateG], gateG \in GateIndices(circuit),
         NEW new0, label0' = [label0 EXCEPT ![g.out] = new0],
         NEW new1, label1' = [label1 EXCEPT ![g.out] = new1],
         UNCHANGED setup,
         \A k \in 1 .. andG : tables'[k] = tables[k] /\ shift'[k] = shift[k]
  PROVE  /\ \A w \in GarbledWires : label0'[w] = label0[w] /\ label1'[w] = label1[w]
         /\ label0'[g.out] = new0 /\ label1'[g.out] = new1
         /\ \A i \in 1 .. (gateG - 1) : GateGarbled(i)'
<1>1. WellFormed(circuit)
  BY SetupFacts
<1>2. /\ g.out \in Wires(circuit) /\ g.out \notin GarbledWires
      /\ GarbledWires \subseteq Wires(circuit)
      /\ gateG \in Nat /\ gateG \in 1 .. (GateSize(circuit) + 1)
      /\ GateSize(circuit) \in Nat
  <2>1. GateSize(circuit) \in Nat
    BY <1>1, AndGatesFinite
  <2>2. gateG \in Nat /\ gateG \in 1 .. (GateSize(circuit) + 1)
    BY <2>1 DEF GateIndices
  <2> QED  BY <1>1, <2>1, <2>2, GateWires, WiresGrow DEF GarbledWires
<1>3. /\ \A w \in GarbledWires : label0'[w] = label0[w] /\ label1'[w] = label1[w]
      /\ label0'[g.out] = new0 /\ label1'[g.out] = new1
  BY <1>2 DEF GarblerInv, GarblerTypeOK
<1>4. ASSUME NEW i \in 1 .. (gateG - 1)
      PROVE  GateGarbled(i)'
  <2> DEFINE h == circuit.gates[i]
             k == AndGateOrder(circuit, i)
  <2>1. i \in GateIndices(circuit) /\ i < gateG
    BY <1>2 DEF GateIndices
  <2>2. h.in0 \in WiresBefore(circuit, i) /\ h.out \in GarbledWires
        /\ (h.type # "NOT" => h.in1 \in WiresBefore(circuit, i))
    BY <1>1, <1>2, <2>1, GateWires DEF GarbledWires, WiresBefore
  <2>3. WiresBefore(circuit, i) \subseteq GarbledWires
    BY <1>2, <2>1 DEF GarbledWires, WiresBefore
  <2>4. GateGarbled(i)
    BY DEF GarblerInv, Garbled
  <2>5. h.type = "AND" => k + 1 \in 1 .. andG
    <3>1. ASSUME h.type = "AND" PROVE k + 1 \in 1 .. andG
      <4>1. AndGateOrder(circuit, i + 1) = k + 1
        BY <1>1, <2>1, <3>1, AndGateIter DEF IsAnd
      <4>2. {j \in AndGates(circuit) : j < i + 1} \in SUBSET {j \in AndGates(circuit) : j < gateG}
        BY <1>2, <2>1, AndGatesFinite, <1>1 DEF AndGates, GateIndices
      <4>3. AndGateOrder(circuit, i + 1) <= AndGateOrder(circuit, gateG)
        BY <1>1, <1>2, <4>2, AndGatesFinite, FS_Subset DEF AndGateOrder
      <4>4. k \in Nat /\ andG \in Nat
        <5>1. i \in Nat /\ AndGateSize(circuit) \in Nat
          <6>1. i \in Nat
            BY <1>2
          <6> QED  BY <1>1, <6>1, AndGatesFinite
        <5>2. k \in 0 .. AndGateSize(circuit)
          BY <1>1, <5>1, AndGatesFinite
        <5> QED  BY <5>1, <5>2 DEF GarblerInv, GarblerTypeOK
      <4> QED  BY <4>1, <4>3, <4>4 DEF GarblerInv, Garbled
    <3> QED  BY <3>1
  <2>6. circuit' = circuit /\ G' = G /\ deltaA' = deltaA
    BY DEF circuit, G, deltaA
  <2>7. /\ label0'[h.in0] = label0[h.in0] /\ label1'[h.in0] = label1[h.in0]
        /\ label0'[h.out] = label0[h.out]
        /\ h.type # "NOT" => label0'[h.in1] = label0[h.in1] /\ label1'[h.in1] = label1[h.in1]
    BY <1>3, <2>2, <2>3
  <2>8. h.type = "AND" => tables'[k + 1] = tables[k + 1] /\ shift'[k + 1] = shift[k + 1]
    BY <2>5
  <2>9. CASE h.type = "AND"
    BY <2>4, <2>6, <2>7, <2>8, <2>9 DEF GateGarbled, TableEntry0, TableEntry1, AndLabel0
  <2>10. CASE h.type # "AND"
    BY <2>4, <2>6, <2>7, <2>10 DEF GateGarbled
  <2> QED  BY <2>9, <2>10
<1> QED  BY <1>3, <1>4

LEMMA GarbleNotInv ==
  ASSUME setup \in Setups, GarblerInv, GarbleNot
  PROVE  GarblerInv'
<1> DEFINE g == circuit.gates[gateG]
<1>1. /\ gateG \in GateIndices(circuit) /\ g.type = "NOT" /\ gateG' = gateG + 1
      /\ gpc = "garble" /\ UNCHANGED <<setup, gpc, checkingG, tables, shift, andG>>
      /\ label0' = [label0 EXCEPT ![g.out] = label1[g.in0]]
      /\ label1' = [label1 EXCEPT ![g.out] = label0[g.in0]]
  BY DEF GarbleNot, AtGateG
<1>2. WellFormed(circuit)
  BY SetupFacts
<1>3. /\ g.in0 \in GarbledWires /\ g.in0 \in Wires(circuit)
      /\ gateG \in Nat /\ GateSize(circuit) \in Nat
      /\ WiresBefore(circuit, gateG + 1) = GarbledWires \cup {g.out}
  <2>1. GateSize(circuit) \in Nat
    BY <1>2, AndGatesFinite
  <2>2. gateG \in Nat
    BY <1>1, <2>1 DEF GateIndices
  <2> QED  BY <1>1, <1>2, <2>1, <2>2, GateWires, WiresGrow DEF GarbledWires
<1>4. circuit' = circuit /\ deltaA' = deltaA
  BY <1>1 DEF circuit, deltaA, G
<1>5. /\ \A w \in GarbledWires : label0'[w] = label0[w] /\ label1'[w] = label1[w]
      /\ label0'[g.out] = label1[g.in0] /\ label1'[g.out] = label0[g.in0]
      /\ \A i \in 1 .. (gateG - 1) : GateGarbled(i)'
  BY <1>1, GarbledGatesKept
<1>6. GarblerTypeOK'
  <2>1. label1[g.in0] \in Block /\ label0[g.in0] \in Block
    BY <1>3 DEF GarblerInv, GarblerTypeOK
  <2>2. gateG' \in 1 .. (GateSize(circuit) + 1)
    BY <1>1, <1>3 DEF GateIndices
  <2> QED  BY <1>1, <1>4, <2>1, <2>2 DEF GarblerInv, GarblerTypeOK, checkingG
<1>7. FreeXor'
  <2>1. label1[g.in0] = label0[g.in0] \oplus deltaA
    BY <1>3 DEF GarblerInv, FreeXor
  <2>2. label1'[g.out] = label0'[g.out] \oplus deltaA
    BY <1>5, <2>1, XorAlgebra
  <2>3. GarbledWires' = GarbledWires \cup {g.out}
    BY <1>1, <1>3, <1>4 DEF GarbledWires
  <2> QED  BY <1>4, <1>5, <2>2, <2>3 DEF GarblerInv, FreeXor
<1>8. Garbled'
  <2>1. ASSUME NEW n, n = gateG PROVE GateGarbled(n)'
    BY <1>1, <1>3, <1>4, <1>5, <2>1 DEF GateGarbled
  <2>2. AndGateOrder(circuit, gateG + 1) = AndGateOrder(circuit, gateG)
    BY <1>1, <1>2, AndGateIter DEF IsAnd
  <2>3. \A i \in 1 .. (gateG' - 1) : i \in 1 .. (gateG - 1) \/ i = gateG
    BY <1>1, <1>3
  <2> QED  BY <1>1, <1>4, <1>5, <2>1, <2>2, <2>3 DEF GarblerInv, Garbled
<1>9. SeedKnown'
  BY <1>1 DEF GarblerInv, SeedKnown, checkingG
<1> QED  BY <1>6, <1>7, <1>8, <1>9 DEF GarblerInv

LEMMA GarbleXorInv ==
  ASSUME setup \in Setups, GarblerInv, GarbleXor
  PROVE  GarblerInv'
<1> DEFINE g == circuit.gates[gateG]
           new == label0[g.in0] \oplus label0[g.in1]
<1>1. /\ gateG \in GateIndices(circuit) /\ g.type = "XOR" /\ gateG' = gateG + 1
      /\ gpc = "garble" /\ UNCHANGED <<setup, gpc, checkingG, tables, shift, andG>>
      /\ label0' = [label0 EXCEPT ![g.out] = new]
      /\ label1' = [label1 EXCEPT ![g.out] = new \oplus deltaA]
  BY DEF GarbleXor, AtGateG
<1>2. WellFormed(circuit) /\ deltaA \in Block
  BY SetupFacts
<1>3. /\ g.in0 \in GarbledWires /\ g.in0 \in Wires(circuit)
      /\ g.in1 \in GarbledWires /\ g.in1 \in Wires(circuit)
      /\ gateG \in Nat /\ GateSize(circuit) \in Nat
      /\ WiresBefore(circuit, gateG + 1) = GarbledWires \cup {g.out}
  <2>1. GateSize(circuit) \in Nat
    BY <1>2, AndGatesFinite
  <2>2. gateG \in Nat
    BY <1>1, <2>1 DEF GateIndices
  <2> QED  BY <1>1, <1>2, <2>1, <2>2, GateWires, WiresGrow DEF GarbledWires
<1>4. circuit' = circuit /\ deltaA' = deltaA
  BY <1>1 DEF circuit, deltaA, G
<1>5. /\ \A w \in GarbledWires : label0'[w] = label0[w] /\ label1'[w] = label1[w]
      /\ label0'[g.out] = new /\ label1'[g.out] = new \oplus deltaA
      /\ \A i \in 1 .. (gateG - 1) : GateGarbled(i)'
  BY <1>1, GarbledGatesKept
<1>6. GarblerTypeOK'
  <2>1. new \in Block /\ new \oplus deltaA \in Block
    BY <1>2, <1>3, BlockType DEF GarblerInv, GarblerTypeOK
  <2>2. gateG' \in 1 .. (GateSize(circuit) + 1)
    BY <1>1, <1>3 DEF GateIndices
  <2> QED  BY <1>1, <1>4, <2>1, <2>2 DEF GarblerInv, GarblerTypeOK, checkingG
<1>7. FreeXor'
  <2>1. GarbledWires' = GarbledWires \cup {g.out}
    BY <1>1, <1>3, <1>4 DEF GarbledWires
  <2> QED  BY <1>4, <1>5, <2>1 DEF GarblerInv, FreeXor
<1>8. Garbled'
  <2>1. ASSUME NEW n, n = gateG PROVE GateGarbled(n)'
    BY <1>1, <1>3, <1>4, <1>5, <2>1, ZenonT(40) DEF GateGarbled
  <2>2. AndGateOrder(circuit, gateG + 1) = AndGateOrder(circuit, gateG)
    BY <1>1, <1>2, AndGateIter DEF IsAnd
  <2>3. \A i \in 1 .. (gateG' - 1) : i \in 1 .. (gateG - 1) \/ i = gateG
    BY <1>1, <1>3
  <2> QED  BY <1>1, <1>4, <1>5, <2>1, <2>2, <2>3 DEF GarblerInv, Garbled
<1>9. SeedKnown'
  BY <1>1 DEF GarblerInv, SeedKnown, checkingG
<1> QED  BY <1>6, <1>7, <1>8, <1>9 DEF GarblerInv

LEMMA GarbleAndInv ==
  ASSUME setup \in Setups, GarblerInv, GarbleAnd
  PROVE  GarblerInv'
<1> DEFINE g == circuit.gates[gateG]
           new == AndLabel0(g, andG)
           entry == <<TableEntry0(g), TableEntry1(g)>>
<1>1. /\ gateG \in GateIndices(circuit) /\ g.type = "AND" /\ gateG' = gateG + 1
      /\ gpc = "garble" /\ UNCHANGED <<setup, gpc, checkingG>> /\ andG' = andG + 1
      /\ label0' = [label0 EXCEPT ![g.out] = new]
      /\ label1' = [label1 EXCEPT ![g.out] = new \oplus deltaA]
      /\ tables' = Append(tables, entry) /\ shift' = Append(shift, GetLSB(new))
  BY DEF GarbleAnd, AtGateG
<1>2. /\ WellFormed(circuit) /\ deltaA \in Block /\ ShareShape(circuit, G)
      /\ \A x \in Block, w \in Wires(circuit), t \in {0, 1, 2} : H(x, w, t) \in Block
  BY SetupFacts
<1>3. /\ g.in0 \in GarbledWires /\ g.in0 \in Wires(circuit)
      /\ g.in1 \in GarbledWires /\ g.in1 \in Wires(circuit)
      /\ g.out \in Wires(circuit)
      /\ gateG \in Nat /\ GateSize(circuit) \in Nat
      /\ WiresBefore(circuit, gateG + 1) = GarbledWires \cup {g.out}
  <2>1. GateSize(circuit) \in Nat
    BY <1>2, AndGatesFinite
  <2>2. gateG \in Nat
    BY <1>1, <2>1 DEF GateIndices
  <2> QED  BY <1>1, <1>2, <2>1, <2>2, GateWires, WiresGrow DEF GarbledWires
<1>4. circuit' = circuit /\ deltaA' = deltaA /\ G' = G
  BY <1>1 DEF circuit, deltaA, G
<1>5. /\ AndGateOrder(circuit, gateG) = andG
      /\ AndGateOrder(circuit, gateG + 1) = andG + 1
      /\ andG \in AndIndices(circuit) /\ andG + 1 \in 0 .. AndGateSize(circuit)
  <2>1. gateG \in AndGates(circuit) /\ IsAnd(circuit, gateG)
    BY <1>1 DEF AndGates, IsAnd
  <2>2. AndGateOrder(circuit, gateG) = andG
    BY DEF GarblerInv, Garbled
  <2>3. AndGateSize(circuit) \in Nat
    BY <1>2, AndGatesFinite
  <2> QED
    BY <1>1, <1>2, <2>1, <2>2, <2>3, AndGateIter, AndGateOrderInjective DEF AndIndices
<1>6. /\ tables \in Seq(Block \X Block) /\ shift \in Seq(BOOLEAN)
      /\ Len(tables) = andG /\ Len(shift) = andG /\ andG \in Nat
  BY <1>5 DEF GarblerInv, GarblerTypeOK, Garbled
<1>7. /\ \A k \in 1 .. andG : tables'[k] = tables[k] /\ shift'[k] = shift[k]
      /\ tables'[andG + 1] = entry /\ shift'[andG + 1] = GetLSB(new)
      /\ Len(tables') = andG + 1 /\ Len(shift') = andG + 1
  BY <1>1, <1>6
<1>8. /\ \A w \in GarbledWires : label0'[w] = label0[w] /\ label1'[w] = label1[w]
      /\ label0'[g.out] = new /\ label1'[g.out] = new \oplus deltaA
      /\ \A i \in 1 .. (gateG - 1) : GateGarbled(i)'
  BY <1>1, <1>7, GarbledGatesKept
<1>9. GarblerTypeOK'
  <2>1. /\ label0[g.in0] \in Block /\ label1[g.in0] \in Block
        /\ label0[g.in1] \in Block /\ label1[g.in1] \in Block
    BY <1>3 DEF GarblerInv, GarblerTypeOK
  <2>2. /\ H(label0[g.in0], g.out, 0) \in Block /\ H(label1[g.in0], g.out, 0) \in Block
        /\ H(label0[g.in1], g.out, 1) \in Block /\ H(label1[g.in1], g.out, 1) \in Block
    BY <1>2, <1>3, <2>1
  <2>3. /\ G.keys[g.in0] \in Block /\ G.keys[g.in1] \in Block /\ G.keys[g.out] \in Block
        /\ G.tripleKeys[andG] \in Block
    BY <1>2, <1>3, <1>5 DEF ShareShape
  <2>4. TableEntry0(g) \in Block
    BY <1>2, <2>2, <2>3, BlockType DEF TableEntry0
  <2>5. TableEntry1(g) \in Block
    BY <1>2, <2>1, <2>2, <2>3, BlockType DEF TableEntry1
  <2>6. new \in Block /\ new \oplus deltaA \in Block
    BY <1>2, <2>2, <2>3, BlockType DEF AndLabel0
  <2>7. gateG' \in 1 .. (GateSize(circuit) + 1)
    BY <1>1, <1>3 DEF GateIndices
  <2>8. entry \in Block \X Block
    BY <2>4, <2>5
  <2>9. tables' \in Seq(Block \X Block) /\ shift' \in Seq(BOOLEAN)
    BY <1>1, <1>6, <2>8, AppendProperties DEF GetLSB
  <2> HIDE DEF new, entry
  <2>10. label0' \in [Wires(circuit) -> Block] /\ label1' \in [Wires(circuit) -> Block]
    BY <1>1, <2>6 DEF GarblerInv, GarblerTypeOK
  <2> QED  BY <1>1, <1>4, <1>5, <2>7, <2>9, <2>10 DEF GarblerInv, GarblerTypeOK, checkingG
<1>10. FreeXor'
  <2> HIDE DEF new
  <2>1. GarbledWires' = GarbledWires \cup {g.out}
    BY <1>1, <1>3, <1>4 DEF GarbledWires
  <2> QED  BY <1>4, <1>8, <2>1 DEF GarblerInv, FreeXor
<1>11. Garbled'
  <2>1. /\ label0'[g.in0] = label0[g.in0] /\ label1'[g.in0] = label1[g.in0]
        /\ label0'[g.in1] = label0[g.in1] /\ label1'[g.in1] = label1[g.in1]
    BY <1>3, <1>8
  <2>2. ASSUME NEW h, h = g, NEW k, k = andG
        PROVE  /\ TableEntry0(h)' = TableEntry0(h) /\ TableEntry1(h)' = TableEntry1(h)
               /\ AndLabel0(h, k)' = new
    BY <1>4, <2>1, <2>2 DEF TableEntry0, TableEntry1, AndLabel0
  <2>3. ASSUME NEW n, n = gateG PROVE GateGarbled(n)'
    <3>1. PICK h : h = g
      OBVIOUS
    <3>2. PICK k : k = andG
      OBVIOUS
    <3>3. circuit'.gates[n] = h /\ AndGateOrder(circuit', n) = k
      BY <1>4, <1>5, <2>3, <3>1, <3>2
    <3>4. /\ TableEntry0(h)' = TableEntry0(h) /\ TableEntry1(h)' = TableEntry1(h)
          /\ AndLabel0(h, k)' = new
      BY <2>2, <3>1, <3>2
    <3>5. /\ tables'[k + 1] = <<TableEntry0(h), TableEntry1(h)>>
          /\ shift'[k + 1] = GetLSB(new) /\ label0'[h.out] = new /\ h.type = "AND"
      BY <1>1, <1>7, <1>8, <3>1, <3>2
    <3> HIDE DEF new
    <3> QED  BY <3>3, <3>4, <3>5 DEF GateGarbled
  <2>4. \A i \in 1 .. (gateG' - 1) : i \in 1 .. (gateG - 1) \/ i = gateG
    BY <1>1, <1>3
  <2> QED  BY <1>1, <1>4, <1>5, <1>7, <1>8, <2>3, <2>4 DEF GarblerInv, Garbled
<1>12. SeedKnown'
  BY <1>1 DEF GarblerInv, SeedKnown, checkingG
<1> QED  BY <1>9, <1>10, <1>11, <1>12 DEF GarblerInv

(***************************************************************************)
(* The steps of Garbler::online and Garbler::check.                        *)
(***************************************************************************)

(* garble and online only append to the stream; what they put there is     *)
(* named by its kind.                                                      *)
LEMMA SentMessages ==
  /\ Msg("tables", tables) \in SentByGarbler /\ Msg("shift", shift) \in SentByGarbler
  /\ Msg("maskedX", MaskedX) \in SentByGarbler /\ Msg("labelsX", LabelsX) \in SentByGarbler
  /\ Msg("otPads", OtPads) \in SentByGarbler
  /\ Msg("openBits", OpenedBits) \in SentByGarbler
  /\ Msg("openMacs", OpenedMacs) \in SentByGarbler
  /\ Msg("outputMasks", OutputMasks) \in SentByGarbler
  /\ \A b \in Block : Msg("gk", b) \in SentByGarbler /\ Msg("ha", b) \in SentByGarbler
BY DEF SentByGarbler

(* Once the circuit is garbled, a step of the garbler that leaves the      *)
(* garbled circuit alone and appends known messages keeps the invariant.   *)
LEMMA OnlineStep ==
  ASSUME IInv, gpc' \in GarblerPcs,
         gpc \in {"garble", "input", "ot", "open", "outputMasks", "check", "gk"},
         gpc' # "garble", gateG = GateSize(circuit) + 1,
         UNCHANGED <<setup, garbling, evaluatorVars>>,
         seedG' \in Challenges \cup {None},
         gpc' \in {"gk", "done"} => seedG' \in Challenges,
         checkG' \in 0 .. IndependentSize(circuit), accG' \in Block,
         toE' \in Seq(SentByGarbler), toG' \in Seq(SentByEvaluator)
  PROVE  IInv'
<1>1. GarblerTypeOK'
  BY DEF IInv, GarblerInv, GarblerTypeOK, garbling, circuit
<1>2. FreeXor' /\ Garbled'
  BY ZenonT(40) DEF IInv, GarblerInv, FreeXor, GarbledWires, Garbled, GateGarbled, TableEntry0,
     TableEntry1, AndLabel0, garbling, circuit, G, deltaA
<1>3. SeedKnown'
  BY DEF SeedKnown
<1>4. EvaluatorInv'
  BY EvaluatorFrame DEF IInv
<1>5. Streams'
  BY MessagesFrame DEF Streams
<1> QED  BY <1>1, <1>2, <1>3, <1>4, <1>5 DEF IInv, GarblerInv

(* A loop step of garble: nothing was sent yet, the evaluator waits.       *)
LEMMA GarbleStep ==
  ASSUME IInv, GarbleNot \/ GarbleAnd \/ GarbleXor
  PROVE  IInv'
<1>1. /\ gpc = "garble" /\ UNCHANGED <<setup, gpc, checkingG, evaluatorVars, toE, toG>>
      /\ toE = <<>> /\ epc = "tables"
  BY DEF IInv, Streams, GarbleNot, GarbleAnd, GarbleXor, AtGateG
<1>2. GarblerInv'
  BY GarbleNotInv, GarbleAndInv, GarbleXorInv DEF IInv
<1>3. UNCHANGED <<epc, rTables, rShift, labels, masked, gateE, andE, output,
                  challenge, checkE, accE, circuit>>
  BY <1>1 DEF evaluatorVars, evaluation, checkingE, circuit
<1>4. EvaluatorInv'
  BY <1>1, <1>3 DEF IInv, EvaluatorInv, EvaluatorTypeOK, Received, Progress,
     LabelMatchesMaskedValue, MaskedValueCorrect, EvaluatedWires, ReceivingPcs, OutputDecoded
<1>5. Streams'
  <2>1. toE' \in Seq(SentByGarbler')
    BY <1>1
  <2>2. SentByEvaluator' = SentByEvaluator
    BY DEF SentByEvaluator, Msg
  <2> QED  BY <1>1, <1>3, <2>1, <2>2 DEF IInv, Streams
<1> QED  BY <1>1, <1>2, <1>4, <1>5 DEF IInv

(* The constant parts of an AND gate's equation, on either side. *)
LEMMA AndGateBlocks ==
  ASSUME setup \in Setups, NEW i \in AndGates(circuit)
  PROVE  Ak0(i) \in Block /\ BTerm(i) \in Block
<1> DEFINE g == circuit.gates[i]
           k == AndGateOrder(circuit, i)
<1>1. /\ WellFormed(circuit) /\ ShareShape(circuit, G) /\ ShareShape(circuit, E)
  BY SetupFacts
<1>2. i \in GateIndices(circuit) /\ g.type = "AND" /\ k \in AndIndices(circuit)
  BY <1>1, AndGateOrderInjective DEF AndGates, IsAnd
<1>3. g.in0 \in Wires(circuit) /\ g.in1 \in Wires(circuit) /\ g.out \in Wires(circuit)
  BY <1>1, <1>2, GateWires
<1>4. Ak0(i) \in Block
  <2>1. /\ G.macs[g.in0] \in Block /\ G.macs[g.in1] \in Block /\ G.macs[g.out] \in Block
        /\ G.tripleMacs[k] \in Block
    BY <1>1, <1>2, <1>3 DEF ShareShape
  <2>2. FlipMacTerm(g, G.macs) \in Block
    BY <2>1, BlockType DEF FlipMacTerm
  <2> HIDE DEF g, k
  <2>3. (G.macs[g.out] \oplus G.tripleMacs[k]) \oplus FlipMacTerm(g, G.macs) \in Block
    BY <2>1, <2>2, BlockType
  <2> QED  BY <2>3 DEF Ak0, g, k
<1>5. BTerm(i) \in Block
  <2>1. /\ E.keys[g.in0] \in Block /\ E.keys[g.in1] \in Block /\ E.keys[g.out] \in Block
        /\ E.tripleKeys[k] \in Block /\ E.delta \in Block
    BY <1>1, <1>2, <1>3 DEF ShareShape
  <2> HIDE DEF g, k
  <2>2. (((AndAllBits(BPrime(g, k), E.delta) \oplus E.keys[g.out])
            \oplus E.tripleKeys[k]) \oplus AndAllBits(masked[g.in0], E.keys[g.in1]))
          \oplus AndAllBits(masked[g.in1], E.keys[g.in0]) \in Block
    BY <2>1, BlockType
  <2> QED  BY <2>2 DEF BTerm, g, k
<1> QED  BY <1>4, <1>5

(* The GC check multiplies and adds blocks: its accumulators are blocks. *)
LEMMA ContributionType ==
  ASSUME setup \in Setups, NEW n \in 0 .. (IndependentSize(circuit) - 1),
         NEW seed \in Challenges, NEW hash \in Block
  PROVE  /\ Contribution(n, seed, hash, Ak0Terms) \in Block
         /\ Contribution(n, seed, hash, BTerms) \in Block
<1>1. WellFormed(circuit) /\ \A k \in AndIndices(circuit) : Coeff(seed, k) \in Block
  BY SetupFacts
<1>2. CASE n < TotalInputSize(circuit)
  BY <1>2 DEF Contribution
<1>3. CASE ~(n < TotalInputSize(circuit))
  <2> DEFINE k == n - TotalInputSize(circuit)
             i == AndGateAt(circuit, k)
  <2>1. k \in AndIndices(circuit)
    BY <1>1, <1>3, IndependentWireType
  <2>2. i \in AndGates(circuit) /\ AndGateOrder(circuit, i) = k
    BY <1>1, <2>1, AndGateAtExists
  <2>3. Ak0(i) \in Block /\ BTerm(i) \in Block /\ CoeffOf(seed, i) \in Block
    BY <1>1, <2>1, <2>2, AndGateBlocks DEF CoeffOf
  <2>4. /\ hash \oplus GfMul(Ak0(i), CoeffOf(seed, i)) \in Block
        /\ hash \oplus GfMul(BTerm(i), CoeffOf(seed, i)) \in Block
    BY <2>3, FieldAssumption, BlockType
  <2>5. Ak0Terms[i] = Ak0(i) /\ BTerms[i] = BTerm(i)
    BY <2>2 DEF Ak0Terms, BTerms
  <2> QED  BY <1>3, <2>4, <2>5 DEF Contribution
<1> QED  BY <1>2, <1>3

LEMMA GarblerSteps ==
  ASSUME IInv, Garbler
  PROVE  IInv'
<1> USE DEF IInv
<1>1. /\ WellFormed(circuit) /\ GarblerTypeOK /\ SeedKnown
      /\ gpc # "garble" => gateG = GateSize(circuit) + 1
      /\ toE \in Seq(SentByGarbler) /\ toG \in Seq(SentByEvaluator)
  BY SetupFacts DEF GarblerInv, Garbled, Streams
<1>2. CASE GarbleNot \/ GarbleAnd \/ GarbleXor
  BY <1>2, GarbleStep
<1>3. CASE SendGarbled
  <2>1. gateG = GateSize(circuit) + 1
    <3>1. GateSize(circuit) \in Nat
      BY <1>1, AndGatesFinite
    <3> QED  BY <1>1, <1>3, <3>1 DEF GarblerTypeOK, SendGarbled
  <2>2. toE' \in Seq(SentByGarbler)
    BY <1>1, <1>3, SentMessages, StreamOps DEF SendGarbled
  <2>3. gpc = "garble" /\ gpc' = "input"
        /\ UNCHANGED <<setup, garbling, checkingG, evaluatorVars, toG>>
    BY <1>3 DEF SendGarbled
  <2> QED  BY <1>1, <2>1, <2>2, <2>3, OnlineStep DEF GarblerTypeOK, GarblerPcs, checkingG
<1>4. CASE SendInput
  <2>1. toE' \in Seq(SentByGarbler)
    BY <1>1, <1>4, SentMessages, StreamOps DEF SendInput
  <2>2. /\ gpc = "input" /\ gpc' \in {"ot", "outputMasks"}
        /\ UNCHANGED <<setup, garbling, checkingG, evaluatorVars, toG>>
    BY <1>4 DEF SendInput, GarblerStep
  <2> QED  BY <1>1, <2>1, <2>2, OnlineStep DEF GarblerTypeOK, GarblerPcs, checkingG
<1>5. CASE OtSend
  <2>1. toE' \in Seq(SentByGarbler) /\ toG' \in Seq(SentByEvaluator)
    BY <1>1, <1>5, SentMessages, StreamOps DEF OtSend, Arrived
  <2>2. /\ gpc = "ot" /\ gpc' = "open"
        /\ UNCHANGED <<setup, garbling, checkingG, evaluatorVars>>
    BY <1>5 DEF OtSend, GarblerStep
  <2> QED  BY <1>1, <2>1, <2>2, OnlineStep DEF GarblerTypeOK, GarblerPcs, checkingG
<1>6. CASE OpenMasks
  <2>1. toE' \in Seq(SentByGarbler)
    BY <1>1, <1>6, SentMessages, StreamOps DEF OpenMasks
  <2>2. /\ gpc = "open" /\ gpc' = "outputMasks"
        /\ UNCHANGED <<setup, garbling, checkingG, evaluatorVars, toG>>
    BY <1>6 DEF OpenMasks, GarblerStep
  <2> QED  BY <1>1, <2>1, <2>2, OnlineStep DEF GarblerTypeOK, GarblerPcs, checkingG
<1>7. CASE SendOutputMasks
  <2>1. toE' \in Seq(SentByGarbler)
    BY <1>1, <1>7, SentMessages, StreamOps DEF SendOutputMasks
  <2>2. /\ gpc = "outputMasks" /\ gpc' = "check"
        /\ UNCHANGED <<setup, garbling, checkingG, evaluatorVars, toG>>
    BY <1>7 DEF SendOutputMasks, GarblerStep
  <2> QED  BY <1>1, <2>1, <2>2, OnlineStep DEF GarblerTypeOK, GarblerPcs, checkingG
<1>8. CASE RecvChallenge
  <2>1. /\ toG' \in Seq(SentByEvaluator) /\ Head(toG) \in SentByEvaluator
        /\ Head(toG).kind = "challenge"
    BY <1>1, <1>8, StreamOps DEF RecvChallenge, Arrived
  <2>2. seedG' \in Challenges
    BY <1>8, <2>1, MessageByKind DEF RecvChallenge
  <2>3. /\ gpc = "check" /\ gpc' = "gk"
        /\ UNCHANGED <<setup, garbling, checkG, accG, evaluatorVars, toE>>
    BY <1>8 DEF RecvChallenge, GarblerStep
  <2> QED  BY <1>1, <2>1, <2>2, <2>3, OnlineStep DEF GarblerTypeOK, GarblerPcs
<1>9. CASE SendGk
  <2> DEFINE w == IndependentWire(circuit, checkG)
             hash == H(label0[w], w, 2)
  <2>1. /\ gpc = "gk" /\ gpc' = "gk" /\ checkG < IndependentSize(circuit)
        /\ checkG' = checkG + 1 /\ toE' = Append(toE, Msg("gk", GkOf(seedG, w)))
        /\ accG' = accG \oplus Contribution(checkG, seedG, hash, Ak0Terms)
        /\ UNCHANGED <<setup, garbling, seedG, evaluatorVars, toG>>
    BY <1>9 DEF SendGk, GarblerStep
  <2>2. IndependentSize(circuit) \in Nat
    <3>1. AndGateSize(circuit) \in Nat /\ TotalInputSize(circuit) \in Nat
      <4>1. AndGateSize(circuit) \in Nat
        BY <1>1, AndGatesFinite
      <4> QED  BY <1>1, <4>1 DEF WellFormed, TotalInputSize
    <3> QED  BY <3>1 DEF IndependentSize
  <2>3. /\ checkG \in 0 .. (IndependentSize(circuit) - 1)
        /\ checkG' \in 0 .. IndependentSize(circuit)
    BY <1>1, <2>1, <2>2 DEF GarblerTypeOK
  <2>4. w \in Wires(circuit)
    BY <1>1, <2>3, IndependentWireType
  <2>5. /\ seedG \in Challenges /\ label0[w] \in Block /\ label1[w] \in Block
    BY <1>1, <2>1, <2>4 DEF GarblerTypeOK, SeedKnown
  <2>6. hash \in Block /\ H(label1[w], w, 2) \in Block
    BY <2>4, <2>5, SetupFacts
  <2>7. accG' \in Block
    <3>1. Contribution(checkG, seedG, hash, Ak0Terms) \in Block
      BY <2>3, <2>5, <2>6, ContributionType
    <3> QED  BY <1>1, <2>1, <3>1, BlockType DEF GarblerTypeOK
  <2>8. GkOf(seedG, w) \in Block
    BY <2>6, BlockType DEF GkOf, Ak1
  <2>9. toE' \in Seq(SentByGarbler)
    BY <1>1, <2>1, <2>8, SentMessages, StreamOps
  <2> QED  BY <1>1, <2>1, <2>3, <2>5, <2>7, <2>9, OnlineStep DEF GarblerTypeOK, GarblerPcs
<1>10. CASE SendHa
  <2>1. accG \cap CheckBits \in Block
    BY <1>1 DEF GarblerTypeOK, Block
  <2>2. toE' \in Seq(SentByGarbler)
    BY <1>1, <1>10, <2>1, SentMessages, StreamOps DEF SendHa
  <2>3. /\ gpc = "gk" /\ gpc' = "done"
        /\ UNCHANGED <<setup, garbling, checkingG, evaluatorVars, toG>>
    BY <1>10 DEF SendHa, GarblerStep, checkingG
  <2> QED  BY <1>1, <2>2, <2>3, OnlineStep DEF GarblerTypeOK, GarblerPcs, checkingG, SeedKnown
<1> QED
  BY <1>2, <1>3, <1>4, <1>5, <1>6, <1>7, <1>8, <1>9, <1>10 DEF Garbler

(***************************************************************************)
(* evaluate: the three kinds of gate.                                      *)
(***************************************************************************)

(* When the evaluator is past its first receive, the circuit is garbled:   *)
(* the labels of every wire of the circuit differ by the global key.       *)
LEMMA CircuitGarbled ==
  ASSUME IInv, epc # "tables"
  PROVE  /\ \A i \in GateIndices(circuit) : GateGarbled(i)
         /\ \A w \in Wires(circuit), b \in BOOLEAN :
              LabelFor(b, w) = label0[w] \oplus AndAllBits(b, deltaA)
<1>1. WellFormed(circuit)
  BY SetupFacts DEF IInv
<1>2. gateG = GateSize(circuit) + 1 /\ GateSize(circuit) \in Nat
  BY <1>1, WiresGrow DEF IInv, Streams, GarblerInv, Garbled
<1>3. \A i \in GateIndices(circuit) : GateGarbled(i)
  BY <1>2 DEF IInv, GarblerInv, Garbled, GateIndices
<1>4. \A w \in Wires(circuit) : label1[w] = label0[w] \oplus deltaA
  BY <1>1, <1>2, WiresGrow DEF IInv, GarblerInv, FreeXor, GarbledWires
<1>5. \A w \in Wires(circuit), b \in BOOLEAN :
        LabelFor(b, w) = label0[w] \oplus AndAllBits(b, deltaA)
  BY <1>4, XorAlgebra DEF LabelFor, AndAllBits
<1> QED  BY <1>3, <1>5

(* A gate step of evaluate that gives the gate's output wire the garbler's *)
(* label of a masked value, and a masked value that decodes to the gate's  *)
(* function of its decoded inputs, keeps the invariant.                    *)
LEMMA EvaluateStep ==
  ASSUME IInv, epc = "evaluate", gateE \in GateIndices(circuit),
         NEW g, g = circuit.gates[gateE],
         NEW v \in BOOLEAN, masked' = [masked EXCEPT ![g.out] = v],
         labels' = [labels EXCEPT ![g.out] = LabelFor(v, g.out)],
         g.type = "AND" => (v # MaskOf(setup, g.out)) = (Decoded[g.in0] /\ Decoded[g.in1]),
         g.type = "XOR" => (v # MaskOf(setup, g.out)) = (Decoded[g.in0] # Decoded[g.in1]),
         g.type = "NOT" => (v # MaskOf(setup, g.out)) = ~Decoded[g.in0],
         gateE' = gateE + 1, andE' = AndGateOrder(circuit, gateE + 1),
         UNCHANGED <<setup, garblerVars, epc, rTables, rShift, output, checkingE, toE, toG>>
  PROVE  IInv'
<1>1. WellFormed(circuit)
  BY SetupFacts DEF IInv
<1>2. UNCHANGED <<circuit, G, E, gpc, garbling, label0, label1, tables, shift>>
  BY DEF circuit, G, E, garblerVars, garbling
<1>3. /\ EvaluatedWires = WiresBefore(circuit, gateE)
      /\ EvaluatedWires' = EvaluatedWires \cup {g.out}
      /\ g.in0 \in EvaluatedWires /\ (g.type # "NOT" => g.in1 \in EvaluatedWires)
      /\ g.out \in Wires(circuit) /\ g.out \notin EvaluatedWires
      /\ g.out \notin InputWires(circuit)
      /\ EvaluatedWires \subseteq Wires(circuit)
      /\ InputWires(circuit) \subseteq EvaluatedWires
      /\ InputWires(circuit) = GarblerInputs(circuit) \cup EvaluatorInputs(circuit)
      /\ GateSize(circuit) \in Nat
      /\ gateE \in Nat /\ gateE \in 1 .. (GateSize(circuit) + 1)
      /\ gateE' \in 1 .. (GateSize(circuit) + 1)
  <2>1. EvaluatedWires = WiresBefore(circuit, gateE)
        /\ EvaluatedWires' = WiresBefore(circuit, gateE + 1)
    BY <1>2 DEF EvaluatedWires, ReceivingPcs
  <2>2. GateSize(circuit) \in Nat
    BY <1>1, AndGatesFinite
  <2>3. /\ gateE \in Nat /\ gateE \in 1 .. (GateSize(circuit) + 1)
        /\ gateE + 1 \in 1 .. (GateSize(circuit) + 1)
    BY <2>2 DEF GateIndices
  <2> QED  BY <1>1, <2>1, <2>2, <2>3, GateWires, WiresGrow
<1>4. /\ labels \in [Wires(circuit) -> Block] /\ masked \in [Wires(circuit) -> BOOLEAN]
      /\ label0 \in [Wires(circuit) -> Block] /\ label1 \in [Wires(circuit) -> Block]
  BY DEF IInv, EvaluatorInv, EvaluatorTypeOK, GarblerInv, GarblerTypeOK
<1>5. /\ \A w \in EvaluatedWires : labels'[w] = labels[w] /\ masked'[w] = masked[w]
      /\ labels'[g.out] = LabelFor(v, g.out) /\ masked'[g.out] = v
  BY <1>3, <1>4
<1>6. /\ \A w \in EvaluatedWires : Decoded'[w] = Decoded[w]
      /\ Decoded'[g.out] = (v # MaskOf(setup, g.out))
  BY <1>2, <1>3, <1>5 DEF Decoded
<1>7. EvaluatorTypeOK'
  <2>1. LabelFor(v, g.out) \in Block
    BY <1>3, <1>4 DEF LabelFor
  <2>2. andE' \in 0 .. AndGateSize(circuit)
    <3>1. gateE + 1 \in Nat
      BY <1>3
    <3> QED  BY <1>1, <3>1, AndGatesFinite
  <2> QED
    BY <1>2, <1>3, <1>4, <2>1, <2>2 DEF IInv, EvaluatorInv, EvaluatorTypeOK, checkingE
<1>8. Received'
  <2>1. \A w \in InputWires(circuit) : labels'[w] = labels[w] /\ masked'[w] = masked[w]
    BY <1>3, <1>5
  <2> QED
    BY <1>2, <1>3, <2>1
    DEF IInv, EvaluatorInv, Received, MaskedX, LabelFor, Choice, garbling
<1>9. Progress'
  BY <1>2 DEF IInv, EvaluatorInv, Progress, ReceivingPcs, checkingE
<1>10. LabelMatchesMaskedValue'
  <2>1. \A w, b : LabelFor(b, w)' = LabelFor(b, w)
    BY <1>2 DEF LabelFor
  <2>2. \A w \in EvaluatedWires : labels[w] = LabelFor(masked[w], w)
    BY DEF IInv, EvaluatorInv, LabelMatchesMaskedValue
  <2>3. ASSUME NEW w \in EvaluatedWires' PROVE labels'[w] = LabelFor(masked'[w], w)
    BY <1>3, <1>5, <2>2
  <2> QED  BY <1>2, <2>3 DEF LabelMatchesMaskedValue, LabelFor
<1>11. MaskedValueCorrect'
  <2>1. EvaluatedWires # {} =>
          /\ \A w \in InputWires(circuit) : Decoded[w] = Input[w]
          /\ \A i \in 1 .. (gateE - 1) : GateHolds(circuit.gates[i], Decoded)
    BY DEF IInv, EvaluatorInv, MaskedValueCorrect
  <2>2. EvaluatedWires # {}
    BY <1>3
  <2>3. Input' = Input
    BY <1>2 DEF Input
  <2>4. \A w \in InputWires(circuit) : Decoded'[w] = Input[w]
    BY <1>3, <1>6, <2>1, <2>2
  <2>5. ASSUME NEW i \in 1 .. (gateE - 1) PROVE GateHolds(circuit.gates[i], Decoded')
    <3> DEFINE h == circuit.gates[i]
    <3>1. i \in GateIndices(circuit)
      BY <1>3 DEF GateIndices
    <3>2. WiresBefore(circuit, i) \subseteq EvaluatedWires /\ h.out \in EvaluatedWires
      BY <1>3 DEF WiresBefore
    <3>3. /\ h.in0 \in EvaluatedWires /\ (h.type # "NOT" => h.in1 \in EvaluatedWires)
          /\ h.type \in {"AND", "XOR", "NOT"}
      BY <1>1, <3>1, <3>2, GateWires
    <3>4. GateHolds(h, Decoded)
      BY <2>1, <2>2
    <3> SUFFICES GateHolds(h, Decoded')
      OBVIOUS
    <3> HIDE DEF h
    <3>5. /\ Decoded'[h.in0] = Decoded[h.in0] /\ Decoded'[h.out] = Decoded[h.out]
          /\ h.type # "NOT" => Decoded'[h.in1] = Decoded[h.in1]
      BY <1>6, <3>2, <3>3
    <3>6. CASE h.type = "AND"
      BY <3>4, <3>5, <3>6 DEF GateHolds
    <3>7. CASE h.type = "XOR"
      BY <3>4, <3>5, <3>7 DEF GateHolds
    <3>8. CASE h.type = "NOT"
      BY <3>4, <3>5, <3>8 DEF GateHolds
    <3> QED  BY <3>3, <3>6, <3>7, <3>8
  <2>6. GateHolds(g, Decoded')
    <3>1. g.type \in {"AND", "XOR", "NOT"}
      BY <1>1, GateWires
    <3> QED  BY <1>3, <1>6, <3>1 DEF GateHolds
  <2>7. \A i \in 1 .. (gateE' - 1) : i \in 1 .. (gateE - 1) \/ i = gateE
    BY <1>3
  <2> QED  BY <1>2, <2>3, <2>4, <2>5, <2>6, <2>7 DEF MaskedValueCorrect
<1>12. OutputDecoded'
  BY DEF OutputDecoded
<1>13. GarblerInv'
  BY GarblerFrame DEF IInv
<1>14. Streams'
  BY <1>2, MessagesFrame DEF IInv, Streams
<1> QED
  BY <1>7, <1>8, <1>9, <1>10, <1>11, <1>12, <1>13, <1>14 DEF IInv, EvaluatorInv

(* What the evaluator's loop knows when it reaches a gate. *)
LEMMA AtGate ==
  ASSUME IInv, NEW type, AtGateE(type), NEW g, g = circuit.gates[gateE]
  PROVE  /\ WellFormed(circuit) /\ epc = "evaluate" /\ gateE \in GateIndices(circuit)
         /\ g.type = type /\ gateE' = gateE + 1
         /\ UNCHANGED <<setup, garblerVars, epc, rTables, rShift, output, checkingE, toE, toG>>
         /\ g.out \in Wires(circuit) /\ g.in0 \in Wires(circuit)
         /\ masked[g.in0] \in BOOLEAN /\ labels[g.in0] = LabelFor(masked[g.in0], g.in0)
         /\ Decoded[g.in0] = (masked[g.in0] # MaskOf(setup, g.in0))
         /\ G.masks[g.in0] \in BOOLEAN /\ E.masks[g.in0] \in BOOLEAN
         /\ G.masks[g.out] \in BOOLEAN /\ E.masks[g.out] \in BOOLEAN
         /\ type # "NOT" =>
              /\ g.in1 \in Wires(circuit)
              /\ masked[g.in1] \in BOOLEAN /\ labels[g.in1] = LabelFor(masked[g.in1], g.in1)
              /\ Decoded[g.in1] = (masked[g.in1] # MaskOf(setup, g.in1))
              /\ G.masks[g.in1] \in BOOLEAN /\ E.masks[g.in1] \in BOOLEAN
         /\ GateGarbled(gateE) /\ GateShares(g, G) /\ GateShares(g, E)
         /\ andE = AndGateOrder(circuit, gateE)
         /\ andE + (IF type = "AND" THEN 1 ELSE 0) = AndGateOrder(circuit, gateE + 1)
         /\ rTables = tables /\ rShift = shift
<1>1. /\ WellFormed(circuit) /\ ShareShape(circuit, G) /\ ShareShape(circuit, E)
      /\ \A i \in GateIndices(circuit) :
           GateShares(circuit.gates[i], G) /\ GateShares(circuit.gates[i], E)
  BY SetupFacts DEF IInv
<1>2. /\ epc = "evaluate" /\ gateE \in GateIndices(circuit) /\ g.type = type
      /\ gateE' = gateE + 1
      /\ UNCHANGED <<setup, garblerVars, epc, rTables, rShift, output, checkingE, toE, toG>>
  BY DEF AtGateE
<1>3. /\ g.out \in Wires(circuit) /\ g.in0 \in Wires(circuit) /\ g.in0 \in EvaluatedWires
      /\ type # "NOT" => g.in1 \in Wires(circuit) /\ g.in1 \in EvaluatedWires
  BY <1>1, <1>2, GateWires DEF EvaluatedWires, ReceivingPcs
<1>4. masked \in [Wires(circuit) -> BOOLEAN]
      /\ \A w \in EvaluatedWires : labels[w] = LabelFor(masked[w], w)
  BY DEF IInv, EvaluatorInv, EvaluatorTypeOK, LabelMatchesMaskedValue
<1>5. \A w \in Wires(circuit) : /\ G.masks[w] \in BOOLEAN /\ E.masks[w] \in BOOLEAN
                                /\ Decoded[w] = (masked[w] # MaskOf(setup, w))
  BY <1>1 DEF ShareShape, Decoded
<1>6. GateGarbled(gateE) /\ rTables = tables /\ rShift = shift
  BY <1>2, CircuitGarbled DEF IInv, EvaluatorInv, Received
<1>7. andE = AndGateOrder(circuit, gateE) /\ andE \in Nat
  BY DEF IInv, EvaluatorInv, Progress, EvaluatorTypeOK
<1>8. andE + (IF type = "AND" THEN 1 ELSE 0) = AndGateOrder(circuit, gateE + 1)
  BY <1>1, <1>2, <1>7, AndGateIter DEF IsAnd
<1> QED  BY <1>1, <1>2, <1>3, <1>4, <1>5, <1>6, <1>7, <1>8

LEMMA EvaluateNotInv ==
  ASSUME IInv, EvaluateNot
  PROVE  IInv'
<1>1. PICK g : g = circuit.gates[gateE]
  OBVIOUS
<1> DEFINE v == ~masked[g.in0]
<1>2. /\ AtGateE("NOT") /\ UNCHANGED andE
      /\ masked' = [masked EXCEPT ![g.out] = v]
      /\ labels' = [labels EXCEPT ![g.out] = labels[g.in0]]
  BY <1>1 DEF EvaluateNot
<1>3. /\ epc = "evaluate" /\ gateE \in GateIndices(circuit) /\ g.type = "NOT"
      /\ gateE' = gateE + 1
      /\ UNCHANGED <<setup, garblerVars, epc, rTables, rShift, output, checkingE, toE, toG>>
      /\ g.out \in Wires(circuit) /\ g.in0 \in Wires(circuit)
      /\ masked[g.in0] \in BOOLEAN /\ labels[g.in0] = LabelFor(masked[g.in0], g.in0)
      /\ Decoded[g.in0] = (masked[g.in0] # MaskOf(setup, g.in0))
      /\ GateGarbled(gateE) /\ GateShares(g, G) /\ GateShares(g, E)
      /\ andE = AndGateOrder(circuit, gateE + 1)
  <2>1. andE + 0 = AndGateOrder(circuit, gateE + 1) /\ andE \in Nat
    BY <1>1, <1>2, AtGate DEF IInv, EvaluatorInv, EvaluatorTypeOK
  <2> QED  BY <1>1, <1>2, <2>1, AtGate
<1>4. labels[g.in0] = LabelFor(v, g.out)
  <2>1. label0[g.out] = label1[g.in0]
    BY <1>1, <1>3 DEF GateGarbled
  <2>2. \A w \in Wires(circuit) : label1[w] = label0[w] \oplus deltaA
    BY <1>3, CircuitGarbled DEF LabelFor, AndAllBits
  <2>3. label1[g.out] = label0[g.in0]
    BY <1>3, <2>1, <2>2, XorAlgebra
  <2> QED  BY <1>3, <2>1, <2>3 DEF LabelFor
<1>5. (v # MaskOf(setup, g.out)) = ~Decoded[g.in0]
  <2>1. MaskOf(setup, g.out) = MaskOf(setup, g.in0)
    BY <1>3 DEF GateShares, MaskOf, G, E
  <2>2. MaskOf(setup, g.in0) \in BOOLEAN
    BY DEF MaskOf
  <2> QED  BY <1>3, <2>1, <2>2
<1> QED  BY <1>1, <1>2, <1>3, <1>4, <1>5, EvaluateStep

LEMMA EvaluateXorInv ==
  ASSUME IInv, EvaluateXor
  PROVE  IInv'
<1>1. PICK g : g = circuit.gates[gateE]
  OBVIOUS
<1> DEFINE v == masked[g.in0] # masked[g.in1]
<1>2. /\ AtGateE("XOR") /\ UNCHANGED andE
      /\ masked' = [masked EXCEPT ![g.out] = v]
      /\ labels' = [labels EXCEPT ![g.out] = labels[g.in0] \oplus labels[g.in1]]
  BY <1>1 DEF EvaluateXor
<1>3. /\ epc = "evaluate" /\ gateE \in GateIndices(circuit) /\ g.type = "XOR"
      /\ gateE' = gateE + 1
      /\ UNCHANGED <<setup, garblerVars, epc, rTables, rShift, output, checkingE, toE, toG>>
      /\ g.out \in Wires(circuit) /\ g.in0 \in Wires(circuit) /\ g.in1 \in Wires(circuit)
      /\ masked[g.in0] \in BOOLEAN /\ labels[g.in0] = LabelFor(masked[g.in0], g.in0)
      /\ masked[g.in1] \in BOOLEAN /\ labels[g.in1] = LabelFor(masked[g.in1], g.in1)
      /\ Decoded[g.in0] = (masked[g.in0] # MaskOf(setup, g.in0))
      /\ Decoded[g.in1] = (masked[g.in1] # MaskOf(setup, g.in1))
      /\ G.masks[g.in0] \in BOOLEAN /\ E.masks[g.in0] \in BOOLEAN
      /\ G.masks[g.in1] \in BOOLEAN /\ E.masks[g.in1] \in BOOLEAN
      /\ GateGarbled(gateE) /\ GateShares(g, G) /\ GateShares(g, E)
      /\ andE = AndGateOrder(circuit, gateE + 1)
  <2>1. andE + 0 = AndGateOrder(circuit, gateE + 1) /\ andE \in Nat
    BY <1>1, <1>2, AtGate DEF IInv, EvaluatorInv, EvaluatorTypeOK
  <2> QED  BY <1>1, <1>2, <2>1, AtGate
<1>4. labels[g.in0] \oplus labels[g.in1] = LabelFor(v, g.out)
  <2>1. label0[g.out] = label0[g.in0] \oplus label0[g.in1]
    BY <1>1, <1>3 DEF GateGarbled
  <2>2. /\ LabelFor(v, g.out) = label0[g.out] \oplus AndAllBits(v, deltaA)
        /\ labels[g.in0] = label0[g.in0] \oplus AndAllBits(masked[g.in0], deltaA)
        /\ labels[g.in1] = label0[g.in1] \oplus AndAllBits(masked[g.in1], deltaA)
    BY <1>3, CircuitGarbled
  <2>3. AndAllBits(v, deltaA)
          = AndAllBits(masked[g.in0], deltaA) \oplus AndAllBits(masked[g.in1], deltaA)
    BY <1>3, AndAllBitsXor
  <2> QED  BY <2>1, <2>2, <2>3, XorRegroup
<1>5. (v # MaskOf(setup, g.out)) = (Decoded[g.in0] # Decoded[g.in1])
  <2>1. MaskOf(setup, g.out) = (MaskOf(setup, g.in0) # MaskOf(setup, g.in1))
    BY <1>3 DEF GateShares, MaskOf, G, E
  <2>2. MaskOf(setup, g.in0) \in BOOLEAN /\ MaskOf(setup, g.in1) \in BOOLEAN
    BY DEF MaskOf
  <2> QED  BY <1>3, <2>1, <2>2
<1> QED  BY <1>1, <1>2, <1>3, <1>4, <1>5, EvaluateStep

LEMMA EvaluateAndInv ==
  ASSUME IInv, EvaluateAnd
  PROVE  IInv'
<1>1. PICK g : g = circuit.gates[gateE]
  OBVIOUS
<1>2. PICK k : k = andE
  OBVIOUS
<1> DEFINE new == AndLabel(g, k)
           V == MaskedAnd(masked[g.in0], masked[g.in1], G.masks[g.in0], G.masks[g.in1],
                          G.masks[g.out], E.masks[g.in0], E.masks[g.in1], E.masks[g.out])
<1>3. /\ AtGateE("AND") /\ andE' = andE + 1
      /\ masked' = [masked EXCEPT ![g.out] = GetLSB(new) # rShift[k + 1]]
      /\ labels' = [labels EXCEPT ![g.out] = new]
  BY <1>1, <1>2 DEF EvaluateAnd
<1>4. /\ WellFormed(circuit)
      /\ epc = "evaluate" /\ gateE \in GateIndices(circuit) /\ g.type = "AND"
      /\ gateE' = gateE + 1
      /\ UNCHANGED <<setup, garblerVars, epc, rTables, rShift, output, checkingE, toE, toG>>
      /\ g.out \in Wires(circuit) /\ g.in0 \in Wires(circuit) /\ g.in1 \in Wires(circuit)
      /\ masked[g.in0] \in BOOLEAN /\ labels[g.in0] = LabelFor(masked[g.in0], g.in0)
      /\ masked[g.in1] \in BOOLEAN /\ labels[g.in1] = LabelFor(masked[g.in1], g.in1)
      /\ Decoded[g.in0] = (masked[g.in0] # MaskOf(setup, g.in0))
      /\ Decoded[g.in1] = (masked[g.in1] # MaskOf(setup, g.in1))
      /\ G.masks[g.in0] \in BOOLEAN /\ E.masks[g.in0] \in BOOLEAN
      /\ G.masks[g.in1] \in BOOLEAN /\ E.masks[g.in1] \in BOOLEAN
      /\ G.masks[g.out] \in BOOLEAN /\ E.masks[g.out] \in BOOLEAN
      /\ GateGarbled(gateE)
      /\ andE = AndGateOrder(circuit, gateE)
      /\ andE + 1 = AndGateOrder(circuit, gateE + 1)
      /\ rTables = tables /\ rShift = shift
  BY <1>1, <1>3, AtGate
<1>5. /\ gateE \in AndGates(circuit) /\ k = AndGateOrder(circuit, gateE)
      /\ k \in AndIndices(circuit)
  BY <1>1, <1>2, <1>4, AndGateOrderInjective DEF AndGates, IsAnd
<1>6. /\ G.triple[k] \in BOOLEAN /\ E.triple[k] \in BOOLEAN
      /\ (G.triple[k] # E.triple[k])
           = ((G.masks[g.in0] # E.masks[g.in0]) /\ (G.masks[g.in1] # E.masks[g.in1]))
  <2>1. /\ ShareShape(circuit, G) /\ ShareShape(circuit, E)
        /\ \A i \in AndGates(circuit) : TripleHolds(setup, i)
    BY SetupFacts DEF IInv
  <2>2. TripleHolds(setup, gateE)
    BY <1>5, <2>1
  <2>3. (G.triple[k] # E.triple[k]) = (MaskOf(setup, g.in0) /\ MaskOf(setup, g.in1))
    BY <1>1, <1>5, <2>2 DEF TripleHolds, circuit, G, E
  <2> QED  BY <1>5, <2>1, <2>3 DEF ShareShape, MaskOf, G, E
<1>7. /\ E.macs[g.in0] = G.keys[g.in0] \oplus AndAllBits(E.masks[g.in0], deltaA)
      /\ E.macs[g.in1] = G.keys[g.in1] \oplus AndAllBits(E.masks[g.in1], deltaA)
      /\ E.macs[g.out] = G.keys[g.out] \oplus AndAllBits(E.masks[g.out], deltaA)
      /\ E.tripleMacs[k] = G.tripleKeys[k] \oplus AndAllBits(E.triple[k], deltaA)
  <2>1. ShareAuthentic(circuit, E, G)
    BY SetupFacts DEF IInv
  <2> QED  BY <1>4, <1>5, <2>1 DEF ShareAuthentic, Authentic, deltaA
<1>8. /\ tables[k + 1] = <<TableEntry0(g), TableEntry1(g)>>
      /\ shift[k + 1] = GetLSB(label0[g.out])
      /\ label0[g.out] = AndLabel0(g, k)
  BY <1>1, <1>4, <1>5 DEF GateGarbled
<1>9. \A w \in Wires(circuit), b \in BOOLEAN :
        LabelFor(b, w) = label0[w] \oplus AndAllBits(b, deltaA)
  BY <1>4, CircuitGarbled
<1>10. new = label0[g.out] \oplus AndAllBits(V, deltaA)
  <2>1. HalfGateHolds(H(label0[g.in0], g.out, 0), H(label1[g.in0], g.out, 0),
                      H(label0[g.in1], g.out, 1), H(label1[g.in1], g.out, 1),
                      label0[g.in0], deltaA,
                      G.keys[g.in0], G.keys[g.in1], G.keys[g.out], G.tripleKeys[k],
                      masked[g.in0], masked[g.in1],
                      G.masks[g.in0], G.masks[g.in1], G.masks[g.out], G.triple[k],
                      E.masks[g.in0], E.masks[g.in1], E.masks[g.out], E.triple[k])
    BY <1>4, <1>6, HalfGate
  <2>2. /\ labels[g.in0] = IF masked[g.in0] THEN label0[g.in0] \oplus deltaA ELSE label0[g.in0]
        /\ H(labels[g.in0], g.out, 0) = IF masked[g.in0] THEN H(label1[g.in0], g.out, 0)
                                        ELSE H(label0[g.in0], g.out, 0)
        /\ H(labels[g.in1], g.out, 1) = IF masked[g.in1] THEN H(label1[g.in1], g.out, 1)
                                        ELSE H(label0[g.in1], g.out, 1)
    <3>1. label1[g.in0] = label0[g.in0] \oplus deltaA
      BY <1>4, <1>9 DEF LabelFor, AndAllBits
    <3> QED  BY <1>4, <3>1 DEF LabelFor
  <2>3. rTables[k + 1][1] = TableEntry0(g) /\ rTables[k + 1][2] = TableEntry1(g)
    BY <1>4, <1>8
  <2> QED
    BY <1>7, <1>8, <2>1, <2>2, <2>3
    DEF HalfGateHolds, AndLabel, TableEntry0, TableEntry1, AndLabel0
<1>11. V \in BOOLEAN
  BY DEF MaskedAnd
<1> HIDE DEF new, V
<1>12. new = LabelFor(V, g.out)
  BY <1>4, <1>9, <1>10, <1>11
<1>13. (GetLSB(new) # rShift[k + 1]) = V
  <2>1. GetLSB(deltaA)
    BY SetupFacts DEF IInv
  <2>2. GetLSB(new) = (GetLSB(label0[g.out]) # GetLSB(AndAllBits(V, deltaA)))
    BY <1>10, <1>11, GetLSBXor
  <2>3. GetLSB(AndAllBits(V, deltaA)) = V
    BY <1>11, <2>1, GetLSBXor
  <2>4. GetLSB(label0[g.out]) \in BOOLEAN
    BY DEF GetLSB
  <2> QED  BY <1>4, <1>8, <1>11, <2>2, <2>3, <2>4
<1>14. (V # MaskOf(setup, g.out)) = (Decoded[g.in0] /\ Decoded[g.in1])
  BY <1>4, <1>11 DEF V, MaskedAnd, MaskOf, G, E
<1>15. /\ masked' = [masked EXCEPT ![g.out] = V]
       /\ labels' = [labels EXCEPT ![g.out] = LabelFor(V, g.out)]
  BY <1>3, <1>12, <1>13
<1> QED  BY <1>1, <1>3, <1>4, <1>11, <1>14, <1>15, EvaluateStep

(***************************************************************************)
(* The other steps of the evaluator.                                       *)
(***************************************************************************)

(* A step that leaves the evaluation alone and reads at most the stream    *)
(* keeps the invariant if it only moves on where that is no news.          *)
LEMMA EvaluatorMoves ==
  ASSUME IInv, epc' \in EvaluatorPcs, gpc # "garble",
         UNCHANGED <<setup, garblerVars, labels, masked, gateE, andE, rTables, rShift>>,
         EvaluatedWires' = EvaluatedWires,
         output' = None \/ output' \in [Outputs(circuit) -> BOOLEAN],
         challenge' \in Challenges \cup {None},
         checkE' \in 0 .. IndependentSize(circuit), accE' \in Block,
         Received', Progress', OutputDecoded',
         toE' \in Seq(SentByGarbler), toG' \in Seq(SentByEvaluator)
  PROVE  IInv'
<1>1. UNCHANGED <<circuit, G, E, gpc, garbling, label0, label1, tables, shift>>
  BY DEF circuit, G, E, garblerVars, garbling
<1>2. EvaluatorTypeOK'
  BY <1>1 DEF IInv, EvaluatorInv, EvaluatorTypeOK
<1>3. LabelMatchesMaskedValue' /\ MaskedValueCorrect'
  BY <1>1 DEF IInv, EvaluatorInv, LabelMatchesMaskedValue, MaskedValueCorrect, LabelFor,
     Decoded, Input
<1>4. GarblerInv'
  BY GarblerFrame DEF IInv
<1>5. Streams'
  BY <1>1, MessagesFrame DEF Streams
<1> QED  BY <1>2, <1>3, <1>4, <1>5 DEF IInv, EvaluatorInv

(* Receives of the input phase: nothing is evaluated yet.                  *)
LEMMA ReceiveStep ==
  ASSUME IInv, epc \in ReceivingPcs, epc' \in ReceivingPcs, gpc # "garble",
         UNCHANGED <<setup, garblerVars, gateE, andE, output, challenge, checkE, accE>>,
         labels' \in [Wires(circuit) -> Block], masked' \in [Wires(circuit) -> BOOLEAN],
         Received', toE' \in Seq(SentByGarbler), toG' \in Seq(SentByEvaluator)
  PROVE  IInv'
<1>1. UNCHANGED <<circuit, G, E, gpc, garbling, label0, label1, tables, shift>>
  BY DEF circuit, G, E, garblerVars, garbling
<1>2. EvaluatorTypeOK'
  BY <1>1 DEF IInv, EvaluatorInv, EvaluatorTypeOK, EvaluatorPcs, ReceivingPcs
<1>3. Progress'
  BY <1>1 DEF IInv, EvaluatorInv, Progress, ReceivingPcs
<1>4. LabelMatchesMaskedValue' /\ MaskedValueCorrect' /\ OutputDecoded'
  BY DEF LabelMatchesMaskedValue, MaskedValueCorrect, EvaluatedWires, OutputDecoded,
     ReceivingPcs
<1>5. GarblerInv'
  BY GarblerFrame DEF IInv
<1>6. Streams'
  BY <1>1, MessagesFrame DEF Streams
<1> QED  BY <1>2, <1>3, <1>4, <1>5, <1>6 DEF IInv, EvaluatorInv

(* The garbler's inputs and the evaluator's are different wires, and only  *)
(* they have masked values and labels before the first gate: what the      *)
(* evaluator holds when it enters the loop of evaluate.                    *)
EnteringEvaluate ==
  setup \in Setups /\ EvaluatorTypeOK /\ gateE = 1 /\ epc = "evaluate" /\ Received

LEMMA EnterEvaluate ==
  EnteringEvaluate => LabelMatchesMaskedValue /\ MaskedValueCorrect
<1> SUFFICES ASSUME EnteringEvaluate PROVE LabelMatchesMaskedValue /\ MaskedValueCorrect
  OBVIOUS
<1> USE DEF EnteringEvaluate
<1>1. /\ WellFormed(circuit) /\ ShareShape(circuit, G) /\ ShareShape(circuit, E)
      /\ setup.x \in [GarblerInputs(circuit) -> BOOLEAN]
      /\ setup.y \in [EvaluatorInputs(circuit) -> BOOLEAN]
      /\ \A w \in GarblerInputs(circuit) : E.masks[w] = FALSE
  BY SetupFacts
<1>2. /\ EvaluatedWires = InputWires(circuit)
      /\ InputWires(circuit) = GarblerInputs(circuit) \cup EvaluatorInputs(circuit)
      /\ GarblerInputs(circuit) \cap EvaluatorInputs(circuit) = {}
      /\ InputWires(circuit) \subseteq Wires(circuit)
  BY <1>1, WiresGrow DEF EvaluatedWires, ReceivingPcs
<1>3. /\ \A w \in GarblerInputs(circuit) :
           masked[w] = MaskedX[w] /\ labels[w] = LabelFor(masked[w], w)
      /\ \A w \in EvaluatorInputs(circuit) :
           /\ masked[w] = (Choice(w) # G.masks[w])
           /\ labels[w] = LabelFor(Choice(w) # G.masks[w], w)
  BY DEF Received
<1>4. LabelMatchesMaskedValue
  BY <1>2, <1>3 DEF LabelMatchesMaskedValue
<1>5. ASSUME NEW w \in InputWires(circuit) PROVE Decoded[w] = Input[w]
  <2>1. /\ Decoded[w] = (masked[w] # (G.masks[w] # E.masks[w]))
        /\ G.masks[w] \in BOOLEAN /\ E.masks[w] \in BOOLEAN
    BY <1>1, <1>2 DEF Decoded, MaskOf, ShareShape, G, E
  <2>2. Input[w] = IF w \in GarblerInputs(circuit) THEN setup.x[w] ELSE setup.y[w]
    BY DEF Input, InputOf, circuit
  <2>3. CASE w \in GarblerInputs(circuit)
    <3>1. masked[w] = (setup.x[w] # G.masks[w]) /\ setup.x[w] \in BOOLEAN
      BY <1>1, <1>3, <2>3 DEF MaskedX
    <3> QED  BY <1>1, <2>1, <2>2, <2>3, <3>1
  <2>4. CASE w \in EvaluatorInputs(circuit)
    <3>1. masked[w] = ((setup.y[w] # E.masks[w]) # G.masks[w]) /\ setup.y[w] \in BOOLEAN
      BY <1>1, <1>3, <2>4 DEF Choice
    <3> QED  BY <1>2, <2>1, <2>2, <2>4, <3>1
  <2> QED  BY <1>2, <2>3, <2>4
<1>6. \A i \in 1 .. (gateE - 1) : FALSE
  OBVIOUS
<1> QED  BY <1>4, <1>5, <1>6 DEF MaskedValueCorrect

(* A receive that ends the input phase.                                    *)
LEMMA ReceiveLast ==
  ASSUME IInv, epc \in ReceivingPcs, epc' = "evaluate", gpc # "garble",
         UNCHANGED <<setup, garblerVars, gateE, andE, output, challenge, checkE, accE>>,
         labels' \in [Wires(circuit) -> Block], masked' \in [Wires(circuit) -> BOOLEAN],
         Received', toE' \in Seq(SentByGarbler), toG' \in Seq(SentByEvaluator)
  PROVE  IInv'
<1>1. UNCHANGED <<circuit, G, E, gpc, garbling, label0, label1, tables, shift>>
  BY DEF circuit, G, E, garblerVars, garbling
<1>2. EvaluatorTypeOK'
  BY <1>1 DEF IInv, EvaluatorInv, EvaluatorTypeOK, EvaluatorPcs
<1>3. Progress' /\ gateE' = 1
  BY <1>1 DEF IInv, EvaluatorInv, Progress, ReceivingPcs
<1>4. setup' \in Setups
  BY DEF IInv
<1>5. LabelMatchesMaskedValue' /\ MaskedValueCorrect'
  <2>1. EnteringEvaluate'
    BY <1>2, <1>3, <1>4 DEF EnteringEvaluate
  <2>2. (LabelMatchesMaskedValue /\ MaskedValueCorrect)'
    BY <2>1, EnterEvaluate, PTL
  <2> QED  BY <2>2
<1>6. OutputDecoded'
  BY DEF OutputDecoded
<1>7. GarblerInv'
  BY GarblerFrame DEF IInv
<1>8. Streams'
  BY <1>1, MessagesFrame DEF Streams
<1> QED  BY <1>2, <1>3, <1>4, <1>5, <1>6, <1>7, <1>8 DEF IInv, EvaluatorInv

(* A message at the head of the stream is what the garbler sent under that *)
(* kind, and the rest of the stream is as sound as the stream was.         *)
LEMMA ReadStream ==
  ASSUME IInv, NEW kind, Arrived(toE, kind), toE' = Tail(toE)
  PROVE  /\ gpc # "garble" /\ toE' \in Seq(SentByGarbler)
         /\ Head(toE) \in SentByGarbler /\ Head(toE).kind = kind
BY StreamOps DEF IInv, Streams, Arrived

LEMMA RecvTablesInv == ASSUME IInv, RecvTables PROVE IInv'
<1>1. /\ epc = "tables" /\ epc' = "shift" /\ Arrived(toE, "tables") /\ toE' = Tail(toE)
      /\ rTables' = Head(toE).val
      /\ UNCHANGED <<setup, garblerVars, rShift, labels, masked, gateE, andE, output,
                     challenge, checkE, accE, toG>>
  BY DEF RecvTables, EvaluatorStep, checkingE
<1>2. /\ gpc # "garble" /\ toE' \in Seq(SentByGarbler) /\ rTables' = tables
      /\ toG' \in Seq(SentByEvaluator)
  BY <1>1, ReadStream, MessageByKind DEF IInv, Streams
<1>3. UNCHANGED tables
  BY <1>1 DEF garblerVars, garbling
<1>4. Received'
  BY <1>1, <1>2, <1>3 DEF Received
<1>5. labels' \in [Wires(circuit) -> Block] /\ masked' \in [Wires(circuit) -> BOOLEAN]
  BY <1>1 DEF IInv, EvaluatorInv, EvaluatorTypeOK
<1> QED  BY <1>1, <1>2, <1>4, <1>5, ReceiveStep DEF ReceivingPcs

LEMMA RecvShiftInv == ASSUME IInv, RecvShift PROVE IInv'
<1>1. /\ epc = "shift" /\ epc' = "maskedX" /\ Arrived(toE, "shift") /\ toE' = Tail(toE)
      /\ rShift' = Head(toE).val
      /\ UNCHANGED <<setup, garblerVars, rTables, labels, masked, gateE, andE, output,
                     challenge, checkE, accE, toG>>
  BY DEF RecvShift, EvaluatorStep, checkingE
<1>2. /\ gpc # "garble" /\ toE' \in Seq(SentByGarbler) /\ rShift' = shift
      /\ toG' \in Seq(SentByEvaluator)
  BY <1>1, ReadStream, MessageByKind DEF IInv, Streams
<1>3. UNCHANGED <<tables, shift>>
  BY <1>1 DEF garblerVars, garbling
<1>4. Received'
  BY <1>1, <1>2, <1>3 DEF IInv, EvaluatorInv, Received
<1>5. labels' \in [Wires(circuit) -> Block] /\ masked' \in [Wires(circuit) -> BOOLEAN]
  BY <1>1 DEF IInv, EvaluatorInv, EvaluatorTypeOK
<1> QED  BY <1>1, <1>2, <1>4, <1>5, ReceiveStep DEF ReceivingPcs

LEMMA RecvMaskedXInv == ASSUME IInv, RecvMaskedX PROVE IInv'
<1>1. /\ epc = "maskedX" /\ epc' = "labelsX" /\ Arrived(toE, "maskedX") /\ toE' = Tail(toE)
      /\ masked' = [w \in Wires(circuit) |->
                      IF w \in GarblerInputs(circuit) THEN Head(toE).val[w] ELSE masked[w]]
      /\ UNCHANGED <<setup, garblerVars, rTables, rShift, labels, gateE, andE, output,
                     challenge, checkE, accE, toG>>
  BY DEF RecvMaskedX, EvaluatorStep, checkingE
<1>2. /\ gpc # "garble" /\ toE' \in Seq(SentByGarbler) /\ Head(toE).val = MaskedX
      /\ toG' \in Seq(SentByEvaluator)
  BY <1>1, ReadStream, MessageByKind DEF IInv, Streams
<1>3. UNCHANGED <<tables, shift, circuit, G>> /\ GarblerInputs(circuit) \subseteq Wires(circuit)
  BY <1>1, SetupFacts, WiresGrow DEF IInv, garblerVars, garbling, circuit, G
<1>4. Received'
  BY <1>1, <1>2, <1>3 DEF IInv, EvaluatorInv, Received, MaskedX
<1>5. labels' \in [Wires(circuit) -> Block] /\ masked' \in [Wires(circuit) -> BOOLEAN]
  <2>1. \A w \in GarblerInputs(circuit) : MaskedX[w] \in BOOLEAN
    BY DEF MaskedX
  <2> QED  BY <1>1, <1>2, <2>1 DEF IInv, EvaluatorInv, EvaluatorTypeOK
<1> QED  BY <1>1, <1>2, <1>4, <1>5, ReceiveStep DEF ReceivingPcs

LEMMA RecvLabelsXInv == ASSUME IInv, RecvLabelsX PROVE IInv'
<1>1. /\ epc = "labelsX" /\ Arrived(toE, "labelsX") /\ toE' = Tail(toE)
      /\ epc' = IF circuit.inputSize1 # 0 THEN "otPads" ELSE "evaluate"
      /\ labels' = [w \in Wires(circuit) |->
                      IF w \in GarblerInputs(circuit) THEN Head(toE).val[w] ELSE labels[w]]
      /\ toG' = IF circuit.inputSize1 # 0 THEN Append(toG, Msg("otExtend", {})) ELSE toG
      /\ UNCHANGED <<setup, garblerVars, rTables, rShift, masked, gateE, andE, output,
                     challenge, checkE, accE>>
  BY DEF RecvLabelsX, EvaluatorStep, checkingE
<1>2. /\ gpc # "garble" /\ toE' \in Seq(SentByGarbler) /\ Head(toE).val = LabelsX
  BY <1>1, ReadStream, MessageByKind
<1>3. toG' \in Seq(SentByEvaluator)
  <2>1. Msg("otExtend", {}) \in SentByEvaluator /\ toG \in Seq(SentByEvaluator)
    BY DEF SentByEvaluator, IInv, Streams
  <2> QED  BY <1>1, <2>1, StreamOps
<1>4. /\ UNCHANGED <<tables, shift, circuit, G, E, label0, label1>>
      /\ GarblerInputs(circuit) \subseteq Wires(circuit) /\ WellFormed(circuit)
  BY <1>1, SetupFacts, WiresGrow DEF IInv, garblerVars, garbling, circuit, G, E
<1>5. \A w \in GarblerInputs(circuit) : LabelsX[w] = LabelFor(masked[w], w)
  BY <1>1 DEF IInv, EvaluatorInv, Received, LabelsX
<1>6. circuit.inputSize1 = 0 => EvaluatorInputs(circuit) = {}
  BY <1>4 DEF WellFormed, EvaluatorInputs, TotalInputSize
<1>7. circuit.inputSize1 = 0 => EvaluatorInputs(circuit)' = {}
  BY <1>4, <1>6
<1>8. Received'
  BY <1>1, <1>2, <1>4, <1>5, <1>7 DEF IInv, EvaluatorInv, Received, MaskedX, LabelFor
<1>9. labels' \in [Wires(circuit) -> Block] /\ masked' \in [Wires(circuit) -> BOOLEAN]
  <2>1. \A w \in GarblerInputs(circuit) : LabelsX[w] \in Block
    BY <1>4 DEF LabelsX, LabelFor, IInv, GarblerInv, GarblerTypeOK
  <2> QED  BY <1>1, <1>2, <2>1 DEF IInv, EvaluatorInv, EvaluatorTypeOK
<1> QED  BY <1>1, <1>2, <1>3, <1>8, <1>9, ReceiveStep, ReceiveLast DEF ReceivingPcs

LEMMA RecvOtPadsInv == ASSUME IInv, RecvOtPads PROVE IInv'
<1>1. /\ epc = "otPads" /\ epc' = "openBits" /\ Arrived(toE, "otPads") /\ toE' = Tail(toE)
      /\ labels' = [w \in Wires(circuit) |->
                      IF w \in EvaluatorInputs(circuit)
                      THEN Head(toE).val[w][Choice(w)] ELSE labels[w]]
      /\ UNCHANGED <<setup, garblerVars, rTables, rShift, masked, gateE, andE, output,
                     challenge, checkE, accE, toG>>
  BY DEF RecvOtPads, EvaluatorStep, checkingE
<1>2. /\ gpc # "garble" /\ toE' \in Seq(SentByGarbler) /\ Head(toE).val = OtPads
      /\ toG' \in Seq(SentByEvaluator)
  BY <1>1, ReadStream, MessageByKind DEF IInv, Streams
<1>3. /\ UNCHANGED <<tables, shift, circuit, G, E, label0, label1>>
      /\ GarblerInputs(circuit) \subseteq Wires(circuit)
      /\ EvaluatorInputs(circuit) \subseteq Wires(circuit)
      /\ GarblerInputs(circuit) \cap EvaluatorInputs(circuit) = {}
  BY <1>1, SetupFacts, WiresGrow DEF IInv, garblerVars, garbling, circuit, G, E
<1>4. \A w \in EvaluatorInputs(circuit) :
        OtPads[w][Choice(w)] = LabelFor(Choice(w) # G.masks[w], w)
  <2>1. \A w : Choice(w) \in BOOLEAN
    BY DEF Choice
  <2> QED  BY <2>1 DEF OtPads
<1>5. Received'
  <2>1. \A w \in EvaluatorInputs(circuit) : labels'[w] = LabelFor(Choice(w) # G.masks[w], w)
    BY <1>1, <1>2, <1>3, <1>4
  <2>2. \A w \in GarblerInputs(circuit) : labels'[w] = labels[w]
    BY <1>1, <1>3
  <2> QED
    BY <1>1, <1>3, <2>1, <2>2 DEF IInv, EvaluatorInv, Received, MaskedX, LabelFor, Choice
<1>6. labels' \in [Wires(circuit) -> Block] /\ masked' \in [Wires(circuit) -> BOOLEAN]
  <2>1. \A w \in EvaluatorInputs(circuit) : OtPads[w][Choice(w)] \in Block
    BY <1>3, <1>4 DEF LabelFor, IInv, GarblerInv, GarblerTypeOK
  <2> QED  BY <1>1, <1>2, <2>1 DEF IInv, EvaluatorInv, EvaluatorTypeOK
<1> QED  BY <1>1, <1>2, <1>5, <1>6, ReceiveStep DEF ReceivingPcs

LEMMA RecvOpenBitsInv == ASSUME IInv, RecvOpenBits PROVE IInv'
<1>1. /\ epc = "openBits" /\ epc' = "openMacs" /\ Arrived(toE, "openBits")
      /\ toE' = Tail(toE)
      /\ masked' = [w \in Wires(circuit) |->
                      IF w \in EvaluatorInputs(circuit)
                      THEN Choice(w) # Head(toE).val[w] ELSE masked[w]]
      /\ UNCHANGED <<setup, garblerVars, rTables, rShift, labels, gateE, andE, output,
                     challenge, checkE, accE, toG>>
  BY DEF RecvOpenBits, EvaluatorStep, checkingE
<1>2. /\ gpc # "garble" /\ toE' \in Seq(SentByGarbler) /\ Head(toE).val = OpenedBits
      /\ toG' \in Seq(SentByEvaluator)
  BY <1>1, ReadStream, MessageByKind DEF IInv, Streams
<1>3. /\ UNCHANGED <<tables, shift, circuit, G, E, label0, label1>>
      /\ GarblerInputs(circuit) \subseteq Wires(circuit)
      /\ EvaluatorInputs(circuit) \subseteq Wires(circuit)
      /\ GarblerInputs(circuit) \cap EvaluatorInputs(circuit) = {}
  BY <1>1, SetupFacts, WiresGrow DEF IInv, garblerVars, garbling, circuit, G, E
<1>4. Received'
  <2>1. \A w \in EvaluatorInputs(circuit) : masked'[w] = (Choice(w) # G.masks[w])
    BY <1>1, <1>2, <1>3 DEF OpenedBits
  <2>2. \A w \in GarblerInputs(circuit) : masked'[w] = masked[w]
    BY <1>1, <1>3
  <2> QED
    BY <1>1, <1>3, <2>1, <2>2 DEF IInv, EvaluatorInv, Received, MaskedX, LabelFor, Choice
<1>5. labels' \in [Wires(circuit) -> Block] /\ masked' \in [Wires(circuit) -> BOOLEAN]
  BY <1>1 DEF IInv, EvaluatorInv, EvaluatorTypeOK
<1> QED  BY <1>1, <1>2, <1>4, <1>5, ReceiveStep DEF ReceivingPcs

(* The opening verifies: the MACs the garbler opens are those of its mask  *)
(* bits under the evaluator's key.                                         *)
LEMMA OpeningVerifies ==
  ASSUME IInv, RecvOpenMacs
  PROVE  epc' = "evaluate"
<1>1. /\ epc = "openMacs" /\ Arrived(toE, "openMacs") /\ toE' = Tail(toE)
      /\ (\A w \in EvaluatorInputs(circuit) :
             Authentic(OpenedBit(w), Head(toE).val[w], E.keys[w], E.delta))
           => epc' = "evaluate"
  BY DEF RecvOpenMacs, EvaluatorStep
<1>2. Head(toE).val = OpenedMacs
  BY <1>1, ReadStream, MessageByKind
<1>3. /\ EvaluatorInputs(circuit) \subseteq Wires(circuit)
      /\ ShareAuthentic(circuit, G, E)
      /\ \A w \in Wires(circuit) : G.masks[w] \in BOOLEAN
  BY SetupFacts, WiresGrow DEF IInv, ShareShape
<1>4. ASSUME NEW w \in EvaluatorInputs(circuit)
      PROVE  Authentic(OpenedBit(w), Head(toE).val[w], E.keys[w], E.delta)
  <2>1. masked[w] = (Choice(w) # G.masks[w])
    BY <1>1 DEF IInv, EvaluatorInv, Received
  <2>2. OpenedBit(w) = G.masks[w]
    BY <1>3, <2>1 DEF OpenedBit, Choice
  <2>3. Head(toE).val[w] = G.macs[w]
    BY <1>2 DEF OpenedMacs
  <2> QED  BY <1>3, <2>2, <2>3 DEF ShareAuthentic
<1> QED  BY <1>1, <1>4

LEMMA RecvOpenMacsInv == ASSUME IInv, RecvOpenMacs PROVE IInv'
<1>1. /\ epc = "openMacs" /\ Arrived(toE, "openMacs") /\ toE' = Tail(toE)
      /\ UNCHANGED <<setup, garblerVars, rTables, rShift, labels, masked, gateE, andE, output,
                     challenge, checkE, accE, toG>>
  BY DEF RecvOpenMacs, EvaluatorStep, checkingE
<1>2. gpc # "garble" /\ toE' \in Seq(SentByGarbler) /\ toG' \in Seq(SentByEvaluator)
  BY <1>1, ReadStream DEF IInv, Streams
<1>3. UNCHANGED <<tables, shift, circuit, G, E, label0, label1>>
  BY <1>1 DEF garblerVars, garbling, circuit, G, E
<1>4. epc' = "evaluate"
  BY OpeningVerifies
<1>5. Received'
  BY <1>1, <1>3, <1>4 DEF IInv, EvaluatorInv, Received, MaskedX, LabelFor, Choice
<1>6. labels' \in [Wires(circuit) -> Block] /\ masked' \in [Wires(circuit) -> BOOLEAN]
  BY <1>1 DEF IInv, EvaluatorInv, EvaluatorTypeOK
<1> QED  BY <1>1, <1>2, <1>4, <1>5, <1>6, ReceiveLast DEF ReceivingPcs

(***************************************************************************)
(* The steps after the loop of evaluate.                                   *)
(***************************************************************************)
AfterLoopPcs == {"outputMasks", "challenge", "check", "done", "abort"}

(* Past the loop the evaluation no longer changes: what was received and   *)
(* decoded stays.                                                          *)
LEMMA AfterLoop ==
  ASSUME IInv, epc \in AfterLoopPcs \cup {"evaluate"}, epc' \in AfterLoopPcs,
         epc = "evaluate" => gateE > GateSize(circuit),
         UNCHANGED <<setup, garblerVars, labels, masked, gateE, andE, rTables, rShift>>,
         epc' = "check" => challenge' \in Challenges
  PROVE  /\ gpc # "garble" /\ EvaluatedWires' = EvaluatedWires
         /\ Received' /\ Progress'
         /\ gateE = GateSize(circuit) + 1 /\ epc' \in EvaluatorPcs
         /\ Decoded' = Decoded /\ UNCHANGED circuit
<1>1. UNCHANGED <<circuit, G, E, label0, label1, tables, shift>>
  BY DEF circuit, G, E, garblerVars, garbling
<1>2. gpc # "garble"
  BY DEF IInv, Streams, AfterLoopPcs
<1>3. EvaluatedWires' = EvaluatedWires
  BY <1>1 DEF EvaluatedWires, AfterLoopPcs, ReceivingPcs
<1>4. Received'
  BY <1>1
  DEF AfterLoopPcs, IInv, EvaluatorInv, Received, MaskedX, LabelFor, Choice
<1>5. gateE = GateSize(circuit) + 1
  <2>1. WellFormed(circuit)
    BY SetupFacts DEF IInv
  <2>2. GateSize(circuit) \in Nat /\ gateE \in 1 .. (GateSize(circuit) + 1)
    BY <2>1, WiresGrow DEF IInv, EvaluatorInv, EvaluatorTypeOK
  <2> QED  BY <2>2 DEF IInv, EvaluatorInv, Progress, AfterLoopPcs, ReceivingPcs
<1>6. Progress'
  BY <1>1, <1>5 DEF IInv, EvaluatorInv, Progress, AfterLoopPcs, ReceivingPcs
<1>7. Decoded' = Decoded
  BY <1>1 DEF Decoded
<1> QED  BY <1>1, <1>2, <1>3, <1>4, <1>5, <1>6, <1>7 DEF AfterLoopPcs, EvaluatorPcs

LEMMA EvaluateEndInv == ASSUME IInv, EvaluateEnd PROVE IInv'
<1>1. /\ epc = "evaluate" /\ epc' = "outputMasks" /\ gateE > GateSize(circuit)
      /\ UNCHANGED <<setup, garblerVars, labels, masked, gateE, andE, rTables, rShift,
                     output, challenge, checkE, accE, toE, toG>>
  BY DEF EvaluateEnd, EvaluatorStep, checkingE
<1>2. OutputDecoded'
  BY <1>1 DEF OutputDecoded
<1>3. /\ output \in [Outputs(circuit) -> BOOLEAN] \cup {None}
      /\ challenge \in Challenges \cup {None}
      /\ checkE \in 0 .. IndependentSize(circuit) /\ accE \in Block
      /\ toE \in Seq(SentByGarbler) /\ toG \in Seq(SentByEvaluator)
  BY DEF IInv, EvaluatorInv, EvaluatorTypeOK, Streams
<1>4. epc' \in AfterLoopPcs /\ epc \in AfterLoopPcs \cup {"evaluate"}
  BY <1>1 DEF AfterLoopPcs
<1> QED  BY <1>1, <1>2, <1>3, <1>4, AfterLoop, EvaluatorMoves

LEMMA RecvOutputMasksInv == ASSUME IInv, RecvOutputMasks PROVE IInv'
<1>1. /\ epc = "outputMasks" /\ epc' = "challenge" /\ Arrived(toE, "outputMasks")
      /\ toE' = Tail(toE)
      /\ output' = [i \in Outputs(circuit) |->
                      (masked[OutputWire(circuit, i)] # Head(toE).val[i])
                        # E.masks[OutputWire(circuit, i)]]
      /\ UNCHANGED <<setup, garblerVars, labels, masked, gateE, andE, rTables, rShift,
                     challenge, checkE, accE, toG>>
  BY DEF RecvOutputMasks, EvaluatorStep, checkingE
<1>2. /\ gpc # "garble" /\ toE' \in Seq(SentByGarbler) /\ Head(toE).val = OutputMasks
      /\ toG' \in Seq(SentByEvaluator)
  BY <1>1, ReadStream, MessageByKind DEF IInv, Streams
<1>3. /\ WellFormed(circuit) /\ ShareShape(circuit, G) /\ ShareShape(circuit, E)
      /\ masked \in [Wires(circuit) -> BOOLEAN]
  BY SetupFacts DEF IInv, EvaluatorInv, EvaluatorTypeOK
<1>4. ASSUME NEW i \in Outputs(circuit), NEW w, w = OutputWire(circuit, i)
      PROVE  ((masked[w] # Head(toE).val[i]) # E.masks[w]) = Decoded[w]
  <2>1. w \in Wires(circuit)
    BY <1>3, <1>4, WiresGrow
  <2>2. /\ masked[w] \in BOOLEAN /\ G.masks[w] \in BOOLEAN /\ E.masks[w] \in BOOLEAN
        /\ Decoded[w] = (masked[w] # (G.masks[w] # E.masks[w]))
    BY <1>3, <2>1 DEF Decoded, MaskOf, ShareShape, G, E
  <2>3. Head(toE).val[i] = G.masks[w]
    BY <1>2, <1>4 DEF OutputMasks
  <2> QED  BY <2>2, <2>3
<1>5. output' = OutputOf(circuit, Decoded)
  BY <1>1, <1>4 DEF OutputOf
<1>6. epc' \in AfterLoopPcs /\ epc \in AfterLoopPcs \cup {"evaluate"}
  BY <1>1 DEF AfterLoopPcs
<1>7. Decoded' = Decoded /\ UNCHANGED circuit
  BY <1>1, <1>6, AfterLoop
<1>8. OutputDecoded'
  BY <1>5, <1>7 DEF OutputDecoded, OutputOf
<1>9. /\ output' \in [Outputs(circuit) -> BOOLEAN]
      /\ challenge \in Challenges \cup {None}
      /\ checkE \in 0 .. IndependentSize(circuit) /\ accE \in Block
  BY <1>1 DEF IInv, EvaluatorInv, EvaluatorTypeOK
<1> QED  BY <1>1, <1>2, <1>6, <1>8, <1>9, AfterLoop, EvaluatorMoves

LEMMA SendChallengeInv == ASSUME IInv, SendChallenge PROVE IInv'
<1>1. /\ epc = "challenge" /\ epc' = "check" /\ challenge' \in Challenges
      /\ toG' = Append(toG, Msg("challenge", challenge'))
      /\ UNCHANGED <<setup, garblerVars, labels, masked, gateE, andE, rTables, rShift,
                     output, checkE, accE, toE>>
  BY DEF SendChallenge, EvaluatorStep
<1>2. /\ output = None \/ output \in [Outputs(circuit) -> BOOLEAN]
      /\ checkE \in 0 .. IndependentSize(circuit) /\ accE \in Block
      /\ toE \in Seq(SentByGarbler) /\ toG \in Seq(SentByEvaluator)
  BY DEF IInv, EvaluatorInv, EvaluatorTypeOK, Streams
<1>3. toG' \in Seq(SentByEvaluator)
  <2>1. Msg("challenge", challenge') \in SentByEvaluator
    BY <1>1 DEF SentByEvaluator
  <2> QED  BY <1>1, <1>2, <2>1, StreamOps
<1>4. epc' \in AfterLoopPcs /\ epc \in AfterLoopPcs \cup {"evaluate"}
  BY <1>1 DEF AfterLoopPcs
<1>5. OutputDecoded'
  BY <1>1, <1>4, AfterLoop DEF IInv, EvaluatorInv, OutputDecoded, OutputOf
<1> QED  BY <1>1, <1>2, <1>3, <1>4, <1>5, AfterLoop, EvaluatorMoves

LEMMA RecvGkInv == ASSUME IInv, RecvGk PROVE IInv'
<1> DEFINE w == IndependentWire(circuit, checkE)
           hash == H(labels[w], w, 2) \oplus AndAllBits(masked[w], Head(toE).val)
<1>1. /\ epc = "check" /\ epc' = "check" /\ checkE < IndependentSize(circuit)
      /\ Arrived(toE, "gk") /\ toE' = Tail(toE) /\ checkE' = checkE + 1
      /\ accE' = accE \oplus Contribution(checkE, challenge, hash, BTerms)
      /\ UNCHANGED <<setup, garblerVars, labels, masked, gateE, andE, rTables, rShift,
                     output, challenge, toG>>
  BY DEF RecvGk, EvaluatorStep
<1>2. /\ gpc # "garble" /\ toE' \in Seq(SentByGarbler) /\ Head(toE).val \in Block
      /\ toG' \in Seq(SentByEvaluator)
  BY <1>1, ReadStream, MessageByKind DEF IInv, Streams
<1>3. /\ WellFormed(circuit) /\ EvaluatorTypeOK /\ challenge \in Challenges
  BY <1>1, SetupFacts DEF IInv, EvaluatorInv, Progress
<1>4. IndependentSize(circuit) \in Nat
  <2>1. AndGateSize(circuit) \in Nat
    BY <1>3, AndGatesFinite
  <2> QED  BY <1>3, <2>1 DEF WellFormed, TotalInputSize, IndependentSize
<1>5. /\ checkE \in 0 .. (IndependentSize(circuit) - 1)
      /\ checkE' \in 0 .. IndependentSize(circuit)
  BY <1>1, <1>3, <1>4 DEF EvaluatorTypeOK
<1>6. w \in Wires(circuit)
  BY <1>3, <1>5, IndependentWireType
<1>7. hash \in Block
  <2>1. labels[w] \in Block
    BY <1>3, <1>6 DEF EvaluatorTypeOK
  <2>2. H(labels[w], w, 2) \in Block
    BY <1>6, <2>1, SetupFacts DEF IInv
  <2> QED  BY <1>2, <2>2, BlockType
<1>8. accE' \in Block
  <2>1. Contribution(checkE, challenge, hash, BTerms) \in Block
    BY <1>3, <1>5, <1>7, ContributionType DEF IInv
  <2> QED  BY <1>1, <1>3, <2>1, BlockType DEF EvaluatorTypeOK
<1>9. epc' \in AfterLoopPcs /\ epc \in AfterLoopPcs \cup {"evaluate"}
  BY <1>1 DEF AfterLoopPcs
<1>10. OutputDecoded'
  BY <1>1, <1>3, <1>9, AfterLoop DEF IInv, EvaluatorInv, OutputDecoded, OutputOf
<1>11. output = None \/ output \in [Outputs(circuit) -> BOOLEAN]
  BY <1>3 DEF EvaluatorTypeOK
<1> QED
  BY <1>1, <1>2, <1>3, <1>5, <1>8, <1>9, <1>10, <1>11, AfterLoop, EvaluatorMoves

LEMMA RecvHaInv == ASSUME IInv, RecvHa PROVE IInv'
<1>1. /\ epc = "check" /\ epc' \in {"done", "abort"}
      /\ Arrived(toE, "ha") /\ toE' = Tail(toE)
      /\ UNCHANGED <<setup, garblerVars, labels, masked, gateE, andE, rTables, rShift,
                     output, challenge, checkE, accE, toG>>
  BY DEF RecvHa, EvaluatorStep
<1>2. /\ gpc # "garble" /\ toE' \in Seq(SentByGarbler) /\ toG' \in Seq(SentByEvaluator)
  BY <1>1, ReadStream DEF IInv, Streams
<1>3. EvaluatorTypeOK
  BY DEF IInv, EvaluatorInv
<1>4. epc' \in AfterLoopPcs /\ epc \in AfterLoopPcs \cup {"evaluate"} /\ epc' # "check"
  BY <1>1 DEF AfterLoopPcs
<1>5. OutputDecoded'
  BY <1>1, <1>4, AfterLoop DEF IInv, EvaluatorInv, OutputDecoded, OutputOf
<1> QED  BY <1>1, <1>2, <1>3, <1>4, <1>5, AfterLoop, EvaluatorMoves DEF EvaluatorTypeOK

LEMMA EvaluatorSteps ==
  ASSUME IInv, Evaluator
  PROVE  IInv'
BY RecvTablesInv, RecvShiftInv, RecvMaskedXInv, RecvLabelsXInv, RecvOtPadsInv,
   RecvOpenBitsInv, RecvOpenMacsInv, EvaluateNotInv, EvaluateAndInv, EvaluateXorInv,
   EvaluateEndInv, RecvOutputMasksInv, SendChallengeInv, RecvGkInv, RecvHaInv
DEF Evaluator

(***************************************************************************)
(* The theorems.                                                           *)
(***************************************************************************)

(* The invariant is inductive.                                             *)
LEMMA NextIInv == IInv /\ [Next]_vars => IInv'
<1> SUFFICES ASSUME IInv, [Next]_vars PROVE IInv'
  OBVIOUS
<1>1. CASE Garbler
  BY <1>1, GarblerSteps
<1>2. CASE Evaluator
  BY <1>2, EvaluatorSteps
<1>3. CASE UNCHANGED vars
  <2>1. UNCHANGED <<setup, garblerVars, evaluatorVars, toE, toG>>
    BY <1>3 DEF vars
  <2>2. UNCHANGED <<garbling, gpc, epc>>
    BY <2>1 DEF garblerVars, evaluatorVars
  <2> QED
    BY <2>1, <2>2, GarblerFrame, EvaluatorFrame, MessagesFrame DEF IInv, Streams
<1> QED  BY <1>1, <1>2, <1>3 DEF Next, Finished

(* The invariant of garbling and evaluation holds in every state of TwoPC. *)
THEOREM Invariance == Spec => []IInv
<1>1. Init => IInv
  BY InitIInv
<1>2. IInv /\ [Next]_vars => IInv'
  BY NextIInv
<1> QED  BY <1>1, <1>2, PTL DEF Spec

(* Every variable keeps its type: the check's accumulators stay blocks,    *)
(* the AND counters of both loops never pass the number of AND gates.      *)
THEOREM TypeCorrect == Spec => []TypeOK
<1>1. IInv => TypeOK
  BY DEF IInv, GarblerInv, EvaluatorInv, TypeOK
<1> QED  BY <1>1, Invariance, PTL

(* Free XOR: garble keeps the two labels of every wire it has reached one  *)
(* global key apart, for every circuit.                                    *)
THEOREM FreeXorHolds == Spec => []FreeXor
<1>1. IInv => FreeXor
  BY DEF IInv, GarblerInv
<1> QED  BY <1>1, Invariance, PTL

(* The evaluator's label of every evaluated wire is the garbler's label of *)
(* the masked value, through AND gates of any number and nesting.          *)
THEOREM LabelsMatch == Spec => []LabelMatchesMaskedValue
<1>1. IInv => LabelMatchesMaskedValue
  BY DEF IInv, EvaluatorInv
<1> QED  BY <1>1, Invariance, PTL

(* Masked values decode to a partial valuation of the circuit.             *)
THEOREM MaskedValuesCorrect == Spec => []MaskedValueCorrect
<1>1. IInv => MaskedValueCorrect
  BY DEF IInv, EvaluatorInv
<1> QED  BY <1>1, Invariance, PTL

(* A decoded valuation of all wires makes the output an answer.            *)
LEMMA DecodedAnswer ==
  IInv /\ epc \in {"challenge", "check", "done", "abort"} => output \in AnswersTo(setup)
<1> SUFFICES ASSUME IInv, epc \in {"challenge", "check", "done", "abort"}
             PROVE  output \in AnswersTo(setup)
  OBVIOUS
<1>1. output = OutputOf(circuit, Decoded)
  BY DEF IInv, EvaluatorInv, OutputDecoded
<1>2. WellFormed(circuit) /\ gateE = GateSize(circuit) + 1 /\ GateSize(circuit) \in Nat
  <2>1. WellFormed(circuit)
    BY SetupFacts DEF IInv
  <2> QED  BY <2>1, WiresGrow DEF IInv, EvaluatorInv, Progress, ReceivingPcs
<1>3. EvaluatedWires = Wires(circuit) /\ InputWires(circuit) \subseteq Wires(circuit)
  BY <1>2, WiresGrow DEF EvaluatedWires, ReceivingPcs
<1>4. Decoded \in [Wires(circuit) -> BOOLEAN]
  BY DEF Decoded
<1>5. MaskedValueCorrect
  BY DEF IInv, EvaluatorInv
<1>6. \A w \in InputWires(circuit) : Decoded[w] = Input[w]
  BY <1>3, <1>5 DEF MaskedValueCorrect
<1>7. ASSUME NEW i \in GateIndices(circuit) PROVE GateHolds(circuit.gates[i], Decoded)
  <2>1. i \in 1 .. (gateE - 1) /\ circuit.gates[i].out \in Wires(circuit)
    BY <1>2, GateWires DEF GateIndices
  <2> QED  BY <1>3, <1>5, <2>1 DEF MaskedValueCorrect
<1>8. IsValuation(circuit, Input, Decoded)
  BY <1>4, <1>6, <1>7 DEF IsValuation
<1> DEFINE extend(u) == [w \in Wires(circuit) |->
                           IF w \in InputWires(circuit) THEN Input[w] ELSE u[w]]
           rest == [w \in Wires(circuit) \ InputWires(circuit) |-> Decoded[w]]
<1>9. rest \in [Wires(circuit) \ InputWires(circuit) -> BOOLEAN]
  BY <1>4
<1>10. extend(rest) = Decoded
  BY <1>4, <1>6
<1>11. Decoded \in {extend(u) : u \in [Wires(circuit) \ InputWires(circuit) -> BOOLEAN]}
  BY <1>9, <1>10
<1>12. OutputOf(circuit, Decoded) \in Results(circuit, Input)
  BY <1>8, <1>11 DEF Results
<1> QED  BY <1>1, <1>12 DEF AnswersTo, Input, circuit

(* What the evaluator's full_protocol returns is the circuit applied to    *)
(* the two parties' inputs: for every circuit, every input, all keys and   *)
(* shares that preprocessing may leave, every hash.                        *)
THEOREM OutputIsCorrect == Spec => []OutputCorrect
<1>1. IInv => OutputCorrect
  BY DecodedAnswer DEF OutputCorrect
<1> QED  BY <1>1, Invariance, PTL

-----------------------------------------------------------------------------
(***************************************************************************)
(* Refinement.                                                             *)
(***************************************************************************)
LEMMA ResultFinal ==
  ASSUME [Next]_vars
  PROVE  UNCHANGED setup /\ (epc = "done" => UNCHANGED <<epc, output>>)
<1>1. CASE Garbler
  <2>1. UNCHANGED <<setup, evaluatorVars>>
    BY <1>1 DEF Garbler, GarbleNot, GarbleAnd, GarbleXor, AtGateG, SendGarbled, SendInput,
       OtSend, OpenMasks, SendOutputMasks, RecvChallenge, SendGk, SendHa, GarblerStep
  <2> QED  BY <2>1 DEF evaluatorVars, evaluation
<1>2. CASE Evaluator
  BY <1>2 DEF Evaluator, RecvTables, RecvShift, RecvMaskedX, RecvLabelsX, RecvOtPads,
     RecvOpenBits, RecvOpenMacs, EvaluateNot, EvaluateAnd, EvaluateXor, AtGateE, EvaluateEnd,
     RecvOutputMasks, SendChallenge, RecvGk, RecvHa, EvaluatorStep
<1>3. CASE UNCHANGED vars
  BY <1>3 DEF vars, evaluatorVars, evaluation
<1> QED  BY <1>1, <1>2, <1>3 DEF Next, Finished

(* The protocol implements the ideal functionality: nothing is decided at  *)
(* first, one step decides, and what it decides is an answer to the        *)
(* parties' inputs.  (That it does decide is a matter of fairness.)        *)
THEOREM ImplementsIdealSafety == Spec => Ideal!Safety
<1> DEFINE res == IF epc = "done" THEN output ELSE None
<1>1. Init => Ideal!Init
  BY DEF Init, Ideal!Init
<1>2. IInv /\ IInv' /\ [Next]_vars => [Ideal!Decide]_<<setup, res>>
  <2> SUFFICES ASSUME IInv, IInv', [Next]_vars PROVE [Ideal!Decide]_<<setup, res>>
    OBVIOUS
  <2>1. UNCHANGED setup /\ (epc = "done" => UNCHANGED <<epc, output>>)
    BY ResultFinal
  <2>2. CASE epc = "done" \/ epc' # "done"
    BY <2>1, <2>2
  <2>3. CASE epc # "done" /\ epc' = "done"
    <3>1. (output \in AnswersTo(setup))'
      <4>1. (IInv /\ epc \in {"challenge", "check", "done", "abort"})'
        BY <2>3
      <4> QED  BY <4>1, DecodedAnswer, PTL
    <3>2. AnswersTo(setup)' = AnswersTo(setup)
      BY <2>1
    <3>3. res = None /\ res' \in AnswersTo(setup)
      BY <2>3, <3>1, <3>2
    <3> QED  BY <2>1, <3>3 DEF Ideal!Decide
  <2> QED  BY <2>2, <2>3
<1> QED  BY <1>1, <1>2, Invariance, PTL DEF Spec, Ideal!Safety

-----------------------------------------------------------------------------
(***************************************************************************)
(* The order of messages, and the sums of the GC check.                    *)
(*                                                                         *)
(* Both programs go through the same messages, which have a number each:   *)
(* tables, shift, maskedX, labelsX, then otPads, openBits and openMacs if  *)
(* the evaluator has inputs, outputMasks, a gk for every independent wire, *)
(* and ha.                                                                 *)
(***************************************************************************)
Opening == IF circuit.inputSize1 # 0 THEN 3 ELSE 0

FirstGk == 5 + Opening

LastMessage == FirstGk + IndependentSize(circuit)

(* The m on its way is the message of number n. *)
Numbered(m, n) ==
  /\ n = 0 => m.kind = "tables"
  /\ n = 1 => m.kind = "shift"
  /\ n = 2 => m.kind = "maskedX"
  /\ n = 3 => m.kind = "labelsX"
  /\ n = 4 /\ Opening = 3 => m.kind = "otPads"
  /\ n = 5 /\ Opening = 3 => m.kind = "openBits"
  /\ n = 6 /\ Opening = 3 => m.kind = "openMacs"
  /\ n = 4 + Opening => m.kind = "outputMasks"
  /\ n >= FirstGk /\ n < LastMessage =>
       m = Msg("gk", GkOf(seedG, IndependentWire(circuit, n - FirstGk)))
  /\ n = LastMessage => m = Msg("ha", accG \cap CheckBits)

(* How many messages the garbler has sent. *)
Sent ==
  CASE gpc = "garble" -> 0
    [] gpc = "input" -> 2
    [] gpc = "ot" -> 4
    [] gpc = "open" -> 5
    [] gpc = "outputMasks" -> 4 + Opening
    [] gpc = "check" -> FirstGk
    [] gpc = "gk" -> FirstGk + checkG
    [] gpc = "done" -> LastMessage + 1

(* How many the evaluator has taken. *)
Taken ==
  CASE epc = "tables" -> 0
    [] epc = "shift" -> 1
    [] epc = "maskedX" -> 2
    [] epc = "labelsX" -> 3
    [] epc = "otPads" -> 4
    [] epc = "openBits" -> 5
    [] epc = "openMacs" -> 6
    [] epc = "evaluate" -> 4 + Opening
    [] epc = "outputMasks" -> 4 + Opening
    [] epc = "challenge" -> FirstGk
    [] epc = "check" -> FirstGk + checkE
    [] OTHER -> LastMessage + 1

(* What is on its way to the evaluator. *)
Window ==
  /\ Taken <= Sent
  /\ Len(toE) = Sent - Taken
  /\ \A j \in 1 .. Len(toE) : Numbered(toE[j], Taken + j - 1)

(* What is on its way to the garbler, which is never more than a message. *)
Requests ==
  toG = IF epc = "otPads" /\ gpc = "ot" THEN <<Msg("otExtend", {})>>
        ELSE IF epc = "check" /\ gpc = "check" THEN <<Msg("challenge", challenge)>>
        ELSE <<>>

(* Who can be where. *)
Places ==
  /\ epc # "abort"
  /\ gpc \in {"ot", "open"} \/ epc \in {"otPads", "openBits", "openMacs"} => Opening = 3
  /\ Opening = 3 /\ gpc \notin {"garble", "input", "ot"} =>
       epc \notin {"tables", "shift", "maskedX", "labelsX"}
  /\ gpc \notin {"gk", "done"} => checkG = 0
  /\ gpc = "done" => checkG = IndependentSize(circuit)
  /\ epc \notin {"check", "done"} => checkE = 0
  /\ gpc \in {"gk", "done"} => epc \in {"check", "done"} /\ seedG = challenge

(* What each of the independent wires adds to either accumulator. *)
CheckG ==
  [n \in 0 .. (IndependentSize(circuit) - 1) |->
     LET w == IndependentWire(circuit, n)
     IN  Contribution(n, seedG, H(label0[w], w, 2), Ak0Terms)]

CheckE ==
  [n \in 0 .. (IndependentSize(circuit) - 1) |->
     LET w == IndependentWire(circuit, n)
         hash == H(labels[w], w, 2) \oplus AndAllBits(masked[w], GkOf(seedG, w))
     IN  Contribution(n, challenge, hash, BTerms)]

Accumulators ==
  /\ accG = XorOver(0 .. (checkG - 1), CheckG)
  /\ accE = XorOver(0 .. (checkE - 1), CheckE)

OnlineInv == Window /\ Requests /\ Places /\ Accumulators

(* Multiplication distributes over XOR on the left as well. *)
LEMMA MulLeft ==
  ASSUME NEW x \in Block, NEW y \in Block, NEW c \in Block
  PROVE  GfMul(x \oplus y, c) = GfMul(x, c) \oplus GfMul(y, c)
<1>1. x \oplus y \in Block
  BY BlockType
<1>2. GfMul(x \oplus y, c) = GfMul(c, x \oplus y)
  BY <1>1, FieldAssumption
<1>3. GfMul(c, x \oplus y) = GfMul(c, x) \oplus GfMul(c, y)
  BY FieldAssumption
<1>4. GfMul(c, x) = GfMul(x, c) /\ GfMul(c, y) = GfMul(y, c)
  BY FieldAssumption
<1> QED  BY <1>2, <1>3, <1>4

(* A product with the zero block is zero.                                  *)
LEMMA MulZero == \A c \in Block : GfMul(ZeroBlock, c) = ZeroBlock
<1> SUFFICES ASSUME NEW c \in Block PROVE GfMul(ZeroBlock, c) = ZeroBlock
  OBVIOUS
<1>1. GfMul(ZeroBlock \oplus ZeroBlock, c) = GfMul(ZeroBlock, c) \oplus GfMul(ZeroBlock, c)
  BY BlockType, MulLeft
<1>2. ZeroBlock \oplus ZeroBlock = ZeroBlock
  BY XorAlgebra
<1>3. GfMul(ZeroBlock, c) \oplus GfMul(ZeroBlock, c) = ZeroBlock
  BY XorAlgebra
<1> QED  BY <1>1, <1>2, <1>3

(***************************************************************************)
(* The GC check of an honest run: both accumulators end up equal.          *)
(***************************************************************************)

(* After evaluate the masked values go through the gates. *)
LEMMA MaskedValuation ==
  ASSUME IInv, epc = "check"
  PROVE  /\ FollowsPlain(circuit, masked)
         /\ \A w \in Wires(circuit) : labels[w] = LabelFor(masked[w], w)
         /\ \A i \in AndGates(circuit) : GateHolds(circuit.gates[i], Decoded)
<1>1. /\ WellFormed(circuit) /\ ShareShape(circuit, G) /\ ShareShape(circuit, E)
      /\ \A i \in GateIndices(circuit) :
           GateShares(circuit.gates[i], G) /\ GateShares(circuit.gates[i], E)
      /\ EvaluatorTypeOK
  BY SetupFacts DEF IInv, EvaluatorInv
<1>2. gateE = GateSize(circuit) + 1 /\ GateSize(circuit) \in Nat
  BY <1>1, WiresGrow DEF IInv, EvaluatorInv, Progress, ReceivingPcs
<1>3. EvaluatedWires = Wires(circuit)
  BY <1>1, <1>2, WiresGrow DEF EvaluatedWires, ReceivingPcs
<1>4. \A w \in Wires(circuit) : labels[w] = LabelFor(masked[w], w)
  BY <1>3 DEF IInv, EvaluatorInv, LabelMatchesMaskedValue
<1>5. ASSUME NEW i \in GateIndices(circuit) PROVE GateHolds(circuit.gates[i], Decoded)
  <2>1. i \in 1 .. (gateE - 1) /\ circuit.gates[i].out \in Wires(circuit)
    BY <1>1, <1>2, GateWires DEF GateIndices
  <2> QED  BY <1>3, <2>1 DEF IInv, EvaluatorInv, MaskedValueCorrect
<1>6. ASSUME NEW i \in GateIndices(circuit), NEW g, g = circuit.gates[i]
      PROVE  /\ g.type = "XOR" => (masked[g.out] <=> (masked[g.in0] # masked[g.in1]))
             /\ g.type = "NOT" => (masked[g.out] <=> ~masked[g.in0])
  <2>1. /\ g.in0 \in Wires(circuit) /\ g.out \in Wires(circuit)
        /\ g.type # "NOT" => g.in1 \in Wires(circuit)
        /\ GateHolds(g, Decoded) /\ GateShares(g, G) /\ GateShares(g, E)
    BY <1>1, <1>5, <1>6, GateWires
  <2>2. ASSUME NEW w \in Wires(circuit)
        PROVE  /\ masked[w] \in BOOLEAN /\ G.masks[w] \in BOOLEAN /\ E.masks[w] \in BOOLEAN
               /\ Decoded[w] = (masked[w] # (G.masks[w] # E.masks[w]))
    BY <1>1 DEF EvaluatorTypeOK, ShareShape, Decoded, MaskOf, G, E
  <2>3. ASSUME g.type = "XOR" PROVE masked[g.out] <=> (masked[g.in0] # masked[g.in1])
    <3>1. /\ Decoded[g.out] = (Decoded[g.in0] # Decoded[g.in1])
          /\ G.masks[g.out] = (G.masks[g.in0] # G.masks[g.in1])
          /\ E.masks[g.out] = (E.masks[g.in0] # E.masks[g.in1])
      BY <2>1, <2>3 DEF GateHolds, GateShares
    <3> QED  BY <2>1, <2>2, <2>3, <3>1
  <2>4. ASSUME g.type = "NOT" PROVE masked[g.out] <=> ~masked[g.in0]
    <3>1. /\ Decoded[g.out] = ~Decoded[g.in0]
          /\ G.masks[g.out] = G.masks[g.in0] /\ E.masks[g.out] = E.masks[g.in0]
      BY <2>1, <2>4 DEF GateHolds, GateShares
    <3> QED  BY <2>1, <2>2, <3>1
  <2> QED  BY <2>3, <2>4
<1>7. FollowsPlain(circuit, masked)
  BY <1>6 DEF FollowsPlain
<1> QED  BY <1>4, <1>5, <1>7 DEF AndGates

(* The two sides' terms of an AND gate, and what its inputs contribute. *)
LEMMA GateAgrees ==
  ASSUME IInv, epc = "check", NEW i \in AndGates(circuit), NEW g, g = circuit.gates[i],
         NEW f0, f0 = circuit.sources[g.in0].flip, f0 \in BOOLEAN,
         NEW f1, f1 = circuit.sources[g.in1].flip, f1 \in BOOLEAN
  PROVE  FedTerm(masked[g.in0], f0, G.macs[g.in1], masked[g.in1], f1, G.macs[g.in0])
           \oplus (BTerm(i) \oplus Ak0(i)) = ZeroBlock
<1> DEFINE k == AndGateOrder(circuit, i)
           bp == BPrime(g, k)
<1>1. /\ WellFormed(circuit) /\ ShareShape(circuit, G) /\ ShareShape(circuit, E)
      /\ ShareAuthentic(circuit, G, E) /\ TripleHolds(setup, i)
      /\ EvaluatorTypeOK
  BY SetupFacts DEF IInv, EvaluatorInv
<1>2. i \in GateIndices(circuit) /\ g.type = "AND" /\ k \in AndIndices(circuit)
  BY <1>1, AndGateOrderInjective DEF AndGates, IsAnd
<1>3. g.in0 \in Wires(circuit) /\ g.in1 \in Wires(circuit) /\ g.out \in Wires(circuit)
  BY <1>1, <1>2, GateWires
<1>4. /\ G.masks[g.in0] \in BOOLEAN /\ G.masks[g.in1] \in BOOLEAN /\ G.masks[g.out] \in BOOLEAN
      /\ E.masks[g.in0] \in BOOLEAN /\ E.masks[g.in1] \in BOOLEAN /\ E.masks[g.out] \in BOOLEAN
      /\ masked[g.in0] \in BOOLEAN /\ masked[g.in1] \in BOOLEAN /\ masked[g.out] \in BOOLEAN
      /\ G.triple[k] \in BOOLEAN /\ E.triple[k] \in BOOLEAN /\ E.delta \in Block
      /\ E.keys[g.in0] \in Block /\ E.keys[g.in1] \in Block /\ E.keys[g.out] \in Block
      /\ E.tripleKeys[k] \in Block
  BY <1>1, <1>2, <1>3 DEF ShareShape, EvaluatorTypeOK
<1>5. /\ Authentic(G.masks[g.in0], G.macs[g.in0], E.keys[g.in0], E.delta)
      /\ Authentic(G.masks[g.in1], G.macs[g.in1], E.keys[g.in1], E.delta)
      /\ Authentic(G.masks[g.out], G.macs[g.out], E.keys[g.out], E.delta)
      /\ Authentic(G.triple[k], G.tripleMacs[k], E.tripleKeys[k], E.delta)
  BY <1>1, <1>2, <1>3 DEF ShareAuthentic
<1>6. TripleOf(G.triple[k], E.triple[k],
               G.masks[g.in0], E.masks[g.in0], G.masks[g.in1], E.masks[g.in1])
  BY <1>1 DEF TripleHolds, MaskOf, circuit, G, E, TripleOf
<1>7. MaskedOf(masked[g.out], G.masks[g.out], E.masks[g.out],
               masked[g.in0], G.masks[g.in0], E.masks[g.in0],
               masked[g.in1], G.masks[g.in1], E.masks[g.in1])
  <2>1. Decoded[g.out] = (Decoded[g.in0] /\ Decoded[g.in1])
    BY <1>2, MaskedValuation DEF GateHolds
  <2> QED  BY <1>3, <2>1 DEF Decoded, MaskOf, G, E, MaskedOf
<1>8. bp \in BOOLEAN
      /\ EvaluatorBit(bp, masked[g.in0], masked[g.in1], masked[g.out],
                      E.masks[g.in0], E.masks[g.in1], E.masks[g.out], E.triple[k])
  BY DEF BPrime, EvaluatorBit
<1> DEFINE l == FedTerm(masked[g.in0], f0, G.macs[g.in1], masked[g.in1], f1, G.macs[g.in0])
           a == GarblerTerm(G.macs[g.out], G.tripleMacs[k],
                            f0, G.macs[g.in1], f1, G.macs[g.in0])
           b == EvaluatorTerm(bp, E.delta, E.keys[g.out], E.tripleKeys[k],
                              masked[g.in0], E.keys[g.in1], masked[g.in1], E.keys[g.in0])
<1>9. Ak0(i) = a
  BY DEF Ak0, FlipMacTerm, GarblerTerm
<1>10. BTerm(i) = b
  BY DEF BTerm, EvaluatorTerm
<1> HIDE DEF bp, k
<1>14. AndGateData(E.delta, E.keys[g.in0], E.keys[g.in1], E.keys[g.out], E.tripleKeys[k],
                   G.macs[g.in0], G.macs[g.in1], G.macs[g.out], G.tripleMacs[k],
                   masked[g.in0], masked[g.in1], masked[g.out], f0, f1,
                   G.masks[g.in0], G.masks[g.in1], G.masks[g.out], G.triple[k],
                   E.masks[g.in0], E.masks[g.in1], E.masks[g.out], E.triple[k], bp)
  BY <1>4, <1>5, <1>6, <1>7, <1>8, Zenon DEF AndGateData
<1>11. (l \oplus a) \oplus b = ZeroBlock
  BY ONLY <1>14, CheckEquation, ZenonT(40)
<1> HIDE DEF l, a, b
<1>12. (l \oplus a) \oplus b = l \oplus (a \oplus b) /\ a \oplus b = b \oplus a
  BY XorAlgebra
<1>13. l \oplus (b \oplus a) = ZeroBlock
  BY <1>11, <1>12, Zenon
<1> QED  BY <1>9, <1>10, <1>13, Zenon DEF l

(* What the check needs to know of the circuit's tables. *)
LEMMA CheckTables ==
  ASSUME setup \in Setups
  PROVE  /\ circuit.sources = SourceMatrix(circuit)
         /\ \A w \in Independent(circuit), i \in AndGates(circuit) :
              LET data == circuit.gcCheckData[w]
                  in0 == w \in circuit.sources[circuit.gates[i].in0].list
                  in1 == w \in circuit.sources[circuit.gates[i].in1].list
              IN  /\ i \in DOMAIN data <=> (in0 \/ in1)
                  /\ in0 /\ in1 => data[i] = {0, 1}
                  /\ in0 /\ ~in1 => data[i] = {0}
                  /\ in1 /\ ~in0 => data[i] = {1}
<1>1. Parsed(circuit)
  BY SetupsAssumption DEF LegalSetup, circuit
<1>2. circuit.sources = SourceMatrix(circuit)
      /\ circuit.gcCheckData = GcCheckData(circuit, circuit.sources)
  BY <1>1 DEF Parsed
<1> SUFFICES ASSUME NEW w \in Independent(circuit), NEW i \in AndGates(circuit)
             PROVE  LET data == circuit.gcCheckData[w]
                        in0 == w \in circuit.sources[circuit.gates[i].in0].list
                        in1 == w \in circuit.sources[circuit.gates[i].in1].list
                    IN  /\ i \in DOMAIN data <=> (in0 \/ in1)
                        /\ in0 /\ in1 => data[i] = {0, 1}
                        /\ in0 /\ ~in1 => data[i] = {0}
                        /\ in1 /\ ~in0 => data[i] = {1}
  BY <1>2
<1> DEFINE data == circuit.gcCheckData[w]
           in(k) == w \in circuit.sources[IF k = 0 THEN circuit.gates[i].in0
                                          ELSE circuit.gates[i].in1].list
           feeds == {k \in {0, 1} : in(k)}
           feedset(j) == {k \in {0, 1} :
                            w \in circuit.sources[IF k = 0 THEN circuit.gates[j].in0
                                                  ELSE circuit.gates[j].in1].list}
<1>3. (i \in DOMAIN data <=> feeds # {}) /\ (i \in DOMAIN data => data[i] = feeds)
  <2>1. data = [j \in {h \in AndGates(circuit) : feedset(h) # {}} |-> feedset(j)]
    BY <1>2, Zenon DEF GcCheckData
  <2>2. feedset(i) = feeds
    BY Zenon
  <2> HIDE DEF data, feeds, feedset
  <2> QED  BY <2>1, <2>2
<1>4. /\ in(0) <=> w \in circuit.sources[circuit.gates[i].in0].list
      /\ in(1) <=> w \in circuit.sources[circuit.gates[i].in1].list
  OBVIOUS
<1> HIDE DEF in, data
<1>5. /\ feeds # {} <=> (in(0) \/ in(1))
      /\ in(0) /\ in(1) => feeds = {0, 1}
      /\ in(0) /\ ~in(1) => feeds = {0}
      /\ in(1) /\ ~in(0) => feeds = {1}
  OBVIOUS
<1> HIDE DEF feeds
<1>6. /\ i \in DOMAIN data <=> (in(0) \/ in(1))
      /\ in(0) /\ in(1) => data[i] = {0, 1}
      /\ in(0) /\ ~in(1) => data[i] = {0}
      /\ in(1) /\ ~in(0) => data[i] = {1}
  BY <1>3, <1>5
<1> QED  BY <1>4, <1>6, Zenon DEF data

(* The wire's share of an AND gate's equation, the coefficient taken in:   *)
(* the MAC of the other input for each input the wire is a source of.      *)
FedBy(w, i, seed) ==
  LET g == circuit.gates[i]
      c == CoeffOf(seed, i)
  IN  AndAllBits(w \in circuit.sources[g.in0].list, GfMul(G.macs[g.in1], c))
        \oplus AndAllBits(w \in circuit.sources[g.in1].list, GfMul(G.macs[g.in0], c))

(* ak1 of a wire is the sum of its shares over all AND gates: the gates it *)
(* does not feed, which gcCheckData leaves out, add nothing.               *)
LEMMA Ak1Sum ==
  ASSUME setup \in Setups, NEW seed \in Challenges, NEW w \in Independent(circuit)
  PROVE  /\ Ak1(seed, w) = XorOver(AndGates(circuit),
                                   [i \in AndGates(circuit) |-> FedBy(w, i, seed)])
         /\ \A i \in AndGates(circuit) : FedBy(w, i, seed) \in Block
<1> DEFINE data == circuit.gcCheckData[w]
           A == AndGates(circuit)
           term == [i \in DOMAIN data |->
                      GfMul(MacTerm(circuit.gates[i], data[i]), CoeffOf(seed, i))]
           fed == [i \in A |-> FedBy(w, i, seed)]
<1>1. Ak1(seed, w) = XorOver(DOMAIN data, term)
  BY DEF Ak1
<1>2. DOMAIN data \subseteq A
  <2>1. Parsed(circuit)
    BY SetupsAssumption DEF LegalSetup, circuit
  <2> QED  BY <2>1, SMTT(30) DEF Parsed, GcCheckData
<1>3. ASSUME NEW i \in A, NEW g, g = circuit.gates[i], NEW c, c = CoeffOf(seed, i)
      PROVE  /\ G.macs[g.in0] \in Block /\ G.macs[g.in1] \in Block /\ c \in Block
             /\ GfMul(G.macs[g.in0], c) \in Block /\ GfMul(G.macs[g.in1], c) \in Block
             /\ GfMul(G.macs[g.in0] \oplus G.macs[g.in1], c)
                  = GfMul(G.macs[g.in0], c) \oplus GfMul(G.macs[g.in1], c)
  <2>1. /\ WellFormed(circuit) /\ ShareShape(circuit, G)
        /\ \A k \in AndIndices(circuit) : Coeff(seed, k) \in Block
    BY SetupFacts
  <2>2. g.in0 \in Wires(circuit) /\ g.in1 \in Wires(circuit)
    BY <2>1, <1>3, GateWires DEF AndGates, IsAnd
  <2>3. c \in Block
    BY <2>1, <1>3, AndGateOrderInjective DEF CoeffOf
  <2>4. G.macs[g.in0] \in Block /\ G.macs[g.in1] \in Block
    BY <2>1, <2>2 DEF ShareShape
  <2> HIDE DEF A
  <2>5. GfMul(G.macs[g.in0] \oplus G.macs[g.in1], c)
                  = GfMul(G.macs[g.in0], c) \oplus GfMul(G.macs[g.in1], c)
    BY <2>3, <2>4, MulLeft
  <2> QED  BY <2>3, <2>4, <2>5, FieldAssumption
<1>4. ASSUME NEW i \in A
      PROVE  FedBy(w, i, seed) \in Block
  BY <1>3, BlockType DEF FedBy
<1>5. ASSUME NEW i \in A
      PROVE  fed[i] = AndAllBits(i \in DOMAIN data, term[i])
  <2> DEFINE g == circuit.gates[i]
             c == CoeffOf(seed, i)
             in0 == w \in circuit.sources[g.in0].list
             in1 == w \in circuit.sources[g.in1].list
             X0 == GfMul(G.macs[g.in0], c)
             X1 == GfMul(G.macs[g.in1], c)
  <2>1. /\ i \in DOMAIN data <=> (in0 \/ in1)
        /\ in0 /\ in1 => data[i] = {0, 1}
        /\ in0 /\ ~in1 => data[i] = {0}
        /\ in1 /\ ~in0 => data[i] = {1}
    BY CheckTables
  <2>2. GfMul(G.macs[g.in0] \oplus G.macs[g.in1], c) = X0 \oplus X1
    BY <1>3
  <2>3. fed[i] = AndAllBits(in0, X1) \oplus AndAllBits(in1, X0)
    BY DEF FedBy
  <2>4. i \in DOMAIN data => term[i] = GfMul(MacTerm(g, data[i]), c)
    OBVIOUS
  <2> HIDE DEF fed, term, in0, in1, data, g, c
  <2>5. CASE in0 /\ in1
    <3>1. MacTerm(g, {0, 1}) = G.macs[g.in0] \oplus G.macs[g.in1]
      BY DEF MacTerm
    <3>2. term[i] = X0 \oplus X1
      BY <2>1, <2>2, <2>4, <2>5, <3>1
    <3> HIDE DEF X0, X1
    <3> QED  BY <2>1, <2>3, <2>5, <3>2, XorAlgebra DEF AndAllBits
  <2>6. CASE in0 /\ ~in1
    <3>1. MacTerm(g, {0}) = G.macs[g.in1]
      <4>1. {0} # {0, 1}
        <5>1. 1 \in {0, 1} /\ 1 \notin {0}
          OBVIOUS
        <5> QED  BY <5>1, Zenon
      <4> QED  BY <4>1 DEF MacTerm
    <3>2. term[i] = X1
      BY <2>1, <2>4, <2>6, <3>1
    <3> HIDE DEF X0, X1
    <3> QED  BY <2>1, <2>3, <2>6, <3>2, XorAlgebra DEF AndAllBits
  <2>7. CASE ~in0 /\ in1
    <3>1. MacTerm(g, {1}) = G.macs[g.in0]
      <4>1. {1} # {0, 1} /\ {1} # {0}
        <5>1. 0 \in {0, 1} /\ 0 \in {0} /\ 0 \notin {1}
          OBVIOUS
        <5> QED  BY <5>1, Zenon
      <4> QED  BY <4>1 DEF MacTerm
    <3>2. term[i] = X0
      BY <2>1, <2>4, <2>7, <3>1
    <3> HIDE DEF X0, X1
    <3> QED  BY <2>1, <2>3, <2>7, <3>2, XorAlgebra DEF AndAllBits
  <2>8. CASE ~in0 /\ ~in1
    <3> HIDE DEF X0, X1
    <3> QED  BY <2>1, <2>3, <2>8, XorAlgebra DEF AndAllBits
  <2> QED  BY <2>5, <2>6, <2>7, <2>8
<1>6. XorOver(DOMAIN data, term) = XorOver(A, fed)
  <2> HIDE DEF A, fed, term, data
  <2> QED  BY <1>2, <1>5, XorOverPart
<1> QED  BY <1>1, <1>4, <1>6

(* The two sides' terms for the n-th independent wire: what remains of     *)
(* them is the wire's share of the AND gates it feeds and, for the output  *)
(* of an AND gate, that gate's own terms.                                  *)
OwnOf(i, seed) == GfMul(BTerm(i) \oplus Ak0(i), CoeffOf(seed, i))

CheckTerm(w, i, seed) ==
  AndAllBits(masked[w], FedBy(w, i, seed))
    \oplus AndAllBits(w = circuit.gates[i].out, OwnOf(i, seed))

(* The gate's own terms are blocks, and distribute over the two sides.     *)
LEMMA OwnFacts ==
  ASSUME setup \in Setups, NEW seed \in Challenges, NEW i \in AndGates(circuit)
  PROVE  /\ BTerm(i) \in Block /\ Ak0(i) \in Block /\ CoeffOf(seed, i) \in Block
         /\ OwnOf(i, seed) \in Block
         /\ OwnOf(i, seed)
              = GfMul(BTerm(i), CoeffOf(seed, i)) \oplus GfMul(Ak0(i), CoeffOf(seed, i))
<1>1. BTerm(i) \in Block /\ Ak0(i) \in Block
  BY AndGateBlocks
<1>2. CoeffOf(seed, i) \in Block
  <2>1. WellFormed(circuit) /\ \A k \in AndIndices(circuit) : Coeff(seed, k) \in Block
    BY SetupFacts
  <2> QED  BY <2>1, AndGateOrderInjective DEF CoeffOf
<1>3. OwnOf(i, seed) = GfMul(BTerm(i), CoeffOf(seed, i)) \oplus GfMul(Ak0(i), CoeffOf(seed, i))
  BY <1>1, <1>2, MulLeft DEF OwnOf
<1>4. OwnOf(i, seed) \in Block
  BY <1>1, <1>2, FieldAssumption, BlockType DEF OwnOf
<1> QED  BY <1>1, <1>2, <1>3, <1>4

(* The difference of the two sides at one wire.                            *)
LEMMA WireTerms ==
  ASSUME IInv, epc = "check", seedG = challenge, challenge \in Challenges,
         NEW n \in 0 .. (IndependentSize(circuit) - 1),
         NEW w, w = IndependentWire(circuit, n)
  PROVE  CheckE[n] \oplus CheckG[n]
           = XorOver(AndGates(circuit), [i \in AndGates(circuit) |-> CheckTerm(w, i, challenge)])
<1> DEFINE seed == challenge
           A == AndGates(circuit)
           fed == [i \in A |-> FedBy(w, i, seed)]
           f1 == [i \in A |-> AndAllBits(masked[w], FedBy(w, i, seed))]
           own == [i \in A |-> OwnOf(i, seed)]
           f2 == [i \in A |-> AndAllBits(w = circuit.gates[i].out, OwnOf(i, seed))]
           f == [i \in A |-> CheckTerm(w, i, seed)]
           K == Ak1(seed, w)
           a == H(label0[w], w, 2)
           b == H(label1[w], w, 2)
           hash == H(labels[w], w, 2) \oplus AndAllBits(masked[w], GkOf(seed, w))
           T == TotalInputSize(circuit)
<1>1. setup \in Setups /\ WellFormed(circuit) /\ IsFiniteSet(A)
  <2>1. setup \in Setups /\ WellFormed(circuit)
    BY SetupFacts DEF IInv
  <2> QED  BY <2>1, AndGatesFinite
<1>2. w \in Independent(circuit) /\ w \in Wires(circuit)
  BY <1>1, CheckOrder, IndependentWireType
<1>3. masked[w] \in BOOLEAN
  BY <1>2 DEF IInv, EvaluatorInv, EvaluatorTypeOK
<1>4. XorOver(A, f1) = AndAllBits(masked[w], K)
  <2>1. K = XorOver(A, fed)
    BY <1>1, <1>2, Ak1Sum
  <2>2. \A i \in A : f1[i] = AndAllBits(masked[w], fed[i])
    OBVIOUS
  <2> HIDE DEF f1, fed, K, A
  <2>3. XorOver(A, f1) = AndAllBits(masked[w], XorOver(A, fed))
    BY <1>3, <2>2, XorOverBit
  <2> QED  BY <2>1, <2>3
<1>5. XorOver(A, f) = AndAllBits(masked[w], K) \oplus XorOver(A, f2)
  <2>1. \A i \in A : f[i] = f1[i] \oplus f2[i]
    BY DEF CheckTerm
  <2> HIDE DEF f, f1, f2, A, K
  <2>2. XorOver(A, f) = XorOver(A, f1) \oplus XorOver(A, f2)
    BY <1>1, <2>1, XorOverSum
  <2> QED  BY <1>4, <2>2
<1>6. hash \oplus a = AndAllBits(masked[w], K)
  <2>1. GkOf(seed, w) = (K \oplus a) \oplus b
    BY DEF GkOf
  <2>2. labels[w] = LabelFor(masked[w], w)
    BY <1>2, MaskedValuation
  <2>3. CASE masked[w]
    <3>1. hash = b \oplus ((K \oplus a) \oplus b)
      BY <2>1, <2>2, <2>3 DEF LabelFor, AndAllBits
    <3> HIDE DEF a, b, K, hash
    <3>2. (b \oplus ((K \oplus a) \oplus b)) \oplus a = K
      BY SMT DEF \oplus
    <3> QED  BY <2>3, <3>1, <3>2 DEF AndAllBits
  <2>4. CASE ~masked[w]
    <3>1. hash = a \oplus ZeroBlock
      BY <2>2, <2>4 DEF LabelFor, AndAllBits
    <3> HIDE DEF a, b, K, hash
    <3>2. (a \oplus ZeroBlock) \oplus a = ZeroBlock
      BY XorAlgebra
    <3> QED  BY <2>4, <3>1, <3>2 DEF AndAllBits
  <2> QED  BY <1>3, <2>3, <2>4
<1>7. /\ CheckE[n] = Contribution(n, seed, hash, BTerms)
      /\ CheckG[n] = Contribution(n, seed, a, Ak0Terms)
  BY Zenon DEF CheckE, CheckG
<1>8. \A i, j \in A : circuit.gates[i].out = circuit.gates[j].out => i = j
  BY <1>1, AndOutputsDiffer
<1>9. CASE n < T
  <2>1. CheckE[n] = hash /\ CheckG[n] = a
    BY <1>7, <1>9 DEF Contribution
  <2>2. w \in InputWires(circuit)
    BY <1>1, <1>9 DEF IndependentWire, InputWires, WellFormed, TotalInputSize
  <2>3. \A i \in A : circuit.gates[i].out # w
    BY <1>1, <2>2, GateWires DEF AndGates
  <2>4. \A i \in A : f2[i] = ZeroBlock
    BY <2>3 DEF AndAllBits
  <2> HIDE DEF A, f, f2, K, hash, a
  <2>5. XorOver(A, f2) = ZeroBlock
    BY <2>4, XorOverZero
  <2> QED  BY <1>5, <1>6, <2>1, <2>5, XorAlgebra DEF f, A
<1>10. CASE ~(n < T)
  <2> DEFINE j == AndGateAt(circuit, n - T)
  <2>1. j \in A /\ w = circuit.gates[j].out
    <3>1. n - T \in AndIndices(circuit)
      BY <1>1, <1>10, IndependentWireType
    <3> QED  BY <1>1, <1>10, <3>1, AndGateAtExists DEF IndependentWire
  <2>2. /\ CheckE[n] = hash \oplus GfMul(BTerm(j), CoeffOf(seed, j))
        /\ CheckG[n] = a \oplus GfMul(Ak0(j), CoeffOf(seed, j))
    BY <1>7, <1>10, <2>1 DEF Contribution, BTerms, Ak0Terms
  <2>3. /\ OwnOf(j, seed) \in Block
        /\ OwnOf(j, seed)
             = GfMul(BTerm(j), CoeffOf(seed, j)) \oplus GfMul(Ak0(j), CoeffOf(seed, j))
    BY <1>1, <2>1, OwnFacts
  <2>4. XorOver(A, f2) = OwnOf(j, seed)
    <3>1. \A i \in A : w = circuit.gates[i].out <=> i \in {j}
      BY <1>8, <2>1
    <3>2. \A i \in A : f2[i] = AndAllBits(i \in {j}, own[i])
      BY <3>1 DEF AndAllBits
    <3>3. own[j] = OwnOf(j, seed) /\ {j} \in SUBSET A
      BY <2>1
    <3> HIDE DEF A, f2, own, j
    <3>4. XorOver({j}, own) = XorOver(A, f2)
      BY <3>2, <3>3, XorOverPart
    <3>5. XorOver({j}, own) = own[j]
      BY <2>3, <3>3, XorOverSingle
    <3> QED  BY <3>3, <3>4, <3>5
  <2> HIDE DEF hash, a, j, f2, f, A, K
  <2>5. CheckE[n] \oplus CheckG[n]
          = (hash \oplus a) \oplus (GfMul(BTerm(j), CoeffOf(seed, j))
                                      \oplus GfMul(Ak0(j), CoeffOf(seed, j)))
    BY <2>2, XorRegroup
  <2> QED  BY <1>5, <1>6, <2>3, <2>4, <2>5 DEF f, A
<1> QED  BY <1>9, <1>10

(* The check's order meets every independent wire of a set once: copies of *)
(* X for the wires of W add up to X exactly when W is odd.                 *)
LEMMA CheckSum ==
  ASSUME WellFormed(circuit), NEW J, J = 0 .. (IndependentSize(circuit) - 1),
         NEW W \in SUBSET Independent(circuit), NEW X \in Block, NEW f,
         f = [n \in J |-> AndAllBits(IndependentWire(circuit, n) \in W, X)]
  PROVE  XorOver(J, f) = AndAllBits(Odd(W), X)
<1> DEFINE has == [n \in J |-> IndependentWire(circuit, n) \in W]
           N == {n \in J : IndependentWire(circuit, n) \in W}
<1>1. Odd(N) <=> Odd(W)
  BY CheckOrderOdd
<1>2. {n \in J : has[n]} = N
  OBVIOUS
<1>3. \A n \in J : f[n] = AndAllBits(has[n], X)
  OBVIOUS
<1>4. X \in Block
  OBVIOUS
<1> HIDE DEF has, N
<1>5. XorOver(J, f) = AndAllBits(Odd({n \in J : has[n]}), X)
  BY ONLY <1>3, <1>4, XorOverCopies, Zenon
<1> QED  BY <1>1, <1>2, <1>5 DEF AndAllBits

(* Over the whole check, what the independent wires contribute to an AND   *)
(* gate's equation cancels with the gate's own terms.                      *)
LEMMA GateCancels ==
  ASSUME IInv, epc = "check", NEW seed \in Challenges, NEW i \in AndGates(circuit),
         NEW J, J = 0 .. (IndependentSize(circuit) - 1)
  PROVE  XorOver(J, [n \in J |-> CheckTerm(IndependentWire(circuit, n), i, seed)]) = ZeroBlock
<1> DEFINE g == circuit.gates[i]
           c == CoeffOf(seed, i)
           S0 == circuit.sources[g.in0].list
           S1 == circuit.sources[g.in1].list
           W0 == {s \in S0 : masked[s]}
           W1 == {s \in S1 : masked[s]}
           X0 == GfMul(G.macs[g.in0], c)
           X1 == GfMul(G.macs[g.in1], c)
           Y == OwnOf(i, seed)
           w(n) == IndependentWire(circuit, n)
           d0 == [n \in J |-> AndAllBits(w(n) \in W0, X1)]
           d1 == [n \in J |-> AndAllBits(w(n) \in W1, X0)]
           d01 == [n \in J |-> d0[n] \oplus d1[n]]
           dY == [n \in J |-> AndAllBits(w(n) \in {g.out}, Y)]
           d == [n \in J |-> CheckTerm(w(n), i, seed)]
<1>1. /\ setup \in Setups /\ WellFormed(circuit) /\ ShareShape(circuit, G) /\ EvaluatorTypeOK
  BY SetupFacts DEF IInv, EvaluatorInv
<1>2. /\ g.in0 \in Wires(circuit) /\ g.in1 \in Wires(circuit) /\ g.out \in Independent(circuit)
  BY <1>1, GateWires DEF AndGates, IsAnd, Independent
<1>3. ASSUME NEW v \in Wires(circuit)
      PROVE  /\ circuit.sources[v].list \subseteq Independent(circuit)
             /\ circuit.sources[v].flip \in BOOLEAN
             /\ Odd({s \in circuit.sources[v].list : masked[s]})
                  <=> (masked[v] # circuit.sources[v].flip)
  <2>1. circuit.sources = SourceMatrix(circuit)
    BY <1>1, CheckTables
  <2>2. masked \in [Wires(circuit) -> BOOLEAN] /\ FollowsPlain(circuit, masked)
    BY <1>1, MaskedValuation DEF EvaluatorTypeOK
  <2> QED  BY <1>1, <2>1, <2>2, SourcesSumFlipped
<1>4. /\ G.macs[g.in0] \in Block /\ G.macs[g.in1] \in Block /\ c \in Block
      /\ X0 \in Block /\ X1 \in Block /\ Y \in Block
      /\ BTerm(i) \in Block /\ Ak0(i) \in Block
  <2>1. G.macs[g.in0] \in Block /\ G.macs[g.in1] \in Block
    BY <1>1, <1>2 DEF ShareShape
  <2>2. c \in Block /\ Y \in Block /\ BTerm(i) \in Block /\ Ak0(i) \in Block
    BY <1>1, OwnFacts
  <2> QED  BY <2>1, <2>2, FieldAssumption
<1>5. IsFiniteSet(J)
  <2>1. AndGateSize(circuit) \in Nat
    BY <1>1, AndGatesFinite
  <2>2. IndependentSize(circuit) \in Int
    BY <1>1, <2>1 DEF WellFormed, TotalInputSize, IndependentSize
  <2> QED  BY <2>2, FS_Interval
<1>6. ASSUME NEW n \in J PROVE d[n] = d01[n] \oplus dY[n]
  <2>1. w(n) \in Independent(circuit)
    BY <1>1, CheckOrder
  <2>2. /\ w(n) \in W0 <=> (w(n) \in S0 /\ masked[w(n)])
        /\ w(n) \in W1 <=> (w(n) \in S1 /\ masked[w(n)])
        /\ w(n) \in {g.out} <=> w(n) = g.out
    OBVIOUS
  <2>3. d[n] = AndAllBits(masked[w(n)],
                          AndAllBits(w(n) \in S0, X1) \oplus AndAllBits(w(n) \in S1, X0))
                 \oplus AndAllBits(w(n) = g.out, Y)
    BY Zenon DEF CheckTerm, FedBy
  <2>4. /\ d01[n] = AndAllBits(w(n) \in W0, X1) \oplus AndAllBits(w(n) \in W1, X0)
        /\ dY[n] = AndAllBits(w(n) \in {g.out}, Y)
    OBVIOUS
  <2> HIDE DEF d, d01, dY, W0, W1, S0, S1, X0, X1, Y, g
  <2>5. AndAllBits(w(n) = g.out, Y) = AndAllBits(w(n) \in {g.out}, Y)
    BY <2>2 DEF AndAllBits
  <2>6. AndAllBits(masked[w(n)], AndAllBits(w(n) \in S0, X1) \oplus AndAllBits(w(n) \in S1, X0))
          = AndAllBits(w(n) \in W0, X1) \oplus AndAllBits(w(n) \in W1, X0)
    <3>1. CASE masked[w(n)]
      BY <2>2, <3>1 DEF AndAllBits
    <3>2. CASE ~masked[w(n)]
      BY <2>2, <3>2, XorAlgebra DEF AndAllBits
    <3> QED  BY <3>1, <3>2
  <2> QED  BY <2>3, <2>4, <2>5, <2>6
<1>7. W0 \in SUBSET Independent(circuit) /\ W1 \in SUBSET Independent(circuit)
      /\ {g.out} \in SUBSET Independent(circuit)
  BY <1>2, <1>3
<1>8. ASSUME NEW W \in SUBSET Independent(circuit), NEW X \in Block, NEW f,
             f = [n \in J |-> AndAllBits(w(n) \in W, X)]
      PROVE  XorOver(J, f) = AndAllBits(Odd(W), X)
  BY <1>1, <1>8, CheckSum, ZenonT(40)
<1>9. /\ XorOver(J, d0) = AndAllBits(Odd(W0), X1)
      /\ XorOver(J, d1) = AndAllBits(Odd(W1), X0)
      /\ XorOver(J, dY) = AndAllBits(Odd({g.out}), Y)
  <2> HIDE DEF W0, W1, X0, X1, Y, g, w
  <2> QED  BY <1>4, <1>7, <1>8
<1>10. XorOver(J, d) = (XorOver(J, d0) \oplus XorOver(J, d1)) \oplus XorOver(J, dY)
  <2>1. \A n \in J : d01[n] = d0[n] \oplus d1[n]
    OBVIOUS
  <2> HIDE DEF d, d0, d1, d01, dY
  <2>2. XorOver(J, d) = XorOver(J, d01) \oplus XorOver(J, dY)
    BY <1>5, <1>6, XorOverSum
  <2>3. XorOver(J, d01) = XorOver(J, d0) \oplus XorOver(J, d1)
    BY <1>5, <2>1, XorOverSum
  <2> QED  BY <2>2, <2>3
<1> DEFINE f0 == circuit.sources[g.in0].flip
           f1 == circuit.sources[g.in1].flip
           b0 == masked[g.in0] # f0
           b1 == masked[g.in1] # f1
           P0 == AndAllBits(b0, G.macs[g.in1])
           P1 == AndAllBits(b1, G.macs[g.in0])
           Q == BTerm(i) \oplus Ak0(i)
<1>11. (P0 \oplus P1) \oplus Q = ZeroBlock
  <2>1. f0 \in BOOLEAN /\ f1 \in BOOLEAN
    BY <1>2, <1>3
  <2>2. FedTerm(masked[g.in0], f0, G.macs[g.in1], masked[g.in1], f1, G.macs[g.in0])
          \oplus (BTerm(i) \oplus Ak0(i)) = ZeroBlock
    BY <2>1, GateAgrees
  <2>3. FedTerm(masked[g.in0], f0, G.macs[g.in1], masked[g.in1], f1, G.macs[g.in0])
          = P0 \oplus P1
    BY Zenon DEF FedTerm
  <2> QED  BY <2>2, <2>3
<1>12. /\ AndAllBits(Odd(W0), X1) = AndAllBits(b0, X1)
       /\ AndAllBits(Odd(W1), X0) = AndAllBits(b1, X0)
       /\ AndAllBits(Odd({g.out}), Y) = Y
  <2>1. (Odd(W0) <=> b0) /\ (Odd(W1) <=> b1)
    BY <1>2, <1>3
  <2>2. Odd({g.out})
    <3>1. Odd({} \cup {g.out}) = ~Odd({}) /\ {} \cup {g.out} = {g.out}
      BY OddAdd, FS_EmptySet
    <3> QED  BY <3>1, OddEmpty
  <2> HIDE DEF W0, W1, X0, X1, Y, b0, b1, g
  <2> QED  BY <2>1, <2>2 DEF AndAllBits
<1>13. /\ AndAllBits(b0, X1) = GfMul(P0, c) /\ AndAllBits(b1, X0) = GfMul(P1, c)
       /\ P0 \in Block /\ P1 \in Block /\ Q \in Block
  <2>1. GfMul(ZeroBlock, c) = ZeroBlock
    BY <1>4, MulZero
  <2> HIDE DEF c, g, b0, b1
  <2> QED  BY <1>4, <2>1, BlockType DEF AndAllBits
<1>14. Y = GfMul(Q, c)
  BY DEF OwnOf
<1> HIDE DEF c, g, b0, b1, P0, P1, Q, X0, X1, Y, W0, W1, d, d0, d1, dY
<1>15. GfMul((P0 \oplus P1) \oplus Q, c) = (GfMul(P0, c) \oplus GfMul(P1, c)) \oplus GfMul(Q, c)
  <2>1. P0 \oplus P1 \in Block
    BY <1>13, BlockType
  <2> QED  BY <1>4, <1>13, <2>1, MulLeft
<1>16. XorOver(J, d) = GfMul(ZeroBlock, c)
  BY <1>9, <1>10, <1>11, <1>12, <1>13, <1>14, <1>15
<1> QED  BY <1>4, <1>16, MulZero DEF d

(* The two accumulators agree at the end of the check: the GC check passes *)
(* whatever the circuit, the inputs, the shares, the labels and the seed.  *)
LEMMA GcCheckAgrees ==
  ASSUME IInv, epc = "check", seedG = challenge, challenge \in Challenges
  PROVE  LET J == 0 .. (IndependentSize(circuit) - 1)
         IN  XorOver(J, CheckE) = XorOver(J, CheckG)
<1> DEFINE J == 0 .. (IndependentSize(circuit) - 1)
           A == AndGates(circuit)
           t == [n \in J |-> [i \in A |->
                   CheckTerm(IndependentWire(circuit, n), i, challenge)]]
           sums == [n \in J |-> XorOver(A, t[n])]
           columns == [i \in A |-> XorOver(J, [n \in J |-> t[n][i]])]
<1>1. setup \in Setups /\ WellFormed(circuit) /\ IsFiniteSet(A)
  <2>1. setup \in Setups /\ WellFormed(circuit)
    BY SetupFacts DEF IInv
  <2> QED  BY <2>1, AndGatesFinite
<1>2. IsFiniteSet(J)
  <2>1. AndGateSize(circuit) \in Nat
    BY <1>1, AndGatesFinite
  <2>2. IndependentSize(circuit) \in Int
    BY <1>1, <2>1 DEF WellFormed, TotalInputSize, IndependentSize
  <2> QED  BY <2>2, FS_Interval
<1>3. \A n \in J : sums[n] = CheckE[n] \oplus CheckG[n]
  BY WireTerms
<1>4. \A n \in J, i \in A : t[n][i] \in Block
  <2> SUFFICES ASSUME NEW n \in J, NEW i \in A, NEW w, w = IndependentWire(circuit, n)
               PROVE  CheckTerm(w, i, challenge) \in Block
    OBVIOUS
  <2>1. w \in Independent(circuit)
    BY <1>1, CheckOrder
  <2>2. FedBy(w, i, challenge) \in Block /\ OwnOf(i, challenge) \in Block
    BY <1>1, <2>1, Ak1Sum, OwnFacts
  <2> QED  BY <2>2, BlockType DEF CheckTerm
<1>5. \A i \in A : columns[i] = ZeroBlock
  <2> SUFFICES ASSUME NEW i \in A PROVE columns[i] = ZeroBlock
    OBVIOUS
  <2>1. [n \in J |-> t[n][i]]
          = [n \in J |-> CheckTerm(IndependentWire(circuit, n), i, challenge)]
    OBVIOUS
  <2>2. XorOver(J, [n \in J |-> CheckTerm(IndependentWire(circuit, n), i, challenge)])
          = ZeroBlock
    BY GateCancels
  <2> QED  BY <2>1, <2>2
<1>6. XorOver(J, sums) = XorOver(A, columns)
  <2> HIDE DEF J, A, t
  <2> QED  BY <1>1, <1>2, <1>4, XorOverSwap
<1>7. XorOver(A, columns) = ZeroBlock
  <2> HIDE DEF columns, A
  <2> QED  BY <1>5, XorOverZero
<1>8. XorOver(J, sums) = XorOver(J, CheckE) \oplus XorOver(J, CheckG)
  <2> HIDE DEF J, sums
  <2> QED  BY <1>2, <1>3, XorOverSum
<1> DEFINE x == XorOver(J, CheckE)
           y == XorOver(J, CheckG)
<1> HIDE DEF x, y
<1>9. x \oplus y = ZeroBlock => x = y
  BY SMT DEF \oplus, ZeroBlock
<1> QED  BY <1>6, <1>7, <1>8, <1>9, Zenon DEF x, y

-----------------------------------------------------------------------------
(***************************************************************************)
(* The messages stay in order.                                             *)
(***************************************************************************)

(* The counts are numbers, and where each of the checks' messages stands.  *)
LEMMA Counts ==
  ASSUME IInv
  PROVE  /\ IndependentSize(circuit) \in Nat
         /\ Opening \in {0, 3} /\ FirstGk = 5 + Opening
         /\ LastMessage = FirstGk + IndependentSize(circuit)
         /\ checkG \in 0 .. IndependentSize(circuit)
         /\ checkE \in 0 .. IndependentSize(circuit)
         /\ gpc \in GarblerPcs /\ epc \in EvaluatorPcs
         /\ Sent \in Nat /\ Taken \in Nat
<1>1. WellFormed(circuit) /\ GarblerTypeOK /\ EvaluatorTypeOK
  BY SetupFacts DEF IInv, GarblerInv, EvaluatorInv
<1>2. IndependentSize(circuit) \in Nat
  <2>1. AndGateSize(circuit) \in Nat
    BY <1>1, AndGatesFinite
  <2> QED  BY <1>1, <2>1 DEF WellFormed, TotalInputSize, IndependentSize
<1>3. Opening \in {0, 3} /\ FirstGk = 5 + Opening
      /\ LastMessage = FirstGk + IndependentSize(circuit)
  BY DEF Opening, FirstGk, LastMessage
<1>4. /\ checkG \in 0 .. IndependentSize(circuit)
      /\ checkE \in 0 .. IndependentSize(circuit)
      /\ gpc \in GarblerPcs /\ epc \in EvaluatorPcs
  BY <1>1 DEF GarblerTypeOK, EvaluatorTypeOK
<1>5. Sent \in Nat
  <2> HIDE DEF Opening, FirstGk, LastMessage
  <2> QED  BY <1>2, <1>3, <1>4 DEF Sent, GarblerPcs
<1>6. Taken \in Nat
  <2> HIDE DEF Opening, FirstGk, LastMessage
  <2> QED  BY <1>2, <1>3, <1>4 DEF Taken, EvaluatorPcs
<1> QED  BY <1>2, <1>3, <1>4, <1>5, <1>6

(* The numbers follow the program counters, whatever is sent.              *)
LEMMA CountsFollow ==
  ASSUME UNCHANGED setup
  PROVE  /\ Opening' = Opening /\ FirstGk' = FirstGk /\ LastMessage' = LastMessage
         /\ UNCHANGED <<gpc, checkG>> => Sent' = Sent
         /\ UNCHANGED <<epc, checkE>> => Taken' = Taken
BY DEF Opening, FirstGk, LastMessage, Sent, Taken, circuit

(* A message keeps its number as long as what it was made from stays; the  *)
(* seed matters from the first gk on, the accumulator to the last message. *)
LEMMA NumberedKept ==
  ASSUME UNCHANGED <<setup, label0, label1>>,
         NEW m, NEW n, Numbered(m, n),
         n >= FirstGk => UNCHANGED seedG, n = LastMessage => UNCHANGED accG
  PROVE  Numbered(m, n)'
<1>1. Opening' = Opening /\ FirstGk' = FirstGk /\ LastMessage' = LastMessage
  BY CountsFollow
<1>2. UNCHANGED seedG =>
        GkOf(seedG, IndependentWire(circuit, n - FirstGk))'
          = GkOf(seedG, IndependentWire(circuit, n - FirstGk))
  BY <1>1 DEF GkOf, Ak1, MacTerm, CoeffOf, circuit, G
<1> QED
  <2> HIDE DEF GkOf, Opening, FirstGk, LastMessage, IndependentWire
  <2> QED  BY <1>1, <1>2 DEF Numbered, Msg

LEMMA ConcatFacts ==
  ASSUME NEW S, NEW p \in Seq(S), NEW q \in Seq(S)
  PROVE  /\ Len(p \o q) = Len(p) + Len(q)
         /\ \A j \in 1 .. Len(p) : (p \o q)[j] = p[j]
         /\ \A j \in 1 .. Len(q) : (p \o q)[Len(p) + j] = q[j]
OBVIOUS

(* Sending appends the messages that come next.                            *)
LEMMA WindowSend ==
  ASSUME IInv, Window, NEW q \in Seq(SentByGarbler), toE' = toE \o q,
         UNCHANGED <<setup, label0, label1, epc, checkE>>,
         \/ UNCHANGED <<seedG, accG>>
         \/ UNCHANGED seedG /\ Sent <= LastMessage
         \/ Sent <= FirstGk,
         Sent' = Sent + Len(q),
         NEW s, s = Sent, \A j \in 1 .. Len(q) : Numbered(q[j], s + j - 1)'
  PROVE  Window'
<1>1. Sent \in Nat /\ Taken \in Nat /\ Len(q) \in Nat /\ toE \in Seq(SentByGarbler)
      /\ FirstGk \in Nat /\ LastMessage \in Nat /\ FirstGk <= LastMessage
  <2>1. Len(q) \in Nat
    OBVIOUS
  <2> QED  BY <2>1, Counts DEF IInv, Streams
<1>2. Taken' = Taken
  BY CountsFollow
<1>3. /\ Len(toE') = Len(toE) + Len(q)
      /\ \A j \in 1 .. Len(toE) : toE'[j] = toE[j]
      /\ \A j \in 1 .. Len(q) : toE'[Len(toE) + j] = q[j]
  <2>1. /\ Len(toE \o q) = Len(toE) + Len(q)
        /\ \A j \in 1 .. Len(toE) : (toE \o q)[j] = toE[j]
        /\ \A j \in 1 .. Len(q) : (toE \o q)[Len(toE) + j] = q[j]
    BY ONLY <1>1, q \in Seq(SentByGarbler), ConcatFacts
  <2>2. toE' = toE \o q
    OBVIOUS
  <2> QED  BY ONLY <2>1, <2>2
<1>4. Taken <= Sent /\ Len(toE) = Sent - Taken
      /\ \A j \in 1 .. Len(toE) : Numbered(toE[j], Taken + j - 1)
  BY DEF Window
<1>5. ASSUME NEW j \in 1 .. Len(toE'), NEW m, m = toE'[j], NEW n, n = Taken + j - 1
      PROVE  Numbered(m, n)'
  <2>1. CASE j \in 1 .. Len(toE)
    <3>1. Numbered(m, n) /\ n < Sent
      BY <1>1, <1>3, <1>4, <1>5, <2>1
    <3> HIDE DEF Numbered, Sent, Taken, FirstGk, LastMessage
    <3>2. (n >= FirstGk => UNCHANGED seedG) /\ (n = LastMessage => UNCHANGED accG)
      BY <1>1, <1>4, <1>5, <2>1, <3>1
    <3> QED  BY <3>1, <3>2, NumberedKept
  <2>2. CASE j \notin 1 .. Len(toE)
    <3>1. j - Len(toE) \in 1 .. Len(q)
      BY <1>1, <1>3, <2>2
    <3>2. PICK k \in 1 .. Len(q) : k = j - Len(toE)
      BY <3>1
    <3>3. j = Len(toE) + k
      BY <1>1, <3>2
    <3>4. m = q[k] /\ n = s + k - 1
      BY <1>1, <1>3, <1>4, <1>5, <3>3
    <3>5. Numbered(q[k], s + k - 1)'
      OBVIOUS
    <3> QED  BY <3>4, <3>5
  <2> QED  BY <2>1, <2>2
<1>6. (\A j \in 1 .. Len(toE) : Numbered(toE[j], Taken + j - 1))'
  BY <1>2, <1>5
<1>7. Taken' <= Sent' /\ Len(toE') = Sent' - Taken'
  <2> HIDE DEF Taken, Sent
  <2> QED  BY <1>1, <1>2, <1>3, <1>4
<1> HIDE DEF Numbered, Taken, Sent
<1> QED  BY <1>6, <1>7 DEF Window

(* Before the first gk a message is known by its kind.                     *)
KindOf(n) ==
  CASE n = 0 -> "tables"
    [] n = 1 -> "shift"
    [] n = 2 -> "maskedX"
    [] n = 3 -> "labelsX"
    [] n = 4 /\ Opening = 3 -> "otPads"
    [] n = 5 /\ Opening = 3 -> "openBits"
    [] n = 6 /\ Opening = 3 -> "openMacs"
    [] OTHER -> "outputMasks"

LEMMA NumberedByKind ==
  ASSUME IInv, UNCHANGED setup, NEW m, NEW n \in Nat, n < FirstGk, m.kind = KindOf(n)
  PROVE  Numbered(m, n)'
<1>1. /\ Opening \in {0, 3} /\ FirstGk = 5 + Opening
      /\ LastMessage \in Nat /\ LastMessage >= FirstGk
  BY Counts
<1>2. Opening' = Opening /\ FirstGk' = FirstGk /\ LastMessage' = LastMessage
  BY CountsFollow
<1> DEFINE next == Msg("gk", GkOf(seedG, IndependentWire(circuit, n - FirstGk)))
           last == Msg("ha", accG \cap CheckBits)
<1> HIDE DEF Opening, FirstGk, LastMessage
<1>3. ~(n >= FirstGk) /\ n # LastMessage
  BY <1>1
<1>4. /\ n = 0 => m.kind = "tables"
      /\ n = 1 => m.kind = "shift"
      /\ n = 2 => m.kind = "maskedX"
      /\ n = 3 => m.kind = "labelsX"
      /\ n = 4 /\ Opening = 3 => m.kind = "otPads"
      /\ n = 5 /\ Opening = 3 => m.kind = "openBits"
      /\ n = 6 /\ Opening = 3 => m.kind = "openMacs"
      /\ n = 4 + Opening => m.kind = "outputMasks"
  BY <1>1 DEF KindOf
<1> HIDE DEF next, last
<1> QED  BY <1>2, <1>3, <1>4 DEF Numbered

(* Taking a message makes the next one the first.                          *)
LEMMA WindowTake ==
  ASSUME IInv, Window, toE # <<>>, toE' = Tail(toE), Taken' = Taken + 1,
         UNCHANGED <<setup, garblerVars>>
  PROVE  Window'
<1>1. UNCHANGED <<gpc, label0, label1, seedG, checkG, accG>>
  BY DEF garblerVars, garbling, checkingG
<1>2. Sent' = Sent
  BY <1>1, CountsFollow
<1>3. Sent \in Nat /\ Taken \in Nat /\ toE \in Seq(SentByGarbler)
  BY Counts DEF IInv, Streams
<1>4. Taken <= Sent /\ Len(toE) = Sent - Taken
      /\ \A j \in 1 .. Len(toE) : Numbered(toE[j], Taken + j - 1)
  BY DEF Window
<1>5. Len(toE) \in Nat /\ Len(toE) > 0 /\ Len(toE') = Len(toE) - 1
      /\ \A j \in 1 .. Len(toE') : toE'[j] = toE[j + 1]
  BY <1>3
<1>6. ASSUME NEW j \in 1 .. Len(toE'), NEW m, m = toE'[j], NEW n, n = Taken + 1 + j - 1
      PROVE  Numbered(m, n)'
  <2>1. j + 1 \in 1 .. Len(toE) /\ m = toE[j + 1] /\ n = Taken + (j + 1) - 1
    BY <1>3, <1>5, <1>6
  <2>2. Numbered(m, n)
    BY <1>4, <2>1
  <2> HIDE DEF Numbered
  <2> QED  BY <1>1, <2>2, NumberedKept
<1>7. (\A j \in 1 .. Len(toE) : Numbered(toE[j], Taken + j - 1))'
  BY <1>6
<1> QED  BY <1>2, <1>3, <1>4, <1>5, <1>7 DEF Window

(* A step of the evaluator that takes none leaves them.                    *)
LEMMA WindowStays ==
  ASSUME Window, UNCHANGED <<setup, garblerVars, toE>>, Taken' = Taken
  PROVE  Window'
<1>1. UNCHANGED <<gpc, label0, label1, seedG, checkG, accG>>
  BY DEF garblerVars, garbling, checkingG
<1>2. Sent' = Sent
  BY <1>1, CountsFollow
<1>3. ASSUME NEW j \in 1 .. Len(toE), NEW m, m = toE[j], NEW n, n = Taken + j - 1
      PROVE  Numbered(m, n)'
  <2>1. Numbered(m, n)
    BY <1>3 DEF Window
  <2> HIDE DEF Numbered
  <2> QED  BY <1>1, <2>1, NumberedKept
<1>4. (\A j \in 1 .. Len(toE) : Numbered(toE[j], Taken + j - 1))'
  BY <1>3
<1> QED  BY <1>2, <1>4 DEF Window

(* What the terms and a gk are made of.                                    *)
LEMMA CheckGKept ==
  ASSUME UNCHANGED <<setup, label0, seedG>>
  PROVE  CheckG' = CheckG
BY DEF CheckG, Contribution, Ak0Terms, Ak0, FlipMacTerm, CoeffOf, circuit, G

LEMMA CheckEKept ==
  ASSUME UNCHANGED <<setup, label0, label1, seedG, labels, masked, challenge>>
  PROVE  CheckE' = CheckE
BY DEF CheckE, Contribution, BTerms, BTerm, BPrime, CoeffOf, GkOf, Ak1, MacTerm,
   circuit, G, E

LEMMA GkKept ==
  ASSUME UNCHANGED <<setup, label0, label1, seedG>>, NEW w
  PROVE  GkOf(seedG, w)' = GkOf(seedG, w)
BY DEF GkOf, Ak1, MacTerm, CoeffOf, circuit, G

(* The sums stay while what they are made of stays; a sum of nothing stays *)
(* whatever changes.                                                       *)
LEMMA AccGStays ==
  ASSUME Accumulators, UNCHANGED <<setup, checkG, accG>>,
         checkG = 0 \/ UNCHANGED <<label0, seedG>>
  PROVE  (accG = XorOver(0 .. (checkG - 1), CheckG))'
<1>1. CASE checkG = 0
  <2>1. accG = XorOver(0 .. (checkG - 1), CheckG) /\ 0 .. (checkG - 1) = {}
    BY <1>1 DEF Accumulators
  <2>2. accG = ZeroBlock /\ XorOver({}, CheckG') = ZeroBlock
    BY <2>1, XorOverEmpty
  <2> QED  BY <2>1, <2>2
<1>2. CASE UNCHANGED <<label0, seedG>>
  <2>1. CheckG' = CheckG
    BY <1>2, CheckGKept
  <2> QED  BY <2>1 DEF Accumulators
<1> QED  BY <1>1, <1>2

LEMMA AccEStays ==
  ASSUME Accumulators, UNCHANGED <<setup, checkE, accE>>,
         checkE = 0 \/ UNCHANGED <<label0, label1, seedG, labels, masked, challenge>>
  PROVE  (accE = XorOver(0 .. (checkE - 1), CheckE))'
<1>1. CASE checkE = 0
  <2>1. accE = XorOver(0 .. (checkE - 1), CheckE) /\ 0 .. (checkE - 1) = {}
    BY <1>1 DEF Accumulators
  <2>2. accE = ZeroBlock /\ XorOver({}, CheckE') = ZeroBlock
    BY <2>1, XorOverEmpty
  <2> QED  BY <2>1, <2>2
<1>2. CASE UNCHANGED <<label0, label1, seedG, labels, masked, challenge>>
  <2>1. CheckE' = CheckE
    BY <1>2, CheckEKept
  <2> QED  BY <2>1 DEF Accumulators
<1> QED  BY <1>1, <1>2

(***************************************************************************)
(* The steps of the garbler.                                               *)
(***************************************************************************)

(* While the garbler garbles nothing is on its way.                        *)
LEMMA GarbleOrder ==
  ASSUME IInv, OnlineInv, GarbleNot \/ GarbleAnd \/ GarbleXor
  PROVE  OnlineInv'
<1>1. /\ gpc = "garble" /\ UNCHANGED <<setup, gpc, checkingG, evaluatorVars, toE, toG>>
      /\ toE = <<>> /\ epc = "tables"
  BY DEF IInv, Streams, GarbleNot, GarbleAnd, GarbleXor, AtGateG
<1>2. UNCHANGED <<seedG, checkG, accG, epc, challenge, checkE, accE>>
  BY <1>1 DEF checkingG, evaluatorVars, checkingE
<1>3. checkG = 0 /\ checkE = 0
  BY <1>1 DEF OnlineInv, Places
<1>4. Window'
  <2>1. Sent' = 0 /\ Taken' = 0
    BY <1>1, <1>2 DEF Sent, Taken
  <2>2. Len(toE') = 0 /\ \A j \in 1 .. Len(toE') : FALSE
    BY <1>1
  <2> HIDE DEF Sent, Taken, Numbered
  <2> QED  BY <2>1, <2>2 DEF Window
<1>5. Requests'
  BY <1>1, <1>2 DEF OnlineInv, Requests
<1>6. Places'
  BY <1>1, <1>2, CountsFollow DEF OnlineInv, Places
<1>7. Accumulators'
  BY <1>1, <1>2, <1>3, AccGStays, AccEStays DEF OnlineInv, Accumulators
<1> QED  BY <1>4, <1>5, <1>6, <1>7 DEF OnlineInv

(* A step of the garbler before the check sends the messages of the next   *)
(* numbers.                                                                *)
LEMMA OnlineOrder ==
  ASSUME IInv, OnlineInv, gpc \notin {"gk", "done"}, gpc' \notin {"gk", "done"},
         UNCHANGED <<setup, garbling, checkingG, evaluatorVars>>,
         NEW q \in Seq(SentByGarbler), toE' = toE \o q, Sent' = Sent + Len(q),
         NEW s, s = Sent, \A j \in 1 .. Len(q) : Numbered(q[j], s + j - 1)',
         gpc' \in {"ot", "open"} => Opening = 3,
         Opening = 3 /\ gpc' \notin {"garble", "input", "ot"} =>
           epc \notin {"tables", "shift", "maskedX", "labelsX"},
         Requests'
  PROVE  OnlineInv'
<1>1. UNCHANGED <<setup, label0, label1, seedG, checkG, accG,
                  epc, labels, masked, challenge, checkE, accE>>
  BY DEF garbling, checkingG, evaluatorVars, evaluation, checkingE
<1>2. Window'
  BY <1>1, WindowSend DEF OnlineInv
<1>3. Places'
  BY <1>1, CountsFollow DEF OnlineInv, Places
<1>4. Accumulators'
  BY <1>1, AccGStays, AccEStays DEF OnlineInv, Accumulators
<1> QED  BY <1>2, <1>3, <1>4 DEF OnlineInv

(* What garble sends, and the steps of online.                             *)
LEMMA ShortSequences ==
  ASSUME NEW S, NEW a \in S, NEW b \in S
  PROVE  /\ <<a>> \in Seq(S) /\ <<a, b>> \in Seq(S)
         /\ \A q \in Seq(S) : Append(q, a) = q \o <<a>>
OBVIOUS

LEMMA SendGarbledOrder == ASSUME IInv, OnlineInv, SendGarbled PROVE OnlineInv'
<1>1. /\ gpc = "garble" /\ gpc' = "input" /\ epc = "tables"
      /\ toE' = toE \o <<Msg("tables", tables), Msg("shift", shift)>>
      /\ UNCHANGED <<setup, garbling, checkingG, evaluatorVars, epc, toG>>
  BY DEF SendGarbled, IInv, Streams, evaluatorVars
<1>2. PICK q \in Seq(SentByGarbler) : q = <<Msg("tables", tables), Msg("shift", shift)>>
  BY SentMessages, ShortSequences
<1>3. PICK s : s = Sent
  OBVIOUS
<1>4. s = 0 /\ Sent' = s + Len(q) /\ Len(q) = 2
  BY <1>1, <1>2, <1>3 DEF Sent
<1>5. ASSUME NEW j \in 1 .. Len(q) PROVE Numbered(q[j], s + j - 1)'
  <2>1. PICK n : n = s + j - 1
    OBVIOUS
  <2>2. n \in Nat /\ n < FirstGk /\ q[j].kind = KindOf(n)
    BY <1>2, <1>4, <2>1, Counts DEF Msg, KindOf
  <2> QED  BY <1>1, <2>1, <2>2, NumberedByKind
<1>6. Requests'
  BY <1>1 DEF OnlineInv, Requests
<1> QED  BY <1>1, <1>2, <1>3, <1>4, <1>5, <1>6, OnlineOrder

LEMMA SendInputOrder == ASSUME IInv, OnlineInv, SendInput PROVE OnlineInv'
<1>1. /\ gpc = "input" /\ gpc' = IF circuit.inputSize1 # 0 THEN "ot" ELSE "outputMasks"
      /\ toE' = toE \o <<Msg("maskedX", MaskedX), Msg("labelsX", LabelsX)>>
      /\ UNCHANGED <<setup, garbling, checkingG, evaluatorVars, toG>>
  BY DEF SendInput, GarblerStep, Arrived
<1>2. PICK q \in Seq(SentByGarbler) : q = <<Msg("maskedX", MaskedX), Msg("labelsX", LabelsX)>>
  BY SentMessages, ShortSequences
<1>3. PICK s : s = Sent
  OBVIOUS
<1>4. Taken <= s /\ Opening \in {0, 3} /\ epc \in EvaluatorPcs
      /\ toE \in Seq(SentByGarbler) /\ toG \in Seq(SentByEvaluator)
  BY <1>3, Counts DEF OnlineInv, Window, IInv, Streams
<1>5. Opening' = Opening /\ (circuit.inputSize1 # 0 <=> Opening = 3)
  BY <1>1, CountsFollow DEF Opening
<1>6. /\ \/ gpc' = "ot" /\ Opening = 3
         \/ gpc' = "outputMasks" /\ Opening = 0
      /\ epc # "otPads" /\ epc # "check" /\ epc' = epc
  <2>1. \/ gpc' = "ot" /\ Opening = 3
        \/ gpc' = "outputMasks" /\ Opening = 0
    BY <1>1, <1>4, <1>5
  <2>2. s = 2
    BY <1>1, <1>3 DEF Sent
  <2>3. epc # "otPads" /\ epc # "check"
    BY <1>4, <2>2, Counts DEF Taken
  <2> QED  BY <1>1, <2>1, <2>3 DEF evaluatorVars
<1>7. s = 2 /\ Sent' = s + Len(q) /\ Len(q) = 2 /\ toE' = toE \o q
  <2>1. Len(q) = 2 /\ toE' = toE \o q
    BY <1>1, <1>2, <1>4, SentMessages, ShortSequences
  <2> HIDE DEF Opening
  <2> QED  BY <1>1, <1>3, <1>4, <1>5, <1>6, <2>1 DEF Sent
<1>8. ASSUME NEW j \in 1 .. Len(q) PROVE Numbered(q[j], s + j - 1)'
  <2>1. PICK n : n = s + j - 1
    OBVIOUS
  <2>2. n \in Nat /\ n < FirstGk /\ q[j].kind = KindOf(n)
    <3>1. q[1].kind = "maskedX" /\ q[2].kind = "labelsX"
      BY <1>2 DEF Msg
    <3>2. (j = 1 /\ n = 2) \/ (j = 2 /\ n = 3)
      BY <1>7, <2>1
    <3> QED  BY <3>1, <3>2, Counts DEF KindOf
  <2> QED  BY <1>1, <2>1, <2>2, NumberedByKind
<1>9. Requests'
  BY <1>1, <1>6 DEF OnlineInv, Requests
<1> QED  BY <1>1, <1>3, <1>5, <1>6, <1>7, <1>8, <1>9, OnlineOrder

LEMMA OtSendOrder == ASSUME IInv, OnlineInv, OtSend PROVE OnlineInv'
<1>1. /\ gpc = "ot" /\ gpc' = "open" /\ toG # <<>> /\ toG' = Tail(toG)
      /\ toE' = Append(toE, Msg("otPads", OtPads))
      /\ UNCHANGED <<setup, garbling, checkingG, evaluatorVars>>
  BY DEF OtSend, GarblerStep, Arrived
<1>2. PICK q \in Seq(SentByGarbler) : q = <<Msg("otPads", OtPads)>>
  BY SentMessages, ShortSequences
<1>3. PICK s : s = Sent
  OBVIOUS
<1>4. Taken <= s /\ Opening \in {0, 3} /\ epc \in EvaluatorPcs
      /\ toE \in Seq(SentByGarbler) /\ toG \in Seq(SentByEvaluator)
  BY <1>3, Counts DEF OnlineInv, Window, IInv, Streams
<1>5. Opening' = Opening /\ (circuit.inputSize1 # 0 <=> Opening = 3)
  BY <1>1, CountsFollow DEF Opening
<1>6. Opening = 3 /\ epc = "otPads" /\ epc' = epc /\ toG' = <<>>
  <2>1. Opening = 3 /\ epc = "otPads" /\ toG = <<Msg("otExtend", {})>>
    BY <1>1 DEF OnlineInv, Places, Requests
  <2> QED  BY <1>1, <2>1 DEF evaluatorVars
<1>7. s = 4 /\ Sent' = s + Len(q) /\ Len(q) = 1 /\ toE' = toE \o q
  <2>1. Len(q) = 1 /\ toE' = toE \o q
    BY <1>1, <1>2, <1>4, SentMessages, ShortSequences
  <2> HIDE DEF Opening
  <2> QED  BY <1>1, <1>3, <1>4, <1>5, <1>6, <2>1 DEF Sent
<1>8. ASSUME NEW j \in 1 .. Len(q) PROVE Numbered(q[j], s + j - 1)'
  <2>1. PICK n : n = s + j - 1
    OBVIOUS
  <2>2. n \in Nat /\ n < FirstGk /\ q[j].kind = KindOf(n)
    <3> HIDE DEF Opening
    <3> QED  BY <1>2, <1>4, <1>6, <1>7, <2>1, Counts DEF Msg, KindOf
  <2> QED  BY <1>1, <2>1, <2>2, NumberedByKind
<1>9. Requests'
  BY <1>1, <1>6 DEF Requests
<1> QED  BY <1>1, <1>3, <1>5, <1>6, <1>7, <1>8, <1>9, OnlineOrder

LEMMA OpenMasksOrder == ASSUME IInv, OnlineInv, OpenMasks PROVE OnlineInv'
<1>1. /\ gpc = "open" /\ gpc' = "outputMasks"
      /\ toE' = toE \o <<Msg("openBits", OpenedBits), Msg("openMacs", OpenedMacs)>>
      /\ UNCHANGED <<setup, garbling, checkingG, evaluatorVars, toG>>
  BY DEF OpenMasks, GarblerStep, Arrived
<1>2. PICK q \in Seq(SentByGarbler) :
             q = <<Msg("openBits", OpenedBits), Msg("openMacs", OpenedMacs)>>
  BY SentMessages, ShortSequences
<1>3. PICK s : s = Sent
  OBVIOUS
<1>4. Taken <= s /\ Opening \in {0, 3} /\ epc \in EvaluatorPcs
      /\ toE \in Seq(SentByGarbler) /\ toG \in Seq(SentByEvaluator)
  BY <1>3, Counts DEF OnlineInv, Window, IInv, Streams
<1>5. Opening' = Opening /\ (circuit.inputSize1 # 0 <=> Opening = 3)
  BY <1>1, CountsFollow DEF Opening
<1>6. Opening = 3 /\ epc' = epc
      /\ epc \notin {"tables", "shift", "maskedX", "labelsX"}
  BY <1>1 DEF OnlineInv, Places, evaluatorVars
<1>7. s = 5 /\ Sent' = s + Len(q) /\ Len(q) = 2 /\ toE' = toE \o q
  <2>1. Len(q) = 2 /\ toE' = toE \o q
    BY <1>1, <1>2, <1>4, SentMessages, ShortSequences
  <2> HIDE DEF Opening
  <2> QED  BY <1>1, <1>3, <1>4, <1>5, <1>6, <2>1 DEF Sent
<1>8. ASSUME NEW j \in 1 .. Len(q) PROVE Numbered(q[j], s + j - 1)'
  <2>1. PICK n : n = s + j - 1
    OBVIOUS
  <2>2. n \in Nat /\ n < FirstGk /\ q[j].kind = KindOf(n)
    <3> HIDE DEF Opening
    <3> QED  BY <1>2, <1>4, <1>6, <1>7, <2>1, Counts, SMTT(30) DEF Msg, KindOf
  <2> QED  BY <1>1, <2>1, <2>2, NumberedByKind
<1>9. Requests'
  BY <1>1, <1>6 DEF OnlineInv, Requests
<1> QED  BY <1>1, <1>3, <1>5, <1>6, <1>7, <1>8, <1>9, OnlineOrder

LEMMA SendOutputMasksOrder == ASSUME IInv, OnlineInv, SendOutputMasks PROVE OnlineInv'
<1>1. /\ gpc = "outputMasks" /\ gpc' = "check"
      /\ toE' = Append(toE, Msg("outputMasks", OutputMasks))
      /\ UNCHANGED <<setup, garbling, checkingG, evaluatorVars, toG>>
  BY DEF SendOutputMasks, GarblerStep, Arrived
<1>2. PICK q \in Seq(SentByGarbler) : q = <<Msg("outputMasks", OutputMasks)>>
  BY SentMessages, ShortSequences
<1>3. PICK s : s = Sent
  OBVIOUS
<1>4. Taken <= s /\ Opening \in {0, 3} /\ epc \in EvaluatorPcs
      /\ toE \in Seq(SentByGarbler) /\ toG \in Seq(SentByEvaluator)
  BY <1>3, Counts DEF OnlineInv, Window, IInv, Streams
<1>5. Opening' = Opening /\ (circuit.inputSize1 # 0 <=> Opening = 3)
  BY <1>1, CountsFollow DEF Opening
<1>6. /\ epc # "check" /\ epc' = epc
      /\ Opening = 3 => epc \notin {"tables", "shift", "maskedX", "labelsX"}
  <2>1. s = 4 + Opening
    BY <1>1, <1>3 DEF Sent
  <2>2. epc # "check"
    <3> HIDE DEF Opening, FirstGk
    <3> QED  BY <1>4, <2>1, Counts DEF Taken
  <2> QED  BY <1>1, <2>2 DEF OnlineInv, Places, evaluatorVars
<1>7. s = 4 + Opening /\ Sent' = s + Len(q) /\ Len(q) = 1 /\ toE' = toE \o q
  <2>1. Len(q) = 1 /\ toE' = toE \o q
    BY <1>1, <1>2, <1>4, SentMessages, ShortSequences
  <2>2. FirstGk = 5 + Opening /\ FirstGk' = FirstGk
    BY <1>1, Counts, CountsFollow
  <2> HIDE DEF Opening, FirstGk
  <2> QED  BY <1>1, <1>3, <1>4, <1>5, <1>6, <2>1, <2>2 DEF Sent
<1>8. ASSUME NEW j \in 1 .. Len(q) PROVE Numbered(q[j], s + j - 1)'
  <2>1. PICK n : n = s + j - 1
    OBVIOUS
  <2>2. n \in Nat /\ n < FirstGk /\ q[j].kind = KindOf(n)
    <3> HIDE DEF Opening
    <3> QED  BY <1>2, <1>4, <1>6, <1>7, <2>1, Counts, SMTT(30) DEF Msg, KindOf
  <2> QED  BY <1>1, <2>1, <2>2, NumberedByKind
<1>9. Requests'
  BY <1>1, <1>6 DEF OnlineInv, Requests
<1> QED  BY <1>1, <1>3, <1>5, <1>6, <1>7, <1>8, <1>9, OnlineOrder

(* The indices below a counter.                                            *)
LEMMA UpToCounter ==
  ASSUME NEW n \in Nat
  PROVE  /\ 0 .. ((n + 1) - 1) = (0 .. (n - 1)) \cup {n}
         /\ IsFiniteSet(0 .. (n - 1)) /\ n \notin 0 .. (n - 1)
<1>1. 0 \in Int /\ n - 1 \in Int
  OBVIOUS
<1>2. IsFiniteSet(0 .. (n - 1))
  BY <1>1, FS_Interval
<1>3. 0 .. ((n + 1) - 1) = (0 .. (n - 1)) \cup {n} /\ n \notin 0 .. (n - 1)
  OBVIOUS
<1> QED  BY <1>2, <1>3

(***************************************************************************)
(* The garbler's side of the GC check.                                     *)
(***************************************************************************)

(* The seed the garbler reads is the one the evaluator chose, and neither  *)
(* side has added anything yet.                                            *)
LEMMA RecvChallengeOrder == ASSUME IInv, OnlineInv, RecvChallenge PROVE OnlineInv'
<1>1. /\ gpc = "check" /\ gpc' = "gk" /\ toG # <<>> /\ toG' = Tail(toG)
      /\ seedG' = Head(toG).val
      /\ UNCHANGED <<setup, garbling, checkG, accG, evaluatorVars, toE>>
  BY DEF RecvChallenge, GarblerStep, Arrived
<1>2. UNCHANGED <<label0, label1, epc, labels, masked, challenge, checkE, accE>>
  BY <1>1 DEF garbling, evaluatorVars, evaluation, checkingE
<1>3. epc = "check" /\ toG' = <<>> /\ seedG' = challenge
  <2>1. epc = "check" /\ toG = <<Msg("challenge", challenge)>>
    BY <1>1 DEF OnlineInv, Requests
  <2> QED  BY <1>1, <2>1 DEF Msg
<1>4. /\ Sent = FirstGk /\ Taken = FirstGk + checkE /\ Taken <= Sent
      /\ checkG = 0 /\ checkE = 0
  <2>1. Sent = FirstGk /\ Taken = FirstGk + checkE /\ Taken <= Sent /\ checkG = 0
    BY <1>1, <1>3 DEF OnlineInv, Window, Places, Sent, Taken
  <2> HIDE DEF FirstGk
  <2> QED  BY <2>1, Counts
<1>5. Window'
  <2>1. toE' = toE \o <<>> /\ <<>> \in Seq(SentByGarbler)
    BY <1>1 DEF IInv, Streams
  <2>2. FirstGk' = FirstGk /\ FirstGk \in Nat
    BY <1>1, Counts, CountsFollow
  <2>3. Sent' = Sent + Len(<<>>)
    <3> HIDE DEF FirstGk
    <3> QED  BY <1>1, <1>4, <2>2 DEF Sent
  <2>4. PICK q \in Seq(SentByGarbler) : q = <<>>
    BY <2>1
  <2>5. Len(q) = 0 /\ \A j \in 1 .. Len(q) : FALSE
    BY <2>4
  <2>6. Sent <= FirstGk
    BY <1>4, <2>2
  <2>7. \A s : \A j \in 1 .. Len(q) : Numbered(q[j], s + j - 1)'
    BY <2>5
  <2> QED  BY <1>1, <1>2, <2>1, <2>3, <2>4, <2>6, <2>7, WindowSend DEF OnlineInv
<1>6. Requests'
  BY <1>1, <1>3 DEF Requests
<1>7. Places'
  BY <1>1, <1>2, <1>3, <1>4, CountsFollow DEF OnlineInv, Places
<1>8. Accumulators'
  BY <1>1, <1>2, <1>4, AccGStays, AccEStays DEF OnlineInv, Accumulators
<1> QED  BY <1>5, <1>6, <1>7, <1>8 DEF OnlineInv

(* A gk of its number goes out, and its term into the accumulator.         *)
LEMMA SendGkOrder == ASSUME IInv, OnlineInv, SendGk PROVE OnlineInv'
<1> DEFINE w == IndependentWire(circuit, checkG)
           term == Contribution(checkG, seedG, H(label0[w], w, 2), Ak0Terms)
<1>1. /\ gpc = "gk" /\ gpc' = "gk" /\ checkG < IndependentSize(circuit)
      /\ checkG' = checkG + 1 /\ toE' = Append(toE, Msg("gk", GkOf(seedG, w)))
      /\ accG' = accG \oplus term
      /\ UNCHANGED <<setup, garbling, seedG, evaluatorVars, toG>>
  BY DEF SendGk, GarblerStep
<1>2. UNCHANGED <<circuit, label0, label1, epc, labels, masked, challenge, checkE, accE>>
  BY <1>1 DEF garbling, evaluatorVars, evaluation, checkingE, circuit
<1>3. /\ IndependentSize(circuit) \in Nat /\ FirstGk \in Nat
      /\ LastMessage = FirstGk + IndependentSize(circuit)
      /\ checkG \in 0 .. (IndependentSize(circuit) - 1)
  BY <1>1, Counts
<1>4. /\ WellFormed(circuit) /\ seedG \in Challenges /\ w \in Wires(circuit)
      /\ label0[w] \in Block /\ label1[w] \in Block
  <2>1. WellFormed(circuit) /\ GarblerTypeOK /\ seedG \in Challenges
    BY <1>1, SetupFacts DEF IInv, GarblerInv, SeedKnown
  <2>2. w \in Wires(circuit)
    BY <1>3, <2>1, IndependentWireType
  <2> QED  BY <2>1, <2>2 DEF GarblerTypeOK
<1>5. H(label0[w], w, 2) \in Block /\ H(label1[w], w, 2) \in Block
  BY <1>4, SetupFacts DEF IInv
<1>6. GkOf(seedG, w) \in Block
  BY <1>5, BlockType DEF GkOf, Ak1
<1>7. Window'
  <2>1. PICK q \in Seq(SentByGarbler) : q = <<Msg("gk", GkOf(seedG, w))>>
    BY <1>6, SentMessages, ShortSequences
  <2>2. Len(q) = 1 /\ toE' = toE \o q
    <3>1. toE \in Seq(SentByGarbler) /\ Msg("gk", GkOf(seedG, w)) \in SentByGarbler
      BY <1>6, SentMessages DEF IInv, Streams
    <3> HIDE DEF w
    <3> QED  BY <1>1, <2>1, <3>1, ShortSequences
  <2>3. PICK s : s = Sent
    OBVIOUS
  <2>4. FirstGk' = FirstGk /\ LastMessage' = LastMessage
    BY <1>1, CountsFollow
  <2>5. s = FirstGk + checkG /\ Sent' = s + Len(q) /\ Sent <= LastMessage
    <3> HIDE DEF FirstGk, LastMessage
    <3> QED  BY <1>1, <1>3, <2>2, <2>3, <2>4 DEF Sent
  <2>6. Numbered(q[1], s)'
    <3>1. GkOf(seedG, IndependentWire(circuit, s - FirstGk))' = GkOf(seedG, w)
      <4>1. PICK v : v = w
        OBVIOUS
      <4>2. GkOf(seedG, v)' = GkOf(seedG, v)
        BY <1>1, <1>2, GkKept
      <4>3. s - FirstGk' = checkG
        BY <1>3, <2>4, <2>5
      <4>4. IndependentWire(circuit, s - FirstGk)' = v
        BY <1>2, <4>1, <4>3
      <4> HIDE DEF GkOf, w
      <4> QED  BY <4>1, <4>2, <4>4
    <3>2. q[1] = Msg("gk", GkOf(seedG, IndependentWire(circuit, s - FirstGk)))'
      BY <2>1, <3>1 DEF Msg
    <3>3. /\ s # 0 /\ s # 1 /\ s # 2 /\ s # 3 /\ s # LastMessage' /\ s # 4 + Opening'
          /\ ~(s = 4 /\ Opening' = 3) /\ ~(s = 5 /\ Opening' = 3) /\ ~(s = 6 /\ Opening' = 3)
      <4>1. Opening' = Opening /\ Opening \in {0, 3} /\ FirstGk = 5 + Opening
        BY <1>1, Counts, CountsFollow
      <4> HIDE DEF FirstGk, LastMessage, Opening
      <4> QED  BY <1>1, <1>3, <2>4, <2>5, <4>1
    <3> DEFINE next == Msg("gk", GkOf(seedG, IndependentWire(circuit, s - FirstGk)))
    <3> HIDE DEF next, FirstGk, LastMessage, Opening
    <3> QED  BY <3>2, <3>3 DEF Numbered, next
  <2>7. \A j \in 1 .. Len(q) : Numbered(q[j], s + j - 1)'
    <3>1. s \in Nat
      BY <2>3, Counts
    <3>2. ASSUME NEW j \in 1 .. Len(q) PROVE q[j] = q[1] /\ s + j - 1 = s
      BY <2>2, <3>1
    <3> HIDE DEF Numbered
    <3> QED  BY <2>6, <3>2
  <2> QED  BY <1>1, <1>2, <2>2, <2>3, <2>5, <2>7, WindowSend DEF OnlineInv
<1>8. Requests'
  BY <1>1, <1>2 DEF OnlineInv, Requests
<1>9. Places'
  BY <1>1, <1>2, CountsFollow DEF OnlineInv, Places
<1>10. (accG = XorOver(0 .. (checkG - 1), CheckG))'
  <2>1. CheckG' = CheckG
    BY <1>1, <1>2, CheckGKept
  <2>2. CheckG[checkG] = term
    BY <1>3, Zenon DEF CheckG
  <2>3. term \in Block
    BY <1>3, <1>4, <1>5, ContributionType DEF IInv
  <2>4. accG = XorOver(0 .. (checkG - 1), CheckG)
    BY DEF OnlineInv, Accumulators
  <2>5. /\ 0 .. (checkG' - 1) = (0 .. (checkG - 1)) \cup {checkG}
        /\ IsFiniteSet(0 .. (checkG - 1)) /\ checkG \notin 0 .. (checkG - 1)
    BY <1>1, <1>3, UpToCounter, SMTT(30)
  <2> HIDE DEF term
  <2>6. XorOver((0 .. (checkG - 1)) \cup {checkG}, CheckG)
          = XorOver(0 .. (checkG - 1), CheckG) \oplus CheckG[checkG]
    BY <2>2, <2>3, <2>5, XorOverAdd
  <2> QED  BY <1>1, <2>1, <2>2, <2>4, <2>5, <2>6
<1>11. (accE = XorOver(0 .. (checkE - 1), CheckE))'
  BY <1>1, <1>2, AccEStays DEF OnlineInv
<1> QED  BY <1>7, <1>8, <1>9, <1>10, <1>11 DEF OnlineInv, Accumulators

(* The last message is the garbler's accumulator.                          *)
LEMMA SendHaOrder == ASSUME IInv, OnlineInv, SendHa PROVE OnlineInv'
<1>1. /\ gpc = "gk" /\ gpc' = "done" /\ checkG = IndependentSize(circuit)
      /\ toE' = Append(toE, Msg("ha", accG \cap CheckBits))
      /\ UNCHANGED <<setup, garbling, seedG, checkG, accG, evaluatorVars, toG>>
  BY DEF SendHa, GarblerStep
<1>2. UNCHANGED <<circuit, label0, label1, epc, labels, masked, challenge, checkE, accE>>
  BY <1>1 DEF garbling, evaluatorVars, evaluation, checkingE, circuit
<1>3. /\ IndependentSize(circuit) \in Nat /\ FirstGk \in Nat
      /\ LastMessage = FirstGk + IndependentSize(circuit)
  BY Counts
<1>4. accG \cap CheckBits \in Block
  BY DEF IInv, GarblerInv, GarblerTypeOK, Block
<1>5. Window'
  <2>1. PICK q \in Seq(SentByGarbler) : q = <<Msg("ha", accG \cap CheckBits)>>
    BY <1>4, SentMessages, ShortSequences
  <2>2. Len(q) = 1 /\ toE' = toE \o q
    <3>1. /\ toE \in Seq(SentByGarbler)
          /\ Msg("ha", accG \cap CheckBits) \in SentByGarbler
      BY <1>4, SentMessages DEF IInv, Streams
    <3> QED  BY <1>1, <2>1, <3>1, ShortSequences
  <2>3. PICK s : s = Sent
    OBVIOUS
  <2>4. FirstGk' = FirstGk /\ LastMessage' = LastMessage
    BY <1>1, CountsFollow
  <2>5. s = LastMessage /\ Sent' = s + Len(q)
    <3> HIDE DEF FirstGk, LastMessage
    <3> QED  BY <1>1, <1>3, <2>2, <2>3, <2>4 DEF Sent
  <2>6. Numbered(q[1], s)'
    <3>1. q[1] = Msg("ha", accG \cap CheckBits)'
      BY <1>1, <2>1 DEF Msg
    <3>2. /\ s # 0 /\ s # 1 /\ s # 2 /\ s # 3 /\ ~(s < LastMessage') /\ s # 4 + Opening'
          /\ ~(s = 4 /\ Opening' = 3) /\ ~(s = 5 /\ Opening' = 3) /\ ~(s = 6 /\ Opening' = 3)
      <4>1. Opening' = Opening /\ Opening \in {0, 3} /\ FirstGk = 5 + Opening
        BY <1>1, Counts, CountsFollow
      <4> HIDE DEF FirstGk, LastMessage, Opening
      <4> QED  BY <1>3, <2>4, <2>5, <4>1
    <3> DEFINE next == Msg("gk", GkOf(seedG, IndependentWire(circuit, s - FirstGk)))
               last == Msg("ha", accG \cap CheckBits)
    <3> HIDE DEF next, last, FirstGk, LastMessage, Opening
    <3> QED  BY <3>1, <3>2 DEF Numbered, next, last
  <2>7. \A j \in 1 .. Len(q) : Numbered(q[j], s + j - 1)'
    <3>1. s \in Nat
      BY <2>3, Counts
    <3>2. ASSUME NEW j \in 1 .. Len(q) PROVE q[j] = q[1] /\ s + j - 1 = s
      BY <2>2, <3>1
    <3> HIDE DEF Numbered
    <3> QED  BY <2>6, <3>2
  <2> QED  BY <1>1, <1>2, <2>2, <2>3, <2>5, <2>7, WindowSend DEF OnlineInv
<1>6. Requests'
  BY <1>1, <1>2 DEF OnlineInv, Requests
<1>7. Places'
  BY <1>1, <1>2, CountsFollow DEF OnlineInv, Places
<1>8. Accumulators'
  BY <1>1, <1>2, AccGStays, AccEStays DEF OnlineInv, Accumulators
<1> QED  BY <1>5, <1>6, <1>7, <1>8 DEF OnlineInv

(***************************************************************************)
(* The steps of the evaluator.                                             *)
(***************************************************************************)
BeforeOtPcs == {"tables", "shift", "maskedX", "labelsX"}

(* Before its own check has begun the evaluator has added nothing, and the *)
(* garbler has not begun its check either.                                 *)
LEMMA EvaluatorOrder ==
  ASSUME IInv, OnlineInv, UNCHANGED <<setup, garblerVars, checkE, accE>>,
         epc \notin {"check", "done", "abort"}, epc' \notin {"done", "abort"},
         epc' \in {"otPads", "openBits", "openMacs"} => Opening = 3,
         epc' \in BeforeOtPcs => epc \in BeforeOtPcs,
         Window', Requests'
  PROVE  OnlineInv'
<1>1. UNCHANGED <<gpc, label0, label1, seedG, checkG, accG>>
  BY DEF garblerVars, garbling, checkingG
<1>2. checkE = 0 /\ gpc \notin {"gk", "done"}
  BY DEF OnlineInv, Places
<1>3. Places'
  BY <1>1, <1>2, CountsFollow DEF OnlineInv, Places, BeforeOtPcs
<1>4. Accumulators'
  BY <1>1, <1>2, AccGStays, AccEStays DEF OnlineInv, Accumulators
<1> QED  BY <1>3, <1>4 DEF OnlineInv

(* A receive before the check.                                             *)
LEMMA ReceiveOrder ==
  ASSUME IInv, OnlineInv, UNCHANGED <<setup, garblerVars, checkE, accE>>,
         epc \notin {"check", "done", "abort"}, epc' \notin {"done", "abort"},
         epc' \in {"otPads", "openBits", "openMacs"} => Opening = 3,
         epc' \in BeforeOtPcs => epc \in BeforeOtPcs,
         toE # <<>>, toE' = Tail(toE), Taken' = Taken + 1, Requests'
  PROVE  OnlineInv'
<1>1. Window'
  BY WindowTake DEF OnlineInv
<1> QED  BY <1>1, EvaluatorOrder

LEMMA RecvTablesOrder == ASSUME IInv, OnlineInv, RecvTables PROVE OnlineInv'
<1>1. /\ epc = "tables" /\ epc' = "shift" /\ toE # <<>> /\ toE' = Tail(toE)
      /\ UNCHANGED <<setup, garblerVars, checkE, accE, challenge, toG>>
  BY DEF RecvTables, EvaluatorStep, Arrived, checkingE
<1>2. Taken' = Taken + 1
  BY <1>1 DEF Taken
<1>3. Requests'
  BY <1>1 DEF OnlineInv, Requests, garblerVars
<1> QED  BY <1>1, <1>2, <1>3, ReceiveOrder DEF BeforeOtPcs

LEMMA RecvShiftOrder == ASSUME IInv, OnlineInv, RecvShift PROVE OnlineInv'
<1>1. /\ epc = "shift" /\ epc' = "maskedX" /\ toE # <<>> /\ toE' = Tail(toE)
      /\ UNCHANGED <<setup, garblerVars, checkE, accE, challenge, toG>>
  BY DEF RecvShift, EvaluatorStep, Arrived, checkingE
<1>2. Taken' = Taken + 1
  BY <1>1 DEF Taken
<1>3. Requests'
  BY <1>1 DEF OnlineInv, Requests, garblerVars
<1> QED  BY <1>1, <1>2, <1>3, ReceiveOrder DEF BeforeOtPcs

LEMMA RecvMaskedXOrder == ASSUME IInv, OnlineInv, RecvMaskedX PROVE OnlineInv'
<1>1. /\ epc = "maskedX" /\ epc' = "labelsX" /\ toE # <<>> /\ toE' = Tail(toE)
      /\ UNCHANGED <<setup, garblerVars, checkE, accE, challenge, toG>>
  BY DEF RecvMaskedX, EvaluatorStep, Arrived, checkingE
<1>2. Taken' = Taken + 1
  BY <1>1 DEF Taken
<1>3. Requests'
  BY <1>1 DEF OnlineInv, Requests, garblerVars
<1> QED  BY <1>1, <1>2, <1>3, ReceiveOrder DEF BeforeOtPcs

(* The extension is sent to a garbler that is about to read it.            *)
LEMMA RecvLabelsXOrder == ASSUME IInv, OnlineInv, RecvLabelsX PROVE OnlineInv'
<1>1. /\ epc = "labelsX" /\ toE # <<>> /\ toE' = Tail(toE)
      /\ epc' = IF circuit.inputSize1 # 0 THEN "otPads" ELSE "evaluate"
      /\ toG' = IF circuit.inputSize1 # 0 THEN Append(toG, Msg("otExtend", {})) ELSE toG
      /\ UNCHANGED <<setup, garblerVars, checkE, accE, challenge>>
  BY DEF RecvLabelsX, EvaluatorStep, Arrived, checkingE
<1>2. /\ Opening' = Opening /\ Opening \in {0, 3} /\ gpc \in GarblerPcs
      /\ circuit.inputSize1 # 0 <=> Opening = 3
  BY <1>1, Counts, CountsFollow DEF Opening
<1>3. toG = <<>> /\ UNCHANGED gpc
  BY <1>1 DEF OnlineInv, Requests, garblerVars
<1>4. Taken' = Taken + 1
  <2> HIDE DEF Opening
  <2> QED  BY <1>1, <1>2 DEF Taken
<1>5. Opening = 3 => gpc = "ot"
  <2>1. Len(toE) > 0 /\ Len(toE) = Sent - Taken /\ Taken = 3
    <3>1. toE \in Seq(SentByGarbler)
      BY DEF IInv, Streams
    <3>2. Len(toE) > 0
      BY <1>1, <3>1
    <3> QED  BY <1>1, <3>2 DEF OnlineInv, Window, Taken
  <2>2. Sent > 3
    <3> HIDE DEF Sent, Taken
    <3> QED  BY <2>1, Counts
  <2>3. gpc \notin {"garble", "input"}
    BY <2>2 DEF Sent
  <2> QED  BY <1>1, <2>3 DEF OnlineInv, Places
<1>6. Requests'
  <2> HIDE DEF Opening
  <2>1. CASE Opening = 3
    <3>1. toG' = <<Msg("otExtend", {})>> /\ epc' = "otPads" /\ gpc' = "ot"
      BY <1>1, <1>2, <1>3, <1>5, <2>1
    <3> QED  BY <3>1 DEF Requests, Msg
  <2>2. CASE Opening # 3
    <3>1. toG' = <<>> /\ epc' = "evaluate"
      BY <1>1, <1>2, <1>3, <2>2
    <3> QED  BY <3>1 DEF Requests
  <2> QED  BY <2>1, <2>2
<1> QED  BY <1>1, <1>2, <1>4, <1>6, ReceiveOrder DEF BeforeOtPcs

LEMMA RecvOtPadsOrder == ASSUME IInv, OnlineInv, RecvOtPads PROVE OnlineInv'
<1>1. /\ epc = "otPads" /\ epc' = "openBits" /\ toE # <<>> /\ toE' = Tail(toE)
      /\ UNCHANGED <<setup, garblerVars, checkE, accE, challenge, toG>>
  BY DEF RecvOtPads, EvaluatorStep, Arrived, checkingE
<1>2. Taken' = Taken + 1 /\ Opening = 3 /\ Taken = 4
  BY <1>1 DEF Taken, OnlineInv, Places
<1>3. gpc # "ot"
  <2>1. Len(toE) > 0 /\ Len(toE) = Sent - Taken
    <3>1. toE \in Seq(SentByGarbler)
      BY DEF IInv, Streams
    <3>2. Len(toE) > 0
      BY <1>1, <3>1
    <3> QED  BY <3>2 DEF OnlineInv, Window
  <2>2. Sent > 4
    <3> HIDE DEF Sent, Taken
    <3> QED  BY <1>2, <2>1, Counts
  <2> QED  BY <2>2 DEF Sent
<1>4. Requests'
  BY <1>1, <1>3 DEF OnlineInv, Requests, garblerVars
<1> QED  BY <1>1, <1>2, <1>4, ReceiveOrder DEF BeforeOtPcs

LEMMA RecvOpenBitsOrder == ASSUME IInv, OnlineInv, RecvOpenBits PROVE OnlineInv'
<1>1. /\ epc = "openBits" /\ epc' = "openMacs" /\ toE # <<>> /\ toE' = Tail(toE)
      /\ UNCHANGED <<setup, garblerVars, checkE, accE, challenge, toG>>
  BY DEF RecvOpenBits, EvaluatorStep, Arrived, checkingE
<1>2. Taken' = Taken + 1 /\ Opening = 3
  BY <1>1 DEF Taken, OnlineInv, Places
<1>3. Requests'
  BY <1>1 DEF OnlineInv, Requests, garblerVars
<1> QED  BY <1>1, <1>2, <1>3, ReceiveOrder DEF BeforeOtPcs

(* The opening is that of the garbler's own masks: it verifies.            *)
LEMMA RecvOpenMacsOrder == ASSUME IInv, OnlineInv, RecvOpenMacs PROVE OnlineInv'
<1>1. /\ epc = "openMacs" /\ Arrived(toE, "openMacs") /\ toE # <<>> /\ toE' = Tail(toE)
      /\ UNCHANGED <<setup, garblerVars, checkE, accE, challenge, toG>>
  BY DEF RecvOpenMacs, EvaluatorStep, Arrived, checkingE
<1>2. epc' = "evaluate"
  BY OpeningVerifies
<1>3. Taken = 6 /\ Taken' = 4 + Opening' /\ Opening' = Opening /\ Opening = 3
  BY <1>1, <1>2, CountsFollow DEF Taken, OnlineInv, Places
<1>4. Taken' = Taken + 1
  BY <1>3
<1>5. Requests'
  BY <1>1, <1>2 DEF OnlineInv, Requests, garblerVars
<1> QED  BY <1>1, <1>2, <1>4, <1>5, ReceiveOrder DEF BeforeOtPcs

(* evaluate takes no message.                                              *)
LEMMA EvaluateOrder ==
  ASSUME IInv, OnlineInv, EvaluateNot \/ EvaluateAnd \/ EvaluateXor \/ EvaluateEnd
  PROVE  OnlineInv'
<1>1. /\ epc = "evaluate" /\ epc' \in {"evaluate", "outputMasks"}
      /\ UNCHANGED <<setup, garblerVars, checkE, accE, challenge, toE, toG>>
  BY DEF EvaluateNot, EvaluateAnd, EvaluateXor, EvaluateEnd, AtGateE, EvaluatorStep, checkingE
<1>2. Taken' = Taken
  <2>1. Opening' = Opening
    BY <1>1, CountsFollow
  <2> HIDE DEF Opening
  <2> QED  BY <1>1, <2>1 DEF Taken
<1>3. Window'
  BY <1>1, <1>2, WindowStays DEF OnlineInv
<1>4. Requests'
  BY <1>1 DEF OnlineInv, Requests, garblerVars
<1> QED  BY <1>1, <1>3, <1>4, EvaluatorOrder DEF BeforeOtPcs

LEMMA RecvOutputMasksOrder == ASSUME IInv, OnlineInv, RecvOutputMasks PROVE OnlineInv'
<1>1. /\ epc = "outputMasks" /\ epc' = "challenge" /\ toE # <<>> /\ toE' = Tail(toE)
      /\ UNCHANGED <<setup, garblerVars, checkE, accE, challenge, toG>>
  BY DEF RecvOutputMasks, EvaluatorStep, Arrived, checkingE
<1>2. Taken' = Taken + 1
  <2>1. FirstGk' = FirstGk /\ FirstGk = 5 + Opening /\ Opening \in {0, 3}
    BY <1>1, Counts, CountsFollow
  <2> HIDE DEF Opening, FirstGk
  <2> QED  BY <1>1, <2>1 DEF Taken
<1>3. Requests'
  BY <1>1 DEF OnlineInv, Requests, garblerVars
<1> QED  BY <1>1, <1>2, <1>3, ReceiveOrder DEF BeforeOtPcs

(* The challenge is sent to a garbler that is about to read it.            *)
LEMMA SendChallengeOrder == ASSUME IInv, OnlineInv, SendChallenge PROVE OnlineInv'
<1>1. /\ epc = "challenge" /\ epc' = "check"
      /\ toG' = Append(toG, Msg("challenge", challenge'))
      /\ UNCHANGED <<setup, garblerVars, checkE, accE, toE>>
  BY DEF SendChallenge, EvaluatorStep
<1>2. /\ FirstGk' = FirstGk /\ FirstGk = 5 + Opening /\ Opening \in {0, 3}
      /\ gpc \in GarblerPcs /\ Sent \in Nat
  BY <1>1, Counts, CountsFollow
<1>3. toG = <<>> /\ UNCHANGED gpc /\ checkE = 0 /\ gpc \notin {"gk", "done"}
  BY <1>1 DEF OnlineInv, Requests, Places, garblerVars
<1>4. Taken = FirstGk /\ Taken' = Taken /\ Taken <= Sent
  <2>1. Taken <= Sent
    BY DEF OnlineInv, Window
  <2> HIDE DEF Opening, FirstGk
  <2> QED  BY <1>1, <1>2, <1>3, <2>1 DEF Taken
<1>5. gpc = "check"
  <2>1. Sent >= 5 + Opening
    BY <1>2, <1>4
  <2> HIDE DEF Opening, FirstGk
  <2> QED  BY <1>2, <1>3, <2>1 DEF Sent, GarblerPcs, OnlineInv, Places
<1>6. Window'
  BY <1>1, <1>4, WindowStays DEF OnlineInv
<1>7. Requests'
  <2>1. toG' = <<Msg("challenge", challenge')>>
    BY <1>1, <1>3
  <2> QED  BY <1>1, <1>3, <1>5, <2>1 DEF Requests, Msg
<1> QED  BY <1>1, <1>6, <1>7, EvaluatorOrder DEF BeforeOtPcs

(* The gk taken is that of the wire the evaluator is at.                   *)
LEMMA RecvGkOrder == ASSUME IInv, OnlineInv, RecvGk PROVE OnlineInv'
<1> DEFINE w == IndependentWire(circuit, checkE)
           hash == H(labels[w], w, 2) \oplus AndAllBits(masked[w], Head(toE).val)
           term == Contribution(checkE, challenge, hash, BTerms)
<1>1. /\ epc = "check" /\ epc' = "check" /\ checkE < IndependentSize(circuit)
      /\ toE # <<>> /\ Arrived(toE, "gk") /\ toE' = Tail(toE) /\ checkE' = checkE + 1
      /\ accE' = accE \oplus term
      /\ UNCHANGED <<setup, garblerVars, labels, masked, challenge, toG>>
  BY DEF RecvGk, EvaluatorStep, Arrived
<1>2. UNCHANGED <<circuit, gpc, label0, label1, seedG, checkG, accG>>
  BY <1>1 DEF garblerVars, garbling, checkingG, circuit
<1>3. /\ IndependentSize(circuit) \in Nat /\ FirstGk \in Nat
      /\ LastMessage = FirstGk + IndependentSize(circuit)
      /\ checkE \in 0 .. (IndependentSize(circuit) - 1)
      /\ FirstGk' = FirstGk
  BY <1>1, Counts, CountsFollow
<1>4. Taken = FirstGk + checkE /\ Taken' = Taken + 1
  <2> HIDE DEF FirstGk, LastMessage
  <2> QED  BY <1>1, <1>3 DEF Taken
<1>5. Window'
  BY <1>1, <1>4, WindowTake DEF OnlineInv
<1>6. Head(toE).val = GkOf(seedG, w)
  <2>1. toE \in Seq(SentByGarbler)
    BY DEF IInv, Streams
  <2>2. 1 \in 1 .. Len(toE) /\ toE[1] = Head(toE)
    BY <1>1, <2>1
  <2>3. Numbered(toE[1], Taken + 1 - 1)
    <3> HIDE DEF Numbered
    <3> QED  BY <2>2 DEF OnlineInv, Window
  <2>4. PICK m, n : m = toE[1] /\ n = Taken
    OBVIOUS
  <2>5. Numbered(m, n)
    <3>1. Taken + 1 - 1 = Taken
      BY <1>3, <1>4
    <3> HIDE DEF Numbered
    <3> QED  BY <2>3, <2>4, <3>1
  <2>6. n >= FirstGk /\ n < LastMessage /\ n - FirstGk = checkE
    BY <1>3, <1>4, <2>4
  <2>7. m = Msg("gk", GkOf(seedG, IndependentWire(circuit, n - FirstGk)))
    BY <2>5, <2>6, Zenon DEF Numbered
  <2>8. m = Msg("gk", GkOf(seedG, w))
    BY <2>6, <2>7
  <2> QED  BY <2>2, <2>4, <2>8 DEF Msg
<1>7. Requests'
  BY <1>1, <1>2 DEF OnlineInv, Requests
<1>8. Places'
  BY <1>1, <1>2, CountsFollow DEF OnlineInv, Places
<1>9. (accE = XorOver(0 .. (checkE - 1), CheckE))'
  <2>1. CheckE' = CheckE
    BY <1>1, <1>2, CheckEKept
  <2>2. CheckE[checkE] = term
    BY <1>3, <1>6, Zenon DEF CheckE
  <2>3. term \in Block
    <3>1. /\ WellFormed(circuit) /\ challenge \in Challenges
          /\ labels \in [Wires(circuit) -> Block]
      BY <1>1, SetupFacts DEF IInv, EvaluatorInv, Progress, EvaluatorTypeOK
    <3>2. w \in Wires(circuit)
      BY <1>3, <3>1, IndependentWireType
    <3>3. Head(toE).val \in Block
      BY <1>1, ReadStream, MessageByKind
    <3>4. hash \in Block
      BY <3>1, <3>2, <3>3, SetupFacts, BlockType DEF IInv
    <3> QED  BY <1>3, <3>1, <3>4, ContributionType DEF IInv
  <2>4. accE = XorOver(0 .. (checkE - 1), CheckE)
    BY DEF OnlineInv, Accumulators
  <2>5. /\ 0 .. (checkE' - 1) = (0 .. (checkE - 1)) \cup {checkE}
        /\ IsFiniteSet(0 .. (checkE - 1)) /\ checkE \notin 0 .. (checkE - 1)
    BY <1>1, <1>3, UpToCounter
  <2> HIDE DEF term
  <2>6. XorOver((0 .. (checkE - 1)) \cup {checkE}, CheckE)
          = XorOver(0 .. (checkE - 1), CheckE) \oplus CheckE[checkE]
    BY <2>2, <2>3, <2>5, XorOverAdd
  <2> QED  BY <1>1, <2>1, <2>2, <2>4, <2>5, <2>6
<1>10. (accG = XorOver(0 .. (checkG - 1), CheckG))'
  BY <1>1, <1>2, AccGStays DEF OnlineInv
<1> QED  BY <1>5, <1>7, <1>8, <1>9, <1>10 DEF OnlineInv, Accumulators

(* The last message is compared with an accumulator that agrees with it.   *)
LEMMA CheckPasses ==
  ASSUME IInv, OnlineInv, RecvHa
  PROVE  epc' = "done"
<1>1. /\ epc = "check" /\ checkE = IndependentSize(circuit) /\ toE # <<>>
      /\ accE \cap CheckBits = Head(toE).val => epc' = "done"
  BY DEF RecvHa, EvaluatorStep, Arrived
<1>2. /\ IndependentSize(circuit) \in Nat /\ FirstGk \in Nat
      /\ LastMessage = FirstGk + IndependentSize(circuit)
      /\ Sent \in Nat /\ checkG \in 0 .. IndependentSize(circuit) /\ gpc \in GarblerPcs
      /\ FirstGk = 5 + Opening /\ Opening \in {0, 3}
  BY Counts
<1>3. Taken = LastMessage
  <2> HIDE DEF FirstGk, LastMessage, Opening
  <2> QED  BY <1>1, <1>2 DEF Taken
<1>4. toE \in Seq(SentByGarbler) /\ 1 \in 1 .. Len(toE) /\ toE[1] = Head(toE)
  BY <1>1 DEF IInv, Streams
<1>5. Sent > LastMessage
  <2>1. Len(toE) = Sent - Taken
    BY DEF OnlineInv, Window
  <2> HIDE DEF Sent, Taken, LastMessage
  <2> QED  BY <1>2, <1>3, <1>4, <2>1
<1>6. gpc = "done"
  <2> HIDE DEF LastMessage, FirstGk, Opening
  <2> QED  BY <1>2, <1>5 DEF Sent, GarblerPcs
<1>7. checkG = IndependentSize(circuit) /\ seedG = challenge
  BY <1>6 DEF OnlineInv, Places
<1>8. Head(toE).val = accG \cap CheckBits
  <2>1. Numbered(toE[1], Taken + 1 - 1)
    <3> HIDE DEF Numbered
    <3> QED  BY <1>4 DEF OnlineInv, Window
  <2>2. Taken + 1 - 1 = LastMessage
    BY <1>2, <1>3
  <2>3. Numbered(Head(toE), LastMessage)
    <3> HIDE DEF Numbered
    <3> QED  BY <1>4, <2>1, <2>2
  <2>4. Head(toE) = Msg("ha", accG \cap CheckBits)
    BY <2>3, Zenon DEF Numbered
  <2> QED  BY <2>4 DEF Msg
<1>9. accE = accG
  <2>1. challenge \in Challenges
    BY <1>1 DEF IInv, EvaluatorInv, Progress
  <2>2. /\ accG = XorOver(0 .. (IndependentSize(circuit) - 1), CheckG)
        /\ accE = XorOver(0 .. (IndependentSize(circuit) - 1), CheckE)
    BY <1>1, <1>7 DEF OnlineInv, Accumulators
  <2>3. XorOver(0 .. (IndependentSize(circuit) - 1), CheckE)
          = XorOver(0 .. (IndependentSize(circuit) - 1), CheckG)
    BY <1>1, <1>7, <2>1, GcCheckAgrees
  <2> QED  BY <2>2, <2>3
<1> QED  BY <1>1, <1>8, <1>9

LEMMA RecvHaOrder == ASSUME IInv, OnlineInv, RecvHa PROVE OnlineInv'
<1>1. /\ epc = "check" /\ checkE = IndependentSize(circuit) /\ toE # <<>> /\ toE' = Tail(toE)
      /\ UNCHANGED <<setup, garblerVars, labels, masked, challenge, checkE, accE, toG>>
  BY DEF RecvHa, EvaluatorStep, Arrived
<1>2. epc' = "done"
  BY CheckPasses
<1>3. UNCHANGED <<circuit, gpc, label0, label1, seedG, checkG, accG>>
  BY <1>1 DEF garblerVars, garbling, checkingG, circuit
<1>4. Taken' = Taken + 1
  <2>1. /\ IndependentSize(circuit) \in Nat /\ FirstGk \in Nat
        /\ LastMessage = FirstGk + IndependentSize(circuit) /\ LastMessage' = LastMessage
    BY <1>1, Counts, CountsFollow
  <2> HIDE DEF FirstGk, LastMessage
  <2> QED  BY <1>1, <1>2, <2>1 DEF Taken
<1>5. Window'
  BY <1>1, <1>4, WindowTake DEF OnlineInv
<1>6. gpc # "check"
  <2>1. Sent > FirstGk
    <3>1. Len(toE) > 0 /\ Len(toE) = Sent - Taken
      <4>1. toE \in Seq(SentByGarbler)
        BY DEF IInv, Streams
      <4>2. Len(toE) > 0
        BY <1>1, <4>1
      <4> QED  BY <4>2 DEF OnlineInv, Window
    <3>2. Taken = FirstGk + checkE
      BY <1>1 DEF Taken
    <3> HIDE DEF Sent, Taken, FirstGk
    <3> QED  BY <3>1, <3>2, Counts
  <2>2. FirstGk \in Nat
    BY Counts
  <2> HIDE DEF FirstGk
  <2> QED  BY <2>1, <2>2 DEF Sent
<1>7. Requests'
  BY <1>1, <1>2, <1>3, <1>6 DEF OnlineInv, Requests
<1>8. Places'
  BY <1>1, <1>2, <1>3, CountsFollow DEF OnlineInv, Places
<1>9. Accumulators'
  BY <1>1, <1>3, AccGStays, AccEStays DEF OnlineInv, Accumulators
<1> QED  BY <1>5, <1>7, <1>8, <1>9 DEF OnlineInv

(***************************************************************************)
(* The theorems on message order and on the checks.                        *)
(***************************************************************************)
LEMMA InitOnlineInv == Init => OnlineInv
<1> SUFFICES ASSUME Init PROVE OnlineInv
  OBVIOUS
<1>1. /\ gpc = "garble" /\ epc = "tables" /\ toE = <<>> /\ toG = <<>>
      /\ checkG = 0 /\ checkE = 0 /\ accG = ZeroBlock /\ accE = ZeroBlock
  BY DEF Init
<1>2. Window
  <2>1. Sent = 0 /\ Taken = 0
    BY <1>1 DEF Sent, Taken
  <2>2. Len(toE) = 0 /\ \A j \in 1 .. Len(toE) : FALSE
    BY <1>1
  <2> HIDE DEF Sent, Taken, Numbered
  <2> QED  BY <2>1, <2>2 DEF Window
<1>3. Requests /\ Places
  BY <1>1 DEF Requests, Places
<1>4. Accumulators
  <2>1. 0 .. (checkG - 1) = {} /\ 0 .. (checkE - 1) = {}
    BY <1>1
  <2> QED  BY <1>1, <2>1, XorOverEmpty DEF Accumulators
<1> QED  BY <1>2, <1>3, <1>4 DEF OnlineInv

LEMMA NextOnlineInv == IInv /\ OnlineInv /\ [Next]_vars => OnlineInv'
<1> SUFFICES ASSUME IInv, OnlineInv, [Next]_vars PROVE OnlineInv'
  OBVIOUS
<1>1. CASE Garbler
  BY <1>1, GarbleOrder, SendGarbledOrder, SendInputOrder, OtSendOrder, OpenMasksOrder,
     SendOutputMasksOrder, RecvChallengeOrder, SendGkOrder, SendHaOrder DEF Garbler
<1>2. CASE Evaluator
  BY <1>2, RecvTablesOrder, RecvShiftOrder, RecvMaskedXOrder, RecvLabelsXOrder,
     RecvOtPadsOrder, RecvOpenBitsOrder, RecvOpenMacsOrder, EvaluateOrder,
     RecvOutputMasksOrder, SendChallengeOrder, RecvGkOrder, RecvHaOrder DEF Evaluator
<1>3. CASE UNCHANGED vars
  <2>1. UNCHANGED <<setup, garblerVars, evaluatorVars, toE, toG>>
    BY <1>3 DEF vars
  <2>2. UNCHANGED <<gpc, label0, label1, seedG, checkG, accG,
                    epc, labels, masked, challenge, checkE, accE>>
    BY <2>1 DEF garblerVars, garbling, checkingG, evaluatorVars, evaluation, checkingE
  <2>3. Window'
    BY <2>1, <2>2, CountsFollow, WindowStays DEF OnlineInv
  <2>4. Requests' /\ Places'
    <3>1. UNCHANGED circuit
      BY <2>1 DEF circuit
    <3>2. Requests'
      BY <2>1, <2>2 DEF OnlineInv, Requests
    <3>3. Places'
      BY <2>1, <2>2, <3>1, CountsFollow DEF OnlineInv, Places
    <3> QED  BY <3>2, <3>3
  <2>5. Accumulators'
    BY <2>1, <2>2, AccGStays, AccEStays DEF OnlineInv, Accumulators
  <2> QED  BY <2>3, <2>4, <2>5 DEF OnlineInv
<1> QED  BY <1>1, <1>2, <1>3 DEF Next, Finished

(* The second half of the invariant: the messages on their way are the     *)
(* next ones in both programs' order, no party is ahead of a message it    *)
(* needs, and the accumulators are the sums of the terms so far.           *)
THEOREM OnlineInvariance == Spec => []OnlineInv
<1>1. Init => OnlineInv
  BY InitOnlineInv
<1>2. IInv /\ OnlineInv /\ [Next]_vars => OnlineInv'
  BY NextOnlineInv
<1> QED  BY <1>1, <1>2, Invariance, PTL DEF Spec

(* The sends of one program and the receives of the other are in the same  *)
(* order on every circuit, with or without inputs of either party: what a  *)
(* party is about to read is what its read expects, and nothing is left    *)
(* over when both have returned.                                           *)
THEOREM MessagesInOrder == Spec => []StreamAligned
<1>1. IInv /\ OnlineInv => StreamAligned
  <2> SUFFICES ASSUME IInv, OnlineInv PROVE StreamAligned
    OBVIOUS
  <2>1. /\ IndependentSize(circuit) \in Nat /\ FirstGk \in Nat
        /\ LastMessage = FirstGk + IndependentSize(circuit)
        /\ Sent \in Nat /\ Taken \in Nat
        /\ checkG \in 0 .. IndependentSize(circuit)
        /\ checkE \in 0 .. IndependentSize(circuit)
        /\ gpc \in GarblerPcs /\ epc \in EvaluatorPcs
        /\ FirstGk = 5 + Opening /\ Opening \in {0, 3}
    BY Counts
  <2>2. /\ Taken <= Sent /\ Len(toE) = Sent - Taken /\ toE \in Seq(SentByGarbler)
        /\ \A j \in 1 .. Len(toE) : Numbered(toE[j], Taken + j - 1)
    BY DEF OnlineInv, Window, IInv, Streams
  <2>3. Sent <= LastMessage + 1
    <3> HIDE DEF FirstGk, LastMessage, Opening
    <3> QED  BY <2>1 DEF Sent, GarblerPcs
  <2>4. ASSUME toE # <<>>, epc \notin {"evaluate", "challenge"}
        PROVE  Head(toE).kind = Expected
    <3>1. 1 \in 1 .. Len(toE) /\ toE[1] = Head(toE) /\ Taken + 1 - 1 = Taken
      BY <2>1, <2>2, <2>4
    <3>2. PICK m, n : m = Head(toE) /\ n = Taken
      OBVIOUS
    <3>3. Numbered(m, n)
      <4> HIDE DEF Numbered, Taken
      <4> QED  BY <2>2, <3>1, <3>2
    <3>4. Taken < LastMessage + 1 /\ epc # "abort"
      <4>1. Taken < LastMessage + 1
        <5> HIDE DEF Taken, Sent, LastMessage
        <5> QED  BY <2>1, <2>2, <2>3, <3>1
      <4> QED  BY <4>1 DEF OnlineInv, Places
    <3>5. epc \in {"otPads", "openBits", "openMacs"} => Opening = 3
      BY DEF OnlineInv, Places
    <3>6. epc # "done"
      <4> HIDE DEF LastMessage
      <4> QED  BY <2>1, <3>4 DEF Taken
    <3>7. CASE epc = "check" /\ checkE < IndependentSize(circuit)
      <4>1. n >= FirstGk /\ n < LastMessage
        <5> HIDE DEF FirstGk, LastMessage
        <5> QED  BY <2>1, <3>2, <3>7 DEF Taken
      <4>2. m = Msg("gk", GkOf(seedG, IndependentWire(circuit, n - FirstGk)))
        BY <3>3, <4>1, Zenon DEF Numbered
      <4> QED  BY <3>2, <3>7, <4>2 DEF Expected, Msg
    <3>8. CASE epc = "check" /\ ~(checkE < IndependentSize(circuit))
      <4>1. n = LastMessage
        <5> HIDE DEF FirstGk, LastMessage
        <5> QED  BY <2>1, <3>2, <3>8 DEF Taken
      <4>2. m = Msg("ha", accG \cap CheckBits)
        BY <3>3, <4>1, Zenon DEF Numbered
      <4> QED  BY <3>2, <3>8, <4>2 DEF Expected, Msg
    <3>9. CASE epc # "check"
      <4>1. /\ n = 0 => m.kind = "tables"
            /\ n = 1 => m.kind = "shift"
            /\ n = 2 => m.kind = "maskedX"
            /\ n = 3 => m.kind = "labelsX"
            /\ n = 4 /\ Opening = 3 => m.kind = "otPads"
            /\ n = 5 /\ Opening = 3 => m.kind = "openBits"
            /\ n = 6 /\ Opening = 3 => m.kind = "openMacs"
            /\ n = 4 + Opening => m.kind = "outputMasks"
        BY <3>3, Zenon DEF Numbered
      <4>2. Expected = epc
        BY <3>9 DEF Expected
      <4> HIDE DEF Opening, FirstGk, LastMessage
      <4> QED  BY <2>1, <2>4, <3>2, <3>4, <3>5, <3>6, <3>9, <4>1, <4>2 DEF Taken, EvaluatorPcs
    <3> QED  BY <3>7, <3>8, <3>9
  <2>5. /\ toG # <<>> /\ gpc = "ot" => Head(toG).kind = "otExtend"
        /\ toG # <<>> /\ gpc = "check" => Head(toG).kind = "challenge"
    BY DEF OnlineInv, Requests, Msg
  <2>6. ASSUME gpc = "done", epc = "done" PROVE toE = <<>> /\ toG = <<>>
    <3>1. Sent = LastMessage + 1 /\ Taken = LastMessage + 1
      BY <2>6 DEF Sent, Taken
    <3>2. Len(toE) = 0
      <4> HIDE DEF Sent, Taken, LastMessage
      <4> QED  BY <2>1, <2>2, <3>1
    <3> QED  BY <2>2, <2>6, <3>2 DEF OnlineInv, Requests
  <2> QED  BY <2>4, <2>5, <2>6 DEF StreamAligned
<1> QED  BY <1>1, Invariance, OnlineInvariance, PTL

(* An honest run is never reported as malicious: the opening of the input  *)
(* masks verifies, and the GC check passes for every circuit, all inputs,  *)
(* labels and shares, every hash, every multiplication that distributes    *)
(* and every seed.                                                         *)
THEOREM NoAlarm == Spec => []NoFalseAlarm
<1>1. OnlineInv => NoFalseAlarm
  BY DEF OnlineInv, Places, NoFalseAlarm
<1> QED  BY <1>1, OnlineInvariance, PTL
=============================================================================
