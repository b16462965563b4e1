-------------------------------- MODULE TwoPC --------------------------------
(***************************************************************************)
(* The protocol after preprocessing: the garbler garbles the circuit and   *)
(* the two parties run the online phase (garble_evaluate.cpp,              *)
(* 2PC_execution.cpp and gc_check.cpp).  Each party is a program that runs *)
(* to the end of full_protocol; the parties meet only through the two      *)
(* byte streams, modelled here as FIFO queues of messages (that the bytes  *)
(* of a message reach the peer is the business of NetIO).                  *)
(*                                                                         *)
(* A setup is what the parties hold when garble begins: the circuit, the   *)
(* parties' inputs, the garbler's random input labels and the two          *)
(* PreprocessedData objects, g at the garbler and e at the evaluator.      *)
(***************************************************************************)
EXTENDS AuthedShares, Field

CONSTANTS
  Setups,             \* the setups a run may start from
  Challenges,         \* the seeds of the GC check
  H(_, _, _),         \* hash of a label, a wire and a tweak
  Coeff(_, _),        \* the k-th coefficient a seed expands to
  CheckBits,          \* the positions of an accumulator that are compared
  None                \* no output, no challenge yet

VARIABLES
  setup,              \* the setup of this run
  gpc, label0, label1, tables, shift, gateG, andG,            \* the garbler
  seedG, checkG, accG,                                        \*   its GC check
  epc, rTables, rShift, labels, masked, gateE, andE, output,  \* the evaluator
  challenge, checkE, accE,                                    \*   its GC check
  toE, toG            \* the streams to the evaluator and to the garbler

garbling == <<label0, label1, tables, shift, gateG, andG>>
checkingG == <<seedG, checkG, accG>>
garblerVars == <<gpc, garbling, checkingG>>
evaluation == <<rTables, rShift, labels, masked, gateE, andE, output>>
checkingE == <<challenge, checkE, accE>>
evaluatorVars == <<epc, evaluation, checkingE>>
vars == <<setup, garblerVars, evaluatorVars, toE, toG>>

LegalSetup(s) ==
  /\ WellFormed(s.circuit) /\ Parsed(s.circuit)
  /\ s.x \in [GarblerInputs(s.circuit) -> BOOLEAN]
  /\ s.y \in [EvaluatorInputs(s.circuit) -> BOOLEAN]
  /\ s.inputLabels \in [InputWires(s.circuit) -> Block]
  /\ Preprocessed(s)

ASSUME SetupsAssumption == \A s \in Setups : LegalSetup(s)

ASSUME HashAssumption ==
  \A s \in Setups : \A x \in Block, w \in Wires(s.circuit), t \in {0, 1, 2} : H(x, w, t) \in Block

ASSUME CoeffAssumption ==
  \A s \in Setups : \A k \in AndIndices(s.circuit), seed \in Challenges : Coeff(seed, k) \in Block

-----------------------------------------------------------------------------

circuit == setup.circuit
G == setup.g
E == setup.e
deltaA == G.delta

(* The plain inputs, as one function of the input wires. *)
InputOf(s) == [w \in InputWires(s.circuit) |->
                 IF w \in GarblerInputs(s.circuit) THEN s.x[w] ELSE s.y[w]]

Input == InputOf(setup)

Msg(kind, val) == [kind |-> kind, val |-> val]

(* The peer's next message has arrived and is of the expected kind. *)
Arrived(queue, kind) == queue # <<>> /\ Head(queue).kind = kind

Init ==
  /\ setup \in Setups
  /\ gpc = "garble" /\ gateG = 1 /\ andG = 0
  /\ label0 = [w \in Wires(circuit) |->
                 IF w \in InputWires(circuit) THEN setup.inputLabels[w] ELSE ZeroBlock]
  /\ label1 = [w \in Wires(circuit) |->
                 IF w \in InputWires(circuit)
                 THEN setup.inputLabels[w] \oplus deltaA ELSE ZeroBlock]
  /\ tables = <<>> /\ shift = <<>>
  /\ epc = "tables" /\ gateE = 1 /\ andE = 0
  /\ rTables = <<>> /\ rShift = <<>>
  /\ labels = [w \in Wires(circuit) |-> ZeroBlock]
  /\ masked = [w \in Wires(circuit) |-> FALSE]
  /\ output = None
  /\ seedG = None /\ checkG = 0 /\ accG = ZeroBlock
  /\ challenge = None /\ checkE = 0 /\ accE = ZeroBlock
  /\ toE = <<>> /\ toG = <<>>

(***************************************************************************)
(* Garbler::garble.  The loop over the gates, one gate a step.             *)
(***************************************************************************)
TableEntry0(g) ==
  (((G.keys[g.in1] \oplus AndAllBits(G.masks[g.in1], deltaA))
    \oplus H(label0[g.in0], g.out, 0)) \oplus H(label1[g.in0], g.out, 0))

(* Mutant: the local key is forgotten. *)
TableEntry1NoKey(g) ==
  (((label0[g.in0] \oplus AndAllBits(G.masks[g.in0], deltaA))
    \oplus H(label0[g.in1], g.out, 1)) \oplus H(label1[g.in1], g.out, 1))

TableEntry1(g) ==
  ((((label0[g.in0] \oplus AndAllBits(G.masks[g.in0], deltaA))
     \oplus G.keys[g.in0])
    \oplus H(label0[g.in1], g.out, 1)) \oplus H(label1[g.in1], g.out, 1))

AndLabel0(g, k) ==
  ((((H(label0[g.in0], g.out, 0) \oplus H(label0[g.in1], g.out, 1))
     \oplus AndAllBits(G.masks[g.out] # G.triple[k], deltaA))
    \oplus G.keys[g.out]) \oplus G.tripleKeys[k])

AtGateG(type) ==
  /\ gpc = "garble"
  /\ gateG \in GateIndices(circuit)
  /\ circuit.gates[gateG].type = type
  /\ gateG' = gateG + 1
  /\ UNCHANGED <<setup, gpc, checkingG, evaluatorVars, toE, toG>>

GarbleNot ==
  LET g == circuit.gates[gateG]
  IN  /\ AtGateG("NOT")
      /\ label0' = [label0 EXCEPT ![g.out] = label1[g.in0]]
      /\ label1' = [label1 EXCEPT ![g.out] = label0[g.in0]]
      /\ UNCHANGED <<tables, shift, andG>>

GarbleAnd ==
  LET g == circuit.gates[gateG]
      new == AndLabel0(g, andG)
  IN  /\ AtGateG("AND")
      /\ tables' = Append(tables, <<TableEntry0(g), TableEntry1(g)>>)
      /\ label0' = [label0 EXCEPT ![g.out] = new]
      /\ label1' = [label1 EXCEPT ![g.out] = new \oplus deltaA]
      /\ shift' = Append(shift, GetLSB(new))
      /\ andG' = andG + 1

(* Mutant: both labels of the output are the XOR of the inputs' labels. *)
GarbleXorBothLabels ==
  LET g == circuit.gates[gateG]
  IN  /\ AtGateG("XOR")
      /\ label0' = [label0 EXCEPT ![g.out] = label0[g.in0] \oplus label0[g.in1]]
      /\ label1' = [label1 EXCEPT ![g.out] = label1[g.in0] \oplus label1[g.in1]]
      /\ UNCHANGED <<tables, shift, andG>>

(* Mutant: the iterator of the AND gates counts every two-input gate. *)
GarbleXorCounts ==
  LET g == circuit.gates[gateG]
      new == label0[g.in0] \oplus label0[g.in1]
  IN  /\ AtGateG("XOR")
      /\ label0' = [label0 EXCEPT ![g.out] = new]
      /\ label1' = [label1 EXCEPT ![g.out] = new \oplus deltaA]
      /\ andG' = andG + 1
      /\ UNCHANGED <<tables, shift>>

GarbleXor ==
  LET g == circuit.gates[gateG]
      new == label0[g.in0] \oplus label0[g.in1]
  IN  /\ AtGateG("XOR")
      /\ label0' = [label0 EXCEPT ![g.out] = new]
      /\ label1' = [label1 EXCEPT ![g.out] = new \oplus deltaA]
      /\ UNCHANGED <<tables, shift, andG>>

SendGarbled ==
  /\ gpc = "garble" /\ gateG > GateSize(circuit)
  /\ toE' = toE \o <<Msg("tables", tables), Msg("shift", shift)>>
  /\ gpc' = "input"
  /\ UNCHANGED <<setup, garbling, checkingG, evaluatorVars, toG>>

(***************************************************************************)
(* Garbler::online.                                                        *)
(***************************************************************************)
GarblerStep(from, to) ==
  /\ gpc = from /\ gpc' = to
  /\ UNCHANGED <<setup, garbling, evaluatorVars>>

LabelFor(bit, w) == IF bit THEN label1[w] ELSE label0[w]

(* x XOR masks, and the label of every masked input bit. *)
MaskedX == [w \in GarblerInputs(circuit) |-> setup.x[w] # G.masks[w]]

LabelsX == [w \in GarblerInputs(circuit) |-> LabelFor(MaskedX[w], w)]

(* Mutant: the labels go first. *)
SendInputSwapped ==
  /\ GarblerStep("input", IF circuit.inputSize1 # 0 THEN "ot" ELSE "outputMasks")
  /\ toE' = toE \o <<Msg("labelsX", LabelsX), Msg("maskedX", MaskedX)>>
  /\ UNCHANGED <<toG, checkingG>>

SendInput ==
  /\ GarblerStep("input", IF circuit.inputSize1 # 0 THEN "ot" ELSE "outputMasks")
  /\ toE' = toE \o <<Msg("maskedX", MaskedX), Msg("labelsX", LabelsX)>>
  /\ UNCHANGED <<toG, checkingG>>

(* ot.send reads the receiver's extension and answers with the pair of     *)
(* labels of every evaluator input, in an order that depends on the        *)
(* garbler's share of the mask.  Of the pair, the receiver can open only   *)
(* the label of its choice: the message stands for the encrypted pair.     *)
OtPads == [w \in EvaluatorInputs(circuit) |->
             [choice \in BOOLEAN |-> LabelFor(choice # G.masks[w], w)]]

OtSend ==
  /\ GarblerStep("ot", "open")
  /\ Arrived(toG, "otExtend")
  /\ toG' = Tail(toG)
  /\ toE' = Append(toE, Msg("otPads", OtPads))
  /\ UNCHANGED checkingG

(* masks.open(io, hash, inputSize0, totalInputSize): the bits, then the    *)
(* hash of their MACs (collision-free: the hash is taken for the MACs).    *)
OpenedBits == [w \in EvaluatorInputs(circuit) |-> G.masks[w]]

OpenedMacs == [w \in EvaluatorInputs(circuit) |-> G.macs[w]]

OpenMasks ==
  /\ GarblerStep("open", "outputMasks")
  /\ toE' = toE \o <<Msg("openBits", OpenedBits), Msg("openMacs", OpenedMacs)>>
  /\ UNCHANGED <<toG, checkingG>>

OutputMasks == [i \in Outputs(circuit) |-> G.masks[OutputWire(circuit, i)]]

SendOutputMasks ==
  /\ GarblerStep("outputMasks", "check")
  /\ toE' = Append(toE, Msg("outputMasks", OutputMasks))
  /\ UNCHANGED <<toG, checkingG>>

(***************************************************************************)
(* Garbler::check.  ak1 of an independent wire gathers the MACs of the AND *)
(* inputs the wire feeds, ak0 is the constant part of an AND gate's        *)
(* equation, and the accumulator is compared with the evaluator's.         *)
(***************************************************************************)
MacTerm(g, connected) ==
  CASE connected = {0, 1} -> G.macs[g.in0] \oplus G.macs[g.in1]
    [] connected = {0} -> G.macs[g.in1]
    [] connected = {1} -> G.macs[g.in0]

CoeffOf(seed, i) == Coeff(seed, AndGateOrder(circuit, i))

Ak1(seed, w) ==
  LET data == circuit.gcCheckData[w]
  IN  XorOver(DOMAIN data,
              [i \in DOMAIN data |->
                 GfMul(MacTerm(circuit.gates[i], data[i]), CoeffOf(seed, i))])

GkOf(seed, w) == (Ak1(seed, w) \oplus H(label0[w], w, 2)) \oplus H(label1[w], w, 2)

(* Mutant: each flip picks the MAC of its own input. *)
FlipMacTermOwnInput(g, macs) ==
  AndAllBits(circuit.sources[g.in0].flip, macs[g.in0])
    \oplus AndAllBits(circuit.sources[g.in1].flip, macs[g.in1])

(* calc_flip_mac_term *)
FlipMacTerm(g, macs) ==
  AndAllBits(circuit.sources[g.in0].flip, macs[g.in1])
    \oplus AndAllBits(circuit.sources[g.in1].flip, macs[g.in0])

Ak0(i) ==
  LET g == circuit.gates[i]
  IN  (G.macs[g.out] \oplus G.tripleMacs[AndGateOrder(circuit, i)]) \oplus FlipMacTerm(g, G.macs)

Ak0Terms == [i \in AndGates(circuit) |-> Ak0(i)]

(* The share of the n-th independent wire in an accumulator: a hash and,   *)
(* for an AND output, the gate's term times its coefficient.               *)
Contribution(n, seed, hash, terms) ==
  IF n < TotalInputSize(circuit) THEN hash
  ELSE LET i == AndGateAt(circuit, n - TotalInputSize(circuit))
       IN  hash \oplus GfMul(terms[i], CoeffOf(seed, i))

RecvChallenge ==
  /\ Arrived(toG, "challenge")
  /\ GarblerStep("check", "gk")
  /\ seedG' = Head(toG).val
  /\ toG' = Tail(toG)
  /\ UNCHANGED <<toE, checkG, accG>>

SendGk ==
  LET w == IndependentWire(circuit, checkG)
  IN  /\ checkG < IndependentSize(circuit)
      /\ GarblerStep("gk", "gk")
      /\ toE' = Append(toE, Msg("gk", GkOf(seedG, w)))
      /\ accG' = accG \oplus Contribution(checkG, seedG, H(label0[w], w, 2), Ak0Terms)
      /\ checkG' = checkG + 1
      /\ UNCHANGED <<toG, seedG>>

SendHa ==
  /\ checkG = IndependentSize(circuit)
  /\ GarblerStep("gk", "done")
  /\ toE' = Append(toE, Msg("ha", accG \cap CheckBits))
  /\ UNCHANGED <<toG, seedG, checkG, accG>>

(***************************************************************************)
(* Evaluator::garble and Evaluator::online.                                *)
(***************************************************************************)
EvaluatorStep(from, to) ==
  /\ epc = from /\ epc' = to
  /\ UNCHANGED <<setup, garblerVars>>

RecvTables ==
  /\ EvaluatorStep("tables", "shift")
  /\ Arrived(toE, "tables")
  /\ rTables' = Head(toE).val /\ toE' = Tail(toE)
  /\ UNCHANGED <<rShift, labels, masked, gateE, andE, output, checkingE, toG>>

RecvShift ==
  /\ EvaluatorStep("shift", "maskedX")
  /\ Arrived(toE, "shift")
  /\ rShift' = Head(toE).val /\ toE' = Tail(toE)
  /\ UNCHANGED <<rTables, labels, masked, gateE, andE, output, checkingE, toG>>

RecvMaskedX ==
  /\ EvaluatorStep("maskedX", "labelsX")
  /\ Arrived(toE, "maskedX")
  /\ masked' = [w \in Wires(circuit) |->
                  IF w \in GarblerInputs(circuit) THEN Head(toE).val[w] ELSE masked[w]]
  /\ toE' = Tail(toE)
  /\ UNCHANGED <<rTables, rShift, labels, gateE, andE, output, checkingE, toG>>

(* Mutant: the evaluator's input is not masked. *)
ChoiceUnmasked(w) == setup.y[w]

Choice(w) == setup.y[w] # E.masks[w]

(* The labels of the garbler's inputs; then, in the same breath, ot.recv   *)
(* sends the extension for the choices.                                    *)
RecvLabelsX ==
  /\ EvaluatorStep("labelsX", IF circuit.inputSize1 # 0 THEN "otPads" ELSE "evaluate")
  /\ Arrived(toE, "labelsX")
  /\ labels' = [w \in Wires(circuit) |->
                  IF w \in GarblerInputs(circuit) THEN Head(toE).val[w] ELSE labels[w]]
  /\ toE' = Tail(toE)
  /\ toG' = IF circuit.inputSize1 # 0 THEN Append(toG, Msg("otExtend", {})) ELSE toG
  /\ UNCHANGED <<rTables, rShift, masked, gateE, andE, output, checkingE>>

RecvOtPads ==
  /\ EvaluatorStep("otPads", "openBits")
  /\ Arrived(toE, "otPads")
  /\ labels' = [w \in Wires(circuit) |->
                  IF w \in EvaluatorInputs(circuit)
                  THEN Head(toE).val[w][Choice(w)] ELSE labels[w]]
  /\ toE' = Tail(toE)
  /\ UNCHANGED <<rTables, rShift, masked, gateE, andE, output, checkingE, toG>>

(* maskKeys.open, and maskedValue = choice XOR the opened share.  The bits *)
(* wait in masked until the MACs are verified.                             *)
RecvOpenBits ==
  /\ EvaluatorStep("openBits", "openMacs")
  /\ Arrived(toE, "openBits")
  /\ masked' = [w \in Wires(circuit) |->
                  IF w \in EvaluatorInputs(circuit)
                  THEN Choice(w) # Head(toE).val[w] ELSE masked[w]]
  /\ toE' = Tail(toE)
  /\ UNCHANGED <<rTables, rShift, labels, gateE, andE, output, checkingE, toG>>

OpenedBit(w) == Choice(w) # masked[w]

RecvOpenMacs ==
  LET verified == \A w \in EvaluatorInputs(circuit) :
                    Authentic(OpenedBit(w), Head(toE).val[w], E.keys[w], E.delta)
  IN  /\ epc = "openMacs" /\ Arrived(toE, "openMacs")
      /\ EvaluatorStep("openMacs", IF verified THEN "evaluate" ELSE "abort")
      /\ toE' = Tail(toE)
      /\ UNCHANGED <<rTables, rShift, labels, masked, gateE, andE, output, checkingE, toG>>

(***************************************************************************)
(* Evaluator::evaluate.  The loop over the gates, one gate a step.         *)
(***************************************************************************)
AtGateE(type) ==
  /\ epc = "evaluate"
  /\ gateE \in GateIndices(circuit)
  /\ circuit.gates[gateE].type = type
  /\ gateE' = gateE + 1
  /\ UNCHANGED <<setup, garblerVars, epc, rTables, rShift, output, checkingE, toE, toG>>

EvaluateNot ==
  LET g == circuit.gates[gateE]
  IN  /\ AtGateE("NOT")
      /\ masked' = [masked EXCEPT ![g.out] = ~masked[g.in0]]
      /\ labels' = [labels EXCEPT ![g.out] = labels[g.in0]]
      /\ UNCHANGED andE

AndLabel(g, k) ==
  LET g0 == rTables[k + 1][1] \oplus E.macs[g.in1]
      g1 == (rTables[k + 1][2] \oplus E.macs[g.in0]) \oplus labels[g.in0]
  IN  (((((H(labels[g.in0], g.out, 0) \oplus H(labels[g.in1], g.out, 1))
          \oplus E.macs[g.out])
         \oplus E.tripleMacs[k])
        \oplus AndAllBits(masked[g.in0], g0))
       \oplus AndAllBits(masked[g.in1], g1))

EvaluateAnd ==
  LET g == circuit.gates[gateE]
      new == AndLabel(g, andE)
  IN  /\ AtGateE("AND")
      /\ labels' = [labels EXCEPT ![g.out] = new]
      /\ masked' = [masked EXCEPT ![g.out] = GetLSB(new) # rShift[andE + 1]]
      /\ andE' = andE + 1

EvaluateXor ==
  LET g == circuit.gates[gateE]
  IN  /\ AtGateE("XOR")
      /\ masked' = [masked EXCEPT ![g.out] = masked[g.in0] # masked[g.in1]]
      /\ labels' = [labels EXCEPT ![g.out] = labels[g.in0] \oplus labels[g.in1]]
      /\ UNCHANGED andE

EvaluateEnd ==
  /\ EvaluatorStep("evaluate", "outputMasks")
  /\ gateE > GateSize(circuit)
  /\ UNCHANGED <<rTables, rShift, labels, masked, gateE, andE, output, checkingE, toE, toG>>

(* Mutant: the evaluator's own shares of the output masks are left on. *)
RecvOutputMasksOneSided ==
  /\ EvaluatorStep("outputMasks", "challenge")
  /\ Arrived(toE, "outputMasks")
  /\ output' = [i \in Outputs(circuit) |->
                  masked[OutputWire(circuit, i)] # Head(toE).val[i]]
  /\ toE' = Tail(toE)
  /\ UNCHANGED <<rTables, rShift, labels, masked, gateE, andE, checkingE, toG>>

(* The output is computed before the check, but returned only after it. *)
RecvOutputMasks ==
  /\ EvaluatorStep("outputMasks", "challenge")
  /\ Arrived(toE, "outputMasks")
  /\ output' = [i \in Outputs(circuit) |->
                  LET w == OutputWire(circuit, i)
                  IN  (masked[w] # Head(toE).val[i]) # E.masks[w]]
  /\ toE' = Tail(toE)
  /\ UNCHANGED <<rTables, rShift, labels, masked, gateE, andE, checkingE, toG>>

(***************************************************************************)
(* Evaluator::check.                                                       *)
(***************************************************************************)
SendChallenge ==
  /\ EvaluatorStep("challenge", "check")
  /\ \E seed \in Challenges :
       /\ challenge' = seed
       /\ toG' = Append(toG, Msg("challenge", seed))
  /\ UNCHANGED <<rTables, rShift, labels, masked, gateE, andE, output, checkE, accE, toE>>

BPrime(g, k) ==
  (((((masked[g.in0] /\ masked[g.in1]) # masked[g.out])
     # E.masks[g.out]) # E.triple[k])
   # (masked[g.in0] /\ E.masks[g.in1])) # (masked[g.in1] /\ E.masks[g.in0])

BTerm(i) ==
  LET g == circuit.gates[i]
      k == AndGateOrder(circuit, i)
  IN  (((AndAllBits(BPrime(g, k), E.delta) \oplus E.keys[g.out])
        \oplus E.tripleKeys[k])
       \oplus AndAllBits(masked[g.in0], E.keys[g.in1]))
      \oplus AndAllBits(masked[g.in1], E.keys[g.in0])

BTerms == [i \in AndGates(circuit) |-> BTerm(i)]

RecvGk ==
  LET w == IndependentWire(circuit, checkE)
      hash == H(labels[w], w, 2) \oplus AndAllBits(masked[w], Head(toE).val)
  IN  /\ checkE < IndependentSize(circuit)
      /\ Arrived(toE, "gk")
      /\ EvaluatorStep("check", "check")
      /\ toE' = Tail(toE)
      /\ accE' = accE \oplus Contribution(checkE, challenge, hash, BTerms)
      /\ checkE' = checkE + 1
      /\ UNCHANGED <<rTables, rShift, labels, masked, gateE, andE, output, challenge, toG>>

(* The last receive: the output is returned or "GC check failed" thrown.   *)
RecvHa ==
  /\ checkE = IndependentSize(circuit)
  /\ Arrived(toE, "ha")
  /\ EvaluatorStep("check", IF accE \cap CheckBits = Head(toE).val THEN "done" ELSE "abort")
  /\ toE' = Tail(toE)
  /\ UNCHANGED <<rTables, rShift, labels, masked, gateE, andE, output, challenge,
                 checkE, accE, toG>>

-----------------------------------------------------------------------------

Garbler ==
  \/ GarbleNot \/ GarbleAnd \/ GarbleXor \/ SendGarbled
  \/ SendInput \/ OtSend \/ OpenMasks \/ SendOutputMasks
  \/ RecvChallenge \/ SendGk \/ SendHa

Evaluator ==
  \/ RecvTables \/ RecvShift \/ RecvMaskedX \/ RecvLabelsX \/ RecvOtPads
  \/ RecvOpenBits \/ RecvOpenMacs
  \/ EvaluateNot \/ EvaluateAnd \/ EvaluateXor \/ EvaluateEnd
  \/ RecvOutputMasks \/ SendChallenge \/ RecvGk \/ RecvHa

(* Both functions returned, or the evaluator threw. *)
Finished == gpc = "done" /\ epc \in {"done", "abort"} /\ UNCHANGED vars

Next == Garbler \/ Evaluator \/ Finished

(* Both parties are threads that run until they wait for the peer. *)
Spec == Init /\ [][Next]_vars /\ WF_vars(Garbler) /\ WF_vars(Evaluator)

-----------------------------------------------------------------------------
(***************************************************************************)
(* Properties.                                                             *)
(***************************************************************************)
GarblerPcs == {"garble", "input", "ot", "open", "outputMasks", "check", "gk", "done"}

EvaluatorPcs ==
  {"tables", "shift", "maskedX", "labelsX", "otPads", "openBits", "openMacs",
   "evaluate", "outputMasks", "challenge", "check", "done", "abort"}

(* The shape of both programs' states: garble_evaluate.hpp's GarbledCircuit *)
(* and EvaluateResult hold a block or a bit for every wire.                *)
GarblerTypeOK ==
  /\ gpc \in GarblerPcs
  /\ label0 \in [Wires(circuit) -> Block] /\ label1 \in [Wires(circuit) -> Block]
  /\ tables \in Seq(Block \X Block) /\ shift \in Seq(BOOLEAN)
  /\ gateG \in 1 .. (GateSize(circuit) + 1)
  /\ andG \in 0 .. AndGateSize(circuit)
  /\ seedG \in Challenges \cup {None}
  /\ checkG \in 0 .. IndependentSize(circuit)
  /\ accG \in Block

EvaluatorTypeOK ==
  /\ epc \in EvaluatorPcs
  /\ labels \in [Wires(circuit) -> Block] /\ masked \in [Wires(circuit) -> BOOLEAN]
  /\ gateE \in 1 .. (GateSize(circuit) + 1)
  /\ andE \in 0 .. AndGateSize(circuit)
  /\ output = None \/ output \in [Outputs(circuit) -> BOOLEAN]
  /\ challenge \in Challenges \cup {None}
  /\ checkE \in 0 .. IndependentSize(circuit)
  /\ accE \in Block

(* Both programs' states have their shape: no label, bit, table or index   *)
(* is ever outside what the code's arrays hold.                            *)
TypeOK == GarblerTypeOK /\ EvaluatorTypeOK

(* What the evaluator's next receive expects. *)
Expected ==
  CASE epc = "check" -> IF checkE < IndependentSize(circuit) THEN "gk" ELSE "ha"
    [] OTHER -> epc

(* Message order: whenever a party is about to read, what is in front of   *)
(* its stream is what its read expects - the sends of one program and the  *)
(* receives of the other are in the same order on every circuit, with or   *)
(* without inputs of either party.                                         *)
StreamAligned ==
  /\ toE # <<>> /\ epc \notin {"evaluate", "challenge"} => Head(toE).kind = Expected
  /\ toG # <<>> /\ gpc = "ot" => Head(toG).kind = "otExtend"
  /\ toG # <<>> /\ gpc = "check" => Head(toG).kind = "challenge"
  /\ gpc = "done" /\ epc = "done" => toE = <<>> /\ toG = <<>>

(* The wires garble has made labels for. *)
GarbledWires == WiresBefore(circuit, gateG)

(* Free XOR: at every step of garble the two labels of a wire that has     *)
(* labels differ by the garbler's global key.                              *)
FreeXor == \A w \in GarbledWires : label1[w] = label0[w] \oplus deltaA

(* The wires the evaluator has a label and a masked value for. *)
ReceivingPcs ==
  {"tables", "shift", "maskedX", "labelsX", "otPads", "openBits", "openMacs"}

EvaluatedWires == IF epc \in ReceivingPcs THEN {} ELSE WiresBefore(circuit, gateE)

(* The heart of authenticated garbling: on every evaluated wire the        *)
(* evaluator holds the garbler's label of the masked value - through AND   *)
(* gates that depend on tables, MACs, local keys and triples of both.      *)
LabelMatchesMaskedValue ==
  \A w \in EvaluatedWires : labels[w] = LabelFor(masked[w], w)

(* The masked values with both parties' shares of the masks taken off. *)
Decoded == [w \in Wires(circuit) |-> masked[w] # MaskOf(setup, w)]

(* A masked value is the plain value XOR both parties' mask shares: taken  *)
(* off, the inputs are the parties' inputs and every evaluated gate's      *)
(* equation holds.                                                         *)
MaskedValueCorrect ==
  EvaluatedWires # {} =>
    /\ \A w \in InputWires(circuit) : Decoded[w] = Input[w]
    /\ \A i \in 1 .. (gateE - 1) : GateHolds(circuit.gates[i], Decoded)

(* What the circuit computes from the inputs of a setup. *)
AnswersTo(s) == Results(s.circuit, InputOf(s))

(* The output the evaluator returns is the circuit applied to the two      *)
(* parties' inputs.                                                        *)
OutputCorrect == epc = "done" => output \in AnswersTo(setup)

(* An honest run is never reported as malicious: neither the opening of    *)
(* the input masks nor the GC check, whose two sides add up different      *)
(* terms (MACs and flips by XOR source lists against keys by masked        *)
(* values), throws.                                                        *)
NoFalseAlarm == epc # "abort"

(* Both parties' full_protocol returns: no receive waits for a message     *)
(* that is not sent.                                                       *)
Termination == <>(gpc = "done" /\ epc = "done")

(* The ideal functionality, with the garbler's and the evaluator's whole   *)
(* state hidden behind the output that is returned.                        *)
Ideal == INSTANCE IdealTwoPC WITH
           Answers <- AnswersTo, Undecided <- None,
           request <- setup,
           result <- IF epc = "done" THEN output ELSE None

(* The protocol implements it: a setup is one request, and the answer the  *)
(* evaluator returns is the first and the only one, and it is given.       *)
ImplementsIdeal == Ideal!Spec
=============================================================================
