------------------------------ MODULE Circuits ------------------------------
(***************************************************************************)
(* The Boolean circuits that circuit_parser.hpp and circuit.cpp build from *)
(* a Bristol-format file.  A circuit is a record                           *)
(*   [inputSize0, inputSize1, outputSize, wireSize, gates,                 *)
(*    sources, gcCheckData],                                               *)
(* its wires are 0 .. wireSize-1, the garbler's input wires come first,    *)
(* then the evaluator's, and the output wires are the last outputSize      *)
(* ones.  gates is a sequence of [type, in0, in1, out] in file order;      *)
(* sources and gcCheckData are the tables the constructor derives from it. *)
(***************************************************************************)
EXTENDS Integers, Sequences, FiniteSets, FiniteSetsExt

DISABLED == -1        \* in1 of a NOT gate

(* The parser's three kinds of line.  Every two-input gate whose name does *)
(* not begin with 'A' becomes an XOR gate.                                 *)
AND(in0, in1, out) == [type |-> "AND", in0 |-> in0, in1 |-> in1, out |-> out]
XOR(in0, in1, out) == [type |-> "XOR", in0 |-> in0, in1 |-> in1, out |-> out]
NOT(in, out) == [type |-> "NOT", in0 |-> in, in1 |-> DISABLED, out |-> out]

TotalInputSize(c) == c.inputSize0 + c.inputSize1

GateSize(c) == Len(c.gates)

GateIndices(c) == 1 .. GateSize(c)

Wires(c) == 0 .. (c.wireSize - 1)

GarblerInputs(c) == 0 .. (c.inputSize0 - 1)

EvaluatorInputs(c) == c.inputSize0 .. (TotalInputSize(c) - 1)

InputWires(c) == 0 .. (TotalInputSize(c) - 1)

(* The wire that carries output bit i, i counted from 0. *)
OutputWire(c, i) == c.wireSize - c.outputSize + i

Outputs(c) == 0 .. (c.outputSize - 1)

IsAnd(c, i) == c.gates[i].type = "AND"

AndGates(c) == {i \in GateIndices(c) : IsAnd(c, i)}

(* The number of AND gates before gate i: the index and_gate_order gives   *)
(* to an AND gate, counted from 0, and the value of every loop's           *)
(* andGateIter when it reaches gate i.                                     *)
AndGateOrder(c, i) == Cardinality({j \in AndGates(c) : j < i})

AndGateSize(c) == Cardinality(AndGates(c))

AndIndices(c) == 0 .. (AndGateSize(c) - 1)

(* The wires that have a value before gate i is processed. *)
WiresBefore(c, i) == InputWires(c) \cup {c.gates[j].out : j \in 1 .. (i - 1)}

GateShape(c, g) ==
  /\ g.in0 \in Wires(c)
  /\ g.out \in Wires(c) \ InputWires(c)
  /\ \/ g.type \in {"AND", "XOR"} /\ g.in1 \in Wires(c)
     \/ g.type = "NOT" /\ g.in1 = DISABLED

(* What a Bristol file promises and the parser relies on: gates in         *)
(* topological order, every wire that is not an input driven by one gate.  *)
WellFormed(c) ==
  /\ c.inputSize0 \in Nat /\ c.inputSize1 \in Nat
  /\ c.outputSize \in Nat /\ c.wireSize \in Nat
  /\ TotalInputSize(c) <= c.wireSize
  /\ c.outputSize <= c.wireSize
  /\ c.gates \in Seq([type : {"AND", "XOR", "NOT"}, in0 : Wires(c),
                      in1 : Wires(c) \cup {DISABLED}, out : Wires(c)])
  /\ \A i \in GateIndices(c) :
       /\ GateShape(c, c.gates[i])
       /\ c.gates[i].in0 \in WiresBefore(c, i)
       /\ c.gates[i].type # "NOT" => c.gates[i].in1 \in WiresBefore(c, i)
       /\ c.gates[i].out \notin WiresBefore(c, i)
  /\ Wires(c) = WiresBefore(c, GateSize(c) + 1)

(***************************************************************************)
(* The plain meaning of a circuit: v gives every wire a value, inputs have *)
(* the parties' values and every gate's equation holds.  A well-formed     *)
(* circuit has exactly one valuation for given inputs.                     *)
(***************************************************************************)
GateHolds(g, v) ==
  CASE g.type = "AND" -> v[g.out] = (v[g.in0] /\ v[g.in1])
    [] g.type = "XOR" -> v[g.out] = (v[g.in0] # v[g.in1])
    [] g.type = "NOT" -> v[g.out] = ~v[g.in0]

IsValuation(c, input, v) ==
  /\ v \in [Wires(c) -> BOOLEAN]
  /\ \A w \in InputWires(c) : v[w] = input[w]
  /\ \A i \in GateIndices(c) : GateHolds(c.gates[i], v)

OutputOf(c, v) == [i \in Outputs(c) |-> v[OutputWire(c, i)]]

(* The outputs of the valuations that extend the input. *)
Results(c, input) ==
  LET extend(u) == [w \in Wires(c) |-> IF w \in InputWires(c) THEN input[w] ELSE u[w]]
  IN  {OutputOf(c, v) :
         v \in {x \in {extend(u) : u \in [Wires(c) \ InputWires(c) -> BOOLEAN]} :
                  IsValuation(c, input, x)}}

(***************************************************************************)
(* XOR source lists.  A wire is the XOR of independent wires (inputs and   *)
(* AND outputs), negated when flip is set.  SourceMatrix(c)[w] is row w of *)
(* XORSourceMatrix after Populate_XOR_source_matrix_ went through the      *)
(* gates; rows start empty and inputs are set as independent first.        *)
(***************************************************************************)
Independent(c) == InputWires(c) \cup {c.gates[i].out : i \in AndGates(c)}

NoSource == [list |-> {}, flip |-> FALSE]

SourceOf(g, m) ==
  CASE g.type = "XOR" -> [list |-> SymDiff(m[g.in0].list, m[g.in1].list),
                          flip |-> m[g.in0].flip # m[g.in1].flip]
    [] g.type = "AND" -> [m[g.out] EXCEPT !.list = @ \cup {g.out}]
    [] g.type = "NOT" -> [list |-> m[g.in0].list, flip |-> ~m[g.in0].flip]

SourceMatrix(c) ==
  LET after[i \in 0 .. GateSize(c)] ==
        IF i = 0
        THEN [w \in Wires(c) |->
               IF w \in InputWires(c) THEN [NoSource EXCEPT !.list = {w}] ELSE NoSource]
        ELSE LET m == after[i - 1]
                 g == c.gates[i]
             IN  [m EXCEPT ![g.out] = SourceOf(g, m)]
  IN  after[GateSize(c)]

(* _init_gc_check_data: for an independent wire, the AND gates it feeds    *)
(* through XOR and NOT gates, with the inputs (0, 1 or both) it feeds.     *)
GcCheckData(c, sources) ==
  LET feeds(w, i) == {k \in {0, 1} :
        w \in sources[IF k = 0 THEN c.gates[i].in0 ELSE c.gates[i].in1].list}
  IN  [w \in Independent(c) |->
         [i \in {j \in AndGates(c) : feeds(w, j) # {}} |-> feeds(w, i)]]

(* The gates a file lists, and the circuit the constructor makes of them.  *)
Parsed(c) ==
  /\ c.sources = SourceMatrix(c)
  /\ c.gcCheckData = GcCheckData(c, c.sources)

(* The order in which the GC check visits the independent wires, counted   *)
(* from 0: the inputs, then the outputs of the AND gates in gate order.    *)
IndependentSize(c) == TotalInputSize(c) + AndGateSize(c)

AndGateAt(c, k) == CHOOSE i \in AndGates(c) : AndGateOrder(c, i) = k

IndependentWire(c, n) ==
  IF n < TotalInputSize(c) THEN n
  ELSE c.gates[AndGateAt(c, n - TotalInputSize(c))].out

(* independent_index_map: the place of an independent wire in that order.  *)
IndependentIndex(c, w) ==
  IF w \in InputWires(c) THEN w
  ELSE TotalInputSize(c)
         + AndGateOrder(c, CHOOSE i \in AndGates(c) : c.gates[i].out = w)
=============================================================================
