----------------------------- MODULE MCCircuits -----------------------------
(***************************************************************************)
(* Small circuits, with the tables their constructor derives.              *)
(***************************************************************************)
EXTENDS Circuits

Circ(in0, in1, out, wires, gates) ==
  LET file == [inputSize0 |-> in0, inputSize1 |-> in1, outputSize |-> out,
               wireSize |-> wires, gates |-> gates]
      sources == SourceMatrix(file)
  IN  [inputSize0 |-> in0, inputSize1 |-> in1, outputSize |-> out,
       wireSize |-> wires, gates |-> gates,
       sources |-> sources, gcCheckData |-> GcCheckData(file, sources)]

(* An AND, an inverted output. *)
Nand == Circ(1, 1, 1, 4, <<AND(0, 1, 2), NOT(2, 3)>>)

(* ANDs of XORs that share a source and carry a flip; an AND feeds an AND. *)
Shared == Circ(2, 1, 2, 8,
  <<XOR(0, 2, 3), NOT(3, 4), XOR(2, 1, 5), AND(4, 5, 6), AND(6, 4, 7)>>)

(* AND of a wire with itself and with its negation. *)
Same == Circ(1, 1, 2, 6, <<NOT(1, 2), AND(0, 0, 3), AND(2, 1, 4), XOR(3, 4, 5)>>)

(* No AND gate; only the garbler has input. *)
Linear == Circ(2, 0, 1, 4, <<XOR(0, 1, 2), NOT(2, 3)>>)

(* Only the evaluator has input. *)
NoGarblerInput == Circ(0, 2, 1, 4, <<XOR(0, 1, 2), AND(2, 1, 3)>>)

CircuitsUnderTest == {Nand, Shared, Same, Linear, NoGarblerInput}
=============================================================================
