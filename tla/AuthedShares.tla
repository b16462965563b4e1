---------------------------- MODULE AuthedShares ----------------------------
(***************************************************************************)
(* PreprocessedData: what the two parties hold between preprocessing and   *)
(* garbling.  g is the garbler's object, e the evaluator's:                *)
(*   masks, macs, keys       per wire: own share, its MAC under the peer's *)
(*                           global key, local key for the peer's share    *)
(*   triple, tripleMacs, tripleKeys                                        *)
(*                           the same per AND gate                         *)
(*   delta                   the party's own global key                    *)
(***************************************************************************)
EXTENDS Circuits, Blocks

ShareShape(c, p) ==
  /\ p.masks \in [Wires(c) -> BOOLEAN]
  /\ p.macs \in [Wires(c) -> Block] /\ p.keys \in [Wires(c) -> Block]
  /\ p.triple \in [AndIndices(c) -> BOOLEAN]
  /\ p.tripleMacs \in [AndIndices(c) -> Block]
  /\ p.tripleKeys \in [AndIndices(c) -> Block]
  /\ p.delta \in Block

(* Every share is authenticated under the other party's global key. *)
ShareAuthentic(c, own, peer) ==
  /\ \A w \in Wires(c) :
       Authentic(own.masks[w], own.macs[w], peer.keys[w], peer.delta)
  /\ \A k \in AndIndices(c) :
       Authentic(own.triple[k], own.tripleMacs[k], peer.tripleKeys[k], peer.delta)

(* Shares, MACs and keys follow the linear gates wire by wire. *)
GateShares(g, p) ==
  CASE g.type = "XOR" -> /\ p.masks[g.out] = (p.masks[g.in0] # p.masks[g.in1])
                         /\ p.macs[g.out] = p.macs[g.in0] \oplus p.macs[g.in1]
                         /\ p.keys[g.out] = p.keys[g.in0] \oplus p.keys[g.in1]
    [] g.type = "NOT" -> /\ p.masks[g.out] = p.masks[g.in0]
                         /\ p.macs[g.out] = p.macs[g.in0]
                         /\ p.keys[g.out] = p.keys[g.in0]
    [] g.type = "AND" -> TRUE

(* The mask of a wire, known to nobody: the XOR of the parties' shares. *)
MaskOf(s, w) == s.g.masks[w] # s.e.masks[w]

(* The triple of an AND gate shares the product of its input masks. *)
TripleHolds(s, i) ==
  LET g == s.circuit.gates[i]
      k == AndGateOrder(s.circuit, i)
  IN  (s.g.triple[k] # s.e.triple[k]) = (MaskOf(s, g.in0) /\ MaskOf(s, g.in1))

(* What preprocessing promises to the parties of s. *)
Preprocessed(s) ==
  LET c == s.circuit
  IN  /\ ShareShape(c, s.g) /\ ShareShape(c, s.e)
      /\ GetLSB(s.g.delta)
      /\ ShareAuthentic(c, s.g, s.e) /\ ShareAuthentic(c, s.e, s.g)
      /\ \A w \in GarblerInputs(c) : s.e.masks[w] = FALSE
      /\ \A i \in GateIndices(c) : GateShares(c.gates[i], s.g) /\ GateShares(c.gates[i], s.e)
      /\ \A i \in AndGates(c) : TripleHolds(s, i)
=============================================================================
