-------------------------- MODULE Preprocess_proofs --------------------------
(***************************************************************************)
(* Proofs about Preprocess, for every circuit, field, choice of randomness *)
(* and size of the compressed vector: every object has its type, every     *)
(* value is authenticated once no message is on its way, the cells of the  *)
(* dual-key calculator share the products of the masks, and what both      *)
(* parties return is preprocessed data as garbling needs it.               *)
(***************************************************************************)
EXTENDS Preprocess, Common_proofs, SequenceTheorems

-----------------------------------------------------------------------------
(***************************************************************************)
(* Authenticated vectors: what the OT gives, and what fixing makes of it.  *)
(***************************************************************************)
BitsOfLength(n) == [Below(n) -> BOOLEAN]

BlocksOfLength(n) == [Below(n) -> Block]

(* Keys and MACs, by global key: D has the global keys' positions. *)
TableOf(D, n) == [D -> BlocksOfLength(n)]

(* Random choices have their MACs; after the fix the values do. *)
LEMMA BitsFixed ==
  ASSUME NEW D, NEW n, NEW deltas \in [D -> Block], NEW keys \in TableOf(D, n),
         NEW choices \in BitsOfLength(n), NEW bits \in BitsOfLength(n)
  PROVE  /\ BitMacs(keys, deltas, choices) \in TableOf(D, n)
         /\ BitsAuthentic(choices, BitMacs(keys, deltas, choices), keys, deltas)
         /\ BitDiff(choices, bits) \in BitsOfLength(n)
         /\ FixedBitKeys(keys, deltas, BitDiff(choices, bits)) \in TableOf(D, n)
         /\ BitsAuthentic(bits, BitMacs(keys, deltas, choices),
                          FixedBitKeys(keys, deltas, BitDiff(choices, bits)), deltas)
<1>1. ASSUME NEW v \in BitsOfLength(n)
      PROVE  /\ DOMAIN v = Below(n) /\ DOMAIN deltas = D
             /\ ByBits(keys, deltas, v) \in TableOf(D, n)
             /\ \A d \in D, i \in Below(n) :
                  ByBits(keys, deltas, v)[d][i] = keys[d][i] \oplus AndAllBits(v[i], deltas[d])
  <2>1. \A d \in D, i \in Below(n) : keys[d][i] \oplus AndAllBits(v[i], deltas[d]) \in Block
    BY BlockType DEF TableOf, BlocksOfLength
  <2> QED  BY <2>1 DEF ByBits, BitsOfLength, TableOf, BlocksOfLength
<1> DEFINE diff == BitDiff(choices, bits)
<1>2. diff \in BitsOfLength(n) /\ \A i \in Below(n) : diff[i] = (choices[i] # bits[i])
  BY DEF BitDiff, BitsOfLength
<1> HIDE DEF diff
<1>3. ASSUME NEW d \in D, NEW i \in Below(n)
      PROVE  keys[d][i] \oplus AndAllBits(choices[i], deltas[d])
               = (keys[d][i] \oplus AndAllBits(diff[i], deltas[d]))
                   \oplus AndAllBits(bits[i], deltas[d])
  <2>1. choices[i] \in BOOLEAN /\ bits[i] \in BOOLEAN /\ diff[i] = (choices[i] # bits[i])
    BY <1>2 DEF BitsOfLength
  <2>2. AndAllBits(choices[i] # bits[i], deltas[d])
          = AndAllBits(choices[i], deltas[d]) \oplus AndAllBits(bits[i], deltas[d])
    BY <2>1, AndAllBitsXor
  <2>3. AndAllBits(diff[i], deltas[d])
          = AndAllBits(choices[i], deltas[d]) \oplus AndAllBits(bits[i], deltas[d])
    BY <2>1, <2>2, Zenon
  <2> DEFINE k == keys[d][i]
             x == AndAllBits(choices[i], deltas[d])
             y == AndAllBits(bits[i], deltas[d])
  <2> HIDE DEF k, x, y
  <2>4. k \oplus x = (k \oplus (x \oplus y)) \oplus y
    BY SMT DEF \oplus
  <2> QED  BY <2>3, <2>4, Zenon DEF k, x, y
<1>4. BitMacs(keys, deltas, choices) \in TableOf(D, n)
      /\ FixedBitKeys(keys, deltas, diff) \in TableOf(D, n)
  BY <1>1, <1>2 DEF BitMacs, FixedBitKeys
<1>5. BitsAuthentic(choices, BitMacs(keys, deltas, choices), keys, deltas)
  BY <1>1 DEF BitsAuthentic, BitMacs, Authentic
<1>6. BitsAuthentic(bits, BitMacs(keys, deltas, choices), FixedBitKeys(keys, deltas, diff), deltas)
  BY <1>1, <1>2, <1>3 DEF BitsAuthentic, BitMacs, FixedBitKeys, Authentic
<1> QED  BY <1>2, <1>4, <1>5, <1>6 DEF diff

LEMMA BlocksFixed ==
  ASSUME NEW D, NEW n, NEW deltas \in [D -> Block], NEW keys \in TableOf(D, n),
         NEW choices \in BlocksOfLength(n), NEW blocks \in BlocksOfLength(n)
  PROVE  /\ BlockMacs(keys, deltas, choices) \in TableOf(D, n)
         /\ BlockDiff(choices, blocks) \in BlocksOfLength(n)
         /\ FixedBlockKeys(keys, deltas, BlockDiff(choices, blocks)) \in TableOf(D, n)
         /\ BlocksAuthentic(blocks, BlockMacs(keys, deltas, choices),
                            FixedBlockKeys(keys, deltas, BlockDiff(choices, blocks)), deltas)
<1>1. ASSUME NEW v \in BlocksOfLength(n)
      PROVE  /\ DOMAIN v = Below(n) /\ DOMAIN deltas = D
             /\ ByBlocks(keys, deltas, v) \in TableOf(D, n)
             /\ \A d \in D, i \in Below(n) :
                  ByBlocks(keys, deltas, v)[d][i] = keys[d][i] \oplus GfMul(v[i], deltas[d])
  <2>1. \A d \in D, i \in Below(n) : keys[d][i] \oplus GfMul(v[i], deltas[d]) \in Block
    BY BlockType, FieldAssumption DEF TableOf, BlocksOfLength
  <2> QED  BY <2>1 DEF ByBlocks, TableOf, BlocksOfLength
<1> DEFINE diff == BlockDiff(choices, blocks)
<1>2. diff \in BlocksOfLength(n) /\ \A i \in Below(n) : diff[i] = choices[i] \oplus blocks[i]
  BY BlockType DEF BlockDiff, BlocksOfLength
<1> HIDE DEF diff
<1>3. ASSUME NEW d \in D, NEW i \in Below(n)
      PROVE  keys[d][i] \oplus GfMul(choices[i], deltas[d])
               = (keys[d][i] \oplus GfMul(diff[i], deltas[d])) \oplus GfMul(blocks[i], deltas[d])
  <2> DEFINE a == choices[i]
             b == blocks[i]
             delta == deltas[d]
             k == keys[d][i]
  <2>1. a \in Block /\ b \in Block /\ delta \in Block /\ diff[i] = a \oplus b
    BY <1>2 DEF BlocksOfLength
  <2> HIDE DEF a, b, delta, k
  <2>2. GfMul(a \oplus b, delta) = GfMul(a, delta) \oplus GfMul(b, delta)
    BY <2>1, FieldAssumption, BlockType
  <2>3. GfMul(diff[i], delta) = GfMul(a, delta) \oplus GfMul(b, delta)
    BY <2>1, <2>2, Zenon
  <2> DEFINE x == GfMul(a, delta)
             y == GfMul(b, delta)
  <2> HIDE DEF x, y
  <2>4. k \oplus x = (k \oplus (x \oplus y)) \oplus y
    BY SMT DEF \oplus
  <2>5. k \oplus GfMul(a, delta) = (k \oplus GfMul(diff[i], delta)) \oplus GfMul(b, delta)
    BY <2>3, <2>4, Zenon DEF x, y
  <2> QED  BY <2>5 DEF a, b, delta, k
<1>4. BlockMacs(keys, deltas, choices) \in TableOf(D, n)
      /\ FixedBlockKeys(keys, deltas, diff) \in TableOf(D, n)
  BY <1>1, <1>2 DEF BlockMacs, FixedBlockKeys
<1>5. BlocksAuthentic(blocks, BlockMacs(keys, deltas, choices),
                      FixedBlockKeys(keys, deltas, diff), deltas)
  BY <1>1, <1>2, <1>3 DEF BlocksAuthentic, BlockMacs, FixedBlockKeys
<1> QED  BY <1>2, <1>4, <1>5 DEF diff

(* A single global key: the vector of one, and its only element. *)
LEMMA OnlyType ==
  /\ \A x : Only(x)[0] = x /\ DOMAIN Only(x) = {0}
  /\ \A x, S : x \in S => Only(x) \in [{0} -> S]
  /\ \A f : DOMAIN f = {0} /\ f = [d \in {0} |-> f[d]] => Only(f[0]) = f
BY DEF Only

(* The product of a matrix with a vector and with its MACs and keys:       *)
(* multiplying keeps the vector authenticated.                             *)
LEMMA TimesAuthentic ==
  ASSUME NEW r, NEW n \in Nat, NEW m \in [Below(r) -> BitsOfLength(n)], NEW delta \in Block,
         NEW bits \in BitsOfLength(n), NEW macs \in BlocksOfLength(n),
         NEW keys \in BlocksOfLength(n),
         \A l \in Below(n) : macs[l] = keys[l] \oplus AndAllBits(bits[l], delta)
  PROVE  /\ TimesBits(m, bits) \in BitsOfLength(r)
         /\ TimesBlocks(m, keys) \in BlocksOfLength(r)
         /\ TimesBlocks(m, macs) \in BlocksOfLength(r)
         /\ \A i \in Below(r) :
              Authentic(TimesBits(m, bits)[i], TimesBlocks(m, macs)[i], TimesBlocks(m, keys)[i],
                        delta)
<1>1. DOMAIN m = Below(r) /\ DOMAIN bits = Below(n) /\ DOMAIN macs = Below(n)
      /\ DOMAIN keys = Below(n)
  BY DEF BitsOfLength, BlocksOfLength
<1> DEFINE T(i) == {l \in Below(n) : m[i][l]}
<1>2. ASSUME NEW i \in Below(r)
      PROVE  /\ TimesBits(m, bits)[i] = Odd({l \in T(i) : bits[l]})
             /\ TimesBlocks(m, keys)[i] = XorOver(T(i), keys)
             /\ TimesBlocks(m, macs)[i] = XorOver(T(i), macs)
  <2>1. {l \in DOMAIN bits : m[i][l] /\ bits[l]} = {l \in T(i) : bits[l]}
    BY <1>1
  <2>2. TimesBits(m, bits)[i] = (Cardinality({l \in DOMAIN bits : m[i][l] /\ bits[l]}) % 2 = 1)
    BY <1>1 DEF TimesBits
  <2>3. TimesBits(m, bits)[i] = Odd({l \in T(i) : bits[l]})
    <3> HIDE DEF T
    <3> QED  BY <2>1, <2>2, Zenon DEF Odd
  <2> QED  BY <1>1, <2>3 DEF TimesBlocks
<1>3. TimesBits(m, bits) \in BitsOfLength(r)
  BY <1>1 DEF TimesBits, BitsOfLength
<1>4. TimesBlocks(m, keys) \in BlocksOfLength(r) /\ TimesBlocks(m, macs) \in BlocksOfLength(r)
  BY <1>1, BlockType DEF TimesBlocks, BlocksOfLength
<1>5. ASSUME NEW i \in Below(r)
      PROVE  XorOver(T(i), macs) = XorOver(T(i), keys)
                                     \oplus AndAllBits(Odd({l \in T(i) : bits[l]}), delta)
  <2> DEFINE part == [l \in T(i) |-> AndAllBits(bits[l], delta)]
  <2>1. IsFiniteSet(T(i))
    <3>1. IsFiniteSet(Below(n))
      BY FS_Interval DEF Below
    <3> QED  BY <3>1, FS_Subset
  <2>2. \A l \in T(i) : macs[l] = keys[l] \oplus part[l] /\ part[l] = AndAllBits(bits[l], delta)
    OBVIOUS
  <2> HIDE DEF part, T
  <2>3. XorOver(T(i), macs) = XorOver(T(i), keys) \oplus XorOver(T(i), part)
    BY <2>1, <2>2, XorOverSum
  <2>4. XorOver(T(i), part) = AndAllBits(Odd({l \in T(i) : bits[l]}), delta)
    BY <2>2, XorOverCopies
  <2> QED  BY <2>3, <2>4, Zenon
<1>6. ASSUME NEW i \in Below(r)
      PROVE  Authentic(TimesBits(m, bits)[i], TimesBlocks(m, macs)[i], TimesBlocks(m, keys)[i],
                       delta)
  <2> HIDE DEF T
  <2> QED  BY <1>2, <1>5, Zenon DEF Authentic
<1> QED  BY <1>3, <1>4, <1>6

-----------------------------------------------------------------------------
(***************************************************************************)
(* populate: what its loop over the gates leaves in the wires.             *)
(***************************************************************************)
ShareRow(c) ==
  [masks : [Wires(c) -> BOOLEAN], macs : [Wires(c) -> Block], keys : [Wires(c) -> Block]]

InputRow(c, independent) ==
  [masks |-> [w \in Wires(c) |-> w \in InputWires(c) /\ independent.masks[w]],
   macs |-> [w \in Wires(c) |->
     IF w \in InputWires(c) THEN independent.macs[w] ELSE ZeroBlock],
   keys |-> [w \in Wires(c) |->
     IF w \in InputWires(c) THEN independent.keys[w] ELSE ZeroBlock]]

PopulateLoop(c, independent) ==
  LET inputs == [masks |-> [w \in Wires(c) |-> w \in InputWires(c) /\ independent.masks[w]],
                 macs |-> [w \in Wires(c) |->
                   IF w \in InputWires(c) THEN independent.macs[w] ELSE ZeroBlock],
                 keys |-> [w \in Wires(c) |->
                   IF w \in InputWires(c) THEN independent.keys[w] ELSE ZeroBlock]]
      after[i \in 0 .. GateSize(c)] ==
        IF i = 0 THEN inputs ELSE PopulateGate(c.gates[i], independent, after[i - 1])
  IN  after

(* The shares, MACs and keys of the independent wires. *)
IndependentRow(c) ==
  [masks : [Independent(c) -> BOOLEAN], macs : [Independent(c) -> Block],
   keys : [Independent(c) -> Block]]

LEMMA PopulateGateType ==
  ASSUME NEW c, WellFormed(c), NEW ind \in IndependentRow(c), NEW i \in GateIndices(c),
         NEW p \in ShareRow(c)
  PROVE  PopulateGate(c.gates[i], ind, p) \in ShareRow(c)
<1> DEFINE g == c.gates[i]
           q == PopulateGate(g, ind, p)
<1>1. /\ g.type \in {"AND", "XOR", "NOT"} /\ g.in0 \in Wires(c) /\ g.out \in Wires(c)
      /\ g.type # "NOT" => g.in1 \in Wires(c)
      /\ g.type = "AND" => g.out \in Independent(c)
  BY GateWires DEF AndGates, IsAnd, Independent
<1>2. /\ p.masks \in [Wires(c) -> BOOLEAN] /\ p.macs \in [Wires(c) -> Block]
      /\ p.keys \in [Wires(c) -> Block]
      /\ ind.masks \in [Independent(c) -> BOOLEAN] /\ ind.macs \in [Independent(c) -> Block]
      /\ ind.keys \in [Independent(c) -> Block]
  BY DEF ShareRow, IndependentRow
<1> HIDE DEF g
<1>3. q.masks \in [Wires(c) -> BOOLEAN]
  BY <1>1, <1>2 DEF PopulateGate
<1>4. q.macs \in [Wires(c) -> Block]
  BY <1>1, <1>2, BlockType DEF PopulateGate
<1>5. q.keys \in [Wires(c) -> Block]
  BY <1>1, <1>2, BlockType DEF PopulateGate
<1>6. \E x, y, z : q = [masks |-> x, macs |-> y, keys |-> z]
  BY Zenon DEF PopulateGate
<1> HIDE DEF q
<1>7. q \in ShareRow(c)
  <2>1. PICK x, y, z : q = [masks |-> x, macs |-> y, keys |-> z]
    BY <1>6
  <2>2. q.masks = x /\ q.macs = y /\ q.keys = z
    BY <2>1
  <2> QED  BY <1>3, <1>4, <1>5, <2>1, <2>2 DEF ShareRow
<1> QED  BY <1>7 DEF q, g

LEMMA PopulateWiresLoop ==
  ASSUME NEW c, WellFormed(c), NEW ind \in IndependentRow(c)
  PROVE  \E f \in [0 .. GateSize(c) -> ShareRow(c)] :
           /\ f[0] = InputRow(c, ind) /\ f[GateSize(c)] = PopulateWires(c, ind)
           /\ \A i \in GateIndices(c) : f[i] = PopulateGate(c.gates[i], ind, f[i - 1])
<1> DEFINE n == GateSize(c)
           State == ShareRow(c)
           next(i, p) == PopulateGate(c.gates[i], ind, p)
           step == [i \in 1 .. n |-> [p \in State |-> next(i, p)]]
<1>1. n \in Nat /\ GateIndices(c) = 1 .. n
  BY AndGatesFinite DEF GateIndices
<1>2. InputRow(c, ind) \in State
  <2>1. \A w \in InputWires(c) : ind.macs[w] \in Block /\ ind.keys[w] \in Block
    BY DEF IndependentRow, Independent
  <2> QED  BY <2>1, BlockType DEF InputRow, ShareRow
<1>3. ASSUME NEW i \in 1 .. n, NEW p \in State
      PROVE  step[i][p] = next(i, p) /\ next(i, p) \in State
  BY <1>1, PopulateGateType
<1>4. step \in [1 .. n -> [State -> State]]
  BY <1>3
<1> HIDE DEF n, State, step, next
<1>5. PICK f : IsLoop(f, n, State, InputRow(c, ind), step)
  BY <1>1, <1>2, <1>4, LoopExists
<1>6. /\ f \in [0 .. n -> State] /\ f[0] = InputRow(c, ind)
      /\ \A i \in 1 .. n : f[i] = step[i][f[i - 1]]
  BY <1>5 DEF IsLoop
<1>7. \A i \in 1 .. n : f[i] = next(i, f[i - 1])
  <2>1. \A i \in 1 .. n : i - 1 \in 0 .. n
    BY <1>1
  <2> QED  BY <1>3, <1>6, <2>1
<1> DEFINE body(h, i) == IF i = 0 THEN InputRow(c, ind) ELSE next(i, h[i - 1])
<1>8. f = [i \in 0 .. n |-> body(f, i)]
  BY <1>1, <1>6, <1>7
<1> DEFINE g == PopulateLoop(c, ind)
<1>9. g = [i \in 0 .. n |-> body(g, i)]
  BY <1>8 DEF PopulateLoop, InputRow, next, n
<1>10. g[n] = PopulateWires(c, ind)
  BY Zenon DEF PopulateLoop, PopulateWires, n
<1> HIDE DEF g
<1>11. g[0] = InputRow(c, ind) /\ \A i \in 1 .. n : g[i] = next(i, g[i - 1])
  BY <1>1, <1>9
<1> DEFINE good == {i \in 0 .. n : g[i] \in State}
<1>12. 0 \in good /\ \A i \in 1 .. n : i - 1 \in good => i \in good
  <2>1. \A i \in 1 .. n : \A p \in State : next(i, p) \in State
    BY <1>3
  <2> QED  BY <1>1, <1>2, <1>11, <2>1
<1>13. \A i \in 0 .. n : g[i] \in State
  <2> HIDE DEF good
  <2>1. \A i \in 0 .. n : i \in good
    BY <1>1, <1>12, UpToInduction
  <2> QED  BY <2>1 DEF good
<1>14. g \in [0 .. n -> State]
  BY <1>9, <1>13
<1> QED  BY <1>1, <1>10, <1>11, <1>14 DEF n, State, next

(* One of the three vectors: gate i gives its output wire the value e[i],  *)
(* and in the end every wire has the value its gate gave it.               *)
AssignsEach(c, V, v, e) ==
  /\ \A i \in 0 .. GateSize(c) : v[i] \in [Wires(c) -> V]
  /\ \A i \in GateIndices(c) : v[i] = [v[i - 1] EXCEPT ![c.gates[i].out] = e[i]]

EachAssigned(c, v, e) ==
  /\ \A w \in InputWires(c) : v[GateSize(c)][w] = v[0][w]
  /\ \A i \in GateIndices(c) :
       /\ v[GateSize(c)][c.gates[i].out] = e[i]
       /\ \A w \in WiresBefore(c, i) : v[i - 1][w] = v[GateSize(c)][w]

LEMMA VectorLoop ==
  ASSUME NEW c, WellFormed(c), NEW V, NEW v, NEW e, AssignsEach(c, V, v, e)
  PROVE  EachAssigned(c, v, e)
<1>1. ASSUME NEW i \in GateIndices(c)
      PROVE  /\ v[i][c.gates[i].out] = e[i]
             /\ \A w \in Wires(c) : w # c.gates[i].out => v[i][w] = v[i - 1][w]
  <2>1. i - 1 \in 0 .. GateSize(c)
    BY WiresGrow DEF GateIndices
  <2>2. c.gates[i].out \in Wires(c) /\ v[i - 1] \in [Wires(c) -> V]
        /\ v[i] = [v[i - 1] EXCEPT ![c.gates[i].out] = e[i]]
    BY <2>1, GateWires DEF AssignsEach
  <2> QED  BY <2>2
<1>2. AssignsOut(c, v)
  BY <1>1 DEF AssignsOut
<1>3. LeavesOut(c, v)
  BY <1>2, GateLoop
<1> QED  BY <1>1, <1>3 DEF LeavesOut, EachAssigned

(* The whole of populate: an independent wire keeps its row, and the rows  *)
(* of the others follow their gates.                                       *)
LEMMA PopulateRight ==
  ASSUME NEW c, WellFormed(c), NEW ind \in IndependentRow(c), NEW p, p = PopulateWires(c, ind)
  PROVE  /\ p \in ShareRow(c)
         /\ \A w \in Independent(c) :
              p.masks[w] = ind.masks[w] /\ p.macs[w] = ind.macs[w] /\ p.keys[w] = ind.keys[w]
         /\ \A i \in GateIndices(c) : GateShares(c.gates[i], p)
<1> DEFINE n == GateSize(c)
           gate(i) == c.gates[i]
<1>1. n \in Nat /\ GateIndices(c) = 1 .. n
  BY AndGatesFinite DEF GateIndices
<1>2. PICK f \in [0 .. n -> ShareRow(c)] :
           /\ f[0] = InputRow(c, ind) /\ f[n] = p
           /\ \A i \in GateIndices(c) : f[i] = PopulateGate(gate(i), ind, f[i - 1])
  BY PopulateWiresLoop
<1> DEFINE ms == [i \in 0 .. n |-> f[i].masks]
           cs == [i \in 0 .. n |-> f[i].macs]
           ks == [i \in 0 .. n |-> f[i].keys]
           newMask == [i \in GateIndices(c) |->
             CASE gate(i).type = "NOT" -> ms[i - 1][gate(i).in0]
               [] gate(i).type = "AND" -> ind.masks[gate(i).out]
               [] gate(i).type = "XOR" -> ms[i - 1][gate(i).in0] # ms[i - 1][gate(i).in1]]
           newMac == [i \in GateIndices(c) |->
             CASE gate(i).type = "NOT" -> cs[i - 1][gate(i).in0]
               [] gate(i).type = "AND" -> ind.macs[gate(i).out]
               [] gate(i).type = "XOR" -> cs[i - 1][gate(i).in0] \oplus cs[i - 1][gate(i).in1]]
           newKey == [i \in GateIndices(c) |->
             CASE gate(i).type = "NOT" -> ks[i - 1][gate(i).in0]
               [] gate(i).type = "AND" -> ind.keys[gate(i).out]
               [] gate(i).type = "XOR" -> ks[i - 1][gate(i).in0] \oplus ks[i - 1][gate(i).in1]]
<1>3. \A i \in 0 .. n : /\ ms[i] \in [Wires(c) -> BOOLEAN] /\ cs[i] \in [Wires(c) -> Block]
                        /\ ks[i] \in [Wires(c) -> Block]
  BY DEF ShareRow
<1>4. ASSUME NEW i \in GateIndices(c)
      PROVE  /\ ms[i] = [ms[i - 1] EXCEPT ![gate(i).out] = newMask[i]]
             /\ cs[i] = [cs[i - 1] EXCEPT ![gate(i).out] = newMac[i]]
             /\ ks[i] = [ks[i - 1] EXCEPT ![gate(i).out] = newKey[i]]
  <2>1. i \in 0 .. n /\ i - 1 \in 0 .. n
    BY <1>1
  <2> DEFINE g == gate(i)
             q == f[i - 1]
  <2>2. /\ ms[i] = PopulateGate(g, ind, q).masks /\ cs[i] = PopulateGate(g, ind, q).macs
        /\ ks[i] = PopulateGate(g, ind, q).keys
    BY <1>2, <2>1
  <2>3. ms[i - 1] = q.masks /\ cs[i - 1] = q.macs /\ ks[i - 1] = q.keys
    BY <2>1
  <2>8. /\ newMask[i] = CASE g.type = "NOT" -> ms[i - 1][g.in0]
               [] g.type = "AND" -> ind.masks[g.out]
               [] g.type = "XOR" -> ms[i - 1][g.in0] # ms[i - 1][g.in1]
        /\ newMac[i] = CASE g.type = "NOT" -> cs[i - 1][g.in0]
               [] g.type = "AND" -> ind.macs[g.out]
               [] g.type = "XOR" -> cs[i - 1][g.in0] \oplus cs[i - 1][g.in1]
        /\ newKey[i] = CASE g.type = "NOT" -> ks[i - 1][g.in0]
               [] g.type = "AND" -> ind.keys[g.out]
               [] g.type = "XOR" -> ks[i - 1][g.in0] \oplus ks[i - 1][g.in1]
    <3> HIDE DEF ms, cs, ks
    <3> QED  OBVIOUS
  <2> HIDE DEF ms, cs, ks, newMask, newMac, newKey, g, q
  <2>4. /\ PopulateGate(g, ind, q).masks = [q.masks EXCEPT ![g.out] =
             CASE g.type = "NOT" -> q.masks[g.in0]
               [] g.type = "AND" -> ind.masks[g.out]
               [] g.type = "XOR" -> q.masks[g.in0] # q.masks[g.in1]]
        /\ PopulateGate(g, ind, q).macs = [q.macs EXCEPT ![g.out] =
             CASE g.type = "NOT" -> q.macs[g.in0]
               [] g.type = "AND" -> ind.macs[g.out]
               [] g.type = "XOR" -> q.macs[g.in0] \oplus q.macs[g.in1]]
        /\ PopulateGate(g, ind, q).keys = [q.keys EXCEPT ![g.out] =
             CASE g.type = "NOT" -> q.keys[g.in0]
               [] g.type = "AND" -> ind.keys[g.out]
               [] g.type = "XOR" -> q.keys[g.in0] \oplus q.keys[g.in1]]
    BY DEF PopulateGate
  <2>5. ms[i] = [ms[i - 1] EXCEPT ![g.out] =
             CASE g.type = "NOT" -> ms[i - 1][g.in0]
               [] g.type = "AND" -> ind.masks[g.out]
               [] g.type = "XOR" -> ms[i - 1][g.in0] # ms[i - 1][g.in1]]
    BY <2>2, <2>3, <2>4, Zenon
  <2>6. cs[i] = [cs[i - 1] EXCEPT ![g.out] =
             CASE g.type = "NOT" -> cs[i - 1][g.in0]
               [] g.type = "AND" -> ind.macs[g.out]
               [] g.type = "XOR" -> cs[i - 1][g.in0] \oplus cs[i - 1][g.in1]]
    BY <2>2, <2>3, <2>4, Zenon
  <2>7. ks[i] = [ks[i - 1] EXCEPT ![g.out] =
             CASE g.type = "NOT" -> ks[i - 1][g.in0]
               [] g.type = "AND" -> ind.keys[g.out]
               [] g.type = "XOR" -> ks[i - 1][g.in0] \oplus ks[i - 1][g.in1]]
    BY <2>2, <2>3, <2>4, Zenon
  <2>9. /\ ms[i] = [ms[i - 1] EXCEPT ![g.out] = newMask[i]]
        /\ cs[i] = [cs[i - 1] EXCEPT ![g.out] = newMac[i]]
        /\ ks[i] = [ks[i - 1] EXCEPT ![g.out] = newKey[i]]
    BY <2>5, <2>6, <2>7, <2>8, Zenon
  <2> QED  BY <2>9 DEF g
<1> HIDE DEF newMask, newMac, newKey
<1>5. /\ \A w \in InputWires(c) : ms[n][w] = ms[0][w] /\ cs[n][w] = cs[0][w] /\ ks[n][w] = ks[0][w]
      /\ \A i \in GateIndices(c) :
           /\ ms[n][gate(i).out] = newMask[i] /\ cs[n][gate(i).out] = newMac[i]
           /\ ks[n][gate(i).out] = newKey[i]
           /\ \A w \in WiresBefore(c, i) :
                ms[i - 1][w] = ms[n][w] /\ cs[i - 1][w] = cs[n][w] /\ ks[i - 1][w] = ks[n][w]
  <2> HIDE DEF ms, cs, ks
  <2>1. /\ AssignsEach(c, BOOLEAN, ms, newMask) /\ AssignsEach(c, Block, cs, newMac)
        /\ AssignsEach(c, Block, ks, newKey)
    BY <1>3, <1>4 DEF AssignsEach
  <2>2. EachAssigned(c, ms, newMask) /\ EachAssigned(c, cs, newMac) /\ EachAssigned(c, ks, newKey)
    BY <2>1, VectorLoop
  <2> QED  BY <2>2 DEF EachAssigned
<1>6. ms[n] = p.masks /\ cs[n] = p.macs /\ ks[n] = p.keys
  BY <1>1, <1>2
<1>7. \A w \in InputWires(c) :
        ms[0][w] = ind.masks[w] /\ cs[0][w] = ind.macs[w] /\ ks[0][w] = ind.keys[w]
  <2>1. ms[0] = InputRow(c, ind).masks /\ cs[0] = InputRow(c, ind).macs
        /\ ks[0] = InputRow(c, ind).keys
    BY <1>1, <1>2
  <2> HIDE DEF ms, cs, ks
  <2>2. \A w \in InputWires(c) : w \in Wires(c) /\ ind.masks[w] \in BOOLEAN
    BY WiresGrow DEF IndependentRow, Independent
  <2> QED  BY <2>1, <2>2 DEF InputRow
<1> HIDE DEF ms, cs, ks
<1>8. ASSUME NEW i \in GateIndices(c), gate(i).type = "AND"
      PROVE  /\ p.masks[gate(i).out] = ind.masks[gate(i).out]
             /\ p.macs[gate(i).out] = ind.macs[gate(i).out]
             /\ p.keys[gate(i).out] = ind.keys[gate(i).out]
  <2>1. /\ newMask[i] = ind.masks[gate(i).out] /\ newMac[i] = ind.macs[gate(i).out]
        /\ newKey[i] = ind.keys[gate(i).out]
    BY <1>8 DEF newMask, newMac, newKey
  <2> QED  BY <1>5, <1>6, <2>1
<1>9. ASSUME NEW i \in GateIndices(c) PROVE GateShares(gate(i), p)
  <2> DEFINE g == gate(i)
  <2>1. /\ g.type \in {"AND", "XOR", "NOT"} /\ g.in0 \in WiresBefore(c, i)
        /\ g.type # "NOT" => g.in1 \in WiresBefore(c, i)
    BY GateWires
  <2>2. /\ p.masks[g.out] = newMask[i] /\ p.macs[g.out] = newMac[i] /\ p.keys[g.out] = newKey[i]
        /\ \A w \in WiresBefore(c, i) :
             ms[i - 1][w] = p.masks[w] /\ cs[i - 1][w] = p.macs[w] /\ ks[i - 1][w] = p.keys[w]
    BY <1>5, <1>6
  <2>3. /\ newMask[i] = CASE g.type = "NOT" -> ms[i - 1][g.in0]
               [] g.type = "AND" -> ind.masks[g.out]
               [] g.type = "XOR" -> ms[i - 1][g.in0] # ms[i - 1][g.in1]
        /\ newMac[i] = CASE g.type = "NOT" -> cs[i - 1][g.in0]
               [] g.type = "AND" -> ind.macs[g.out]
               [] g.type = "XOR" -> cs[i - 1][g.in0] \oplus cs[i - 1][g.in1]
        /\ newKey[i] = CASE g.type = "NOT" -> ks[i - 1][g.in0]
               [] g.type = "AND" -> ind.keys[g.out]
               [] g.type = "XOR" -> ks[i - 1][g.in0] \oplus ks[i - 1][g.in1]
    BY DEF newMask, newMac, newKey
  <2> HIDE DEF g
  <2>4. ASSUME g.type = "XOR" PROVE GateShares(g, p)
    BY <2>1, <2>2, <2>3, <2>4 DEF GateShares
  <2>5. ASSUME g.type = "NOT" PROVE GateShares(g, p)
    BY <2>1, <2>2, <2>3, <2>5 DEF GateShares
  <2>6. ASSUME g.type = "AND" PROVE GateShares(g, p)
    BY <2>6 DEF GateShares
  <2>7. GateShares(g, p)
    BY <2>1, <2>4, <2>5, <2>6
  <2> QED  BY <2>7 DEF g
<1>10. p \in ShareRow(c)
  BY <1>1, <1>2
<1>11. ASSUME NEW w \in Independent(c)
       PROVE  p.masks[w] = ind.masks[w] /\ p.macs[w] = ind.macs[w] /\ p.keys[w] = ind.keys[w]
  <2>1. CASE w \in InputWires(c)
    BY <1>5, <1>6, <1>7, <2>1
  <2>2. CASE w \notin InputWires(c)
    <3>1. PICK i \in AndGates(c) : w = gate(i).out
      BY <2>2 DEF Independent
    <3>2. i \in GateIndices(c) /\ gate(i).type = "AND"
      BY DEF AndGates, IsAnd
    <3> QED  BY <1>8, <3>1, <3>2
  <2> QED  BY <2>1, <2>2
<1> QED  BY <1>9, <1>10, <1>11

-----------------------------------------------------------------------------
(***************************************************************************)
(* The inductive invariant.  What a step constructed stays as it is until  *)
(* the end, so that every part tells of the objects of one construction:   *)
(* until both parties (or the one that computes) took it they are unset,   *)
(* afterwards they have their types and relate as they should, under the   *)
(* keys as they are once the message that moves them has been read.        *)
(***************************************************************************)
RowsOf(s) == EvaluatorWires(s.circuit)
ColumnsOf(s) == CompressParam(RowsOf(s))
AndsOf(s) == AndGateSize(s.circuit)
PlacesOf(s) == IndependentSize(s.circuit)

Sid1Of(s, macs) ==
  [d \in 0 .. ColumnsOf(s) |-> IF d = ColumnsOf(s) THEN s.deltaB ELSE macs[d]]

Sid2Of(s) == [d \in {0, 1} |-> IF d = 0 THEN s.beta0 ELSE s.deltaB]

BitsMade(deltas, n, bits, macs, keys) ==
  /\ bits \in BitsOfLength(n)
  /\ macs \in TableOf(DOMAIN deltas, n) /\ keys \in TableOf(DOMAIN deltas, n)
  /\ BitsAuthentic(bits, macs, keys, deltas)

BlocksMade(deltas, n, blocks, macs, keys) ==
  /\ blocks \in BlocksOfLength(n)
  /\ macs \in TableOf(DOMAIN deltas, n) /\ keys \in TableOf(DOMAIN deltas, n)
  /\ BlocksAuthentic(blocks, macs, keys, deltas)

MatrixMade(s, m) == m \in [Below(RowsOf(s)) -> BitsOfLength(ColumnsOf(s))]

BStarMade(s, m, bits, macs, keys, b, bMacs, bKeys) ==
  /\ BitsMade(Only(s.deltaA), ColumnsOf(s), bits, Only(macs), Only(keys))
  /\ b = TimesBits(m, bits)
  /\ BitsMade(Only(s.deltaA), RowsOf(s), b, Only(bMacs), Only(bKeys))

(* bStar * deltaB, the values of the dual keys. *)
DualValues(s, bits) == [l \in Below(ColumnsOf(s)) |-> AndAllBits(bits[l], s.deltaB)]

(* The independent wires' rows in the two parties' populate. *)
PlaceA(s, w) == IndependentIndex(s.circuit, w)
PlaceB(s, w) == IndependentIndex(s.circuit, w) - s.circuit.inputSize0

RowG(s, a, macs, bKeys) ==
  [masks |-> [w \in Independent(s.circuit) |-> a[PlaceA(s, w)]],
   macs |-> [w \in Independent(s.circuit) |-> macs[PlaceA(s, w)]],
   keys |-> [w \in Independent(s.circuit) |->
     IF w \in GarblerInputs(s.circuit) THEN ZeroBlock ELSE bKeys[PlaceB(s, w)]]]

RowE(s, b, bMacs, keys) ==
  [masks |-> [w \in Independent(s.circuit) |->
     w \notin GarblerInputs(s.circuit) /\ b[PlaceB(s, w)]],
   macs |-> [w \in Independent(s.circuit) |->
     IF w \in GarblerInputs(s.circuit) THEN ZeroBlock ELSE bMacs[PlaceB(s, w)]],
   keys |-> [w \in Independent(s.circuit) |-> keys[PlaceA(s, w)]]]

(* The cells of the calculator and the sums over them, of given objects. *)
RowTimes(s, m, vectors, a, b) ==
  XorOver({l \in Below(ColumnsOf(s)) : m[PlaceB(s, b)][l]},
          [l \in Below(ColumnsOf(s)) |-> vectors[l][PlaceA(s, a)]])

CellG(s, m, bits, macs, dual, a, b) ==
  IF b \in GarblerInputs(s.circuit) THEN ZeroBlock
  ELSE RowTimes(s, m, macs, a, b)
         \oplus AndAllBits(bits[PlaceA(s, a)], TimesBlocks(m, dual)[PlaceB(s, b)])

CellE(s, m, keys, a, b) ==
  IF b \in GarblerInputs(s.circuit) THEN ZeroBlock ELSE RowTimes(s, m, keys, a, b)

PairsOf(s, in0, in1) == s.circuit.sources[in0].list \X s.circuit.sources[in1].list

CellsG(s, m, bits, macs, dual, in0, in1) ==
  XorOver(PairsOf(s, in0, in1),
          [p \in PairsOf(s, in0, in1) |-> CellG(s, m, bits, macs, dual, p[1], p[2])])

CellsE(s, m, keys, in0, in1) ==
  XorOver(PairsOf(s, in0, in1), [p \in PairsOf(s, in0, in1) |-> CellE(s, m, keys, p[1], p[2])])

GateOf(s, k) == s.circuit.gates[AndGateAt(s.circuit, k)]

SumsOfG(s, m, bits, macs, dual, anded, andedMacs, triple, tripleMacs) ==
  [k \in AndIndices(s.circuit) |->
     ((andedMacs[0][k] \oplus tripleMacs[0][k])
        \oplus AndAllBits(anded[k] # triple[k], s.alpha0))
       \oplus (CellsG(s, m, bits, macs, dual, GateOf(s, k).in0, GateOf(s, k).in1)
                 \oplus CellsG(s, m, bits, macs, dual, GateOf(s, k).in1, GateOf(s, k).in0))]

SumsOfE(s, m, keys, andedKeys, tripleKeys) ==
  [k \in AndIndices(s.circuit) |->
     (andedKeys[0][k] \oplus tripleKeys[0][k])
       \oplus (CellsE(s, m, keys, GateOf(s, k).in0, GateOf(s, k).in1)
                 \oplus CellsE(s, m, keys, GateOf(s, k).in1, GateOf(s, k).in0))]

LsbsOf(s, sums) == [k \in AndIndices(s.circuit) |-> GetLSB(sums[k])]

TripleOfE(s, lsbs, sums, anded) ==
  [k \in AndIndices(s.circuit) |-> (lsbs[k] # GetLSB(sums[k])) # anded[k]]

-----------------------------------------------------------------------------
(* Where both parties can be, and how many messages are on their way. *)
Locations ==
  {<<"matrix", "matrix", 0, 0>>, <<"matrix", "bStar", 0, 0>>, <<"matrix", "bStar", 1, 0>>,
   <<"bStar", "matrix", 0, 0>>, <<"bStar", "bStar", 0, 0>>,
   <<"dualBStar", "dualBStar", 0, 0>>, <<"dualBStarDiff", "aMatrix", 1, 0>>,
   <<"aMatrix", "aMatrix", 0, 0>>, <<"tmpDelta", "tmpDelta", 0, 0>>,
   <<"triple", "tmpDeltaDiff", 0, 1>>, <<"triple", "triple", 0, 0>>,
   <<"tmpDelta5", "tmpDelta5", 0, 0>>}
  \cup
  {<<"populate", "tmpDelta5Diff", 0, 1>>, <<"evaluatorAnded", "tmpDelta5Diff", 0, 1>>,
   <<"populate", "populate", 0, 0>>, <<"populate", "evaluatorAnded", 0, 0>>,
   <<"evaluatorAnded", "populate", 0, 0>>, <<"evaluatorAnded", "evaluatorAnded", 0, 0>>}
  \cup
  {<<"evaluatorAndedDiff", "anded", 1, 0>>, <<"anded", "anded", 0, 0>>,
   <<"sums", "andedDiff", 0, 1>>, <<"beaverTriple", "andedDiff", 0, 2>>,
   <<"sums", "sums", 0, 0>>, <<"sums", "lsb", 0, 0>>, <<"beaverTriple", "sums", 0, 1>>,
   <<"beaverTriple", "lsb", 0, 1>>, <<"beaverTriple", "beaverTriple", 0, 0>>,
   <<"beaverTripleDiff", "check", 1, 0>>, <<"check", "check", 0, 0>>}

Control ==
  \E m, n \in 0 .. 2 : Holds(toG, m) /\ Holds(toE, n) /\ <<gpc, epc, m, n>> \in Locations

(* The garbler's constructions in order: what comes no later than ...      *)
UpToBStar == {"matrix", "bStar"}
UpToDual == UpToBStar \cup {"dualBStar"}
UpToA == UpToDual \cup {"dualBStarDiff", "aMatrix"}
UpToTmpDelta == UpToA \cup {"tmpDelta"}
UpToTriple == UpToTmpDelta \cup {"triple"}
UpToTmpDelta5 == UpToTriple \cup {"tmpDelta5"}
UpToPopulate == UpToTmpDelta5 \cup {"populate"}
UpToEvaluatorAnded == UpToPopulate \cup {"evaluatorAnded"}
UpToAnded == UpToEvaluatorAnded \cup {"evaluatorAndedDiff", "anded"}
UpToSums == UpToAnded \cup {"sums"}
UpToBeaverTriple == UpToSums \cup {"beaverTriple"}

(* ... and the evaluator's.                                                *)
EvaluatorUpToPopulate ==
  {"matrix", "bStar", "dualBStar", "aMatrix", "tmpDelta", "tmpDeltaDiff", "triple",
   "tmpDelta5", "tmpDelta5Diff", "populate"}
EvaluatorUpToSums == EvaluatorUpToPopulate \cup {"evaluatorAnded", "anded", "andedDiff", "sums"}
EvaluatorUpToLsb == EvaluatorUpToSums \cup {"lsb"}

(* The keys once the message that moves them has been read. *)
Once(pc, pending, fixed, keys) == IF pc = pending THEN fixed ELSE keys

Objects ==
  /\ setup \in Setups
  /\ gb = [n \in GarblerObjects |-> gb[n]]
  /\ ev = [n \in EvaluatorObjects |-> ev[n]]

MatrixStage ==
  /\ IF gpc = "matrix" THEN gb.matrix = Unset ELSE MatrixMade(setup, gb.matrix)
  /\ IF epc = "matrix" THEN ev.matrix = Unset ELSE MatrixMade(setup, ev.matrix)
  /\ gpc = "matrix" /\ epc # "matrix" =>
       IF RowsOf(setup) = 0 THEN toG = <<>> ELSE toG[1] = ev.matrix
  /\ gpc # "matrix" /\ epc = "matrix" => RowsOf(setup) = 0
  /\ gpc # "matrix" /\ epc # "matrix" => gb.matrix = ev.matrix

BStarStage ==
  IF gpc \in UpToBStar
  THEN /\ gb.bStarKeys = Unset /\ gb.bKeys = Unset /\ ev.bStar = Unset
       /\ ev.bStarMacs = Unset /\ ev.b = Unset /\ ev.bMacs = Unset
  ELSE BStarMade(setup, ev.matrix, ev.bStar, ev.bStarMacs, gb.bStarKeys, ev.b, ev.bMacs, gb.bKeys)

DualStage ==
  IF gpc \in UpToDual
  THEN gb.dualAuthedBStar = Unset /\ ev.dualMacs = Unset
  ELSE /\ gb.dualAuthedBStar \in BlocksOfLength(ColumnsOf(setup))
       /\ BlocksMade(Only(setup.deltaA), ColumnsOf(setup), DualValues(setup, ev.bStar),
            Only(ev.dualMacs),
            Once(gpc, "dualBStarDiff",
                 FixedBlockKeys(Only(gb.dualAuthedBStar), Only(setup.deltaA), toG[1]),
                 Only(gb.dualAuthedBStar)))

AStage ==
  IF gpc \in UpToA
  THEN gb.a = Unset /\ gb.aMacs = Unset /\ ev.aKeys = Unset
  ELSE BitsMade(Sid1Of(setup, ev.dualMacs), PlacesOf(setup), gb.a, gb.aMacs, ev.aKeys)

TmpDeltaStage ==
  IF gpc \in UpToTmpDelta
  THEN gb.tmpDelta = Unset /\ gb.tmpDeltaMacs = Unset /\ ev.tmpDeltaKeys = Unset
  ELSE /\ ev.tmpDeltaKeys \in TableOf(0 .. ColumnsOf(setup), 1)
       /\ BlocksMade(Sid1Of(setup, ev.dualMacs), 1, Only(gb.tmpDelta), gb.tmpDeltaMacs,
            Once(epc, "tmpDeltaDiff",
                 FixedBlockKeys(ev.tmpDeltaKeys, Sid1Of(setup, ev.dualMacs), toE[1]),
                 ev.tmpDeltaKeys))

TripleStage ==
  IF gpc \in UpToTriple
  THEN gb.triple = Unset /\ gb.tripleMacs = Unset /\ ev.tripleKeys = Unset
  ELSE BitsMade(Sid2Of(setup), AndsOf(setup), gb.triple, gb.tripleMacs, ev.tripleKeys)

TmpDelta5Stage ==
  IF gpc \in UpToTmpDelta5
  THEN gb.tmpDeltaMacs5 = Unset /\ ev.tmpDeltaKeys5 = Unset
  ELSE /\ ev.tmpDeltaKeys5 \in TableOf({0, 1}, 1)
       /\ BlocksMade(Sid2Of(setup), 1, Only(gb.tmpDelta), gb.tmpDeltaMacs5,
            Once(epc, "tmpDelta5Diff",
                 FixedBlockKeys(ev.tmpDeltaKeys5, Sid2Of(setup), toE[1]), ev.tmpDeltaKeys5))

PopulateStage ==
  /\ gb.populated =
       IF gpc \in UpToPopulate THEN Unset
       ELSE PopulateWires(setup.circuit,
              RowG(setup, gb.a, gb.aMacs[ColumnsOf(setup)], gb.bKeys))
  /\ ev.populated =
       IF epc \in EvaluatorUpToPopulate THEN Unset
       ELSE PopulateWires(setup.circuit,
              RowE(setup, ev.b, ev.bMacs, ev.aKeys[ColumnsOf(setup)]))

EvaluatorAndedStage ==
  IF gpc \in UpToEvaluatorAnded
  THEN gb.evaluatorAndedKeys = Unset /\ ev.anded = Unset /\ ev.andedMacs = Unset
  ELSE /\ ev.anded = AndedMasks(setup.circuit, ev.populated.masks)
       /\ gb.evaluatorAndedKeys \in BlocksOfLength(AndsOf(setup))
       /\ BitsMade(Only(setup.deltaA), AndsOf(setup), ev.anded, Only(ev.andedMacs),
            Once(gpc, "evaluatorAndedDiff",
                 FixedBitKeys(Only(gb.evaluatorAndedKeys), Only(setup.deltaA), toG[1]),
                 Only(gb.evaluatorAndedKeys)))

AndedStage ==
  IF gpc \in UpToAnded
  THEN gb.anded = Unset /\ gb.andedMacs = Unset /\ ev.garblerAndedKeys = Unset
  ELSE /\ gb.anded = AndedMasks(setup.circuit, gb.populated.masks)
       /\ ev.garblerAndedKeys \in TableOf({0, 1}, AndsOf(setup))
       /\ BitsMade(Sid2Of(setup), AndsOf(setup), gb.anded, gb.andedMacs,
            Once(epc, "andedDiff",
                 FixedBitKeys(ev.garblerAndedKeys, Sid2Of(setup), toE[1]), ev.garblerAndedKeys))

SumsStage ==
  /\ gb.sums =
       IF gpc \in UpToSums THEN Unset
       ELSE SumsOfG(setup, gb.matrix, gb.a, gb.aMacs, gb.dualAuthedBStar,
                    gb.anded, gb.andedMacs, gb.triple, gb.tripleMacs)
  /\ ev.sums =
       IF epc \in EvaluatorUpToSums THEN Unset
       ELSE SumsOfE(setup, ev.matrix, ev.aKeys, ev.garblerAndedKeys, ev.tripleKeys)
  /\ gpc = "beaverTriple" =>
       /\ epc = "andedDiff" => toE[2] = LsbsOf(setup, gb.sums)
       /\ epc \in {"sums", "lsb"} => toE[1] = LsbsOf(setup, gb.sums)
  /\ ev.triple =
       IF epc \in EvaluatorUpToLsb THEN Unset
       ELSE TripleOfE(setup, LsbsOf(setup, gb.sums), ev.sums, ev.anded)

BeaverTripleStage ==
  IF gpc \in UpToBeaverTriple
  THEN gb.tripleKeys = Unset /\ ev.tripleMacs = Unset
  ELSE /\ gb.tripleKeys \in BlocksOfLength(AndsOf(setup))
       /\ BitsMade(Only(setup.deltaA), AndsOf(setup), ev.triple, Only(ev.tripleMacs),
            Once(gpc, "beaverTripleDiff",
                 FixedBitKeys(Only(gb.tripleKeys), Only(setup.deltaA), toG[1]),
                 Only(gb.tripleKeys)))

Stages ==
  /\ MatrixStage /\ BStarStage /\ DualStage /\ AStage /\ TmpDeltaStage /\ TripleStage
  /\ TmpDelta5Stage /\ PopulateStage /\ EvaluatorAndedStage /\ AndedStage /\ SumsStage
  /\ BeaverTripleStage

IInv == Objects /\ Control /\ Stages

-----------------------------------------------------------------------------
(***************************************************************************)
(* What a setup gives, and the model's operators in terms of it.           *)
(***************************************************************************)
LEMMA SetupTypes ==
  ASSUME NEW s \in Setups
  PROVE  /\ WellFormed(s.circuit) /\ Parsed(s.circuit) /\ LegalKeys(s)
         /\ RowsOf(s) \in Nat /\ ColumnsOf(s) \in Nat \ {0} /\ AndsOf(s) \in Nat
         /\ PlacesOf(s) \in Nat /\ AndsOf(s) <= PlacesOf(s)
         /\ RowsOf(s) = AndsOf(s) + s.circuit.inputSize1
         /\ s.deltaA \in Block /\ s.deltaB \in Block /\ s.alpha0 \in Block /\ s.beta0 \in Block
         /\ Only(s.deltaA) \in [{0} -> Block] /\ DOMAIN Only(s.deltaA) = {0}
         /\ Sid2Of(s) \in [{0, 1} -> Block] /\ DOMAIN Sid2Of(s) = {0, 1}
         /\ \A macs : DOMAIN Sid1Of(s, macs) = 0 .. ColumnsOf(s)
         /\ \A macs \in BlocksOfLength(ColumnsOf(s)) :
              Sid1Of(s, macs) \in [0 .. ColumnsOf(s) -> Block]
<1>1. /\ WellFormed(s.circuit) /\ Parsed(s.circuit) /\ LegalKeys(s)
      /\ CompressParam(EvaluatorWires(s.circuit)) \in Nat \ {0}
  BY SetupsAssumption
<1>2. AndGateSize(s.circuit) \in Nat /\ s.circuit.inputSize0 \in Nat /\ s.circuit.inputSize1 \in Nat
  BY <1>1, AndGatesFinite DEF WellFormed
<1>3. /\ RowsOf(s) \in Nat /\ ColumnsOf(s) \in Nat \ {0} /\ AndsOf(s) \in Nat
      /\ PlacesOf(s) \in Nat /\ AndsOf(s) <= PlacesOf(s)
      /\ RowsOf(s) = AndsOf(s) + s.circuit.inputSize1
  BY <1>1, <1>2 DEF RowsOf, ColumnsOf, AndsOf, PlacesOf, EvaluatorWires, IndependentSize,
     TotalInputSize
<1>4. s.deltaA \in Block /\ s.deltaB \in Block /\ s.alpha0 \in Block /\ s.beta0 \in Block
  BY <1>1 DEF LegalKeys
<1>5. /\ Only(s.deltaA) \in [{0} -> Block] /\ DOMAIN Only(s.deltaA) = {0}
      /\ Sid2Of(s) \in [{0, 1} -> Block] /\ DOMAIN Sid2Of(s) = {0, 1}
  BY <1>4 DEF Only, Sid2Of
<1>6. \A macs : DOMAIN Sid1Of(s, macs) = 0 .. ColumnsOf(s)
  BY DEF Sid1Of
<1>7. ASSUME NEW macs \in BlocksOfLength(ColumnsOf(s))
      PROVE  Sid1Of(s, macs) \in [0 .. ColumnsOf(s) -> Block]
  <2>1. \A d \in 0 .. ColumnsOf(s) : d # ColumnsOf(s) => d \in Below(ColumnsOf(s))
    BY <1>3 DEF Below
  <2> QED  BY <1>3, <1>4, <2>1 DEF Sid1Of, BlocksOfLength
<1> QED  BY <1>1, <1>3, <1>4, <1>5, <1>6, <1>7

LEMMA OfSetup ==
  /\ circuit = setup.circuit /\ deltaA = setup.deltaA /\ deltaB = setup.deltaB
  /\ rows = RowsOf(setup) /\ L = ColumnsOf(setup)
  /\ AndGateSize(circuit) = AndsOf(setup) /\ IndependentSize(circuit) = PlacesOf(setup)
  /\ Sid2 = Sid2Of(setup) /\ \A macs : Sid1(macs) = Sid1Of(setup, macs)
BY DEF circuit, deltaA, deltaB, rows, L, RowsOf, ColumnsOf, AndsOf, PlacesOf, Sid2, Sid2Of,
   Sid1, Sid1Of

(* Random vectors are vectors of bits and of blocks. *)
LEMMA RandomTypes ==
  ASSUME setup \in Setups, NEW name \in RandomVectors, NEW n,
         n \in {ColumnsOf(setup), PlacesOf(setup), AndsOf(setup), 1}
  PROVE  /\ RandomBits(name, n) \in BitsOfLength(n)
         /\ RandomBlocks(name, n) \in BlocksOfLength(n)
         /\ \A deltas : DOMAIN deltas \subseteq 0 .. ColumnsOf(setup) =>
              RandomKeys(name, deltas, n) \in TableOf(DOMAIN deltas, n)
<1>1. Below(n) \subseteq Below(ColumnsOf(setup)) \cup Below(PlacesOf(setup))
  BY SetupTypes DEF Below
<1>2. \A i \in Below(ColumnsOf(setup)) \cup Below(PlacesOf(setup)) :
        /\ RandomBit(setup.seed, name, i) \in BOOLEAN
        /\ \A d \in 0 .. ColumnsOf(setup) : RandomBlock(setup.seed, name, d, i) \in Block
  BY RandomValuesAssumption DEF ColumnsOf, RowsOf, PlacesOf
<1>3. RandomBits(name, n) \in BitsOfLength(n)
  BY <1>1, <1>2 DEF RandomBits, BitsOfLength
<1>4. ASSUME NEW deltas, DOMAIN deltas \subseteq 0 .. ColumnsOf(setup)
      PROVE  RandomKeys(name, deltas, n) \in TableOf(DOMAIN deltas, n)
  BY <1>1, <1>2, <1>4 DEF RandomKeys, TableOf, BlocksOfLength
<1>5. RandomBlocks(name, n) \in BlocksOfLength(n)
  <2>1. DOMAIN Only(ZeroBlock) = {0} /\ {0} \subseteq 0 .. ColumnsOf(setup)
    BY SetupTypes DEF Only
  <2>2. RandomKeys(name, Only(ZeroBlock), n) \in TableOf({0}, n)
    BY <1>4, <2>1
  <2> QED  BY <2>2 DEF RandomBlocks, TableOf
<1> QED  BY <1>3, <1>4, <1>5

-----------------------------------------------------------------------------
(***************************************************************************)
(* Every action preserves the invariant.  First what the actions share:    *)
(* where they leave the parties, and what their OTs leave authenticated.   *)
(***************************************************************************)
LEMMA HoldsOne == \A x : Holds(<<x>>, 1) /\ <<x>>[1] = x
BY DEF Holds

(* A construction that both parties enter together: no message is on its   *)
(* way before it, and mG and mE messages are afterwards.                   *)
LEMMA TogetherControl ==
  ASSUME Control, NEW g, NEW e, NEW g2, NEW e2, Together(g, g2, e, e2),
         NEW mG \in {0, 1}, NEW mE \in {0, 1}, Holds(toG', mG), Holds(toE', mE),
         <<g2, e2, mG, mE>> \in Locations
  PROVE  Control' /\ setup' = setup /\ gpc = g /\ gpc' = g2 /\ epc = e /\ epc' = e2
BY DEF Control, Together

(* The garbler reads the one message that is on its way to it, while the   *)
(* evaluator waits for it at e.                                            *)
LEMMA GarblerReads ==
  ASSUME Control, NEW g, NEW g2, NEW e, GarblerStep(g, g2), ReadG,
         \A e1, m, n : <<g, e1, m, n>> \in Locations => m = 0 \/ (e1 = e /\ m = 1 /\ n = 0),
         <<g2, e, 0, 0>> \in Locations
  PROVE  /\ Control' /\ setup' = setup /\ gpc = g /\ gpc' = g2 /\ epc = e /\ epc' = e
         /\ ev' = ev /\ Head(toG) = toG[1] /\ toE' = toE /\ Holds(toG, 1)
<1>1. /\ gpc = g /\ gpc' = g2 /\ setup' = setup /\ epc' = epc /\ ev' = ev
      /\ toG # <<>> /\ toG' = Tail(toG) /\ toE' = toE
  BY DEF GarblerStep, ReadG
<1>2. PICK m \in 0 .. 2, n \in 0 .. 2 :
        Holds(toG, m) /\ Holds(toE, n) /\ <<g, epc, m, n>> \in Locations
  BY <1>1 DEF Control
<1>3. m # 0
  BY <1>1, <1>2 DEF Holds
<1>4. epc = e /\ m = 1 /\ n = 0
  BY <1>2, <1>3
<1>5. Head(toG) = toG[1] /\ Holds(Tail(toG), 0)
  BY <1>1, <1>2, <1>4, QueueTail
<1>6. Control'
  <2>1. Holds(toG', 0) /\ Holds(toE', 0) /\ <<gpc', epc', 0, 0>> \in Locations
    BY <1>1, <1>2, <1>4, <1>5
  <2> QED  BY <2>1 DEF Control
<1> QED  BY <1>1, <1>2, <1>4, <1>5, <1>6

(* The evaluator reads the first of the messages on their way to it.       *)
LEMMA EvaluatorReads ==
  ASSUME Control, NEW e, NEW e2, EvaluatorStep(e, e2), ReadE,
         \A g, m, n : <<g, e, m, n>> \in Locations /\ n # 0 =>
           m = 0 /\ n \in {1, 2} /\ <<g, e2, 0, n - 1>> \in Locations
  PROVE  /\ Control' /\ setup' = setup /\ epc = e /\ epc' = e2 /\ gpc' = gpc
         /\ gb' = gb /\ Head(toE) = toE[1] /\ toG' = toG /\ toG = <<>>
         /\ \E n \in {1, 2} : /\ <<gpc, e, 0, n>> \in Locations
                              /\ n = 2 => toE'[1] = toE[2]
<1>1. /\ epc = e /\ epc' = e2 /\ setup' = setup /\ gpc' = gpc /\ gb' = gb
      /\ toE # <<>> /\ toE' = Tail(toE) /\ toG' = toG
  BY DEF EvaluatorStep, ReadE
<1>2. PICK m \in 0 .. 2, n \in 0 .. 2 :
        Holds(toG, m) /\ Holds(toE, n) /\ <<gpc, e, m, n>> \in Locations
  BY <1>1 DEF Control
<1>3. n # 0
  BY <1>1, <1>2 DEF Holds
<1>4. m = 0 /\ n \in {1, 2} /\ <<gpc, e2, 0, n - 1>> \in Locations
  BY <1>2, <1>3
<1>5. Head(toE) = toE[1] /\ Holds(Tail(toE), n - 1) /\ (n = 2 => Tail(toE)[1] = toE[2])
  BY <1>1, <1>2, QueueTail
<1>6. Control'
  <2>1. Holds(toG', 0) /\ Holds(toE', n - 1) /\ <<gpc', epc', 0, n - 1>> \in Locations
        /\ n - 1 \in 0 .. 2
    BY <1>1, <1>2, <1>4, <1>5
  <2> QED  BY <2>1 DEF Control
<1>7. toG = <<>>
  BY <1>2, <1>4 DEF Holds
<1> QED  BY <1>1, <1>2, <1>4, <1>5, <1>6, <1>7

LEMMA OnlyTable ==
  ASSUME NEW n, NEW t \in TableOf({0}, n)
  PROVE  Only(t[0]) = t /\ t[0] \in BlocksOfLength(n)
BY DEF TableOf, Only

(* Random choices and their MACs; values after the difference was applied. *)
LEMMA ChoicesMade ==
  ASSUME NEW D, NEW n, NEW deltas \in [D -> Block], NEW keys \in TableOf(D, n),
         NEW choices \in BitsOfLength(n)
  PROVE  BitsMade(deltas, n, choices, BitMacs(keys, deltas, choices), keys)
<1>1. DOMAIN deltas = D
  OBVIOUS
<1> QED  BY <1>1, BitsFixed DEF BitsMade

LEMMA BitsFixedMade ==
  ASSUME NEW D, NEW n, NEW deltas \in [D -> Block], NEW keys \in TableOf(D, n),
         NEW choices \in BitsOfLength(n), NEW bits \in BitsOfLength(n)
  PROVE  BitsMade(deltas, n, bits, BitMacs(keys, deltas, choices),
                  FixedBitKeys(keys, deltas, BitDiff(choices, bits)))
<1>1. DOMAIN deltas = D
  OBVIOUS
<1> QED  BY <1>1, BitsFixed DEF BitsMade

LEMMA BlocksFixedMade ==
  ASSUME NEW D, NEW n, NEW deltas \in [D -> Block], NEW keys \in TableOf(D, n),
         NEW choices \in BlocksOfLength(n), NEW blocks \in BlocksOfLength(n)
  PROVE  BlocksMade(deltas, n, blocks, BlockMacs(keys, deltas, choices),
                    FixedBlockKeys(keys, deltas, BlockDiff(choices, blocks)))
<1>1. DOMAIN deltas = D
  OBVIOUS
<1> QED  BY <1>1, BlocksFixed DEF BlocksMade

(* There is one matrix without rows. *)
LEMMA NoRows ==
  ASSUME NEW s \in Setups, RowsOf(s) = 0
  PROVE  MatrixMade(s, <<>>) /\ \A m : MatrixMade(s, m) => m = <<>>
<1> DEFINE S == BitsOfLength(ColumnsOf(s))
<1>1. Below(RowsOf(s)) = {}
  BY DEF Below
<1>2. <<>> \in [{} -> S]
  OBVIOUS
<1>3. \A m : m \in [{} -> S] => m = <<>>
  OBVIOUS
<1> HIDE DEF S
<1> QED  BY <1>1, <1>2, <1>3 DEF MatrixMade, S

LEMMA SendMatrixKeeps ==
  ASSUME IInv, SendMatrix
  PROVE  IInv'
<1> DEFINE m == [r \in Below(rows) |->
                  [l \in Below(L) |-> RandomBit(setup.seed, "matrix", r * L + l)]]
<1>1. /\ epc = "matrix" /\ epc' = "bStar" /\ setup' = setup /\ gpc' = gpc /\ gb' = gb
      /\ ev' = [ev EXCEPT !.matrix = m]
      /\ IF RowsOf(setup) = 0 THEN toG' = toG /\ toE' = toE ELSE toG' = Append(toG, m) /\ toE' = toE
      /\ setup \in Setups
  BY OfSetup DEF SendMatrix, EvaluatorStep, SendG, Quiet, IInv, Objects
<1>m. MatrixMade(setup, m)
  BY RandomValuesAssumption, OfSetup DEF IInv, Objects, MatrixMade, RowsOf, ColumnsOf, BitsOfLength
<1> HIDE DEF m
<1>2. /\ Control' /\ gpc \in {"matrix", "bStar"} /\ (RowsOf(setup) # 0 => gpc = "matrix" /\ toG'[1] = m)
      /\ (RowsOf(setup) = 0 => toG' = <<>>)
  <2>1. gpc \in {"matrix", "bStar"} /\ Holds(toG, 0) /\ Holds(toE, 0) /\ toG = <<>>
    BY <1>1 DEF IInv, Control, Locations, Holds
  <2>2. CASE RowsOf(setup) = 0
    <3>1. Holds(toG', 0) /\ Holds(toE', 0) /\ <<gpc', epc', 0, 0>> \in Locations
      BY <1>1, <2>1, <2>2 DEF Locations
    <3>2. Control'
      BY <3>1 DEF Control
    <3>3. toG' = <<>>
      BY <1>1, <2>1, <2>2
    <3> QED  BY <2>1, <2>2, <3>2, <3>3
  <2>3. CASE RowsOf(setup) # 0
    <3>1. gpc = "matrix"
      BY <1>1, <2>3 DEF IInv, Stages, MatrixStage
    <3>2. Append(<<>>, m) = <<m>>
      OBVIOUS
    <3>3. toG' = <<m>> /\ toE' = toE
      <4>1. toG' = Append(toG, m) /\ toE' = toE
        BY <1>1, <2>3
      <4> QED  BY <2>1, <3>2, <4>1, Zenon
    <3>4. Holds(toG', 1) /\ toG'[1] = m /\ Holds(toE', 0)
      BY <2>1, <3>3, HoldsOne
    <3>5. <<gpc', epc', 1, 0>> \in Locations
      BY <1>1, <3>1 DEF Locations
    <3>6. Control'
      BY <3>4, <3>5 DEF Control
    <3> QED  BY <2>3, <3>1, <3>4, <3>6
  <2> QED  BY <2>2, <2>3
<1>3. /\ Objects' /\ ev'.matrix = m
      /\ gb' = gb
      /\ \A n \in EvaluatorObjects : n # "matrix" => ev'[n] = ev[n]
  BY <1>1, <1>2 DEF IInv, Objects, GarblerObjects, EvaluatorObjects
<1>4. BStarStage' /\ DualStage' /\ AStage' /\ TmpDeltaStage' /\ TripleStage' /\ TmpDelta5Stage'
      /\ PopulateStage' /\ EvaluatorAndedStage' /\ AndedStage' /\ SumsStage' /\
      BeaverTripleStage'
  BY <1>1, <1>2, <1>3 DEF IInv, Stages, GarblerObjects, EvaluatorObjects, BStarStage, DualStage,
     AStage, TmpDeltaStage, TripleStage, TmpDelta5Stage, PopulateStage, EvaluatorAndedStage,
     AndedStage, SumsStage, BeaverTripleStage, UpToBStar, UpToDual, UpToA, UpToTmpDelta,
     UpToTriple, UpToTmpDelta5, UpToPopulate, UpToEvaluatorAnded, UpToAnded, UpToSums,
     UpToBeaverTriple, EvaluatorUpToPopulate, EvaluatorUpToSums, EvaluatorUpToLsb, Once
<1>5. MatrixStage'
  <2>1. gpc # "matrix" => MatrixMade(setup, gb.matrix) /\ gb.matrix = m
    <3>1. ASSUME gpc # "matrix"
          PROVE  MatrixMade(setup, gb.matrix) /\ RowsOf(setup) = 0
      BY <1>1, <3>1 DEF IInv, Stages, MatrixStage
    <3> QED  BY <1>1, <1>m, <3>1, NoRows
  <2>2. gpc = "matrix" => gb.matrix = Unset
    BY DEF IInv, Stages, MatrixStage
  <2> QED  BY <1>m, <1>1, <1>2, <1>3, <2>1, <2>2 DEF MatrixStage
<1> QED  BY <1>2, <1>3, <1>4, <1>5 DEF IInv, Stages

LEMMA RecvMatrixKeeps ==
  ASSUME IInv, RecvMatrix
  PROVE  IInv'
<1>1. /\ GarblerStep("matrix", "bStar") /\ setup \in Setups
      /\ gpc = "matrix" /\ gpc' = "bStar" /\ setup' = setup /\ epc' = epc /\ ev' = ev
      /\ \/ RowsOf(setup) = 0 /\ toG' = toG /\ toE' = toE /\ gb' = [gb EXCEPT !.matrix = <<>>]
         \/ RowsOf(setup) # 0 /\ ReadG /\ gb' = [gb EXCEPT !.matrix = Head(toG)]
  BY OfSetup DEF RecvMatrix, GarblerStep, Quiet, IInv, Objects
<1> DEFINE m == gb'.matrix
<1>2. /\ Control' /\ epc \in {"matrix", "bStar"} /\ MatrixMade(setup, m)
      /\ IF epc = "matrix" THEN RowsOf(setup) = 0 ELSE m = ev.matrix
  <2>1. CASE RowsOf(setup) = 0
    <3>1. toG' = toG /\ toE' = toE /\ gb' = [gb EXCEPT !.matrix = <<>>]
      BY <1>1, <2>1
    <3>2. m = <<>> /\ MatrixMade(setup, <<>>) /\ \A n : MatrixMade(setup, n) => n = <<>>
      BY <1>1, <2>1, <3>1, NoRows DEF IInv, Objects, GarblerObjects
    <3>3. /\ epc \in {"matrix", "bStar"}
          /\ epc # "matrix" => MatrixMade(setup, ev.matrix)
      BY <1>1 DEF IInv, Control, Locations, Stages, MatrixStage
    <3>4. Control'
      <4>1. PICK k \in 0 .. 2, n \in 0 .. 2 :
              Holds(toG, k) /\ Holds(toE, n) /\ <<"matrix", epc, k, n>> \in Locations
        BY <1>1 DEF IInv, Control
      <4>2. k = 0
        <5>1. epc # "matrix" => toG = <<>>
          BY <1>1, <2>1 DEF IInv, Stages, MatrixStage
        <5>2. epc = "matrix" => k = 0
          BY <4>1 DEF Locations
        <5> QED  BY <4>1, <5>1, <5>2 DEF Holds
      <4>3. <<gpc', epc', k, n>> \in Locations
        BY <1>1, <4>1, <4>2 DEF Locations
      <4> QED  BY <1>1, <3>1, <4>1, <4>3 DEF Control
    <3> QED  BY <2>1, <3>2, <3>3, <3>4
  <2>2. CASE RowsOf(setup) # 0
    <3>1. ReadG /\ gb' = [gb EXCEPT !.matrix = Head(toG)]
      BY <1>1, <2>2
    <3>2. /\ \A e1, k, n : <<"matrix", e1, k, n>> \in Locations =>
                             k = 0 \/ (e1 = "bStar" /\ k = 1 /\ n = 0)
          /\ <<"bStar", "bStar", 0, 0>> \in Locations
      BY DEF Locations
    <3>3. Control' /\ epc = "bStar" /\ Head(toG) = toG[1]
      BY <1>1, <3>1, <3>2, GarblerReads DEF IInv
    <3>4. toG[1] = ev.matrix /\ MatrixMade(setup, ev.matrix)
      BY <1>1, <2>2, <3>3 DEF IInv, Stages, MatrixStage
    <3>5. m = Head(toG)
      BY <3>1 DEF IInv, Objects, GarblerObjects
    <3> QED  BY <3>3, <3>4, <3>5
  <2> QED  BY <2>1, <2>2
<1>3. /\ Objects' /\ \A n \in GarblerObjects : n # "matrix" => gb'[n] = gb[n]
      /\ ev' = ev
  BY <1>1 DEF IInv, Objects, GarblerObjects, EvaluatorObjects
<1> HIDE DEF m
<1>4. BStarStage' /\ DualStage' /\ AStage' /\ TmpDeltaStage' /\ TripleStage' /\ TmpDelta5Stage'
      /\ PopulateStage' /\ EvaluatorAndedStage' /\ AndedStage' /\ SumsStage' /\
      BeaverTripleStage'
  BY <1>1, <1>2, <1>3 DEF IInv, Stages, GarblerObjects, EvaluatorObjects, BStarStage, DualStage,
     AStage, TmpDeltaStage, TripleStage, TmpDelta5Stage, PopulateStage, EvaluatorAndedStage,
     AndedStage, SumsStage, BeaverTripleStage, UpToBStar, UpToDual, UpToA, UpToTmpDelta,
     UpToTriple, UpToTmpDelta5, UpToPopulate, UpToEvaluatorAnded, UpToAnded, UpToSums,
     UpToBeaverTriple, EvaluatorUpToPopulate, EvaluatorUpToSums, EvaluatorUpToLsb, Once
<1>5. MatrixStage'
  <2>1. IF epc = "matrix" THEN ev.matrix = Unset ELSE MatrixMade(setup, ev.matrix)
    BY DEF IInv, Stages, MatrixStage
  <2> QED  BY <1>1, <1>2, <2>1 DEF MatrixStage, m
<1> QED  BY <1>1, <1>2, <1>3, <1>4, <1>5 DEF IInv, Stages

LEMMA BStarKeeps ==
  ASSUME IInv, BStar
  PROVE  IInv'
<1> DEFINE deltas == Only(deltaA)
           keys == RandomKeys("bStar", deltas, L)
           bits == RandomBits("bStar", L)
           macs == BitMacs(keys, deltas, bits)
           b == TimesBits(ev.matrix, bits)
           bMacs == TimesBlocks(ev.matrix, macs[0])
           bKeys == TimesBlocks(gb.matrix, keys[0])
<1>1. /\ Together("bStar", "dualBStar", "bStar", "dualBStar")
      /\ gb' = [gb EXCEPT !.bStarKeys = keys[0], !.bKeys = bKeys]
      /\ ev' = [ev EXCEPT !.bStar = bits, !.bStarMacs = macs[0], !.b = b, !.bMacs = bMacs]
      /\ toG' = toG /\ toE' = toE /\ toG = <<>> /\ toE = <<>>
  BY DEF BStar, Together
<1>2. /\ Control' /\ setup' = setup /\ gpc = "bStar" /\ gpc' = "dualBStar"
      /\ epc = "bStar" /\ epc' = "dualBStar"
  <2>1. Holds(toG', 0) /\ Holds(toE', 0) /\ <<"dualBStar", "dualBStar", 0, 0>> \in Locations
    BY <1>1 DEF Holds, Locations
  <2> QED  BY <1>1, <2>1, TogetherControl DEF IInv
<1>6. BStarMade(setup, ev.matrix, bits, macs[0], keys[0], b, bMacs, bKeys)
  <2> DEFINE n == ColumnsOf(setup)
             delta == setup.deltaA
  <2>1. /\ setup \in Setups /\ gb.matrix = ev.matrix /\ L = n /\ deltas = Only(delta)
        /\ n \in Nat /\ delta \in Block /\ deltas \in [{0} -> Block] /\ DOMAIN deltas = {0}
        /\ ev.matrix \in [Below(RowsOf(setup)) -> BitsOfLength(n)]
    BY <1>2, OfSetup, SetupTypes DEF IInv, Objects, Stages, MatrixStage, MatrixMade
  <2>2. bits \in BitsOfLength(n) /\ keys \in TableOf({0}, n)
    <3>1. "bStar" \in RandomVectors /\ {0} \subseteq 0 .. n
      BY <2>1, SetupTypes DEF RandomVectors
    <3>2. DOMAIN deltas \subseteq 0 .. ColumnsOf(setup)
      BY <2>1, <3>1
    <3> QED  BY <2>1, <3>1, <3>2, RandomTypes
  <2> HIDE DEF deltas, keys, bits
  <2>3. /\ macs \in TableOf({0}, n) /\ BitsAuthentic(bits, macs, keys, deltas)
        /\ BitsMade(deltas, n, bits, macs, keys)
    BY <2>1, <2>2, BitsFixed, ChoicesMade
  <2>4. /\ Only(macs[0]) = macs /\ Only(keys[0]) = keys
        /\ macs[0] \in BlocksOfLength(n) /\ keys[0] \in BlocksOfLength(n)
    BY <2>2, <2>3, OnlyTable
  <2> HIDE DEF macs
  <2>5. \A l \in Below(n) : macs[0][l] = keys[0][l] \oplus AndAllBits(bits[l], delta)
    <3>1. DOMAIN bits = Below(n) /\ deltas[0] = delta
      BY <2>1, <2>2 DEF BitsOfLength, Only
    <3> QED  BY <2>1, <2>3, <3>1 DEF BitsAuthentic, Authentic
  <2> HIDE DEF n, delta
  <2>6. /\ b \in BitsOfLength(RowsOf(setup))
        /\ bKeys \in BlocksOfLength(RowsOf(setup)) /\ bMacs \in BlocksOfLength(RowsOf(setup))
        /\ \A i \in Below(RowsOf(setup)) : Authentic(b[i], bMacs[i], bKeys[i], delta)
    BY <2>1, <2>2, <2>4, <2>5, TimesAuthentic
  <2> HIDE DEF b, bMacs, bKeys
  <2>7. BitsMade(Only(delta), RowsOf(setup), b, Only(bMacs), Only(bKeys))
    BY <2>1, <2>6 DEF BitsMade, BitsAuthentic, Only, TableOf, BitsOfLength
  <2> QED  BY <2>1, <2>3, <2>4, <2>7 DEF BStarMade, b, n, delta
<1> HIDE DEF keys, bits, macs, b, bMacs, bKeys
<1>3. /\ Objects' /\ gb'.bStarKeys = keys[0] /\ gb'.bKeys = bKeys /\ ev'.bStar = bits
      /\ ev'.bStarMacs = macs[0] /\ ev'.b = b /\ ev'.bMacs = bMacs
      /\ \A n \in GarblerObjects \ {"bStarKeys", "bKeys"} : gb'[n] = gb[n]
      /\ \A n \in EvaluatorObjects \ {"bStar", "bStarMacs", "b", "bMacs"} : ev'[n] = ev[n]
  BY <1>1, <1>2 DEF IInv, Objects, GarblerObjects, EvaluatorObjects
<1>4. MatrixStage' /\ DualStage' /\ AStage' /\ TmpDeltaStage' /\ TripleStage' /\ TmpDelta5Stage'
      /\ PopulateStage' /\ EvaluatorAndedStage' /\ AndedStage' /\ SumsStage' /\
      BeaverTripleStage'
  BY <1>2, <1>3 DEF IInv, Stages, GarblerObjects, EvaluatorObjects, MatrixStage, DualStage,
     AStage, TmpDeltaStage, TripleStage, TmpDelta5Stage, PopulateStage, EvaluatorAndedStage,
     AndedStage, SumsStage, BeaverTripleStage, UpToBStar, UpToDual, UpToA, UpToTmpDelta,
     UpToTriple, UpToTmpDelta5, UpToPopulate, UpToEvaluatorAnded, UpToAnded, UpToSums,
     UpToBeaverTriple, EvaluatorUpToPopulate, EvaluatorUpToSums, EvaluatorUpToLsb, Once
<1>5. BStarStage'
  BY <1>2, <1>3, <1>6 DEF BStarStage, UpToBStar, EvaluatorObjects
<1> QED  BY <1>2, <1>3, <1>4, <1>5 DEF IInv, Stages

LEMMA DualBStarKeeps ==
  ASSUME IInv, DualBStar
  PROVE  IInv'
<1> DEFINE deltas == Only(deltaA)
           keys == RandomKeys("dualBStar", deltas, L)
           choices == RandomBlocks("dualBStarChoices", L)
           values == [l \in Below(L) |-> AndAllBits(ev.bStar[l], deltaB)]
           macs == BlockMacs(keys, deltas, choices)
           diff == BlockDiff(choices, values)
<1>1. /\ Together("dualBStar", "dualBStarDiff", "dualBStar", "aMatrix")
      /\ gb' = [gb EXCEPT !.dualAuthedBStar = keys[0]]
      /\ ev' = [ev EXCEPT !.dualMacs = macs[0]]
      /\ toG' = <<diff>> /\ toE' = toE /\ toE = <<>>
  BY DEF DualBStar, Together
<1>2. /\ Control' /\ setup' = setup /\ gpc = "dualBStar" /\ gpc' = "dualBStarDiff"
      /\ epc = "dualBStar" /\ epc' = "aMatrix" /\ toG'[1] = diff
  <2>1. Holds(toG', 1) /\ Holds(toE', 0) /\ toG'[1] = diff
    BY <1>1, HoldsOne DEF Holds
  <2>2. <<"dualBStarDiff", "aMatrix", 1, 0>> \in Locations
    BY DEF Locations
  <2> QED  BY <1>1, <2>1, <2>2, TogetherControl DEF IInv
<1>6. /\ keys[0] \in BlocksOfLength(ColumnsOf(setup))
      /\ BlocksMade(Only(setup.deltaA), ColumnsOf(setup), DualValues(setup, ev.bStar),
           Only(macs[0]), FixedBlockKeys(Only(keys[0]), Only(setup.deltaA), diff))
  <2> DEFINE n == ColumnsOf(setup)
  <2>1. /\ setup \in Setups /\ L = n /\ deltas = Only(setup.deltaA)
        /\ deltas \in [{0} -> Block] /\ DOMAIN deltas = {0} /\ {0} \subseteq 0 .. n
        /\ values = DualValues(setup, ev.bStar)
    BY <1>2, OfSetup, SetupTypes DEF IInv, Objects, DualValues
  <2>2. values \in BlocksOfLength(n)
    <3>1. setup.deltaB \in Block
      BY <2>1, SetupTypes
    <3> QED  BY <2>1, <3>1, BlockType DEF DualValues, BlocksOfLength
  <2>3. choices \in BlocksOfLength(n) /\ keys \in TableOf({0}, n)
    <3>1. "dualBStar" \in RandomVectors /\ "dualBStarChoices" \in RandomVectors
      BY DEF RandomVectors
    <3> QED  BY <2>1, <3>1, RandomTypes
  <2> HIDE DEF deltas, keys, choices, values
  <2>4. /\ macs \in TableOf({0}, n)
        /\ BlocksMade(deltas, n, values, macs, FixedBlockKeys(keys, deltas, diff))
    BY <2>1, <2>2, <2>3, BlocksFixed, BlocksFixedMade
  <2> HIDE DEF macs
  <2>5. Only(macs[0]) = macs /\ Only(keys[0]) = keys /\ keys[0] \in BlocksOfLength(n)
    BY <2>3, <2>4, OnlyTable
  <2> QED  BY <2>1, <2>4, <2>5
<1> HIDE DEF keys, choices, values, macs, diff
<1>3. /\ Objects' /\ gb'.dualAuthedBStar = keys[0] /\ ev'.dualMacs = macs[0]
      /\ \A n \in GarblerObjects : n # "dualAuthedBStar" => gb'[n] = gb[n]
      /\ \A n \in EvaluatorObjects : n # "dualMacs" => ev'[n] = ev[n]
  BY <1>1, <1>2 DEF IInv, Objects, GarblerObjects, EvaluatorObjects
<1>4. MatrixStage' /\ BStarStage' /\ AStage' /\ TmpDeltaStage' /\ TripleStage' /\
      TmpDelta5Stage' /\ PopulateStage' /\ EvaluatorAndedStage' /\ AndedStage' /\ SumsStage' /\
      BeaverTripleStage'
  BY <1>2, <1>3 DEF IInv, Stages, GarblerObjects, EvaluatorObjects, MatrixStage, BStarStage,
     AStage, TmpDeltaStage, TripleStage, TmpDelta5Stage, PopulateStage, EvaluatorAndedStage,
     AndedStage, SumsStage, BeaverTripleStage, UpToBStar, UpToDual, UpToA, UpToTmpDelta,
     UpToTriple, UpToTmpDelta5, UpToPopulate, UpToEvaluatorAnded, UpToAnded, UpToSums,
     UpToBeaverTriple, EvaluatorUpToPopulate, EvaluatorUpToSums, EvaluatorUpToLsb, Once
<1>5. DualStage'
  BY <1>2, <1>3, <1>6 DEF DualStage, UpToDual, UpToBStar, Once, EvaluatorObjects
<1> QED  BY <1>2, <1>3, <1>4, <1>5 DEF IInv, Stages

LEMMA DualBStarDiffKeeps ==
  ASSUME IInv, DualBStarDiff
  PROVE  IInv'
<1> DEFINE fixed == FixedBlockKeys(Only(gb.dualAuthedBStar), Only(deltaA), Head(toG))
<1>1. /\ GarblerStep("dualBStarDiff", "aMatrix") /\ ReadG
      /\ gb' = [gb EXCEPT !.dualAuthedBStar = fixed[0]]
  BY DEF DualBStarDiff
<1>2. /\ Control' /\ setup' = setup /\ gpc = "dualBStarDiff" /\ gpc' = "aMatrix"
      /\ epc = "aMatrix" /\ epc' = "aMatrix" /\ ev' = ev /\ Head(toG) = toG[1]
  <2>1. /\ \A e1, m, n : <<"dualBStarDiff", e1, m, n>> \in Locations =>
                           m = 0 \/ (e1 = "aMatrix" /\ m = 1 /\ n = 0)
        /\ <<"aMatrix", "aMatrix", 0, 0>> \in Locations
    BY DEF Locations
  <2> QED  BY <1>1, <2>1, GarblerReads DEF IInv
<1>6. /\ fixed = FixedBlockKeys(Only(gb.dualAuthedBStar), Only(setup.deltaA), toG[1])
      /\ BlocksMade(Only(setup.deltaA), ColumnsOf(setup), DualValues(setup, ev.bStar),
           Only(ev.dualMacs), fixed)
  <2>1. fixed = FixedBlockKeys(Only(gb.dualAuthedBStar), Only(setup.deltaA), toG[1])
    BY <1>2, OfSetup
  <2> HIDE DEF fixed
  <2> QED  BY <1>2, <2>1 DEF IInv, Stages, DualStage, UpToDual, UpToBStar, Once
<1> HIDE DEF fixed
<1>7. Only(fixed[0]) = fixed /\ fixed[0] \in BlocksOfLength(ColumnsOf(setup))
  BY <1>6, OnlyTable, OnlyType DEF BlocksMade
<1>3. /\ Objects' /\ gb'.dualAuthedBStar = fixed[0]
      /\ \A n \in GarblerObjects : n # "dualAuthedBStar" => gb'[n] = gb[n]
      /\ ev' = ev
  BY <1>1, <1>2 DEF IInv, Objects, GarblerObjects, EvaluatorObjects
<1>4. MatrixStage' /\ BStarStage' /\ AStage' /\ TmpDeltaStage' /\ TripleStage' /\
      TmpDelta5Stage' /\ PopulateStage' /\ EvaluatorAndedStage' /\ AndedStage' /\ SumsStage' /\
      BeaverTripleStage'
  BY <1>2, <1>3 DEF IInv, Stages, GarblerObjects, EvaluatorObjects, MatrixStage, BStarStage,
     AStage, TmpDeltaStage, TripleStage, TmpDelta5Stage, PopulateStage, EvaluatorAndedStage,
     AndedStage, SumsStage, BeaverTripleStage, UpToBStar, UpToDual, UpToA, UpToTmpDelta,
     UpToTriple, UpToTmpDelta5, UpToPopulate, UpToEvaluatorAnded, UpToAnded, UpToSums,
     UpToBeaverTriple, EvaluatorUpToPopulate, EvaluatorUpToSums, EvaluatorUpToLsb, Once
<1>5. DualStage'
  BY <1>2, <1>3, <1>6, <1>7 DEF DualStage, UpToDual, UpToBStar, Once
<1> QED  BY <1>2, <1>3, <1>4, <1>5 DEF IInv, Stages

(* The dual keys are known once both parties left step 3. *)
LEMMA DualKnown ==
  ASSUME IInv, gpc \notin UpToDual
  PROVE  /\ setup \in Setups /\ ev.dualMacs \in BlocksOfLength(ColumnsOf(setup))
         /\ Sid1(ev.dualMacs) = Sid1Of(setup, ev.dualMacs)
         /\ Sid1(ev.dualMacs) \in [0 .. ColumnsOf(setup) -> Block]
         /\ DOMAIN Sid1(ev.dualMacs) = 0 .. ColumnsOf(setup)
<1>1. setup \in Setups /\ Only(ev.dualMacs) \in TableOf({0}, ColumnsOf(setup))
  BY OnlyType DEF IInv, Objects, Stages, DualStage, BlocksMade
<1>2. ev.dualMacs \in BlocksOfLength(ColumnsOf(setup))
  BY <1>1, OnlyTable, OnlyType
<1> QED  BY <1>1, <1>2, SetupTypes, OfSetup

(* A vector of one block. *)
LEMMA VectorOfOne ==
  ASSUME NEW v \in BlocksOfLength(1)
  PROVE  Only(v[0]) = v
<1>1. Below(1) = {0}
  BY DEF Below
<1> QED  BY <1>1 DEF BlocksOfLength, Only

LEMMA AMatrixKeeps ==
  ASSUME IInv, AMatrix
  PROVE  IInv'
<1> DEFINE deltas == Sid1(ev.dualMacs)
           keys == RandomKeys("aMatrix", deltas, IndependentSize(circuit))
           bits == RandomBits("aMatrix", IndependentSize(circuit))
           macs == BitMacs(keys, deltas, bits)
<1>1. /\ Together("aMatrix", "tmpDelta", "aMatrix", "tmpDelta")
      /\ gb' = [gb EXCEPT !.a = bits, !.aMacs = macs]
      /\ ev' = [ev EXCEPT !.aKeys = keys]
      /\ toG' = toG /\ toE' = toE /\ toG = <<>> /\ toE = <<>>
  BY DEF AMatrix, Together
<1>2. /\ Control' /\ setup' = setup /\ gpc = "aMatrix" /\ gpc' = "tmpDelta"
      /\ epc = "aMatrix" /\ epc' = "tmpDelta"
  <2>1. Holds(toG', 0) /\ Holds(toE', 0) /\ <<"tmpDelta", "tmpDelta", 0, 0>> \in Locations
    BY <1>1 DEF Holds, Locations
  <2> QED  BY <1>1, <2>1, TogetherControl DEF IInv
<1>6. BitsMade(Sid1Of(setup, ev.dualMacs), PlacesOf(setup), bits, macs, keys)
  <2> DEFINE n == PlacesOf(setup)
  <2>1. /\ setup \in Setups /\ IndependentSize(circuit) = n
        /\ deltas = Sid1Of(setup, ev.dualMacs)
        /\ deltas \in [0 .. ColumnsOf(setup) -> Block] /\ DOMAIN deltas = 0 .. ColumnsOf(setup)
    BY <1>2, DualKnown, OfSetup DEF UpToDual, UpToBStar
  <2>2. bits \in BitsOfLength(n) /\ keys \in TableOf(0 .. ColumnsOf(setup), n)
    <3>1. "aMatrix" \in RandomVectors
      BY DEF RandomVectors
    <3> QED  BY <2>1, <3>1, RandomTypes
  <2> HIDE DEF deltas, keys, bits, n
  <2>3. BitsMade(deltas, n, bits, macs, keys)
    BY <2>1, <2>2, ChoicesMade
  <2> QED  BY <2>1, <2>3 DEF n
<1> HIDE DEF deltas, keys, bits, macs
<1>3. /\ Objects' /\ gb'.a = bits /\ gb'.aMacs = macs /\ ev'.aKeys = keys
      /\ \A n \in GarblerObjects \ {"a", "aMacs"} : gb'[n] = gb[n]
      /\ \A n \in EvaluatorObjects : n # "aKeys" => ev'[n] = ev[n]
  BY <1>1, <1>2 DEF IInv, Objects, GarblerObjects, EvaluatorObjects
<1>4. MatrixStage' /\ BStarStage' /\ DualStage' /\ TmpDeltaStage' /\ TripleStage' /\
      TmpDelta5Stage' /\ PopulateStage' /\ EvaluatorAndedStage' /\ AndedStage' /\ SumsStage' /\
      BeaverTripleStage'
  BY <1>2, <1>3 DEF IInv, Stages, GarblerObjects, EvaluatorObjects, MatrixStage, BStarStage,
     DualStage, TmpDeltaStage, TripleStage, TmpDelta5Stage, PopulateStage, EvaluatorAndedStage,
     AndedStage, SumsStage, BeaverTripleStage, UpToBStar, UpToDual, UpToA, UpToTmpDelta,
     UpToTriple, UpToTmpDelta5, UpToPopulate, UpToEvaluatorAnded, UpToAnded, UpToSums,
     UpToBeaverTriple, EvaluatorUpToPopulate, EvaluatorUpToSums, EvaluatorUpToLsb, Once
<1>5. AStage'
  BY <1>2, <1>3, <1>6 DEF AStage, UpToA, UpToDual, UpToBStar, EvaluatorObjects
<1> QED  BY <1>2, <1>3, <1>4, <1>5 DEF IInv, Stages

LEMMA TmpDeltaKeeps ==
  ASSUME IInv, TmpDelta
  PROVE  IInv'
<1> DEFINE deltas == Sid1(ev.dualMacs)
           keys == RandomKeys("tmpDelta", deltas, 1)
           choices == RandomBlocks("tmpDeltaChoices", 1)
           value == RandomBlocks("tmpDeltaValue", 1)
           macs == BlockMacs(keys, deltas, choices)
           diff == BlockDiff(choices, value)
<1>1. /\ Together("tmpDelta", "triple", "tmpDelta", "tmpDeltaDiff")
      /\ gb' = [gb EXCEPT !.tmpDelta = value[0], !.tmpDeltaMacs = macs]
      /\ ev' = [ev EXCEPT !.tmpDeltaKeys = keys]
      /\ toE' = <<diff>> /\ toG' = toG /\ toG = <<>>
  BY DEF TmpDelta, Together
<1>2. /\ Control' /\ setup' = setup /\ gpc = "tmpDelta" /\ gpc' = "triple"
      /\ epc = "tmpDelta" /\ epc' = "tmpDeltaDiff" /\ toE'[1] = diff
  <2>1. Holds(toG', 0) /\ Holds(toE', 1) /\ toE'[1] = diff
    BY <1>1, HoldsOne DEF Holds
  <2>2. <<"triple", "tmpDeltaDiff", 0, 1>> \in Locations
    BY DEF Locations
  <2> QED  BY <1>1, <2>1, <2>2, TogetherControl DEF IInv
<1>6. /\ keys \in TableOf(0 .. ColumnsOf(setup), 1)
      /\ BlocksMade(Sid1Of(setup, ev.dualMacs), 1, Only(value[0]), macs,
                    FixedBlockKeys(keys, Sid1Of(setup, ev.dualMacs), diff))
  <2>1. /\ setup \in Setups /\ deltas = Sid1Of(setup, ev.dualMacs)
        /\ deltas \in [0 .. ColumnsOf(setup) -> Block] /\ DOMAIN deltas = 0 .. ColumnsOf(setup)
    BY <1>2, DualKnown DEF UpToDual, UpToBStar
  <2>2. /\ choices \in BlocksOfLength(1) /\ value \in BlocksOfLength(1)
        /\ keys \in TableOf(0 .. ColumnsOf(setup), 1)
    <3>1. {"tmpDelta", "tmpDeltaChoices", "tmpDeltaValue"} \subseteq RandomVectors
      BY DEF RandomVectors
    <3> QED  BY <2>1, <3>1, RandomTypes
  <2> HIDE DEF deltas, keys, choices, value
  <2>3. BlocksMade(deltas, 1, value, macs, FixedBlockKeys(keys, deltas, diff))
    BY <2>1, <2>2, BlocksFixedMade
  <2>4. Only(value[0]) = value
    BY <2>2, VectorOfOne
  <2> QED  BY <2>1, <2>2, <2>3, <2>4
<1> HIDE DEF deltas, keys, choices, value, macs, diff
<1>3. /\ Objects' /\ gb'.tmpDelta = value[0] /\ gb'.tmpDeltaMacs = macs
      /\ ev'.tmpDeltaKeys = keys
      /\ \A n \in GarblerObjects \ {"tmpDelta", "tmpDeltaMacs"} : gb'[n] = gb[n]
      /\ \A n \in EvaluatorObjects : n # "tmpDeltaKeys" => ev'[n] = ev[n]
  BY <1>1, <1>2 DEF IInv, Objects, GarblerObjects, EvaluatorObjects
<1>4. MatrixStage' /\ BStarStage' /\ DualStage' /\ AStage' /\ TripleStage' /\ TmpDelta5Stage' /\
      PopulateStage' /\ EvaluatorAndedStage' /\ AndedStage' /\ SumsStage' /\ BeaverTripleStage'
  BY <1>2, <1>3 DEF IInv, Stages, GarblerObjects, EvaluatorObjects, MatrixStage, BStarStage,
     DualStage, AStage, TripleStage, TmpDelta5Stage, PopulateStage, EvaluatorAndedStage,
     AndedStage, SumsStage, BeaverTripleStage, UpToBStar, UpToDual, UpToA, UpToTmpDelta,
     UpToTriple, UpToTmpDelta5, UpToPopulate, UpToEvaluatorAnded, UpToAnded, UpToSums,
     UpToBeaverTriple, EvaluatorUpToPopulate, EvaluatorUpToSums, EvaluatorUpToLsb, Once
<1>5. TmpDeltaStage'
  BY <1>2, <1>3, <1>6 DEF TmpDeltaStage, UpToTmpDelta, UpToA, UpToDual, UpToBStar, Once,
     EvaluatorObjects
<1> QED  BY <1>2, <1>3, <1>4, <1>5 DEF IInv, Stages

LEMMA TmpDeltaDiffKeeps ==
  ASSUME IInv, TmpDeltaDiff
  PROVE  IInv'
<1> DEFINE fixed == FixedBlockKeys(ev.tmpDeltaKeys, Sid1(ev.dualMacs), Head(toE))
<1>1. /\ EvaluatorStep("tmpDeltaDiff", "triple") /\ ReadE
      /\ ev' = [ev EXCEPT !.tmpDeltaKeys = fixed]
  BY DEF TmpDeltaDiff
<1>2. /\ Control' /\ setup' = setup /\ gpc = "triple" /\ gpc' = "triple"
      /\ epc = "tmpDeltaDiff" /\ epc' = "triple" /\ gb' = gb /\ Head(toE) = toE[1]
  <2>1. \A g, m, n : <<g, "tmpDeltaDiff", m, n>> \in Locations /\ n # 0 =>
          m = 0 /\ n \in {1, 2} /\ <<g, "triple", 0, n - 1>> \in Locations
    BY DEF Locations
  <2>2. \A g, n : <<g, "tmpDeltaDiff", 0, n>> \in Locations => g = "triple"
    BY DEF Locations
  <2>3. /\ Control' /\ setup' = setup /\ epc = "tmpDeltaDiff" /\ epc' = "triple"
        /\ gpc' = gpc /\ gb' = gb /\ Head(toE) = toE[1]
        /\ \E n \in {1, 2} : <<gpc, "tmpDeltaDiff", 0, n>> \in Locations
    BY <1>1, <2>1, EvaluatorReads DEF IInv
  <2> QED  BY <2>2, <2>3
<1>6. /\ fixed = FixedBlockKeys(ev.tmpDeltaKeys, Sid1Of(setup, ev.dualMacs), toE[1])
      /\ fixed \in TableOf(0 .. ColumnsOf(setup), 1)
  <2>1. fixed = FixedBlockKeys(ev.tmpDeltaKeys, Sid1Of(setup, ev.dualMacs), toE[1])
    BY <1>2, OfSetup
  <2>2. BlocksMade(Sid1Of(setup, ev.dualMacs), 1, Only(gb.tmpDelta), gb.tmpDeltaMacs,
          FixedBlockKeys(ev.tmpDeltaKeys, Sid1Of(setup, ev.dualMacs), toE[1]))
    BY <1>2 DEF IInv, Stages, TmpDeltaStage, UpToTmpDelta, UpToA, UpToDual, UpToBStar, Once
  <2>3. DOMAIN Sid1Of(setup, ev.dualMacs) = 0 .. ColumnsOf(setup)
    BY SetupTypes DEF IInv, Objects
  <2> QED  BY <2>1, <2>2, <2>3 DEF BlocksMade
<1> HIDE DEF fixed
<1>3. /\ Objects' /\ ev'.tmpDeltaKeys = fixed
      /\ gb' = gb
      /\ \A n \in EvaluatorObjects : n # "tmpDeltaKeys" => ev'[n] = ev[n]
  BY <1>1, <1>2 DEF IInv, Objects, GarblerObjects, EvaluatorObjects
<1>4. MatrixStage' /\ BStarStage' /\ DualStage' /\ AStage' /\ TripleStage' /\ TmpDelta5Stage' /\
      PopulateStage' /\ EvaluatorAndedStage' /\ AndedStage' /\ SumsStage' /\ BeaverTripleStage'
  BY <1>2, <1>3 DEF IInv, Stages, GarblerObjects, EvaluatorObjects, MatrixStage, BStarStage,
     DualStage, AStage, TripleStage, TmpDelta5Stage, PopulateStage, EvaluatorAndedStage,
     AndedStage, SumsStage, BeaverTripleStage, UpToBStar, UpToDual, UpToA, UpToTmpDelta,
     UpToTriple, UpToTmpDelta5, UpToPopulate, UpToEvaluatorAnded, UpToAnded, UpToSums,
     UpToBeaverTriple, EvaluatorUpToPopulate, EvaluatorUpToSums, EvaluatorUpToLsb, Once
<1>5. TmpDeltaStage'
  BY <1>2, <1>3, <1>6 DEF IInv, Stages, TmpDeltaStage, UpToTmpDelta, UpToA, UpToDual,
     UpToBStar, Once, EvaluatorObjects
<1> QED  BY <1>2, <1>3, <1>4, <1>5 DEF IInv, Stages

LEMMA TripleSharesKeeps ==
  ASSUME IInv, TripleShares
  PROVE  IInv'
<1> DEFINE keys == RandomKeys("triple", Sid2, AndGateSize(circuit))
           bits == RandomBits("triple", AndGateSize(circuit))
           macs == BitMacs(keys, Sid2, bits)
<1>1. /\ Together("triple", "tmpDelta5", "triple", "tmpDelta5")
      /\ gb' = [gb EXCEPT !.triple = bits, !.tripleMacs = macs]
      /\ ev' = [ev EXCEPT !.tripleKeys = keys]
      /\ toG' = toG /\ toE' = toE /\ toG = <<>> /\ toE = <<>>
  BY DEF TripleShares, Together
<1>2. /\ Control' /\ setup' = setup /\ gpc = "triple" /\ gpc' = "tmpDelta5"
      /\ epc = "triple" /\ epc' = "tmpDelta5"
  <2>1. Holds(toG', 0) /\ Holds(toE', 0) /\ <<"tmpDelta5", "tmpDelta5", 0, 0>> \in Locations
    BY <1>1 DEF Holds, Locations
  <2> QED  BY <1>1, <2>1, TogetherControl DEF IInv
<1>6. BitsMade(Sid2Of(setup), AndsOf(setup), bits, macs, keys)
  <2> DEFINE n == AndsOf(setup)
  <2>1. /\ setup \in Setups /\ AndGateSize(circuit) = n /\ Sid2 = Sid2Of(setup)
        /\ Sid2 \in [{0, 1} -> Block] /\ DOMAIN Sid2 = {0, 1}
        /\ {0, 1} \subseteq 0 .. ColumnsOf(setup)
    BY SetupTypes, OfSetup DEF IInv, Objects
  <2>2. bits \in BitsOfLength(n) /\ keys \in TableOf({0, 1}, n)
    <3>1. "triple" \in RandomVectors
      BY DEF RandomVectors
    <3> QED  BY <2>1, <3>1, RandomTypes
  <2> HIDE DEF keys, bits, n
  <2>3. BitsMade(Sid2, n, bits, macs, keys)
    BY <2>1, <2>2, ChoicesMade
  <2> QED  BY <2>1, <2>3 DEF n
<1> HIDE DEF keys, bits, macs
<1>3. /\ Objects' /\ gb'.triple = bits /\ gb'.tripleMacs = macs /\ ev'.tripleKeys = keys
      /\ \A n \in GarblerObjects \ {"triple", "tripleMacs"} : gb'[n] = gb[n]
      /\ \A n \in EvaluatorObjects : n # "tripleKeys" => ev'[n] = ev[n]
  BY <1>1, <1>2 DEF IInv, Objects, GarblerObjects, EvaluatorObjects
<1>4. MatrixStage' /\ BStarStage' /\ DualStage' /\ AStage' /\ TmpDeltaStage' /\ TmpDelta5Stage'
      /\ PopulateStage' /\ EvaluatorAndedStage' /\ AndedStage' /\ SumsStage' /\
      BeaverTripleStage'
  BY <1>2, <1>3 DEF IInv, Stages, GarblerObjects, EvaluatorObjects, MatrixStage, BStarStage,
     DualStage, AStage, TmpDeltaStage, TmpDelta5Stage, PopulateStage, EvaluatorAndedStage,
     AndedStage, SumsStage, BeaverTripleStage, UpToBStar, UpToDual, UpToA, UpToTmpDelta,
     UpToTriple, UpToTmpDelta5, UpToPopulate, UpToEvaluatorAnded, UpToAnded, UpToSums,
     UpToBeaverTriple, EvaluatorUpToPopulate, EvaluatorUpToSums, EvaluatorUpToLsb, Once
<1>5. TripleStage'
  BY <1>2, <1>3, <1>6 DEF TripleStage, UpToTriple, UpToTmpDelta, UpToA, UpToDual, UpToBStar
<1> QED  BY <1>2, <1>3, <1>4, <1>5 DEF IInv, Stages

LEMMA TmpDelta5Keeps ==
  ASSUME IInv, TmpDelta5
  PROVE  IInv'
<1> DEFINE keys == RandomKeys("tmpDelta5", Sid2, 1)
           choices == RandomBlocks("tmpDelta5Choices", 1)
           macs == BlockMacs(keys, Sid2, choices)
           diff == BlockDiff(choices, Only(gb.tmpDelta))
<1>1. /\ Together("tmpDelta5", "populate", "tmpDelta5", "tmpDelta5Diff")
      /\ gb' = [gb EXCEPT !.tmpDeltaMacs5 = macs]
      /\ ev' = [ev EXCEPT !.tmpDeltaKeys5 = keys]
      /\ toE' = <<diff>> /\ toG' = toG /\ toG = <<>>
  BY DEF TmpDelta5, Together
<1>2. /\ Control' /\ setup' = setup /\ gpc = "tmpDelta5" /\ gpc' = "populate"
      /\ epc = "tmpDelta5" /\ epc' = "tmpDelta5Diff" /\ toE'[1] = diff
  <2>1. Holds(toG', 0) /\ Holds(toE', 1) /\ toE'[1] = diff
    BY <1>1, HoldsOne DEF Holds
  <2>2. <<"populate", "tmpDelta5Diff", 0, 1>> \in Locations
    BY DEF Locations
  <2> QED  BY <1>1, <2>1, <2>2, TogetherControl DEF IInv
<1>6. /\ keys \in TableOf({0, 1}, 1)
      /\ BlocksMade(Sid2Of(setup), 1, Only(gb.tmpDelta), macs,
                    FixedBlockKeys(keys, Sid2Of(setup), diff))
  <2>1. /\ setup \in Setups /\ Sid2 = Sid2Of(setup)
        /\ Sid2 \in [{0, 1} -> Block] /\ DOMAIN Sid2 = {0, 1}
        /\ {0, 1} \subseteq 0 .. ColumnsOf(setup)
    BY SetupTypes, OfSetup DEF IInv, Objects
  <2>2. Only(gb.tmpDelta) \in BlocksOfLength(1)
    BY <1>2 DEF IInv, Stages, TmpDeltaStage, UpToTmpDelta, UpToA, UpToDual, UpToBStar, BlocksMade
  <2>3. choices \in BlocksOfLength(1) /\ keys \in TableOf({0, 1}, 1)
    <3>1. {"tmpDelta5", "tmpDelta5Choices"} \subseteq RandomVectors
      BY DEF RandomVectors
    <3> QED  BY <2>1, <3>1, RandomTypes
  <2> HIDE DEF keys, choices
  <2>4. BlocksMade(Sid2, 1, Only(gb.tmpDelta), macs, FixedBlockKeys(keys, Sid2, diff))
    BY <2>1, <2>2, <2>3, BlocksFixedMade
  <2> QED  BY <2>1, <2>3, <2>4
<1> HIDE DEF keys, choices, macs, diff
<1>3. /\ Objects' /\ gb'.tmpDeltaMacs5 = macs /\ ev'.tmpDeltaKeys5 = keys
      /\ \A n \in GarblerObjects : n # "tmpDeltaMacs5" => gb'[n] = gb[n]
      /\ \A n \in EvaluatorObjects : n # "tmpDeltaKeys5" => ev'[n] = ev[n]
  BY <1>1, <1>2 DEF IInv, Objects, GarblerObjects, EvaluatorObjects
<1>4. MatrixStage' /\ BStarStage' /\ DualStage' /\ AStage' /\ TmpDeltaStage' /\ TripleStage' /\
      PopulateStage' /\ EvaluatorAndedStage' /\ AndedStage' /\ SumsStage' /\ BeaverTripleStage'
  BY <1>2, <1>3 DEF IInv, Stages, GarblerObjects, EvaluatorObjects, MatrixStage, BStarStage,
     DualStage, AStage, TmpDeltaStage, TripleStage, PopulateStage, EvaluatorAndedStage,
     AndedStage, SumsStage, BeaverTripleStage, UpToBStar, UpToDual, UpToA, UpToTmpDelta,
     UpToTriple, UpToTmpDelta5, UpToPopulate, UpToEvaluatorAnded, UpToAnded, UpToSums,
     UpToBeaverTriple, EvaluatorUpToPopulate, EvaluatorUpToSums, EvaluatorUpToLsb, Once
<1>5. TmpDelta5Stage'
  BY <1>2, <1>3, <1>6 DEF TmpDelta5Stage, UpToTmpDelta5, UpToTriple, UpToTmpDelta, UpToA,
     UpToDual, UpToBStar, Once, GarblerObjects
<1> QED  BY <1>2, <1>3, <1>4, <1>5 DEF IInv, Stages

LEMMA TmpDelta5DiffKeeps ==
  ASSUME IInv, TmpDelta5Diff
  PROVE  IInv'
<1> DEFINE fixed == FixedBlockKeys(ev.tmpDeltaKeys5, Sid2, Head(toE))
<1>1. /\ EvaluatorStep("tmpDelta5Diff", "populate") /\ ReadE
      /\ ev' = [ev EXCEPT !.tmpDeltaKeys5 = fixed]
  BY DEF TmpDelta5Diff
<1>2. /\ Control' /\ setup' = setup /\ gpc \in {"populate", "evaluatorAnded"} /\ gpc' = gpc
      /\ epc = "tmpDelta5Diff" /\ epc' = "populate" /\ gb' = gb /\ Head(toE) = toE[1]
  <2>1. \A g, m, n : <<g, "tmpDelta5Diff", m, n>> \in Locations /\ n # 0 =>
          m = 0 /\ n \in {1, 2} /\ <<g, "populate", 0, n - 1>> \in Locations
    BY DEF Locations
  <2>2. \A g, n : <<g, "tmpDelta5Diff", 0, n>> \in Locations =>
          g \in {"populate", "evaluatorAnded"}
    BY DEF Locations
  <2>3. /\ Control' /\ setup' = setup /\ epc = "tmpDelta5Diff" /\ epc' = "populate"
        /\ gpc' = gpc /\ gb' = gb /\ Head(toE) = toE[1]
        /\ \E n \in {1, 2} : <<gpc, "tmpDelta5Diff", 0, n>> \in Locations
    BY <1>1, <2>1, EvaluatorReads DEF IInv
  <2> QED  BY <2>2, <2>3
<1>6. /\ fixed = FixedBlockKeys(ev.tmpDeltaKeys5, Sid2Of(setup), toE[1])
      /\ fixed \in TableOf({0, 1}, 1)
  <2>1. fixed = FixedBlockKeys(ev.tmpDeltaKeys5, Sid2Of(setup), toE[1])
    BY <1>2, OfSetup
  <2>2. BlocksMade(Sid2Of(setup), 1, Only(gb.tmpDelta), gb.tmpDeltaMacs5,
          FixedBlockKeys(ev.tmpDeltaKeys5, Sid2Of(setup), toE[1]))
    BY <1>2 DEF IInv, Stages, TmpDelta5Stage, UpToTmpDelta5, UpToTriple, UpToTmpDelta, UpToA,
       UpToDual, UpToBStar, Once
  <2>3. DOMAIN Sid2Of(setup) = {0, 1}
    BY SetupTypes DEF IInv, Objects
  <2> QED  BY <2>1, <2>2, <2>3 DEF BlocksMade
<1> HIDE DEF fixed
<1>3. /\ Objects' /\ ev'.tmpDeltaKeys5 = fixed
      /\ gb' = gb
      /\ \A n \in EvaluatorObjects : n # "tmpDeltaKeys5" => ev'[n] = ev[n]
  BY <1>1, <1>2 DEF IInv, Objects, GarblerObjects, EvaluatorObjects
<1>4. MatrixStage' /\ BStarStage' /\ DualStage' /\ AStage' /\ TmpDeltaStage' /\ TripleStage' /\
      PopulateStage' /\ EvaluatorAndedStage' /\ AndedStage' /\ SumsStage' /\ BeaverTripleStage'
  BY <1>2, <1>3 DEF IInv, Stages, GarblerObjects, EvaluatorObjects, MatrixStage, BStarStage,
     DualStage, AStage, TmpDeltaStage, TripleStage, PopulateStage, EvaluatorAndedStage,
     AndedStage, SumsStage, BeaverTripleStage, UpToBStar, UpToDual, UpToA, UpToTmpDelta,
     UpToTriple, UpToTmpDelta5, UpToPopulate, UpToEvaluatorAnded, UpToAnded, UpToSums,
     UpToBeaverTriple, EvaluatorUpToPopulate, EvaluatorUpToSums, EvaluatorUpToLsb, Once
<1>5. TmpDelta5Stage'
  BY <1>2, <1>3, <1>6 DEF IInv, Stages, TmpDelta5Stage, UpToTmpDelta5, UpToTriple,
     UpToTmpDelta, UpToA, UpToDual, UpToBStar, Once
<1> QED  BY <1>2, <1>3, <1>4, <1>5 DEF IInv, Stages

LEMMA PopulateGarblerKeeps ==
  ASSUME IInv, PopulateGarbler
  PROVE  IInv'
<1> DEFINE row == RowG(setup, gb.a, gb.aMacs[ColumnsOf(setup)], gb.bKeys)
           wires == PopulateWires(setup.circuit, row)
<1>1. /\ GarblerStep("populate", "evaluatorAnded") /\ toG' = toG /\ toE' = toE
      /\ gb' = [gb EXCEPT !.populated = wires]
  BY DEF PopulateGarbler, RowG, PlaceA, PlaceB, AIndex, BIndex, OrZero, circuit, L, rows,
     ColumnsOf, RowsOf
<1>2. /\ Control' /\ setup' = setup /\ gpc = "populate" /\ gpc' = "evaluatorAnded"
      /\ epc \in {"tmpDelta5Diff", "populate", "evaluatorAnded"} /\ epc' = epc /\ ev' = ev
      /\ toE' = toE
  <2>1. /\ gpc = "populate" /\ gpc' = "evaluatorAnded" /\ setup' = setup /\ epc' = epc
        /\ ev' = ev
    BY <1>1 DEF GarblerStep
  <2>2. \A e, m, n : <<"populate", e, m, n>> \in Locations =>
          /\ e \in {"tmpDelta5Diff", "populate", "evaluatorAnded"}
          /\ <<"evaluatorAnded", e, m, n>> \in Locations
    BY DEF Locations
  <2> QED  BY <1>1, <2>1, <2>2 DEF IInv, Control
<1> HIDE DEF wires
<1>3. /\ Objects' /\ gb'.populated = wires
      /\ \A n \in GarblerObjects : n # "populated" => gb'[n] = gb[n]
      /\ ev' = ev
  BY <1>1, <1>2 DEF IInv, Objects, GarblerObjects, EvaluatorObjects
<1>4. MatrixStage' /\ BStarStage' /\ DualStage' /\ AStage' /\ TmpDeltaStage' /\ TripleStage' /\
      TmpDelta5Stage' /\ EvaluatorAndedStage' /\ AndedStage' /\ SumsStage' /\ BeaverTripleStage'
  BY <1>2, <1>3 DEF IInv, Stages, GarblerObjects, EvaluatorObjects, MatrixStage, BStarStage,
     DualStage, AStage, TmpDeltaStage, TripleStage, TmpDelta5Stage, EvaluatorAndedStage,
     AndedStage, SumsStage, BeaverTripleStage, UpToBStar, UpToDual, UpToA, UpToTmpDelta,
     UpToTriple, UpToTmpDelta5, UpToPopulate, UpToEvaluatorAnded, UpToAnded, UpToSums,
     UpToBeaverTriple, EvaluatorUpToPopulate, EvaluatorUpToSums, EvaluatorUpToLsb, Once
<1>5. PopulateStage'
  <2>1. gpc' \notin UpToPopulate
    BY <1>2 DEF UpToPopulate, UpToTmpDelta5, UpToTriple, UpToTmpDelta, UpToA, UpToDual, UpToBStar
  <2>2. gb'.a = gb.a /\ gb'.aMacs = gb.aMacs /\ gb'.bKeys = gb.bKeys
    BY <1>3 DEF GarblerObjects
  <2> QED  BY <1>2, <1>3, <2>1, <2>2 DEF IInv, Stages, PopulateStage, wires
<1> QED  BY <1>2, <1>3, <1>4, <1>5 DEF IInv, Stages

LEMMA PopulateEvaluatorKeeps ==
  ASSUME IInv, PopulateEvaluator
  PROVE  IInv'
<1> DEFINE row == RowE(setup, ev.b, ev.bMacs, ev.aKeys[ColumnsOf(setup)])
           wires == PopulateWires(setup.circuit, row)
<1>1. /\ EvaluatorStep("populate", "evaluatorAnded") /\ toG' = toG /\ toE' = toE
      /\ ev' = [ev EXCEPT !.populated = wires]
  BY DEF PopulateEvaluator, RowE, PlaceA, PlaceB, AIndex, BIndex, OrZero, circuit, L, rows,
     ColumnsOf, RowsOf
<1>2. /\ Control' /\ setup' = setup /\ gpc \in {"populate", "evaluatorAnded"} /\ gpc' = gpc
      /\ epc = "populate" /\ epc' = "evaluatorAnded" /\ gb' = gb
  <2>1. /\ epc = "populate" /\ epc' = "evaluatorAnded" /\ setup' = setup /\ gpc' = gpc
        /\ gb' = gb
    BY <1>1 DEF EvaluatorStep
  <2>2. \A g, m, n : <<g, "populate", m, n>> \in Locations =>
          /\ g \in {"populate", "evaluatorAnded"}
          /\ <<g, "evaluatorAnded", m, n>> \in Locations
    BY DEF Locations
  <2> QED  BY <1>1, <2>1, <2>2 DEF IInv, Control
<1> HIDE DEF wires
<1>3. /\ Objects' /\ ev'.populated = wires
      /\ gb' = gb
      /\ \A n \in EvaluatorObjects : n # "populated" => ev'[n] = ev[n]
  BY <1>1, <1>2 DEF IInv, Objects, GarblerObjects, EvaluatorObjects
<1>4. MatrixStage' /\ BStarStage' /\ DualStage' /\ AStage' /\ TmpDeltaStage' /\ TripleStage' /\
      TmpDelta5Stage' /\ EvaluatorAndedStage' /\ AndedStage' /\ SumsStage' /\ BeaverTripleStage'
  BY <1>2, <1>3 DEF IInv, Stages, GarblerObjects, EvaluatorObjects, MatrixStage, BStarStage,
     DualStage, AStage, TmpDeltaStage, TripleStage, TmpDelta5Stage, EvaluatorAndedStage,
     AndedStage, SumsStage, BeaverTripleStage, UpToBStar, UpToDual, UpToA, UpToTmpDelta,
     UpToTriple, UpToTmpDelta5, UpToPopulate, UpToEvaluatorAnded, UpToAnded, UpToSums,
     UpToBeaverTriple, EvaluatorUpToPopulate, EvaluatorUpToSums, EvaluatorUpToLsb, Once
<1>5. PopulateStage'
  <2>1. epc' \notin EvaluatorUpToPopulate
    BY <1>2 DEF EvaluatorUpToPopulate
  <2>2. ev'.b = ev.b /\ ev'.bMacs = ev.bMacs /\ ev'.aKeys = ev.aKeys
    BY <1>3 DEF EvaluatorObjects
  <2> QED  BY <1>2, <1>3, <2>1, <2>2 DEF IInv, Stages, PopulateStage, wires
<1> QED  BY <1>2, <1>3, <1>4, <1>5 DEF IInv, Stages

LEMMA AndedMasksType ==
  ASSUME NEW s, NEW masks
  PROVE  AndedMasks(s.circuit, masks) \in BitsOfLength(AndsOf(s))
BY DEF AndedMasks, AndIndices, BitsOfLength, Below, AndsOf

LEMMA EvaluatorAndedKeeps ==
  ASSUME IInv, EvaluatorAnded
  PROVE  IInv'
<1> DEFINE deltas == Only(deltaA)
           keys == RandomKeys("evaluatorAnded", deltas, AndGateSize(circuit))
           choices == RandomBits("evaluatorAnded", AndGateSize(circuit))
           bits == AndedMasks(setup.circuit, ev.populated.masks)
           macs == BitMacs(keys, deltas, choices)
           diff == BitDiff(choices, bits)
<1>1. /\ Together("evaluatorAnded", "evaluatorAndedDiff", "evaluatorAnded", "anded")
      /\ gb' = [gb EXCEPT !.evaluatorAndedKeys = keys[0]]
      /\ ev' = [ev EXCEPT !.anded = bits, !.andedMacs = macs[0]]
      /\ toG' = <<diff>> /\ toE' = toE /\ toE = <<>>
  BY DEF EvaluatorAnded, Together, circuit
<1>2. /\ Control' /\ setup' = setup /\ gpc = "evaluatorAnded" /\ gpc' = "evaluatorAndedDiff"
      /\ epc = "evaluatorAnded" /\ epc' = "anded" /\ toG'[1] = diff
  <2>1. Holds(toG', 1) /\ Holds(toE', 0) /\ toG'[1] = diff
    BY <1>1, HoldsOne DEF Holds
  <2>2. <<"evaluatorAndedDiff", "anded", 1, 0>> \in Locations
    BY DEF Locations
  <2> QED  BY <1>1, <2>1, <2>2, TogetherControl DEF IInv
<1>6. /\ keys[0] \in BlocksOfLength(AndsOf(setup))
      /\ BitsMade(Only(setup.deltaA), AndsOf(setup), bits, Only(macs[0]),
                  FixedBitKeys(Only(keys[0]), Only(setup.deltaA), diff))
  <2> DEFINE n == AndsOf(setup)
  <2>1. /\ setup \in Setups /\ AndGateSize(circuit) = n /\ deltas = Only(setup.deltaA)
        /\ deltas \in [{0} -> Block] /\ DOMAIN deltas = {0} /\ {0} \subseteq 0 .. ColumnsOf(setup)
        /\ bits \in BitsOfLength(n)
    BY SetupTypes, OfSetup, AndedMasksType DEF IInv, Objects
  <2>2. choices \in BitsOfLength(n) /\ keys \in TableOf({0}, n)
    <3>1. "evaluatorAnded" \in RandomVectors
      BY DEF RandomVectors
    <3> QED  BY <2>1, <3>1, RandomTypes
  <2> HIDE DEF deltas, keys, choices, bits, n
  <2>3. macs \in TableOf({0}, n) /\ BitsMade(deltas, n, bits, macs, FixedBitKeys(keys, deltas, diff))
    BY <2>1, <2>2, BitsFixed, BitsFixedMade
  <2> HIDE DEF macs
  <2>4. Only(macs[0]) = macs /\ Only(keys[0]) = keys /\ keys[0] \in BlocksOfLength(n)
    BY <2>2, <2>3, OnlyTable
  <2> QED  BY <2>1, <2>3, <2>4 DEF n
<1> HIDE DEF deltas, keys, choices, bits, macs, diff
<1>3. /\ Objects' /\ gb'.evaluatorAndedKeys = keys[0] /\ ev'.anded = bits
      /\ ev'.andedMacs = macs[0]
      /\ \A n \in GarblerObjects : n # "evaluatorAndedKeys" => gb'[n] = gb[n]
      /\ \A n \in EvaluatorObjects \ {"anded", "andedMacs"} : ev'[n] = ev[n]
  BY <1>1, <1>2 DEF IInv, Objects, GarblerObjects, EvaluatorObjects
<1>4. MatrixStage' /\ BStarStage' /\ DualStage' /\ AStage' /\ TmpDeltaStage' /\ TripleStage' /\
      TmpDelta5Stage' /\ PopulateStage' /\ AndedStage' /\ SumsStage' /\ BeaverTripleStage'
  BY <1>2, <1>3 DEF IInv, Stages, GarblerObjects, EvaluatorObjects, MatrixStage, BStarStage,
     DualStage, AStage, TmpDeltaStage, TripleStage, TmpDelta5Stage, PopulateStage, AndedStage,
     SumsStage, BeaverTripleStage, UpToBStar, UpToDual, UpToA, UpToTmpDelta, UpToTriple,
     UpToTmpDelta5, UpToPopulate, UpToEvaluatorAnded, UpToAnded, UpToSums, UpToBeaverTriple,
     EvaluatorUpToPopulate, EvaluatorUpToSums, EvaluatorUpToLsb, Once
<1>5. EvaluatorAndedStage'
  <2>1. gpc' \notin UpToEvaluatorAnded
    BY <1>2 DEF UpToEvaluatorAnded, UpToPopulate, UpToTmpDelta5, UpToTriple, UpToTmpDelta, UpToA,
       UpToDual, UpToBStar
  <2>2. ev'.populated = ev.populated
    BY <1>3 DEF EvaluatorObjects
  <2> QED  BY <1>2, <1>3, <1>6, <2>1, <2>2 DEF EvaluatorAndedStage, Once, bits
<1> QED  BY <1>2, <1>3, <1>4, <1>5 DEF IInv, Stages

LEMMA EvaluatorAndedDiffKeeps ==
  ASSUME IInv, EvaluatorAndedDiff
  PROVE  IInv'
<1> DEFINE fixed == FixedBitKeys(Only(gb.evaluatorAndedKeys), Only(deltaA), Head(toG))
<1>1. /\ GarblerStep("evaluatorAndedDiff", "anded") /\ ReadG
      /\ gb' = [gb EXCEPT !.evaluatorAndedKeys = fixed[0]]
  BY DEF EvaluatorAndedDiff
<1>2. /\ Control' /\ setup' = setup /\ gpc = "evaluatorAndedDiff" /\ gpc' = "anded"
      /\ epc = "anded" /\ epc' = "anded" /\ ev' = ev /\ Head(toG) = toG[1]
  <2>1. /\ \A e1, m, n : <<"evaluatorAndedDiff", e1, m, n>> \in Locations =>
                           m = 0 \/ (e1 = "anded" /\ m = 1 /\ n = 0)
        /\ <<"anded", "anded", 0, 0>> \in Locations
    BY DEF Locations
  <2> QED  BY <1>1, <2>1, GarblerReads DEF IInv
<1>6. /\ fixed = FixedBitKeys(Only(gb.evaluatorAndedKeys), Only(setup.deltaA), toG[1])
      /\ ev.anded = AndedMasks(setup.circuit, ev.populated.masks)
      /\ BitsMade(Only(setup.deltaA), AndsOf(setup), ev.anded, Only(ev.andedMacs), fixed)
  <2>1. fixed = FixedBitKeys(Only(gb.evaluatorAndedKeys), Only(setup.deltaA), toG[1])
    BY <1>2, OfSetup
  <2> HIDE DEF fixed
  <2>2. gpc \notin UpToEvaluatorAnded
    BY <1>2 DEF UpToEvaluatorAnded, UpToPopulate, UpToTmpDelta5, UpToTriple, UpToTmpDelta, UpToA,
       UpToDual, UpToBStar
  <2> QED  BY <1>2, <2>1, <2>2 DEF IInv, Stages, EvaluatorAndedStage, Once
<1> HIDE DEF fixed
<1>7. Only(fixed[0]) = fixed /\ fixed[0] \in BlocksOfLength(AndsOf(setup))
  BY <1>6, OnlyTable, OnlyType DEF BitsMade
<1>3. /\ Objects' /\ gb'.evaluatorAndedKeys = fixed[0]
      /\ \A n \in GarblerObjects : n # "evaluatorAndedKeys" => gb'[n] = gb[n]
      /\ ev' = ev
  BY <1>1, <1>2 DEF IInv, Objects, GarblerObjects, EvaluatorObjects
<1>4. MatrixStage' /\ BStarStage' /\ DualStage' /\ AStage' /\ TmpDeltaStage' /\ TripleStage' /\
      TmpDelta5Stage' /\ PopulateStage' /\ AndedStage' /\ SumsStage' /\ BeaverTripleStage'
  BY <1>2, <1>3 DEF IInv, Stages, GarblerObjects, EvaluatorObjects, MatrixStage, BStarStage,
     DualStage, AStage, TmpDeltaStage, TripleStage, TmpDelta5Stage, PopulateStage, AndedStage,
     SumsStage, BeaverTripleStage, UpToBStar, UpToDual, UpToA, UpToTmpDelta, UpToTriple,
     UpToTmpDelta5, UpToPopulate, UpToEvaluatorAnded, UpToAnded, UpToSums, UpToBeaverTriple,
     EvaluatorUpToPopulate, EvaluatorUpToSums, EvaluatorUpToLsb, Once
<1>5. EvaluatorAndedStage'
  <2>1. gpc' \notin UpToEvaluatorAnded
    BY <1>2 DEF UpToEvaluatorAnded, UpToPopulate, UpToTmpDelta5, UpToTriple, UpToTmpDelta, UpToA,
       UpToDual, UpToBStar
  <2> QED  BY <1>2, <1>3, <1>6, <1>7, <2>1 DEF EvaluatorAndedStage, Once
<1> QED  BY <1>2, <1>3, <1>4, <1>5 DEF IInv, Stages

LEMMA GarblerAndedKeeps ==
  ASSUME IInv, GarblerAnded
  PROVE  IInv'
<1> DEFINE keys == RandomKeys("garblerAnded", Sid2, AndGateSize(circuit))
           choices == RandomBits("garblerAnded", AndGateSize(circuit))
           bits == AndedMasks(setup.circuit, gb.populated.masks)
           macs == BitMacs(keys, Sid2, choices)
           diff == BitDiff(choices, bits)
<1>1. /\ Together("anded", "sums", "anded", "andedDiff")
      /\ gb' = [gb EXCEPT !.anded = bits, !.andedMacs = macs]
      /\ ev' = [ev EXCEPT !.garblerAndedKeys = keys]
      /\ toE' = <<diff>> /\ toG' = toG /\ toG = <<>>
  BY DEF GarblerAnded, Together, circuit
<1>2. /\ Control' /\ setup' = setup /\ gpc = "anded" /\ gpc' = "sums"
      /\ epc = "anded" /\ epc' = "andedDiff" /\ toE'[1] = diff
  <2>1. Holds(toG', 0) /\ Holds(toE', 1) /\ toE'[1] = diff
    BY <1>1, HoldsOne DEF Holds
  <2>2. <<"sums", "andedDiff", 0, 1>> \in Locations
    BY DEF Locations
  <2> QED  BY <1>1, <2>1, <2>2, TogetherControl DEF IInv
<1>6. /\ keys \in TableOf({0, 1}, AndsOf(setup))
      /\ BitsMade(Sid2Of(setup), AndsOf(setup), bits, macs,
                  FixedBitKeys(keys, Sid2Of(setup), diff))
  <2> DEFINE n == AndsOf(setup)
  <2>1. /\ setup \in Setups /\ AndGateSize(circuit) = n /\ Sid2 = Sid2Of(setup)
        /\ Sid2 \in [{0, 1} -> Block] /\ DOMAIN Sid2 = {0, 1}
        /\ {0, 1} \subseteq 0 .. ColumnsOf(setup) /\ bits \in BitsOfLength(n)
    BY SetupTypes, OfSetup, AndedMasksType DEF IInv, Objects
  <2>2. choices \in BitsOfLength(n) /\ keys \in TableOf({0, 1}, n)
    <3>1. "garblerAnded" \in RandomVectors
      BY DEF RandomVectors
    <3> QED  BY <2>1, <3>1, RandomTypes
  <2> HIDE DEF keys, choices, bits, n
  <2>3. BitsMade(Sid2, n, bits, macs, FixedBitKeys(keys, Sid2, diff))
    BY <2>1, <2>2, BitsFixedMade
  <2> QED  BY <2>1, <2>2, <2>3 DEF n
<1> HIDE DEF keys, choices, bits, macs, diff
<1>3. /\ Objects' /\ gb'.anded = bits /\ gb'.andedMacs = macs /\ ev'.garblerAndedKeys = keys
      /\ \A n \in GarblerObjects \ {"anded", "andedMacs"} : gb'[n] = gb[n]
      /\ \A n \in EvaluatorObjects : n # "garblerAndedKeys" => ev'[n] = ev[n]
  BY <1>1, <1>2 DEF IInv, Objects, GarblerObjects, EvaluatorObjects
<1>4. MatrixStage' /\ BStarStage' /\ DualStage' /\ AStage' /\ TmpDeltaStage' /\ TripleStage' /\
      TmpDelta5Stage' /\ PopulateStage' /\ EvaluatorAndedStage' /\ SumsStage' /\
      BeaverTripleStage'
  BY <1>2, <1>3 DEF IInv, Stages, GarblerObjects, EvaluatorObjects, MatrixStage, BStarStage,
     DualStage, AStage, TmpDeltaStage, TripleStage, TmpDelta5Stage, PopulateStage,
     EvaluatorAndedStage, SumsStage, BeaverTripleStage, UpToBStar, UpToDual, UpToA,
     UpToTmpDelta, UpToTriple, UpToTmpDelta5, UpToPopulate, UpToEvaluatorAnded, UpToAnded,
     UpToSums, UpToBeaverTriple, EvaluatorUpToPopulate, EvaluatorUpToSums, EvaluatorUpToLsb,
     Once
<1>5. AndedStage'
  <2>1. gpc' \notin UpToAnded
    BY <1>2 DEF UpToAnded, UpToEvaluatorAnded, UpToPopulate, UpToTmpDelta5, UpToTriple,
       UpToTmpDelta, UpToA, UpToDual, UpToBStar
  <2>2. gb'.populated = gb.populated
    BY <1>3 DEF GarblerObjects
  <2> QED  BY <1>2, <1>3, <1>6, <2>1, <2>2 DEF AndedStage, Once, bits
<1> QED  BY <1>2, <1>3, <1>4, <1>5 DEF IInv, Stages

LEMMA GarblerAndedDiffKeeps ==
  ASSUME IInv, GarblerAndedDiff
  PROVE  IInv'
<1> DEFINE fixed == FixedBitKeys(ev.garblerAndedKeys, Sid2, Head(toE))
<1>1. /\ EvaluatorStep("andedDiff", "sums") /\ ReadE
      /\ ev' = [ev EXCEPT !.garblerAndedKeys = fixed]
  BY DEF GarblerAndedDiff
<1>2. /\ Control' /\ setup' = setup /\ gpc \in {"sums", "beaverTriple"} /\ gpc' = gpc
      /\ epc = "andedDiff" /\ epc' = "sums" /\ gb' = gb /\ Head(toE) = toE[1]
      /\ gpc = "beaverTriple" => toE'[1] = toE[2]
  <2>1. \A g, m, n : <<g, "andedDiff", m, n>> \in Locations /\ n # 0 =>
          m = 0 /\ n \in {1, 2} /\ <<g, "sums", 0, n - 1>> \in Locations
    BY DEF Locations
  <2>2. \A g, n : <<g, "andedDiff", 0, n>> \in Locations =>
          g \in {"sums", "beaverTriple"} /\ (g = "beaverTriple" => n = 2)
    BY DEF Locations
  <2>3. /\ Control' /\ setup' = setup /\ epc = "andedDiff" /\ epc' = "sums"
        /\ gpc' = gpc /\ gb' = gb /\ Head(toE) = toE[1]
        /\ \E n \in {1, 2} : /\ <<gpc, "andedDiff", 0, n>> \in Locations
                             /\ n = 2 => toE'[1] = toE[2]
    BY <1>1, <2>1, EvaluatorReads DEF IInv
  <2> QED  BY <2>2, <2>3
<1>6. /\ fixed = FixedBitKeys(ev.garblerAndedKeys, Sid2Of(setup), toE[1])
      /\ fixed \in TableOf({0, 1}, AndsOf(setup))
  <2>1. fixed = FixedBitKeys(ev.garblerAndedKeys, Sid2Of(setup), toE[1])
    BY <1>2, OfSetup
  <2>2. gpc \notin UpToAnded
    BY <1>2 DEF UpToAnded, UpToEvaluatorAnded, UpToPopulate, UpToTmpDelta5, UpToTriple,
       UpToTmpDelta, UpToA, UpToDual, UpToBStar
  <2>3. BitsMade(Sid2Of(setup), AndsOf(setup), gb.anded, gb.andedMacs,
          FixedBitKeys(ev.garblerAndedKeys, Sid2Of(setup), toE[1]))
    BY <1>2, <2>2 DEF IInv, Stages, AndedStage, Once
  <2>4. DOMAIN Sid2Of(setup) = {0, 1}
    BY SetupTypes DEF IInv, Objects
  <2> QED  BY <2>1, <2>3, <2>4 DEF BitsMade
<1> HIDE DEF fixed
<1>3. /\ Objects' /\ ev'.garblerAndedKeys = fixed
      /\ gb' = gb
      /\ \A n \in EvaluatorObjects : n # "garblerAndedKeys" => ev'[n] = ev[n]
  BY <1>1, <1>2 DEF IInv, Objects, GarblerObjects, EvaluatorObjects
<1>4. MatrixStage' /\ BStarStage' /\ DualStage' /\ AStage' /\ TmpDeltaStage' /\ TripleStage' /\
      TmpDelta5Stage' /\ PopulateStage' /\ EvaluatorAndedStage' /\ BeaverTripleStage'
  BY <1>2, <1>3 DEF IInv, Stages, GarblerObjects, EvaluatorObjects, MatrixStage, BStarStage,
     DualStage, AStage, TmpDeltaStage, TripleStage, TmpDelta5Stage, PopulateStage,
     EvaluatorAndedStage, BeaverTripleStage, UpToBStar, UpToDual, UpToA, UpToTmpDelta,
     UpToTriple, UpToTmpDelta5, UpToPopulate, UpToEvaluatorAnded, UpToAnded, UpToSums,
     UpToBeaverTriple, EvaluatorUpToPopulate, EvaluatorUpToSums, EvaluatorUpToLsb, Once
<1>5. AndedStage'
  <2>1. gpc \notin UpToAnded
    BY <1>2 DEF UpToAnded, UpToEvaluatorAnded, UpToPopulate, UpToTmpDelta5, UpToTriple,
       UpToTmpDelta, UpToA, UpToDual, UpToBStar
  <2> QED  BY <1>2, <1>3, <1>6, <2>1 DEF IInv, Stages, AndedStage, Once
<1>8. SumsStage'
  <2>1. epc \in EvaluatorUpToSums /\ epc' \in EvaluatorUpToSums
        /\ epc \in EvaluatorUpToLsb /\ epc' \in EvaluatorUpToLsb
    BY <1>2 DEF EvaluatorUpToLsb, EvaluatorUpToSums
  <2>2. ev'.sums = ev.sums /\ ev'.triple = ev.triple
    BY <1>3 DEF EvaluatorObjects
  <2> QED  BY <1>2, <1>3, <2>1, <2>2 DEF IInv, Stages, SumsStage
<1> QED  BY <1>2, <1>3, <1>4, <1>5, <1>8 DEF IInv, Stages

(* The calculator's cells and the sums, as values of the objects they are  *)
(* computed from.                                                          *)
LEMMA CellsOf ==
  ASSUME NEW in0, NEW in1
  PROVE  /\ AbG(in0, in1) = CellsG(setup, gb.matrix, gb.a, gb.aMacs, gb.dualAuthedBStar, in0, in1)
         /\ AbE(in0, in1) = CellsE(setup, ev.matrix, ev.aKeys, in0, in1)
BY DEF AbG, AbE, SourcePairs, FromCacheG, FromCacheE, CompressedRow, AIndex, BIndex, circuit, L, rows,
   CellsG, CellsE, PairsOf, CellG, CellE, RowTimes, PlaceA, PlaceB, ColumnsOf, RowsOf

LEMMA GarblerSumsKeeps ==
  ASSUME IInv, GarblerSums
  PROVE  IInv'
<1> DEFINE sums == SumsOfG(setup, gb.matrix, gb.a, gb.aMacs, gb.dualAuthedBStar,
                           gb.anded, gb.andedMacs, gb.triple, gb.tripleMacs)
           lsbs == LsbsOf(setup, sums)
<1>1. /\ GarblerStep("sums", "beaverTriple") /\ gb' = [gb EXCEPT !.sums = sums]
      /\ toE' = Append(toE, lsbs) /\ toG' = toG
  BY DEF GarblerSums, SumG, AbG, SourcePairs, FromCacheG, CompressedRow, AIndex, BIndex, circuit,
     L, rows, SumsOfG, GateOf, CellsG, PairsOf, CellG, RowTimes, PlaceA, PlaceB, ColumnsOf, RowsOf,
     LsbsOf
<1> HIDE DEF lsbs
<1>2. /\ Control' /\ setup' = setup /\ gpc = "sums" /\ gpc' = "beaverTriple"
      /\ epc \in {"andedDiff", "sums", "lsb"} /\ epc' = epc /\ ev' = ev
      /\ epc = "andedDiff" => toE'[1] = toE[1] /\ toE'[2] = lsbs
      /\ epc # "andedDiff" => toE'[1] = lsbs
  <2>1. /\ gpc = "sums" /\ gpc' = "beaverTriple" /\ setup' = setup /\ epc' = epc /\ ev' = ev
    BY <1>1 DEF GarblerStep
  <2>2. PICK m \in 0 .. 2, n \in 0 .. 2 :
          Holds(toG, m) /\ Holds(toE, n) /\ <<gpc, epc, m, n>> \in Locations
    BY DEF IInv, Control
  <2>3. /\ epc \in {"andedDiff", "sums", "lsb"} /\ n \in {0, 1} /\ (n = 1 <=> epc = "andedDiff")
        /\ <<"beaverTriple", epc, m, n + 1>> \in Locations
    BY <2>1, <2>2 DEF Locations
  <2>4. /\ Holds(toE', n + 1) /\ toE'[n + 1] = lsbs /\ (n = 1 => toE'[1] = toE[1])
    BY <1>1, <2>2, <2>3, QueueAppend, ZenonT(40)
  <2>5. Control'
    <3>1. Holds(toG', m) /\ n + 1 \in 0 .. 2 /\ <<gpc', epc', m, n + 1>> \in Locations
      BY <1>1, <2>1, <2>2, <2>3
    <3> QED  BY <2>4, <3>1 DEF Control
  <2>6. (n = 1 => toE'[2] = lsbs) /\ (n = 0 => toE'[1] = lsbs)
    BY <2>4
  <2> QED  BY <2>1, <2>3, <2>4, <2>5, <2>6
<1> HIDE DEF sums
<1>3. /\ Objects' /\ gb'.sums = sums
      /\ \A n \in GarblerObjects : n # "sums" => gb'[n] = gb[n]
      /\ ev' = ev
  BY <1>1, <1>2 DEF IInv, Objects, GarblerObjects, EvaluatorObjects
<1>4. MatrixStage' /\ BStarStage' /\ DualStage' /\ AStage' /\ TmpDeltaStage' /\ TripleStage' /\
      TmpDelta5Stage' /\ PopulateStage' /\ EvaluatorAndedStage' /\ AndedStage' /\
      BeaverTripleStage'
  BY <1>2, <1>3 DEF IInv, Stages, GarblerObjects, EvaluatorObjects, MatrixStage, BStarStage,
     DualStage, AStage, TmpDeltaStage, TripleStage, TmpDelta5Stage, PopulateStage,
     EvaluatorAndedStage, AndedStage, BeaverTripleStage, UpToBStar, UpToDual, UpToA,
     UpToTmpDelta, UpToTriple, UpToTmpDelta5, UpToPopulate, UpToEvaluatorAnded, UpToAnded,
     UpToSums, UpToBeaverTriple, EvaluatorUpToPopulate, EvaluatorUpToSums, EvaluatorUpToLsb,
     Once
<1>5. SumsStage'
  <2>1. gpc' \notin UpToSums
    BY <1>2 DEF UpToSums, UpToAnded, UpToEvaluatorAnded, UpToPopulate, UpToTmpDelta5,
       UpToTriple, UpToTmpDelta, UpToA, UpToDual, UpToBStar
  <2>2. epc \in EvaluatorUpToLsb
    BY <1>2 DEF EvaluatorUpToLsb, EvaluatorUpToSums
  <2>3. /\ gb'.matrix = gb.matrix /\ gb'.a = gb.a /\ gb'.aMacs = gb.aMacs
        /\ gb'.dualAuthedBStar = gb.dualAuthedBStar /\ gb'.anded = gb.anded
        /\ gb'.andedMacs = gb.andedMacs /\ gb'.triple = gb.triple
        /\ gb'.tripleMacs = gb.tripleMacs
    BY <1>3 DEF GarblerObjects
  <2> QED  BY <1>2, <1>3, <2>1, <2>2, <2>3 DEF IInv, Stages, SumsStage, sums, lsbs
<1> QED  BY <1>2, <1>3, <1>4, <1>5 DEF IInv, Stages

LEMMA EvaluatorSumsKeeps ==
  ASSUME IInv, EvaluatorSums
  PROVE  IInv'
<1> DEFINE sums == SumsOfE(setup, ev.matrix, ev.aKeys, ev.garblerAndedKeys, ev.tripleKeys)
<1>1. /\ EvaluatorStep("sums", "lsb") /\ ev' = [ev EXCEPT !.sums = sums]
      /\ toE' = toE /\ toG' = toG
  BY DEF EvaluatorSums, SumE, AbE, SourcePairs, FromCacheE, CompressedRow, AIndex, BIndex, circuit,
     L, rows, SumsOfE, GateOf, CellsE, PairsOf, CellE, RowTimes, PlaceA, PlaceB, ColumnsOf, RowsOf
<1>2. /\ Control' /\ setup' = setup /\ gpc \in {"sums", "beaverTriple"} /\ gpc' = gpc
      /\ epc = "sums" /\ epc' = "lsb" /\ gb' = gb /\ toE' = toE
  <2>1. epc = "sums" /\ epc' = "lsb" /\ setup' = setup /\ gpc' = gpc /\ gb' = gb
    BY <1>1 DEF EvaluatorStep
  <2>2. \A g, m, n : <<g, "sums", m, n>> \in Locations =>
          g \in {"sums", "beaverTriple"} /\ <<g, "lsb", m, n>> \in Locations
    BY DEF Locations
  <2> QED  BY <1>1, <2>1, <2>2 DEF IInv, Control
<1> HIDE DEF sums
<1>3. /\ Objects' /\ ev'.sums = sums
      /\ gb' = gb
      /\ \A n \in EvaluatorObjects : n # "sums" => ev'[n] = ev[n]
  BY <1>1, <1>2 DEF IInv, Objects, GarblerObjects, EvaluatorObjects
<1>4. MatrixStage' /\ BStarStage' /\ DualStage' /\ AStage' /\ TmpDeltaStage' /\ TripleStage' /\
      TmpDelta5Stage' /\ PopulateStage' /\ EvaluatorAndedStage' /\ AndedStage' /\
      BeaverTripleStage'
  BY <1>2, <1>3 DEF IInv, Stages, GarblerObjects, EvaluatorObjects, MatrixStage, BStarStage,
     DualStage, AStage, TmpDeltaStage, TripleStage, TmpDelta5Stage, PopulateStage,
     EvaluatorAndedStage, AndedStage, BeaverTripleStage, UpToBStar, UpToDual, UpToA,
     UpToTmpDelta, UpToTriple, UpToTmpDelta5, UpToPopulate, UpToEvaluatorAnded, UpToAnded,
     UpToSums, UpToBeaverTriple, EvaluatorUpToPopulate, EvaluatorUpToSums, EvaluatorUpToLsb,
     Once
<1>5. SumsStage'
  <2>1. epc' \notin EvaluatorUpToSums /\ epc' \in EvaluatorUpToLsb /\ epc \in EvaluatorUpToLsb
    BY <1>2 DEF EvaluatorUpToLsb, EvaluatorUpToSums, EvaluatorUpToPopulate
  <2>2. /\ ev'.matrix = ev.matrix /\ ev'.aKeys = ev.aKeys /\ ev'.tripleKeys = ev.tripleKeys
        /\ ev'.garblerAndedKeys = ev.garblerAndedKeys /\ ev'.triple = ev.triple
    BY <1>3 DEF EvaluatorObjects
  <2> QED  BY <1>2, <1>3, <2>1, <2>2 DEF IInv, Stages, SumsStage, sums
<1> QED  BY <1>2, <1>3, <1>4, <1>5 DEF IInv, Stages

LEMMA RecvLsbKeeps ==
  ASSUME IInv, RecvLsb
  PROVE  IInv'
<1> DEFINE triple == TripleOfE(setup, Head(toE), ev.sums, ev.anded)
<1>1. /\ EvaluatorStep("lsb", "beaverTriple") /\ ReadE /\ ev' = [ev EXCEPT !.triple = triple]
  BY DEF RecvLsb, TripleOfE, circuit
<1>2. /\ Control' /\ setup' = setup /\ gpc = "beaverTriple" /\ gpc' = "beaverTriple"
      /\ epc = "lsb" /\ epc' = "beaverTriple" /\ gb' = gb /\ Head(toE) = toE[1]
  <2>1. \A g, m, n : <<g, "lsb", m, n>> \in Locations /\ n # 0 =>
          m = 0 /\ n \in {1, 2} /\ <<g, "beaverTriple", 0, n - 1>> \in Locations
    BY DEF Locations
  <2>2. \A g, n : n \in {1, 2} /\ <<g, "lsb", 0, n>> \in Locations => g = "beaverTriple"
    BY DEF Locations
  <2>3. /\ Control' /\ setup' = setup /\ epc = "lsb" /\ epc' = "beaverTriple"
        /\ gpc' = gpc /\ gb' = gb /\ Head(toE) = toE[1]
        /\ \E n \in {1, 2} : <<gpc, "lsb", 0, n>> \in Locations
    BY <1>1, <2>1, EvaluatorReads DEF IInv
  <2> QED  BY <2>2, <2>3
<1> HIDE DEF triple
<1>3. /\ Objects' /\ ev'.triple = triple
      /\ gb' = gb
      /\ \A n \in EvaluatorObjects : n # "triple" => ev'[n] = ev[n]
  BY <1>1, <1>2 DEF IInv, Objects, GarblerObjects, EvaluatorObjects
<1>4. MatrixStage' /\ BStarStage' /\ DualStage' /\ AStage' /\ TmpDeltaStage' /\ TripleStage' /\
      TmpDelta5Stage' /\ PopulateStage' /\ EvaluatorAndedStage' /\ AndedStage' /\
      BeaverTripleStage'
  BY <1>2, <1>3 DEF IInv, Stages, GarblerObjects, EvaluatorObjects, MatrixStage, BStarStage,
     DualStage, AStage, TmpDeltaStage, TripleStage, TmpDelta5Stage, PopulateStage,
     EvaluatorAndedStage, AndedStage, BeaverTripleStage, UpToBStar, UpToDual, UpToA,
     UpToTmpDelta, UpToTriple, UpToTmpDelta5, UpToPopulate, UpToEvaluatorAnded, UpToAnded,
     UpToSums, UpToBeaverTriple, EvaluatorUpToPopulate, EvaluatorUpToSums, EvaluatorUpToLsb,
     Once
<1>5. SumsStage'
  <2>1. /\ epc \notin EvaluatorUpToSums /\ epc' \notin EvaluatorUpToSums
        /\ epc' \notin EvaluatorUpToLsb
    BY <1>2 DEF EvaluatorUpToLsb, EvaluatorUpToSums, EvaluatorUpToPopulate
  <2>2. /\ ev'.matrix = ev.matrix /\ ev'.aKeys = ev.aKeys /\ ev'.tripleKeys = ev.tripleKeys
        /\ ev'.garblerAndedKeys = ev.garblerAndedKeys /\ ev'.sums = ev.sums
        /\ ev'.anded = ev.anded
    BY <1>3 DEF EvaluatorObjects
  <2>3. Head(toE) = LsbsOf(setup, gb.sums)
    BY <1>2 DEF IInv, Stages, SumsStage
  <2>4. triple = TripleOfE(setup, LsbsOf(setup, gb.sums), ev.sums, ev.anded)
    BY <2>3 DEF triple
  <2> QED  BY <1>2, <1>3, <2>1, <2>2, <2>4 DEF IInv, Stages, SumsStage
<1> QED  BY <1>2, <1>3, <1>4, <1>5 DEF IInv, Stages

LEMMA BeaverTripleKeeps ==
  ASSUME IInv, BeaverTriple
  PROVE  IInv'
<1> DEFINE deltas == Only(deltaA)
           keys == RandomKeys("beaverTriple", deltas, AndGateSize(circuit))
           choices == RandomBits("beaverTriple", AndGateSize(circuit))
           macs == BitMacs(keys, deltas, choices)
           diff == BitDiff(choices, ev.triple)
<1>1. /\ Together("beaverTriple", "beaverTripleDiff", "beaverTriple", "check")
      /\ gb' = [gb EXCEPT !.tripleKeys = keys[0]]
      /\ ev' = [ev EXCEPT !.tripleMacs = macs[0]]
      /\ toG' = <<diff>> /\ toE' = toE /\ toE = <<>>
  BY DEF BeaverTriple, Together
<1>2. /\ Control' /\ setup' = setup /\ gpc = "beaverTriple" /\ gpc' = "beaverTripleDiff"
      /\ epc = "beaverTriple" /\ epc' = "check" /\ toG'[1] = diff
  <2>1. Holds(toG', 1) /\ Holds(toE', 0) /\ toG'[1] = diff
    BY <1>1, HoldsOne DEF Holds
  <2>2. <<"beaverTripleDiff", "check", 1, 0>> \in Locations
    BY DEF Locations
  <2> QED  BY <1>1, <2>1, <2>2, TogetherControl DEF IInv
<1>6. /\ keys[0] \in BlocksOfLength(AndsOf(setup))
      /\ BitsMade(Only(setup.deltaA), AndsOf(setup), ev.triple, Only(macs[0]),
                  FixedBitKeys(Only(keys[0]), Only(setup.deltaA), diff))
  <2> DEFINE n == AndsOf(setup)
  <2>1. /\ setup \in Setups /\ AndGateSize(circuit) = n /\ deltas = Only(setup.deltaA)
        /\ deltas \in [{0} -> Block] /\ DOMAIN deltas = {0} /\ {0} \subseteq 0 .. ColumnsOf(setup)
    BY SetupTypes, OfSetup DEF IInv, Objects
  <2>2. ev.triple \in BitsOfLength(n)
    <3>1. epc \notin EvaluatorUpToLsb
      BY <1>2 DEF EvaluatorUpToLsb, EvaluatorUpToSums, EvaluatorUpToPopulate
    <3>2. \A s, lsbs, sums, anded : TripleOfE(s, lsbs, sums, anded) \in BitsOfLength(AndsOf(s))
      BY DEF TripleOfE, AndIndices, BitsOfLength, Below, AndsOf
    <3> QED  BY <3>1, <3>2 DEF IInv, Stages, SumsStage
  <2>3. choices \in BitsOfLength(n) /\ keys \in TableOf({0}, n)
    <3>1. "beaverTriple" \in RandomVectors
      BY DEF RandomVectors
    <3> QED  BY <2>1, <3>1, RandomTypes
  <2> HIDE DEF deltas, keys, choices, n
  <2>4. /\ macs \in TableOf({0}, n)
        /\ BitsMade(deltas, n, ev.triple, macs, FixedBitKeys(keys, deltas, diff))
    BY <2>1, <2>2, <2>3, BitsFixed, BitsFixedMade
  <2> HIDE DEF macs
  <2>5. Only(macs[0]) = macs /\ Only(keys[0]) = keys /\ keys[0] \in BlocksOfLength(n)
    BY <2>3, <2>4, OnlyTable
  <2> QED  BY <2>1, <2>4, <2>5 DEF n
<1> HIDE DEF deltas, keys, choices, macs, diff
<1>3. /\ Objects' /\ gb'.tripleKeys = keys[0] /\ ev'.tripleMacs = macs[0]
      /\ \A n \in GarblerObjects : n # "tripleKeys" => gb'[n] = gb[n]
      /\ \A n \in EvaluatorObjects : n # "tripleMacs" => ev'[n] = ev[n]
  BY <1>1, <1>2 DEF IInv, Objects, GarblerObjects, EvaluatorObjects
<1>4. MatrixStage' /\ BStarStage' /\ DualStage' /\ AStage' /\ TmpDeltaStage' /\ TripleStage' /\
      TmpDelta5Stage' /\ PopulateStage' /\ EvaluatorAndedStage' /\ AndedStage' /\ SumsStage'
  BY <1>2, <1>3 DEF IInv, Stages, GarblerObjects, EvaluatorObjects, MatrixStage, BStarStage,
     DualStage, AStage, TmpDeltaStage, TripleStage, TmpDelta5Stage, PopulateStage,
     EvaluatorAndedStage, AndedStage, SumsStage, UpToBStar, UpToDual, UpToA, UpToTmpDelta,
     UpToTriple, UpToTmpDelta5, UpToPopulate, UpToEvaluatorAnded, UpToAnded, UpToSums,
     UpToBeaverTriple, EvaluatorUpToPopulate, EvaluatorUpToSums, EvaluatorUpToLsb, Once
<1>5. BeaverTripleStage'
  <2>1. gpc' \notin UpToBeaverTriple
    BY <1>2 DEF UpToBeaverTriple, UpToSums, UpToAnded, UpToEvaluatorAnded, UpToPopulate, UpToTmpDelta5,
       UpToTriple, UpToTmpDelta, UpToA, UpToDual, UpToBStar
  <2>2. ev'.triple = ev.triple
    BY <1>3 DEF EvaluatorObjects
  <2> QED  BY <1>2, <1>3, <1>6, <2>1, <2>2 DEF BeaverTripleStage, Once
<1> QED  BY <1>2, <1>3, <1>4, <1>5 DEF IInv, Stages

LEMMA BeaverTripleDiffKeeps ==
  ASSUME IInv, BeaverTripleDiff
  PROVE  IInv'
<1> DEFINE fixed == FixedBitKeys(Only(gb.tripleKeys), Only(deltaA), Head(toG))
<1>1. /\ GarblerStep("beaverTripleDiff", "check") /\ ReadG
      /\ gb' = [gb EXCEPT !.tripleKeys = fixed[0]]
  BY DEF BeaverTripleDiff
<1>2. /\ Control' /\ setup' = setup /\ gpc = "beaverTripleDiff" /\ gpc' = "check"
      /\ epc = "check" /\ epc' = "check" /\ ev' = ev /\ Head(toG) = toG[1]
  <2>1. /\ \A e1, m, n : <<"beaverTripleDiff", e1, m, n>> \in Locations =>
                           m = 0 \/ (e1 = "check" /\ m = 1 /\ n = 0)
        /\ <<"check", "check", 0, 0>> \in Locations
    BY DEF Locations
  <2> QED  BY <1>1, <2>1, GarblerReads DEF IInv
<1>8. gpc \notin UpToBeaverTriple /\ gpc' \notin UpToBeaverTriple
  BY <1>2 DEF UpToBeaverTriple, UpToSums, UpToAnded, UpToEvaluatorAnded, UpToPopulate, UpToTmpDelta5,
       UpToTriple, UpToTmpDelta, UpToA, UpToDual, UpToBStar
<1>6. /\ fixed = FixedBitKeys(Only(gb.tripleKeys), Only(setup.deltaA), toG[1])
      /\ BitsMade(Only(setup.deltaA), AndsOf(setup), ev.triple, Only(ev.tripleMacs), fixed)
  <2>1. fixed = FixedBitKeys(Only(gb.tripleKeys), Only(setup.deltaA), toG[1])
    BY <1>2, OfSetup
  <2> HIDE DEF fixed
  <2> QED  BY <1>2, <1>8, <2>1 DEF IInv, Stages, BeaverTripleStage, Once
<1> HIDE DEF fixed
<1>7. Only(fixed[0]) = fixed /\ fixed[0] \in BlocksOfLength(AndsOf(setup))
  BY <1>6, OnlyTable, OnlyType DEF BitsMade
<1>3. /\ Objects' /\ gb'.tripleKeys = fixed[0]
      /\ \A n \in GarblerObjects : n # "tripleKeys" => gb'[n] = gb[n]
      /\ ev' = ev
  BY <1>1, <1>2 DEF IInv, Objects, GarblerObjects, EvaluatorObjects
<1>4. MatrixStage' /\ BStarStage' /\ DualStage' /\ AStage' /\ TmpDeltaStage' /\ TripleStage' /\
      TmpDelta5Stage' /\ PopulateStage' /\ EvaluatorAndedStage' /\ AndedStage' /\ SumsStage'
  BY <1>2, <1>3 DEF IInv, Stages, GarblerObjects, EvaluatorObjects, MatrixStage, BStarStage,
     DualStage, AStage, TmpDeltaStage, TripleStage, TmpDelta5Stage, PopulateStage,
     EvaluatorAndedStage, AndedStage, SumsStage, UpToBStar, UpToDual, UpToA, UpToTmpDelta,
     UpToTriple, UpToTmpDelta5, UpToPopulate, UpToEvaluatorAnded, UpToAnded, UpToSums,
     UpToBeaverTriple, EvaluatorUpToPopulate, EvaluatorUpToSums, EvaluatorUpToLsb, Once
<1>5. BeaverTripleStage'
  BY <1>2, <1>3, <1>6, <1>7, <1>8 DEF BeaverTripleStage, Once
<1> QED  BY <1>2, <1>3, <1>4, <1>5 DEF IInv, Stages

LEMMA Initially == Init => IInv
<1> SUFFICES ASSUME Init PROVE IInv
  OBVIOUS
<1>1. /\ gpc = "matrix" /\ epc = "matrix" /\ setup \in Setups /\ toG = <<>> /\ toE = <<>>
      /\ gb = [n \in GarblerObjects |-> Unset] /\ ev = [n \in EvaluatorObjects |-> Unset]
  BY DEF Init, Unconstructed
<1>2. \A n \in GarblerObjects : gb[n] = Unset
  BY <1>1
<1>3. \A n \in EvaluatorObjects : ev[n] = Unset
  BY <1>1
<1>4. Objects
  BY <1>1 DEF Objects
<1>5. Control
  <2>1. Holds(toG, 0) /\ Holds(toE, 0) /\ <<"matrix", "matrix", 0, 0>> \in Locations
    BY <1>1 DEF Holds, Locations
  <2> QED  BY <1>1, <2>1 DEF Control
<1>6. Stages
  BY <1>1, <1>2, <1>3 DEF Stages, GarblerObjects, EvaluatorObjects, MatrixStage, BStarStage,
     DualStage, AStage, TmpDeltaStage, TripleStage, TmpDelta5Stage, PopulateStage,
     EvaluatorAndedStage, AndedStage, SumsStage, BeaverTripleStage, UpToBStar, UpToDual, UpToA,
     UpToTmpDelta, UpToTriple, UpToTmpDelta5, UpToPopulate, UpToEvaluatorAnded, UpToAnded,
     UpToSums, UpToBeaverTriple, EvaluatorUpToPopulate, EvaluatorUpToSums, EvaluatorUpToLsb
<1> QED  BY <1>4, <1>5, <1>6 DEF IInv

LEMMA Inductive == IInv /\ [Next]_vars => IInv'
<1> SUFFICES ASSUME IInv, [Next]_vars PROVE IInv'
  OBVIOUS
<1>1. CASE Correlated
  BY <1>1, BStarKeeps, DualBStarKeeps, AMatrixKeeps, TmpDeltaKeeps, TripleSharesKeeps,
     TmpDelta5Keeps, EvaluatorAndedKeeps, GarblerAndedKeeps, BeaverTripleKeeps DEF Correlated
<1>2. CASE Garbler
  BY <1>2, RecvMatrixKeeps, DualBStarDiffKeeps, PopulateGarblerKeeps, EvaluatorAndedDiffKeeps,
     GarblerSumsKeeps, BeaverTripleDiffKeeps DEF Garbler
<1>3. CASE Evaluator
  BY <1>3, SendMatrixKeeps, TmpDeltaDiffKeeps, TmpDelta5DiffKeeps, PopulateEvaluatorKeeps,
     GarblerAndedDiffKeeps, EvaluatorSumsKeeps, RecvLsbKeeps DEF Evaluator
<1>4. CASE UNCHANGED vars
  BY <1>4 DEF vars, IInv, Objects, Control, Stages, MatrixStage, BStarStage,
     DualStage, AStage, TmpDeltaStage, TripleStage, TmpDelta5Stage, PopulateStage,
     EvaluatorAndedStage, AndedStage, SumsStage, BeaverTripleStage
<1> QED  BY <1>1, <1>2, <1>3, <1>4 DEF Next

(* The invariant of the stages holds in every state of Preprocess. *)
THEOREM SpecIInv == Spec => []IInv
BY Initially, Inductive, PTL DEF Spec

-----------------------------------------------------------------------------
(***************************************************************************)
(* What the invariant says of single objects.                              *)
(***************************************************************************)
(* Where a party is tells what it and its peer have constructed.           *)
LEMMA Behind ==
  ASSUME IInv
  PROVE  /\ epc \notin EvaluatorUpToPopulate =>
              gpc \notin UpToTmpDelta5 /\ epc \notin {"matrix", "tmpDeltaDiff", "tmpDelta5Diff"}
         /\ epc \notin EvaluatorUpToSums => gpc \notin UpToAnded /\ epc # "andedDiff"
         /\ epc \notin EvaluatorUpToLsb => gpc \notin UpToSums /\ epc # "andedDiff"
         /\ gpc \notin UpToBStar => gpc # "matrix" /\ epc # "matrix"
         /\ gpc \notin UpToAnded => gpc \notin UpToEvaluatorAnded /\ gpc # "evaluatorAndedDiff"
                                    /\ epc \notin EvaluatorUpToPopulate
         /\ gpc \notin UpToEvaluatorAnded => epc \notin EvaluatorUpToPopulate
<1>1. PICK m \in 0 .. 2, n \in 0 .. 2 : <<gpc, epc, m, n>> \in Locations
  BY DEF IInv, Control
<1> QED  BY <1>1 DEF Locations, UpToBStar, UpToDual, UpToA, UpToTmpDelta, UpToTriple,
      UpToTmpDelta5, UpToPopulate, UpToEvaluatorAnded, UpToAnded, UpToSums,
      EvaluatorUpToPopulate, EvaluatorUpToSums, EvaluatorUpToLsb

LEMMA Nested ==
  /\ UpToBStar \subseteq UpToDual /\ UpToDual \subseteq UpToA /\ UpToA \subseteq UpToTmpDelta
  /\ UpToTmpDelta \subseteq UpToTriple /\ UpToTriple \subseteq UpToTmpDelta5
  /\ UpToTmpDelta5 \subseteq UpToPopulate /\ UpToPopulate \subseteq UpToEvaluatorAnded
  /\ UpToEvaluatorAnded \subseteq UpToAnded /\ UpToAnded \subseteq UpToSums
  /\ UpToSums \subseteq UpToBeaverTriple
  /\ EvaluatorUpToPopulate \subseteq EvaluatorUpToSums
  /\ EvaluatorUpToSums \subseteq EvaluatorUpToLsb
  /\ "dualBStarDiff" \in UpToA /\ "evaluatorAndedDiff" \in UpToAnded
BY DEF UpToDual, UpToA, UpToTmpDelta, UpToTriple, UpToTmpDelta5, UpToPopulate,
   UpToEvaluatorAnded, UpToAnded, UpToSums, UpToBeaverTriple, EvaluatorUpToSums, EvaluatorUpToLsb

(* The two vectors of sums are vectors of blocks. *)
LEMMA SumsType ==
  ASSUME IInv
  PROVE  /\ gpc \notin UpToSums => gb.sums \in BlocksOfLength(AndsOf(setup))
         /\ epc \notin EvaluatorUpToSums => ev.sums \in BlocksOfLength(AndsOf(setup))
<1> DEFINE n == AndsOf(setup)
<1>1. setup \in Setups /\ setup.alpha0 \in Block /\ AndIndices(setup.circuit) = Below(n)
  BY SetupTypes DEF IInv, Objects, AndIndices, Below, AndsOf
<1>2. ASSUME gpc \notin UpToSums
      PROVE  gb.sums \in BlocksOfLength(n)
  <2>1. gpc \notin UpToAnded /\ gpc \notin UpToTriple
    BY <1>2, Nested
  <2>2. /\ gb.andedMacs \in TableOf({0, 1}, n) /\ gb.tripleMacs \in TableOf({0, 1}, n)
    BY <1>1, <2>1, SetupTypes DEF IInv, Stages, AndedStage, TripleStage, BitsMade
  <2>3. \A k \in Below(n) : gb.andedMacs[0][k] \in Block /\ gb.tripleMacs[0][k] \in Block
    BY <2>2 DEF TableOf, BlocksOfLength
  <2>4. \A s, m, bits, macs, dual, in0, in1 : CellsG(s, m, bits, macs, dual, in0, in1) \in Block
    BY BlockType DEF CellsG
  <2>5. gb.sums = SumsOfG(setup, gb.matrix, gb.a, gb.aMacs, gb.dualAuthedBStar,
                          gb.anded, gb.andedMacs, gb.triple, gb.tripleMacs)
    BY <1>2 DEF IInv, Stages, SumsStage
  <2> QED  BY <1>1, <2>3, <2>4, <2>5, BlockType DEF SumsOfG, BlocksOfLength
<1>3. ASSUME epc \notin EvaluatorUpToSums
      PROVE  ev.sums \in BlocksOfLength(n)
  <2>1. gpc \notin UpToAnded /\ gpc \notin UpToTriple /\ epc # "andedDiff"
    BY <1>3, Behind, Nested
  <2>2. /\ ev.garblerAndedKeys \in TableOf({0, 1}, n) /\ ev.tripleKeys \in TableOf({0, 1}, n)
    BY <1>1, <2>1, SetupTypes DEF IInv, Stages, AndedStage, TripleStage, BitsMade, Once
  <2>3. \A k \in Below(n) : ev.garblerAndedKeys[0][k] \in Block /\ ev.tripleKeys[0][k] \in Block
    BY <2>2 DEF TableOf, BlocksOfLength
  <2>4. \A s, m, keys, in0, in1 : CellsE(s, m, keys, in0, in1) \in Block
    BY BlockType DEF CellsE
  <2>5. ev.sums = SumsOfE(setup, ev.matrix, ev.aKeys, ev.garblerAndedKeys, ev.tripleKeys)
    BY <1>3 DEF IInv, Stages, SumsStage
  <2> QED  BY <1>1, <2>3, <2>4, <2>5, BlockType DEF SumsOfE, BlocksOfLength
<1> QED  BY <1>2, <1>3

(* Every single-key vector has its type. *)
LEMMA OnlyBlocks ==
  ASSUME NEW n, NEW v, Only(v) \in TableOf({0}, n)
  PROVE  v \in BlocksOfLength(n)
BY OnlyType, OnlyTable

-----------------------------------------------------------------------------
(* Authenticated: with no message on its way every key has been moved.     *)
LEMMA AuthenticatedKept == IInv => Authenticated
<1> SUFFICES ASSUME IInv, Drained PROVE Authenticated
  BY DEF Authenticated
<1>1. /\ gpc \notin {"dualBStarDiff", "evaluatorAndedDiff", "beaverTripleDiff"}
      /\ epc \notin {"tmpDeltaDiff", "tmpDelta5Diff", "andedDiff"}
  <2>1. PICK m \in 0 .. 2, n \in 0 .. 2 :
          Holds(toG, m) /\ Holds(toE, n) /\ <<gpc, epc, m, n>> \in Locations
    BY DEF IInv, Control
  <2>2. m = 0 /\ n = 0
    BY <2>1 DEF Drained, Holds
  <2> QED  BY <2>1, <2>2 DEF Locations
<1>2. BStarAuthentic
  BY OfSetup DEF IInv, Stages, BStarStage, BStarMade, BitsMade, BStarAuthentic, Both
<1>3. DualAuthentic
  BY <1>1, OfSetup DEF IInv, Stages, DualStage, BlocksMade, DualAuthentic, Both, DualValues, Once
<1>4. AAuthentic
  BY OfSetup DEF IInv, Stages, AStage, BitsMade, AAuthentic, Both
<1>5. TmpDeltaAuthentic
  BY <1>1, OfSetup DEF IInv, Stages, TmpDeltaStage, TmpDelta5Stage, BlocksMade, TmpDeltaAuthentic,
     Both, Once
<1>6. AndedAuthentic
  BY <1>1, OfSetup DEF IInv, Stages, EvaluatorAndedStage, AndedStage, BitsMade, AndedAuthentic,
     Both, Once
<1>7. TriplesAuthentic
  BY <1>1, OfSetup DEF IInv, Stages, TripleStage, BeaverTripleStage, BitsMade, TriplesAuthentic,
     Both, Once
<1> QED  BY <1>2, <1>3, <1>4, <1>5, <1>6, <1>7 DEF Authenticated

-----------------------------------------------------------------------------
(***************************************************************************)
(* The dual-key calculator.                                                *)
(***************************************************************************)
LEMMA FieldZero ==
  ASSUME NEW x \in Block
  PROVE  GfMul(ZeroBlock, x) = ZeroBlock
<1>1. ZeroBlock \in Block
  BY BlockType
<1>2. GfMul(x, ZeroBlock \oplus ZeroBlock) = GfMul(x, ZeroBlock) \oplus GfMul(x, ZeroBlock)
  BY <1>1, FieldAssumption
<1>3. ZeroBlock \oplus ZeroBlock = ZeroBlock
      /\ GfMul(x, ZeroBlock) \oplus GfMul(x, ZeroBlock) = ZeroBlock
  BY XorAlgebra, Zenon
<1>4. GfMul(x, ZeroBlock) = ZeroBlock
  BY <1>2, <1>3, Zenon
<1> QED  BY <1>1, <1>4, FieldAssumption

(* The dual keys are MACs of bStar under the product of the global keys.   *)
LEMMA DualKeys ==
  ASSUME NEW s \in Setups, NEW bits \in BitsOfLength(ColumnsOf(s)), NEW dual, NEW dualMacs,
         BlocksMade(Only(s.deltaA), ColumnsOf(s), DualValues(s, bits), Only(dualMacs), Only(dual))
  PROVE  /\ dual \in BlocksOfLength(ColumnsOf(s)) /\ dualMacs \in BlocksOfLength(ColumnsOf(s))
         /\ \A l \in Below(ColumnsOf(s)) :
              dualMacs[l] = dual[l] \oplus AndAllBits(bits[l], GfMul(s.deltaA, s.deltaB))
<1> DEFINE n == ColumnsOf(s)
<1>1. /\ DOMAIN Only(s.deltaA) = {0} /\ Only(s.deltaA)[0] = s.deltaA
      /\ Only(dual)[0] = dual /\ Only(dualMacs)[0] = dualMacs
      /\ s.deltaA \in Block /\ s.deltaB \in Block
  BY OnlyType, SetupTypes
<1>2. dual \in BlocksOfLength(n) /\ dualMacs \in BlocksOfLength(n)
  BY <1>1, OnlyBlocks DEF BlocksMade
<1>3. DOMAIN DualValues(s, bits) = Below(n)
      /\ \A l \in Below(n) : DualValues(s, bits)[l] = AndAllBits(bits[l], s.deltaB)
  BY DEF DualValues
<1>4. ASSUME NEW l \in Below(n)
      PROVE  dualMacs[l] = dual[l] \oplus GfMul(AndAllBits(bits[l], s.deltaB), s.deltaA)
  BY <1>1, <1>3 DEF BlocksMade, BlocksAuthentic
<1>5. ASSUME NEW bit \in BOOLEAN
      PROVE  GfMul(AndAllBits(bit, s.deltaB), s.deltaA)
               = AndAllBits(bit, GfMul(s.deltaA, s.deltaB))
  <2>1. GfMul(s.deltaB, s.deltaA) = GfMul(s.deltaA, s.deltaB)
        /\ GfMul(ZeroBlock, s.deltaA) = ZeroBlock
    BY <1>1, FieldAssumption, FieldZero
  <2> QED  BY <2>1, Zenon DEF AndAllBits
<1>6. \A l \in Below(n) : bits[l] \in BOOLEAN
  BY DEF BitsOfLength
<1>7. ASSUME NEW l \in Below(n)
      PROVE  dualMacs[l] = dual[l] \oplus AndAllBits(bits[l], GfMul(s.deltaA, s.deltaB))
  BY <1>4, <1>5, <1>6, Zenon
<1> QED  BY <1>2, <1>7

(* The places of independent wires. *)
LEMMA Places ==
  ASSUME NEW s \in Setups, NEW w \in Independent(s.circuit)
  PROVE  /\ PlaceA(s, w) \in Below(PlacesOf(s))
         /\ w \notin GarblerInputs(s.circuit) => PlaceB(s, w) \in Below(RowsOf(s))
<1>1. WellFormed(s.circuit)
  BY SetupTypes
<1>2. /\ IndependentIndex(s.circuit, w) \in 0 .. (IndependentSize(s.circuit) - 1)
      /\ w \notin GarblerInputs(s.circuit) =>
           IndependentIndex(s.circuit, w) - s.circuit.inputSize0
             \in 0 .. (AndGateSize(s.circuit) + s.circuit.inputSize1 - 1)
  BY <1>1, IndependentIndexType
<1>3. PlaceA(s, w) \in Below(PlacesOf(s))
  BY <1>2, Zenon DEF PlaceA, Below, PlacesOf
<1>4. w \notin GarblerInputs(s.circuit) => PlaceB(s, w) \in Below(RowsOf(s))
  <2>1. Below(RowsOf(s)) = 0 .. (AndGateSize(s.circuit) + s.circuit.inputSize1 - 1)
    <3>1. AndGateSize(s.circuit) \in Nat /\ s.circuit.inputSize1 \in Nat
      BY <1>1, AndGatesFinite DEF WellFormed
    <3> QED  BY <3>1 DEF Below, RowsOf, EvaluatorWires
  <2> QED  BY <1>2, <2>1 DEF PlaceB
<1> QED  BY <1>3, <1>4

CellsReady(s, m, bits, b, dual, dualMacs, a, macs, keys) ==
  /\ MatrixMade(s, m) /\ bits \in BitsOfLength(ColumnsOf(s)) /\ b = TimesBits(m, bits)
  /\ BlocksMade(Only(s.deltaA), ColumnsOf(s), DualValues(s, bits), Only(dualMacs), Only(dual))
  /\ BitsMade(Sid1Of(s, dualMacs), PlacesOf(s), a, macs, keys)

(* One cell: the product of the garbler's mask of x and the evaluator's of *)
(* y, times the product of the global keys.                                *)
LEMMA CellShares ==
  ASSUME NEW s \in Setups, NEW m, NEW bits, NEW b, NEW dual, NEW dualMacs,
         NEW a, NEW macs, NEW keys, CellsReady(s, m, bits, b, dual, dualMacs, a, macs, keys),
         NEW x \in Independent(s.circuit), NEW y \in Independent(s.circuit)
  PROVE  CellG(s, m, a, macs, dual, x, y) \oplus CellE(s, m, keys, x, y)
           = AndAllBits(a[PlaceA(s, x)] /\ y \notin GarblerInputs(s.circuit) /\ b[PlaceB(s, y)],
                        GfMul(s.deltaA, s.deltaB))
<1> DEFINE n == ColumnsOf(s)
           prod == GfMul(s.deltaA, s.deltaB)
           p == PlaceA(s, x)
           q == PlaceB(s, y)
           T == {l \in Below(n) : m[q][l]}
<1>1. /\ n \in Nat /\ prod \in Block /\ s.deltaA \in Block /\ s.deltaB \in Block
      /\ bits \in BitsOfLength(n)
      /\ dual \in BlocksOfLength(n) /\ dualMacs \in BlocksOfLength(n)
      /\ \A l \in Below(n) : dualMacs[l] = dual[l] \oplus AndAllBits(bits[l], prod)
  <2>1. n \in Nat /\ s.deltaA \in Block /\ s.deltaB \in Block
    BY SetupTypes
  <2>2. prod \in Block
    BY <2>1, FieldAssumption
  <2>3. /\ bits \in BitsOfLength(ColumnsOf(s))
        /\ BlocksMade(Only(s.deltaA), ColumnsOf(s), DualValues(s, bits), Only(dualMacs), Only(dual))
    BY Zenon DEF CellsReady
  <2>4. /\ dual \in BlocksOfLength(ColumnsOf(s)) /\ dualMacs \in BlocksOfLength(ColumnsOf(s))
        /\ \A l \in Below(ColumnsOf(s)) :
             dualMacs[l] = dual[l] \oplus AndAllBits(bits[l], GfMul(s.deltaA, s.deltaB))
    BY <2>3, DualKeys
  <2> QED  BY <2>1, <2>2, <2>3, <2>4
<1>2. CASE y \in GarblerInputs(s.circuit)
  <2>1. ZeroBlock \oplus ZeroBlock = ZeroBlock
    BY XorAlgebra
  <2> QED  BY <1>2, <2>1 DEF CellG, CellE, AndAllBits
<1>3. CASE y \notin GarblerInputs(s.circuit)
  <2>1. p \in Below(PlacesOf(s)) /\ q \in Below(RowsOf(s))
    BY <1>3, Places
  <2>2. Authentic(TimesBits(m, bits)[q], TimesBlocks(m, dualMacs)[q], TimesBlocks(m, dual)[q],
                  prod)
    <3>1. m \in [Below(RowsOf(s)) -> BitsOfLength(n)]
      BY DEF CellsReady, MatrixMade
    <3> HIDE DEF n, prod, q
    <3>2. \A i \in Below(RowsOf(s)) :
            Authentic(TimesBits(m, bits)[i], TimesBlocks(m, dualMacs)[i], TimesBlocks(m, dual)[i],
                      prod)
      BY <1>1, <3>1, TimesAuthentic
    <3> QED  BY <2>1, <3>2
  <2>3. TimesBlocks(m, dual)[q] = XorOver(T, dual) /\ TimesBlocks(m, dualMacs)[q] = XorOver(T, dualMacs)
    BY <1>1, <2>1 DEF TimesBlocks, CellsReady, MatrixMade, BlocksOfLength
  <2>4. XorOver(T, dualMacs) = XorOver(T, dual) \oplus AndAllBits(b[q], prod)
    <3> HIDE DEF T, prod, q
    <3> QED  BY <2>2, <2>3, Zenon DEF Authentic, CellsReady
  <2>5. DOMAIN Sid1Of(s, dualMacs) = 0 .. n /\ \A l \in Below(n) :
          l \in 0 .. n /\ Sid1Of(s, dualMacs)[l] = dualMacs[l]
    BY <1>1 DEF Sid1Of, Below
  <2>6. DOMAIN a = Below(PlacesOf(s)) /\ a[p] \in BOOLEAN
    BY <2>1 DEF CellsReady, BitsMade, BitsOfLength
  <2>7. ASSUME NEW l \in Below(n)
        PROVE  macs[l][p] = keys[l][p] \oplus AndAllBits(a[p], dualMacs[l])
    BY <2>1, <2>5, <2>6 DEF CellsReady, BitsMade, BitsAuthentic, Authentic
  <2> DEFINE row(v) == [l \in Below(n) |-> v[l][p]]
             part == [l \in Below(n) |-> AndAllBits(a[p], dualMacs[l])]
  <2>8. XorOver(T, row(macs)) = XorOver(T, row(keys)) \oplus XorOver(T, part)
    <3>1. IsFiniteSet(T)
      <4>1. IsFiniteSet(Below(n))
        BY <1>1, FS_Interval DEF Below
      <4> QED  BY <4>1, FS_Subset
    <3>2. \A l \in T : row(macs)[l] = row(keys)[l] \oplus part[l]
      BY <2>7
    <3> HIDE DEF T, part, row
    <3> QED  BY <3>1, <3>2, XorOverSum
  <2>9. XorOver(T, part) = AndAllBits(a[p], XorOver(T, dualMacs))
    <3>1. CASE a[p]
      <4>1. \A l \in T : part[l] = dualMacs[l]
        BY <3>1 DEF AndAllBits
      <4> HIDE DEF T, part
      <4>2. XorOver(T, part) = XorOver(T, dualMacs)
        BY <4>1, XorOverSame
      <4> QED  BY <3>1, <4>2 DEF AndAllBits
    <3>2. CASE ~a[p]
      <4> DEFINE none == [l \in T |-> FALSE]
      <4>1. \A l \in T : part[l] = AndAllBits(none[l], ZeroBlock)
        BY <3>2 DEF AndAllBits
      <4>2. XorOver(T, part) = AndAllBits(Odd({l \in T : none[l]}), ZeroBlock)
        <5>1. ZeroBlock \in Block
          BY BlockType
        <5> HIDE DEF T, part, none
        <5> QED  BY <4>1, <5>1, XorOverCopies
      <4> HIDE DEF T, part
      <4> QED  BY <3>2, <4>2 DEF AndAllBits
    <3> QED  BY <2>6, <3>1, <3>2
  <2>10. /\ CellG(s, m, a, macs, dual, x, y)
              = XorOver(T, row(macs)) \oplus AndAllBits(a[p], XorOver(T, dual))
         /\ CellE(s, m, keys, x, y) = XorOver(T, row(keys))
    <3>1. CellG(s, m, a, macs, dual, x, y)
            = XorOver(T, row(macs)) \oplus AndAllBits(a[p], TimesBlocks(m, dual)[q])
          /\ CellE(s, m, keys, x, y) = XorOver(T, row(keys))
      BY <1>3 DEF CellG, CellE, RowTimes
    <3> HIDE DEF T, row, p, q
    <3> QED  BY <2>3, <3>1, Zenon
  <2> DEFINE X == XorOver(T, row(macs))
             Y == XorOver(T, row(keys))
             D == XorOver(T, dual)
             DM == XorOver(T, dualMacs)
             bit == b[q]
  <2>11. X = Y \oplus AndAllBits(a[p], DM) /\ DM = D \oplus AndAllBits(bit, prod)
    <3> HIDE DEF T, part, row, prod
    <3> QED  BY <2>4, <2>8, <2>9, Zenon
  <2> HIDE DEF X, Y, D, DM, prod, p, q, bit
  <2>12. (X \oplus AndAllBits(a[p], D)) \oplus Y = AndAllBits(a[p] /\ bit, prod)
    <3>1. CASE a[p]
      <4>1. X = Y \oplus (D \oplus AndAllBits(bit, prod))
        BY <2>11, <3>1, Zenon DEF AndAllBits
      <4> DEFINE r == AndAllBits(bit, prod)
      <4> HIDE DEF r
      <4>2. ((Y \oplus (D \oplus r)) \oplus D) \oplus Y = r
        BY SMT DEF \oplus
      <4>3. AndAllBits(a[p], D) = D /\ AndAllBits(a[p] /\ bit, prod) = r
        BY <3>1 DEF AndAllBits, r
      <4> QED  BY <4>1, <4>2, <4>3, Zenon DEF r
    <3>2. CASE ~a[p]
      <4>1. X = Y \oplus ZeroBlock /\ AndAllBits(a[p], D) = ZeroBlock
            /\ AndAllBits(a[p] /\ bit, prod) = ZeroBlock
        BY <2>11, <3>2, Zenon DEF AndAllBits
      <4>2. ((Y \oplus ZeroBlock) \oplus ZeroBlock) \oplus Y = ZeroBlock
        BY SMT DEF \oplus, ZeroBlock
      <4> QED  BY <4>1, <4>2, Zenon
    <3> QED  BY <2>6, <3>1, <3>2
  <2>13. (a[p] /\ y \notin GarblerInputs(s.circuit) /\ bit) = (a[p] /\ bit)
    BY <1>3
  <2> QED  BY <2>10, <2>12, <2>13, Zenon DEF X, Y, D, bit, p, q, prod
<1> QED  BY <1>2, <1>3

-----------------------------------------------------------------------------
(***************************************************************************)
(* The shares of the wires after populate.                                 *)
(***************************************************************************)
LEMMA RowGType ==
  ASSUME NEW s \in Setups, NEW a \in BitsOfLength(PlacesOf(s)),
         NEW macs \in BlocksOfLength(PlacesOf(s)), NEW bKeys \in BlocksOfLength(RowsOf(s))
  PROVE  RowG(s, a, macs, bKeys) \in IndependentRow(s.circuit)
<1>1. ASSUME NEW w \in Independent(s.circuit)
      PROVE  /\ a[PlaceA(s, w)] \in BOOLEAN /\ macs[PlaceA(s, w)] \in Block
             /\ w \notin GarblerInputs(s.circuit) => bKeys[PlaceB(s, w)] \in Block
  BY Places DEF BitsOfLength, BlocksOfLength
<1> QED  BY <1>1, BlockType DEF RowG, IndependentRow

LEMMA RowEType ==
  ASSUME NEW s \in Setups, NEW b \in BitsOfLength(RowsOf(s)),
         NEW bMacs \in BlocksOfLength(RowsOf(s)), NEW keys \in BlocksOfLength(PlacesOf(s))
  PROVE  RowE(s, b, bMacs, keys) \in IndependentRow(s.circuit)
<1>1. ASSUME NEW w \in Independent(s.circuit)
      PROVE  /\ keys[PlaceA(s, w)] \in Block
             /\ w \notin GarblerInputs(s.circuit) =>
                  b[PlaceB(s, w)] \in BOOLEAN /\ bMacs[PlaceB(s, w)] \in Block
  BY Places DEF BitsOfLength, BlocksOfLength
<1> QED  BY <1>1, BlockType DEF RowE, IndependentRow

(* The last of the global keys under which a is authenticated is deltaB.   *)
LEMMA LastKey ==
  ASSUME NEW s \in Setups, NEW dualMacs, NEW a, NEW macs, NEW keys,
         BitsMade(Sid1Of(s, dualMacs), PlacesOf(s), a, macs, keys)
  PROVE  /\ a \in BitsOfLength(PlacesOf(s)) /\ macs[ColumnsOf(s)] \in BlocksOfLength(PlacesOf(s))
         /\ keys[ColumnsOf(s)] \in BlocksOfLength(PlacesOf(s))
         /\ \A p \in Below(PlacesOf(s)) :
              Authentic(a[p], macs[ColumnsOf(s)][p], keys[ColumnsOf(s)][p], s.deltaB)
<1>1. /\ DOMAIN Sid1Of(s, dualMacs) = 0 .. ColumnsOf(s) /\ ColumnsOf(s) \in 0 .. ColumnsOf(s)
      /\ Sid1Of(s, dualMacs)[ColumnsOf(s)] = s.deltaB
  BY SetupTypes DEF Sid1Of
<1> QED  BY <1>1 DEF BitsMade, BitsAuthentic, BitsOfLength, TableOf

LEMMA PopulatedG ==
  ASSUME IInv, gpc \notin UpToPopulate
  PROVE  /\ gb.populated \in ShareRow(setup.circuit)
         /\ \A w \in Independent(setup.circuit) :
              /\ gb.populated.masks[w] = gb.a[PlaceA(setup, w)]
              /\ gb.populated.macs[w] = gb.aMacs[ColumnsOf(setup)][PlaceA(setup, w)]
              /\ gb.populated.keys[w] = IF w \in GarblerInputs(setup.circuit) THEN ZeroBlock
                                        ELSE gb.bKeys[PlaceB(setup, w)]
         /\ \A i \in GateIndices(setup.circuit) : GateShares(setup.circuit.gates[i], gb.populated)
<1> DEFINE row == RowG(setup, gb.a, gb.aMacs[ColumnsOf(setup)], gb.bKeys)
<1>1. setup \in Setups /\ WellFormed(setup.circuit)
  BY SetupTypes DEF IInv, Objects
<1>2. gb.populated = PopulateWires(setup.circuit, row)
  BY DEF IInv, Stages, PopulateStage
<1>3. gpc \notin UpToA /\ gpc \notin UpToBStar
  BY Nested
<1>4. BitsMade(Sid1Of(setup, ev.dualMacs), PlacesOf(setup), gb.a, gb.aMacs, ev.aKeys)
  BY <1>3 DEF IInv, Stages, AStage
<1>5. gb.a \in BitsOfLength(PlacesOf(setup))
      /\ gb.aMacs[ColumnsOf(setup)] \in BlocksOfLength(PlacesOf(setup))
  BY <1>1, <1>4, LastKey
<1>6. gb.bKeys \in BlocksOfLength(RowsOf(setup))
  BY <1>1, <1>3, SetupTypes, OnlyBlocks DEF IInv, Stages, BStarStage, BStarMade, BitsMade
<1>7. row \in IndependentRow(setup.circuit)
  BY <1>1, <1>5, <1>6, RowGType
<1>8. \A w \in Independent(setup.circuit) :
        /\ row.masks[w] = gb.a[PlaceA(setup, w)]
        /\ row.macs[w] = gb.aMacs[ColumnsOf(setup)][PlaceA(setup, w)]
        /\ row.keys[w] = IF w \in GarblerInputs(setup.circuit) THEN ZeroBlock
                         ELSE gb.bKeys[PlaceB(setup, w)]
  BY DEF RowG
<1> HIDE DEF row
<1>9. /\ gb.populated \in ShareRow(setup.circuit)
      /\ \A w \in Independent(setup.circuit) :
           /\ gb.populated.masks[w] = row.masks[w] /\ gb.populated.macs[w] = row.macs[w]
           /\ gb.populated.keys[w] = row.keys[w]
      /\ \A i \in GateIndices(setup.circuit) : GateShares(setup.circuit.gates[i], gb.populated)
  BY <1>1, <1>2, <1>7, PopulateRight
<1> QED  BY <1>8, <1>9

LEMMA PopulatedE ==
  ASSUME IInv, epc \notin EvaluatorUpToPopulate
  PROVE  /\ ev.populated \in ShareRow(setup.circuit)
         /\ \A w \in Independent(setup.circuit) :
              /\ ev.populated.masks[w] =
                   (w \notin GarblerInputs(setup.circuit) /\ ev.b[PlaceB(setup, w)])
              /\ ev.populated.macs[w] = IF w \in GarblerInputs(setup.circuit) THEN ZeroBlock
                                        ELSE ev.bMacs[PlaceB(setup, w)]
              /\ ev.populated.keys[w] = ev.aKeys[ColumnsOf(setup)][PlaceA(setup, w)]
         /\ \A i \in GateIndices(setup.circuit) : GateShares(setup.circuit.gates[i], ev.populated)
<1> DEFINE row == RowE(setup, ev.b, ev.bMacs, ev.aKeys[ColumnsOf(setup)])
<1>1. setup \in Setups /\ WellFormed(setup.circuit)
  BY SetupTypes DEF IInv, Objects
<1>2. ev.populated = PopulateWires(setup.circuit, row)
  BY DEF IInv, Stages, PopulateStage
<1>3. gpc \notin UpToA /\ gpc \notin UpToBStar
  BY Behind, Nested
<1>4. BitsMade(Sid1Of(setup, ev.dualMacs), PlacesOf(setup), gb.a, gb.aMacs, ev.aKeys)
  BY <1>3 DEF IInv, Stages, AStage
<1>5. ev.aKeys[ColumnsOf(setup)] \in BlocksOfLength(PlacesOf(setup))
  BY <1>1, <1>4, LastKey
<1>6. ev.b \in BitsOfLength(RowsOf(setup)) /\ ev.bMacs \in BlocksOfLength(RowsOf(setup))
  BY <1>1, <1>3, SetupTypes, OnlyBlocks DEF IInv, Stages, BStarStage, BStarMade, BitsMade
<1>7. row \in IndependentRow(setup.circuit)
  BY <1>1, <1>5, <1>6, RowEType
<1>8. \A w \in Independent(setup.circuit) :
        /\ row.masks[w] = (w \notin GarblerInputs(setup.circuit) /\ ev.b[PlaceB(setup, w)])
        /\ row.macs[w] = IF w \in GarblerInputs(setup.circuit) THEN ZeroBlock
                         ELSE ev.bMacs[PlaceB(setup, w)]
        /\ row.keys[w] = ev.aKeys[ColumnsOf(setup)][PlaceA(setup, w)]
  BY DEF RowE
<1> HIDE DEF row
<1>9. /\ ev.populated \in ShareRow(setup.circuit)
      /\ \A w \in Independent(setup.circuit) :
           /\ ev.populated.masks[w] = row.masks[w] /\ ev.populated.macs[w] = row.macs[w]
           /\ ev.populated.keys[w] = row.keys[w]
      /\ \A i \in GateIndices(setup.circuit) : GateShares(setup.circuit.gates[i], ev.populated)
  BY <1>1, <1>2, <1>7, PopulateRight
<1> QED  BY <1>8, <1>9

-----------------------------------------------------------------------------
(* The types: where both parties are, and every object of theirs. *)
LEMMA TypesCorrect == IInv => TypeOK
<1> SUFFICES ASSUME IInv PROVE TypeOK
  OBVIOUS
<1> DEFINE ands == AndsOf(setup)
           all == PlacesOf(setup)
<1>1. /\ setup \in Setups /\ rows = RowsOf(setup) /\ L = ColumnsOf(setup)
      /\ AndGateSize(circuit) = ands /\ IndependentSize(circuit) = all
      /\ DOMAIN Only(setup.deltaA) = {0} /\ DOMAIN Sid2Of(setup) = {0, 1}
      /\ \A macs : DOMAIN Sid1Of(setup, macs) = 0 .. L
  BY OfSetup, SetupTypes DEF IInv, Objects
<1>2. /\ BitVector(ev.bStar, L) /\ BitVector(ev.b, rows)
      /\ BlockVector(gb.bStarKeys, L) /\ BlockVector(ev.bStarMacs, L)
      /\ BlockVector(gb.bKeys, rows) /\ BlockVector(ev.bMacs, rows)
  BY <1>1, OnlyBlocks DEF IInv, Stages, BStarStage, BStarMade, BitsMade, BitVector, BlockVector,
     BitsOfLength, BlocksOfLength
<1>3. BlockVector(gb.dualAuthedBStar, L) /\ BlockVector(ev.dualMacs, L)
  BY <1>1, OnlyBlocks DEF IInv, Stages, DualStage, BlocksMade, BlockVector, BlocksOfLength
<1>4. BitVector(gb.a, all) /\ BitVector(gb.triple, ands)
  BY DEF IInv, Stages, AStage, TripleStage, BitsMade, BitVector, BitsOfLength
<1>5. /\ BitVector(gb.anded, ands) /\ BitVector(ev.anded, ands)
      /\ BlockVector(gb.evaluatorAndedKeys, ands) /\ BlockVector(ev.andedMacs, ands)
  BY <1>1, OnlyBlocks DEF IInv, Stages, AndedStage, EvaluatorAndedStage, BitsMade, BitVector,
     BlockVector, BitsOfLength, BlocksOfLength
<1>6. BlockVector(gb.sums, ands) /\ BlockVector(ev.sums, ands)
  BY SumsType DEF IInv, Stages, SumsStage, BlockVector, BlocksOfLength
<1>7. BitVector(ev.triple, ands)
  <2>1. \A s, lsbs, sums, anded : TripleOfE(s, lsbs, sums, anded) \in BitsOfLength(AndsOf(s))
    BY DEF TripleOfE, AndIndices, BitsOfLength, Below, AndsOf
  <2> QED  BY <2>1 DEF IInv, Stages, SumsStage, BitVector, BitsOfLength
<1>8. BlockVector(gb.tripleKeys, ands) /\ BlockVector(ev.tripleMacs, ands)
  BY <1>1, OnlyBlocks DEF IInv, Stages, BeaverTripleStage, BitsMade, BlockVector, BlocksOfLength
<1>9. Len(toG) <= 1 /\ Len(toE) <= 2
  <2>1. PICK m \in 0 .. 2, n \in 0 .. 2 :
          Holds(toG, m) /\ Holds(toE, n) /\ <<gpc, epc, m, n>> \in Locations
    BY DEF IInv, Control
  <2>2. m <= 1
    BY <2>1 DEF Locations
  <2> QED  BY <2>1, <2>2 DEF Holds
<1>10. gpc \in GarblerPhases /\ epc \in EvaluatorPhases
  <2>1. PICK m \in 0 .. 2, n \in 0 .. 2 : <<gpc, epc, m, n>> \in Locations
    BY DEF IInv, Control
  <2> QED  BY <2>1 DEF Locations, GarblerPhases, EvaluatorPhases
<1>11. DOMAIN gb = GarblerObjects /\ DOMAIN ev = EvaluatorObjects
  BY DEF IInv, Objects
<1>12. BitMatrix(gb.matrix) /\ BitMatrix(ev.matrix)
  BY <1>1 DEF IInv, Stages, MatrixStage, MatrixMade, BitMatrix, BitsOfLength
<1>13. /\ BlockTable(gb.aMacs, 0 .. L, all) /\ BlockTable(ev.aKeys, 0 .. L, all)
  BY <1>1 DEF IInv, Stages, AStage, BitsMade, BlockTable, TableOf, BlocksOfLength
<1>14. /\ gb.tmpDelta = Unset \/ gb.tmpDelta \in Block
       /\ BlockTable(gb.tmpDeltaMacs, 0 .. L, 1) /\ BlockTable(ev.tmpDeltaKeys, 0 .. L, 1)
  <2>1. CASE gpc \in UpToTmpDelta
    BY <2>1 DEF IInv, Stages, TmpDeltaStage, BlockTable
  <2>2. CASE gpc \notin UpToTmpDelta
    <3>1. /\ Only(gb.tmpDelta) \in BlocksOfLength(1)
          /\ gb.tmpDeltaMacs \in TableOf(0 .. L, 1) /\ ev.tmpDeltaKeys \in TableOf(0 .. L, 1)
      BY <1>1, <2>2 DEF IInv, Stages, TmpDeltaStage, BlocksMade
    <3>2. gb.tmpDelta \in Block
      <4>1. 0 \in Below(1) /\ Only(gb.tmpDelta)[0] = gb.tmpDelta
        BY OnlyType DEF Below
      <4> QED  BY <3>1, <4>1 DEF BlocksOfLength
    <3> QED  BY <3>1, <3>2 DEF BlockTable, TableOf, BlocksOfLength
  <2> QED  BY <2>1, <2>2
<1>15. BlockTable(gb.tmpDeltaMacs5, {0, 1}, 1) /\ BlockTable(ev.tmpDeltaKeys5, {0, 1}, 1)
  BY <1>1 DEF IInv, Stages, TmpDelta5Stage, BlocksMade, BlockTable, TableOf, BlocksOfLength
<1>16. /\ BlockTable(gb.tripleMacs, {0, 1}, ands) /\ BlockTable(ev.tripleKeys, {0, 1}, ands)
  BY <1>1 DEF IInv, Stages, TripleStage, BitsMade, BlockTable, TableOf, BlocksOfLength
<1>17. /\ BlockTable(gb.andedMacs, {0, 1}, ands) /\ BlockTable(ev.garblerAndedKeys, {0, 1}, ands)
  BY <1>1 DEF IInv, Stages, AndedStage, BitsMade, BlockTable, TableOf, BlocksOfLength
<1>18. WireShares(gb.populated) /\ WireShares(ev.populated)
  <2>1. circuit = setup.circuit
    BY OfSetup
  <2>2. gpc \notin UpToPopulate => gb.populated \in ShareRow(setup.circuit)
    BY PopulatedG
  <2>3. epc \notin EvaluatorUpToPopulate => ev.populated \in ShareRow(setup.circuit)
    BY PopulatedE
  <2>4. /\ gpc \in UpToPopulate => gb.populated = Unset
        /\ epc \in EvaluatorUpToPopulate => ev.populated = Unset
    BY DEF IInv, Stages, PopulateStage
  <2> QED  BY <2>1, <2>2, <2>3, <2>4 DEF WireShares, ShareRow
<1> HIDE DEF ands, all
<1> QED  BY <1>1, <1>2, <1>3, <1>4, <1>5, <1>6, <1>7, <1>8, <1>9, <1>10, <1>11, <1>12, <1>13,
            <1>14, <1>15, <1>16, <1>17, <1>18 DEF TypeOK

-----------------------------------------------------------------------------
(* Masks that follow the gates are sums over the source lists.             *)
LEMMA MaskSources ==
  ASSUME NEW s \in Setups, NEW p \in ShareRow(s.circuit),
         \A i \in GateIndices(s.circuit) : GateShares(s.circuit.gates[i], p),
         NEW w \in Wires(s.circuit)
  PROVE  /\ IsFiniteSet(s.circuit.sources[w].list)
         /\ s.circuit.sources[w].list \subseteq Independent(s.circuit)
         /\ p.masks[w] = Odd({x \in s.circuit.sources[w].list : p.masks[x]})
<1> DEFINE c == s.circuit
<1>1. WellFormed(c) /\ c.sources = SourceMatrix(c)
  BY SetupTypes DEF Parsed
<1>2. p.masks \in [Wires(c) -> BOOLEAN]
  BY DEF ShareRow
<1>3. ASSUME NEW i \in GateIndices(c)
      PROVE  /\ c.gates[i].type = "XOR" =>
                  (p.masks[c.gates[i].out] <=> (p.masks[c.gates[i].in0] # p.masks[c.gates[i].in1]))
             /\ c.gates[i].type = "NOT" => (p.masks[c.gates[i].out] <=> p.masks[c.gates[i].in0])
  <2> DEFINE g == c.gates[i]
  <2>1. GateShares(g, p)
    OBVIOUS
  <2> HIDE DEF g
  <2>2. ASSUME g.type = "XOR" PROVE p.masks[g.out] = (p.masks[g.in0] # p.masks[g.in1])
    BY <2>1, <2>2 DEF GateShares
  <2>3. ASSUME g.type = "NOT" PROVE p.masks[g.out] = p.masks[g.in0]
    BY <2>1, <2>3 DEF GateShares
  <2> QED  BY <2>2, <2>3, Zenon DEF g
<1>4. FollowsGates(c, p.masks)
  BY <1>3 DEF FollowsGates
<1> HIDE DEF c
<1>5. /\ IsFiniteSet(c.sources[w].list) /\ c.sources[w].list \subseteq Independent(c)
      /\ p.masks[w] <=> Odd({x \in c.sources[w].list : p.masks[x]})
  <2> DEFINE m == c.sources
             v == p.masks
  <2>1. w \in Wires(c)
    BY DEF c
  <2>2. m = SourceMatrix(c) /\ v \in [Wires(c) -> BOOLEAN] /\ FollowsGates(c, v)
    BY <1>1, <1>2, <1>4
  <2> HIDE DEF m, v
  <2>3. \A x \in Wires(c) : /\ IsFiniteSet(m[x].list) /\ m[x].list \subseteq Independent(c)
                            /\ v[x] <=> Odd({y \in m[x].list : v[y]})
    BY <1>1, <2>2, SourcesSum
  <2> QED  BY <2>1, <2>3 DEF m, v
<1>6. p.masks[w] \in BOOLEAN /\ Odd({x \in c.sources[w].list : p.masks[x]}) \in BOOLEAN
  BY <1>2 DEF Odd, c
<1> QED  BY <1>5, <1>6 DEF c

(* Sums of cells over two wires' sources share the product of the masks.   *)
LEMMA ProductShares ==
  ASSUME IInv, gpc \notin UpToPopulate, epc \notin EvaluatorUpToPopulate,
         NEW in0 \in Wires(setup.circuit), NEW in1 \in Wires(setup.circuit)
  PROVE  CellsG(setup, gb.matrix, gb.a, gb.aMacs, gb.dualAuthedBStar, in0, in1)
           \oplus CellsE(setup, ev.matrix, ev.aKeys, in0, in1)
         = AndAllBits(gb.populated.masks[in0] /\ ev.populated.masks[in1],
                      GfMul(setup.deltaA, setup.deltaB))
<1> DEFINE c == setup.circuit
           prod == GfMul(setup.deltaA, setup.deltaB)
           gm == gb.populated.masks
           em == ev.populated.masks
           S == c.sources[in0].list
           T == c.sources[in1].list
           cellG(p) == CellG(setup, gb.matrix, gb.a, gb.aMacs, gb.dualAuthedBStar, p[1], p[2])
           cellE(p) == CellE(setup, ev.matrix, ev.aKeys, p[1], p[2])
<1>1. setup \in Setups /\ prod \in Block
  BY SetupTypes, FieldAssumption DEF IInv, Objects
<1>2. gpc \notin UpToA /\ gpc \notin UpToDual /\ gpc \notin UpToBStar /\ gpc # "dualBStarDiff"
      /\ gpc # "matrix" /\ epc # "matrix"
  BY Nested, Behind
<1>3. CellsReady(setup, ev.matrix, ev.bStar, ev.b, gb.dualAuthedBStar, ev.dualMacs,
                 gb.a, gb.aMacs, ev.aKeys)
      /\ gb.matrix = ev.matrix
  <2>1. MatrixMade(setup, ev.matrix) /\ gb.matrix = ev.matrix
    BY <1>2 DEF IInv, Stages, MatrixStage
  <2>2. ev.bStar \in BitsOfLength(ColumnsOf(setup)) /\ ev.b = TimesBits(ev.matrix, ev.bStar)
    BY <1>2 DEF IInv, Stages, BStarStage, BStarMade, BitsMade
  <2>3. BlocksMade(Only(setup.deltaA), ColumnsOf(setup), DualValues(setup, ev.bStar),
                   Only(ev.dualMacs), Only(gb.dualAuthedBStar))
    BY <1>2 DEF IInv, Stages, DualStage, Once
  <2>4. BitsMade(Sid1Of(setup, ev.dualMacs), PlacesOf(setup), gb.a, gb.aMacs, ev.aKeys)
    BY <1>2 DEF IInv, Stages, AStage
  <2> QED  BY <2>1, <2>2, <2>3, <2>4 DEF CellsReady
<1>4. /\ IsFiniteSet(S) /\ S \subseteq Independent(c) /\ gm[in0] = Odd({x \in S : gm[x]})
      /\ IsFiniteSet(T) /\ T \subseteq Independent(c) /\ em[in1] = Odd({y \in T : em[y]})
  <2>1. /\ gb.populated \in ShareRow(setup.circuit)
        /\ \A i \in GateIndices(setup.circuit) : GateShares(setup.circuit.gates[i], gb.populated)
        /\ ev.populated \in ShareRow(setup.circuit)
        /\ \A i \in GateIndices(setup.circuit) : GateShares(setup.circuit.gates[i], ev.populated)
    BY PopulatedG, PopulatedE
  <2> QED  BY <1>1, <2>1, MaskSources, ZenonT(40)
<1>5. ASSUME NEW x \in S, NEW y \in T
      PROVE  cellG(<<x, y>>) \oplus cellE(<<x, y>>) = AndAllBits(gm[x] /\ em[y], prod)
  <2>1. x \in Independent(c) /\ y \in Independent(c)
    BY <1>4
  <2>2. gm[x] = gb.a[PlaceA(setup, x)]
        /\ em[y] = (y \notin GarblerInputs(c) /\ ev.b[PlaceB(setup, y)])
    BY <2>1, PopulatedG, PopulatedE
  <2>3. CellG(setup, ev.matrix, gb.a, gb.aMacs, gb.dualAuthedBStar, x, y)
          \oplus CellE(setup, ev.matrix, ev.aKeys, x, y)
        = AndAllBits(gb.a[PlaceA(setup, x)] /\ y \notin GarblerInputs(setup.circuit)
                       /\ ev.b[PlaceB(setup, y)],
                     GfMul(setup.deltaA, setup.deltaB))
    BY <1>1, <1>3, <2>1, CellShares
  <2>4. (gm[x] /\ em[y]) = (gb.a[PlaceA(setup, x)] /\ y \notin GarblerInputs(setup.circuit)
                              /\ ev.b[PlaceB(setup, y)])
    BY <2>2
  <2>5. <<x, y>>[1] = x /\ <<x, y>>[2] = y
    OBVIOUS
  <2> QED  BY <1>3, <2>3, <2>4, <2>5, Zenon
<1> DEFINE P == S \X T
           f == [p \in P |-> cellG(p)]
           g == [p \in P |-> cellE(p)]
           bit == [p \in P |-> gm[p[1]] /\ em[p[2]]]
           h == [p \in P |-> AndAllBits(bit[p], prod)]
<1>6. /\ CellsG(setup, gb.matrix, gb.a, gb.aMacs, gb.dualAuthedBStar, in0, in1) = XorOver(P, f)
      /\ CellsE(setup, ev.matrix, ev.aKeys, in0, in1) = XorOver(P, g)
  BY DEF CellsG, CellsE, PairsOf
<1>7. \A p \in P : h[p] = f[p] \oplus g[p]
  <2>1. ASSUME NEW p \in P PROVE h[p] = f[p] \oplus g[p]
    <3>1. PICK x \in S, y \in T : p = <<x, y>>
      OBVIOUS
    <3>2. f[p] = cellG(p) /\ g[p] = cellE(p) /\ h[p] = AndAllBits(bit[p], prod)
          /\ bit[p] = (gm[p[1]] /\ em[p[2]])
      OBVIOUS
    <3>3. p[1] = x /\ p[2] = y
      BY <3>1
    <3>4. bit[p] = (gm[x] /\ em[y])
      <4> HIDE DEF bit, gm, em
      <4> QED  BY <3>2, <3>3, Zenon
    <3>5. cellG(p) \oplus cellE(p) = AndAllBits(gm[x] /\ em[y], prod)
      <4> HIDE DEF cellG, cellE, gm, em, prod, S, T
      <4> QED  BY <1>5, <3>1, Zenon
    <3> HIDE DEF f, g, h, bit, cellG, cellE, gm, em, prod
    <3> QED  BY <3>2, <3>4, <3>5, Zenon
  <2> HIDE DEF f, g, h, P
  <2> QED  BY <2>1
<1>8. IsFiniteSet(P) /\ Odd({p \in P : bit[p]}) = (gm[in0] /\ em[in1])
  <2> DEFINE U == {x \in S : gm[x]}
             V == {y \in T : em[y]}
  <2>1. IsFiniteSet(U) /\ IsFiniteSet(V)
    BY <1>4, FS_Subset
  <2>2. {p \in P : bit[p]} = U \X V
    <3> HIDE DEF gm, em, S, T
    <3> QED  OBVIOUS
  <2> HIDE DEF U, V, S, T, bit, gm, em
  <2>3. IsFiniteSet(P)
    BY <1>4, OddProduct
  <2>4. Odd(U \X V) = (Odd(U) /\ Odd(V))
    BY <2>1, OddProduct
  <2>5. gm[in0] = Odd(U) /\ em[in1] = Odd(V)
    BY <1>4, Zenon DEF U, V
  <2> HIDE DEF P
  <2> QED  BY <2>2, <2>3, <2>4, <2>5, Zenon
<1>9. XorOver(P, h) = XorOver(P, f) \oplus XorOver(P, g)
  <2> HIDE DEF f, g, h, P
  <2> QED  BY <1>7, <1>8, XorOverSum
<1>10. XorOver(P, h) = AndAllBits(Odd({p \in P : bit[p]}), prod)
  <2>1. \A p \in P : h[p] = AndAllBits(bit[p], prod)
    OBVIOUS
  <2> HIDE DEF h, P, bit, prod
  <2> QED  BY <1>1, <2>1, XorOverCopies
<1> HIDE DEF f, g, h, P, bit
<1> QED  BY <1>6, <1>8, <1>9, <1>10, Zenon

LEMMA CellsShareProducts == IInv => AbShares
<1> SUFFICES ASSUME IInv, Both(gb.populated, ev.populated),
                    NEW in0 \in Wires(circuit), NEW in1 \in Wires(circuit)
             PROVE  AbG(in0, in1) \oplus AbE(in0, in1)
                      = AndAllBits(gb.populated.masks[in0] /\ ev.populated.masks[in1],
                                   GfMul(deltaA, deltaB))
  BY DEF AbShares
<1>1. gpc \notin UpToPopulate /\ epc \notin EvaluatorUpToPopulate
  BY DEF IInv, Stages, PopulateStage, Both
<1>2. circuit = setup.circuit /\ deltaA = setup.deltaA /\ deltaB = setup.deltaB
  BY OfSetup
<1>3. in0 \in Wires(setup.circuit) /\ in1 \in Wires(setup.circuit)
  BY <1>2
<1>4. CellsG(setup, gb.matrix, gb.a, gb.aMacs, gb.dualAuthedBStar, in0, in1)
        \oplus CellsE(setup, ev.matrix, ev.aKeys, in0, in1)
      = AndAllBits(gb.populated.masks[in0] /\ ev.populated.masks[in1],
                   GfMul(setup.deltaA, setup.deltaB))
  BY <1>1, <1>3, ProductShares
<1>5. /\ AbG(in0, in1) = CellsG(setup, gb.matrix, gb.a, gb.aMacs, gb.dualAuthedBStar, in0, in1)
      /\ AbE(in0, in1) = CellsE(setup, ev.matrix, ev.aKeys, in0, in1)
  BY CellsOf
<1> QED  BY <1>2, <1>4, <1>5, Zenon

-----------------------------------------------------------------------------
(***************************************************************************)
(* Products of a party's own masks.  The SparseBitMatrix keeps one entry   *)
(* per pair of input wires, so that they are right for circuits in which   *)
(* no two AND gates have the same pair.                                    *)
(***************************************************************************)
NoSamePairs(c) ==
  \A i, j \in AndGates(c) : SamePair(c.gates[i], c.gates[j]) => i = j

LEMMA AndedProducts ==
  ASSUME NEW c, WellFormed(c), NoSamePairs(c), NEW masks, NEW k \in AndIndices(c)
  PROVE  AndedMasks(c, masks)[k]
           = (masks[c.gates[AndGateAt(c, k)].in0] /\ masks[c.gates[AndGateAt(c, k)].in1])
<1> DEFINE i == AndGateAt(c, k)
           g == c.gates[i]
<1>1. i \in AndGates(c)
  BY AndGateAtExists
<1>2. AndGates(c) \subseteq Nat
  BY DEF AndGates, GateIndices
<1>3. AndedMasks(c, masks)[k]
        = (/\ masks[g.in0] /\ masks[g.in1]
           /\ \A j \in AndGates(c) : j > i => ~SamePair(c.gates[j], g))
  BY DEF AndedMasks
<1>4. \A j \in AndGates(c) : j > i => ~SamePair(c.gates[j], g)
  BY <1>1, <1>2 DEF NoSamePairs
<1> HIDE DEF i, g
<1> QED  BY <1>3, <1>4 DEF i, g

-----------------------------------------------------------------------------
(***************************************************************************)
(* The result.                                                             *)
(***************************************************************************)
(* XOR of authentic bits is authentic, as populate's gates need it.        *)
LEMMA AuthenticXor ==
  ASSUME NEW x \in BOOLEAN, NEW y \in BOOLEAN, NEW mx, NEW my, NEW kx, NEW ky, NEW delta,
         Authentic(x, mx, kx, delta), Authentic(y, my, ky, delta)
  PROVE  Authentic(x # y, mx \oplus my, kx \oplus ky, delta)
<1> DEFINE p == AndAllBits(x, delta)
           q == AndAllBits(y, delta)
<1>1. AndAllBits(x # y, delta) = p \oplus q
  BY AndAllBitsXor
<1>2. mx = kx \oplus p /\ my = ky \oplus q
  BY DEF Authentic
<1> HIDE DEF p, q
<1>3. (kx \oplus p) \oplus (ky \oplus q) = (kx \oplus ky) \oplus (p \oplus q)
  BY XorRegroup
<1> QED  BY <1>1, <1>2, <1>3, Zenon DEF Authentic

(* Every wire's share is authenticated when the independent wires' are.    *)
LEMMA WiresAuthentic ==
  ASSUME NEW c, WellFormed(c), NEW own \in ShareRow(c), NEW peer \in ShareRow(c), NEW delta,
         \A i \in GateIndices(c) : GateShares(c.gates[i], own) /\ GateShares(c.gates[i], peer),
         \A w \in Independent(c) : Authentic(own.masks[w], own.macs[w], peer.keys[w], delta)
  PROVE  \A w \in Wires(c) : Authentic(own.masks[w], own.macs[w], peer.keys[w], delta)
<1> DEFINE good == {w \in Wires(c) : Authentic(own.masks[w], own.macs[w], peer.keys[w], delta)}
<1>1. own.masks \in [Wires(c) -> BOOLEAN]
  BY DEF ShareRow
<1>2. \A w \in Independent(c) : w \in good
  <2>1. Independent(c) \subseteq Wires(c)
    BY GateWires, WiresGrow DEF Independent, AndGates
  <2> QED  BY <2>1
<1>3. ASSUME NEW i \in GateIndices(c)
      PROVE  /\ c.gates[i].type = "XOR" /\ c.gates[i].in0 \in good /\ c.gates[i].in1 \in good
                  => c.gates[i].out \in good
             /\ c.gates[i].type = "NOT" /\ c.gates[i].in0 \in good => c.gates[i].out \in good
  <2> DEFINE g == c.gates[i]
  <2>1. GateShares(g, own) /\ GateShares(g, peer) /\ g.out \in Wires(c)
    BY GateWires
  <2>2. \A w \in good : w \in Wires(c) /\ Authentic(own.masks[w], own.macs[w], peer.keys[w], delta)
    OBVIOUS
  <2>3. \A w \in Wires(c) : Authentic(own.masks[w], own.macs[w], peer.keys[w], delta) => w \in good
    OBVIOUS
  <2> HIDE DEF g, good
  <2>4. ASSUME g.type = "XOR", g.in0 \in good, g.in1 \in good PROVE g.out \in good
    <3>1. /\ own.masks[g.out] = (own.masks[g.in0] # own.masks[g.in1])
          /\ own.macs[g.out] = own.macs[g.in0] \oplus own.macs[g.in1]
          /\ peer.keys[g.out] = peer.keys[g.in0] \oplus peer.keys[g.in1]
      BY <2>1, <2>4 DEF GateShares
    <3>2. own.masks[g.in0] \in BOOLEAN /\ own.masks[g.in1] \in BOOLEAN
      BY <1>1, <2>2, <2>4
    <3>3. Authentic(own.masks[g.in0] # own.masks[g.in1], own.macs[g.in0] \oplus own.macs[g.in1],
                    peer.keys[g.in0] \oplus peer.keys[g.in1], delta)
      BY <2>2, <2>4, <3>2, AuthenticXor
    <3>4. Authentic(own.masks[g.out], own.macs[g.out], peer.keys[g.out], delta)
      BY <3>1, <3>3, Zenon
    <3> QED  BY <2>1, <2>3, <3>4
  <2>5. ASSUME g.type = "NOT", g.in0 \in good PROVE g.out \in good
    <3>1. /\ own.masks[g.out] = own.masks[g.in0] /\ own.macs[g.out] = own.macs[g.in0]
          /\ peer.keys[g.out] = peer.keys[g.in0]
      BY <2>1, <2>5 DEF GateShares
    <3>2. Authentic(own.masks[g.in0], own.macs[g.in0], peer.keys[g.in0], delta)
      BY <2>2, <2>5
    <3>3. Authentic(own.masks[g.out], own.macs[g.out], peer.keys[g.out], delta)
      BY <3>1, <3>2, Zenon
    <3> QED  BY <2>1, <2>3, <3>3
  <2> QED  BY <2>4, <2>5 DEF g
<1> HIDE DEF good
<1>4. \A w \in Wires(c) : w \in good
  BY <1>2, <1>3, WireInduction
<1> QED  BY <1>4 DEF good

(* The two parties' blocks of a gate in step 9 share what the garbler's    *)
(* product, its triple share and the mixed products add up to, times the   *)
(* product of the global keys.                                             *)
LEMMA SumsShare ==
  ASSUME NEW alpha, NEW beta, NEW prod, alpha \oplus beta = prod,
         NEW anded \in BOOLEAN, NEW triple \in BOOLEAN, NEW x \in BOOLEAN, NEW y \in BOOLEAN,
         NEW am, NEW ak, Authentic(anded, am, ak, beta),
         NEW tm, NEW tk, Authentic(triple, tm, tk, beta),
         NEW g0, NEW e0, g0 \oplus e0 = AndAllBits(x, prod),
         NEW g1, NEW e1, g1 \oplus e1 = AndAllBits(y, prod)
  PROVE  (((am \oplus tm) \oplus AndAllBits(anded # triple, alpha)) \oplus (g0 \oplus g1))
           \oplus ((ak \oplus tk) \oplus (e0 \oplus e1))
         = AndAllBits(((anded # triple) # x) # y, prod)
<1> DEFINE d == anded # triple
           a == AndAllBits(d, alpha)
           b == AndAllBits(d, beta)
           m == am \oplus tm
           k == ak \oplus tk
<1>1. d \in BOOLEAN /\ (d # x) \in BOOLEAN
  OBVIOUS
<1>2. m = k \oplus b
  BY AuthenticXor DEF Authentic
<1>3. a \oplus b = AndAllBits(d, prod)
  <2> HIDE DEF d
  <2>1. AndAllBits(d, alpha) \oplus AndAllBits(d, beta) = AndAllBits(d, alpha \oplus beta)
    BY <1>1, SMT DEF AndAllBits, \oplus, ZeroBlock
  <2> QED  BY <2>1
<1> HIDE DEF a, b, m, k, d
<1>4. ((m \oplus a) \oplus (g0 \oplus g1)) \oplus (k \oplus (e0 \oplus e1))
        = ((a \oplus b) \oplus (g0 \oplus e0)) \oplus (g1 \oplus e1)
  <2>1. (((k \oplus b) \oplus a) \oplus (g0 \oplus g1)) \oplus (k \oplus (e0 \oplus e1))
          = ((a \oplus b) \oplus (g0 \oplus e0)) \oplus (g1 \oplus e1)
    BY SMT DEF \oplus
  <2> QED  BY <1>2, <2>1, Zenon
<1>5. ((a \oplus b) \oplus (g0 \oplus e0)) \oplus (g1 \oplus e1)
        = AndAllBits((d # x) # y, prod)
  <2>1. AndAllBits(d # x, prod) = AndAllBits(d, prod) \oplus AndAllBits(x, prod)
    BY <1>1, AndAllBitsXor
  <2>2. AndAllBits((d # x) # y, prod) = AndAllBits(d # x, prod) \oplus AndAllBits(y, prod)
    BY <1>1, AndAllBitsXor
  <2> QED  BY <1>3, <2>1, <2>2, Zenon
<1> QED  BY <1>4, <1>5, Zenon DEF a, m, k, d

(* When both parties are done they are behind every construction.          *)
LEMMA AtTheEnd ==
  ASSUME Prepared
  PROVE  /\ gpc \notin UpToBeaverTriple /\ gpc \notin UpToSums /\ gpc \notin UpToAnded
         /\ gpc \notin UpToEvaluatorAnded /\ gpc \notin UpToPopulate /\ gpc \notin UpToTriple
         /\ gpc \notin UpToA /\ gpc \notin UpToDual /\ gpc \notin UpToBStar
         /\ gpc \notin {"dualBStarDiff", "evaluatorAndedDiff", "beaverTripleDiff"}
         /\ epc \notin EvaluatorUpToPopulate /\ epc \notin EvaluatorUpToSums
         /\ epc \notin EvaluatorUpToLsb
         /\ epc \notin {"tmpDeltaDiff", "tmpDelta5Diff", "andedDiff"}
BY DEF Prepared, UpToBStar, UpToDual, UpToA, UpToTmpDelta, UpToTriple, UpToTmpDelta5,
   UpToPopulate, UpToEvaluatorAnded, UpToAnded, UpToSums, UpToBeaverTriple,
   EvaluatorUpToPopulate, EvaluatorUpToSums, EvaluatorUpToLsb

(* What is authenticated under beta0 and deltaB, key by key.               *)
LEMMA TwoKeys ==
  ASSUME NEW s \in Setups, NEW n, NEW bits, NEW macs, NEW keys,
         BitsMade(Sid2Of(s), n, bits, macs, keys)
  PROVE  /\ bits \in BitsOfLength(n)
         /\ macs[1] \in BlocksOfLength(n) /\ keys[1] \in BlocksOfLength(n)
         /\ \A k \in Below(n) : /\ Authentic(bits[k], macs[0][k], keys[0][k], s.beta0)
                                /\ Authentic(bits[k], macs[1][k], keys[1][k], s.deltaB)
<1>1. DOMAIN Sid2Of(s) = {0, 1} /\ Sid2Of(s)[0] = s.beta0 /\ Sid2Of(s)[1] = s.deltaB
  BY DEF Sid2Of
<1> QED  BY <1>1 DEF BitsMade, BitsAuthentic, BitsOfLength, TableOf

(* What is authenticated under deltaA alone.                               *)
LEMMA OneKey ==
  ASSUME NEW s \in Setups, NEW n, NEW bits, NEW macs, NEW keys,
         BitsMade(Only(s.deltaA), n, bits, Only(macs), Only(keys))
  PROVE  /\ bits \in BitsOfLength(n) /\ macs \in BlocksOfLength(n) /\ keys \in BlocksOfLength(n)
         /\ \A k \in Below(n) : Authentic(bits[k], macs[k], keys[k], s.deltaA)
<1>1. /\ DOMAIN Only(s.deltaA) = {0} /\ Only(s.deltaA)[0] = s.deltaA
      /\ Only(macs)[0] = macs /\ Only(keys)[0] = keys
  BY OnlyType
<1>2. bits \in BitsOfLength(n) /\ macs \in BlocksOfLength(n) /\ keys \in BlocksOfLength(n)
  BY <1>1, OnlyBlocks DEF BitsMade
<1> QED  BY <1>1, <1>2 DEF BitsMade, BitsAuthentic, BitsOfLength

(* The types and the MACs of what the functions return.                    *)
LEMMA ResultAuthentic ==
  ASSUME IInv, Prepared
  PROVE  /\ ShareShape(circuit, Result.g) /\ ShareShape(circuit, Result.e)
         /\ ShareAuthentic(circuit, Result.g, Result.e)
         /\ ShareAuthentic(circuit, Result.e, Result.g)
<1> DEFINE c == setup.circuit
           g == gb.populated
           e == ev.populated
           n == AndsOf(setup)
<1>1. /\ setup \in Setups /\ WellFormed(c) /\ setup.deltaA \in Block /\ setup.deltaB \in Block
      /\ AndIndices(c) = Below(n)
  BY SetupTypes DEF IInv, Objects, AndIndices, Below, AndsOf
<1>2. circuit = c /\ deltaA = setup.deltaA /\ deltaB = setup.deltaB
  BY OfSetup
<1>3. /\ g \in ShareRow(c) /\ \A i \in GateIndices(c) : GateShares(c.gates[i], g)
      /\ e \in ShareRow(c) /\ \A i \in GateIndices(c) : GateShares(c.gates[i], e)
  BY AtTheEnd, PopulatedG, PopulatedE
<1>4. /\ gb.triple \in BitsOfLength(n) /\ gb.tripleMacs[1] \in BlocksOfLength(n)
      /\ ev.tripleKeys[1] \in BlocksOfLength(n)
      /\ \A k \in Below(n) :
           Authentic(gb.triple[k], gb.tripleMacs[1][k], ev.tripleKeys[1][k], setup.deltaB)
  <2>1. BitsMade(Sid2Of(setup), AndsOf(setup), gb.triple, gb.tripleMacs, ev.tripleKeys)
    BY AtTheEnd DEF IInv, Stages, TripleStage
  <2> QED  BY <1>1, <2>1, TwoKeys
<1>5. /\ ev.triple \in BitsOfLength(n) /\ ev.tripleMacs \in BlocksOfLength(n)
      /\ gb.tripleKeys \in BlocksOfLength(n)
      /\ \A k \in Below(n) :
           Authentic(ev.triple[k], ev.tripleMacs[k], gb.tripleKeys[k], setup.deltaA)
  <2>1. BitsMade(Only(setup.deltaA), AndsOf(setup), ev.triple, Only(ev.tripleMacs),
                 Only(gb.tripleKeys))
    BY AtTheEnd DEF IInv, Stages, BeaverTripleStage, Once
  <2> QED  BY <1>1, <2>1, OneKey
<1>6. \A w \in Wires(c) : Authentic(g.masks[w], g.macs[w], e.keys[w], setup.deltaB)
  <2>1. \A p \in Below(PlacesOf(setup)) :
          Authentic(gb.a[p], gb.aMacs[ColumnsOf(setup)][p], ev.aKeys[ColumnsOf(setup)][p],
                    setup.deltaB)
    <3>1. BitsMade(Sid1Of(setup, ev.dualMacs), PlacesOf(setup), gb.a, gb.aMacs, ev.aKeys)
      BY AtTheEnd DEF IInv, Stages, AStage
    <3> QED  BY <1>1, <3>1, LastKey
  <2>2. ASSUME NEW w \in Independent(c)
        PROVE  Authentic(g.masks[w], g.macs[w], e.keys[w], setup.deltaB)
    <3>1. /\ g.masks[w] = gb.a[PlaceA(setup, w)]
          /\ g.macs[w] = gb.aMacs[ColumnsOf(setup)][PlaceA(setup, w)]
          /\ e.keys[w] = ev.aKeys[ColumnsOf(setup)][PlaceA(setup, w)]
      BY AtTheEnd, PopulatedG, PopulatedE
    <3>2. PlaceA(setup, w) \in Below(PlacesOf(setup))
      BY <1>1, Places
    <3>3. Authentic(gb.a[PlaceA(setup, w)], gb.aMacs[ColumnsOf(setup)][PlaceA(setup, w)],
                    ev.aKeys[ColumnsOf(setup)][PlaceA(setup, w)], setup.deltaB)
      BY <2>1, <3>2
    <3> QED  BY <3>1, <3>3, Zenon
  <2> HIDE DEF c, g, e
  <2> QED  BY <1>1, <1>3, <2>2, WiresAuthentic
<1>7. \A w \in Wires(c) : Authentic(e.masks[w], e.macs[w], g.keys[w], setup.deltaA)
  <2>1. \A p \in Below(RowsOf(setup)) : Authentic(ev.b[p], ev.bMacs[p], gb.bKeys[p], setup.deltaA)
    <3>1. BitsMade(Only(setup.deltaA), RowsOf(setup), ev.b, Only(ev.bMacs), Only(gb.bKeys))
      BY AtTheEnd DEF IInv, Stages, BStarStage, BStarMade
    <3> QED  BY <1>1, <3>1, OneKey
  <2>2. ASSUME NEW w \in Independent(c)
        PROVE  Authentic(e.masks[w], e.macs[w], g.keys[w], setup.deltaA)
    <3>1. /\ e.masks[w] = (w \notin GarblerInputs(c) /\ ev.b[PlaceB(setup, w)])
          /\ e.macs[w] = IF w \in GarblerInputs(c) THEN ZeroBlock ELSE ev.bMacs[PlaceB(setup, w)]
          /\ g.keys[w] = IF w \in GarblerInputs(c) THEN ZeroBlock ELSE gb.bKeys[PlaceB(setup, w)]
      BY AtTheEnd, PopulatedG, PopulatedE
    <3>2. CASE w \in GarblerInputs(c)
      <4>1. e.masks[w] = FALSE /\ e.macs[w] = ZeroBlock /\ g.keys[w] = ZeroBlock
        BY <3>1, <3>2
      <4>2. ZeroBlock = ZeroBlock \oplus ZeroBlock
        BY XorAlgebra, Zenon
      <4>3. Authentic(FALSE, ZeroBlock, ZeroBlock, setup.deltaA)
        BY <4>2, Zenon DEF Authentic, AndAllBits
      <4> QED  BY <4>1, <4>3, Zenon
    <3>3. CASE w \notin GarblerInputs(c)
      <4>1. PlaceB(setup, w) \in Below(RowsOf(setup))
        BY <1>1, <3>3, Places
      <4>2. Authentic(ev.b[PlaceB(setup, w)], ev.bMacs[PlaceB(setup, w)],
                      gb.bKeys[PlaceB(setup, w)], setup.deltaA)
        BY <2>1, <4>1
      <4>3. ev.b[PlaceB(setup, w)] \in BOOLEAN
        <5>1. BitsMade(Only(setup.deltaA), RowsOf(setup), ev.b, Only(ev.bMacs), Only(gb.bKeys))
          BY AtTheEnd DEF IInv, Stages, BStarStage, BStarMade
        <5> QED  BY <4>1, <5>1 DEF BitsMade, BitsOfLength
      <4>4. /\ e.masks[w] = ev.b[PlaceB(setup, w)] /\ e.macs[w] = ev.bMacs[PlaceB(setup, w)]
            /\ g.keys[w] = gb.bKeys[PlaceB(setup, w)]
        BY <3>1, <3>3, <4>3
      <4> QED  BY <4>2, <4>4, Zenon
    <3> QED  BY <3>2, <3>3
  <2> HIDE DEF c, g, e
  <2> QED  BY <1>1, <1>3, <2>2, WiresAuthentic
<1>8. ShareShape(c, Result.g) /\ ShareShape(c, Result.e)
  BY <1>1, <1>2, <1>3, <1>4, <1>5 DEF ShareShape, Result, ShareRow, BitsOfLength, BlocksOfLength
<1>9. ShareAuthentic(c, Result.g, Result.e) /\ ShareAuthentic(c, Result.e, Result.g)
  <2>1. /\ Result.g.masks = g.masks /\ Result.g.macs = g.macs /\ Result.g.keys = g.keys
        /\ Result.g.triple = gb.triple /\ Result.g.tripleMacs = gb.tripleMacs[1]
        /\ Result.g.tripleKeys = gb.tripleKeys /\ Result.g.delta = setup.deltaA
        /\ Result.e.masks = e.masks /\ Result.e.macs = e.macs /\ Result.e.keys = e.keys
        /\ Result.e.triple = ev.triple /\ Result.e.tripleMacs = ev.tripleMacs
        /\ Result.e.tripleKeys = ev.tripleKeys[1] /\ Result.e.delta = setup.deltaB
    BY <1>2 DEF Result
  <2> HIDE DEF g, e, c, n
  <2> QED  BY <1>1, <1>4, <1>5, <1>6, <1>7, <2>1 DEF ShareAuthentic
<1> QED  BY <1>2, <1>8, <1>9

(* What the blocks of step 9 are shares of, at any time after both parties *)
(* have them.                                                              *)
LEMMA SumsOfGate ==
  ASSUME IInv, gpc \notin UpToSums, epc \notin EvaluatorUpToSums,
         NEW k \in AndIndices(setup.circuit), NEW g, g = GateOf(setup, k),
         NEW gm, gm = gb.populated.masks, NEW em, em = ev.populated.masks
  PROVE  /\ gb.anded[k] \in BOOLEAN /\ gb.triple[k] \in BOOLEAN
         /\ gm[g.in0] \in BOOLEAN /\ gm[g.in1] \in BOOLEAN
         /\ em[g.in0] \in BOOLEAN /\ em[g.in1] \in BOOLEAN
         /\ gb.sums[k] \oplus ev.sums[k]
              = AndAllBits(((gb.anded[k] # gb.triple[k]) # (gm[g.in0] /\ em[g.in1]))
                             # (gm[g.in1] /\ em[g.in0]),
                           GfMul(setup.deltaA, setup.deltaB))
<1> DEFINE c == setup.circuit
           n == AndsOf(setup)
           prod == GfMul(setup.deltaA, setup.deltaB)
           cellsG(u, v) == CellsG(setup, gb.matrix, gb.a, gb.aMacs, gb.dualAuthedBStar, u, v)
           cellsE(u, v) == CellsE(setup, ev.matrix, ev.aKeys, u, v)
<1>1. /\ setup \in Setups /\ WellFormed(c) /\ k \in Below(n)
      /\ setup.alpha0 \oplus setup.beta0 = prod
  BY SetupTypes DEF IInv, Objects, AndIndices, Below, AndsOf, LegalKeys
<1>2. /\ gpc \notin UpToAnded /\ gpc \notin UpToTriple /\ gpc \notin UpToPopulate
      /\ epc \notin EvaluatorUpToPopulate /\ epc # "andedDiff"
  BY Behind, Nested
<1>3. g.in0 \in Wires(c) /\ g.in1 \in Wires(c)
  <2>1. AndGateAt(c, k) \in AndGates(c)
    BY <1>1, AndGateAtExists
  <2>2. AndGateAt(c, k) \in GateIndices(c) /\ g.type = "AND"
    BY <2>1 DEF AndGates, IsAnd, GateOf
  <2> QED  BY <1>1, <2>2, GateWires DEF GateOf
<1>4. /\ cellsG(g.in0, g.in1) \oplus cellsE(g.in0, g.in1) = AndAllBits(gm[g.in0] /\ em[g.in1], prod)
      /\ cellsG(g.in1, g.in0) \oplus cellsE(g.in1, g.in0) = AndAllBits(gm[g.in1] /\ em[g.in0], prod)
  BY <1>2, <1>3, ProductShares
<1>5. /\ gb.anded[k] \in BOOLEAN /\ gb.triple[k] \in BOOLEAN
      /\ Authentic(gb.anded[k], gb.andedMacs[0][k], ev.garblerAndedKeys[0][k], setup.beta0)
      /\ Authentic(gb.triple[k], gb.tripleMacs[0][k], ev.tripleKeys[0][k], setup.beta0)
  <2>1. BitsMade(Sid2Of(setup), n, gb.anded, gb.andedMacs, ev.garblerAndedKeys)
        /\ BitsMade(Sid2Of(setup), n, gb.triple, gb.tripleMacs, ev.tripleKeys)
    BY <1>2 DEF IInv, Stages, AndedStage, TripleStage, Once
  <2> HIDE DEF n
  <2>2. gb.anded \in BitsOfLength(n) /\ gb.triple \in BitsOfLength(n)
        /\ Authentic(gb.anded[k], gb.andedMacs[0][k], ev.garblerAndedKeys[0][k], setup.beta0)
        /\ Authentic(gb.triple[k], gb.tripleMacs[0][k], ev.tripleKeys[0][k], setup.beta0)
    BY <1>1, <2>1, TwoKeys
  <2> QED  BY <1>1, <2>2 DEF BitsOfLength
<1>6. /\ gm[g.in0] \in BOOLEAN /\ gm[g.in1] \in BOOLEAN
      /\ em[g.in0] \in BOOLEAN /\ em[g.in1] \in BOOLEAN
  <2>1. gm \in [Wires(c) -> BOOLEAN] /\ em \in [Wires(c) -> BOOLEAN]
    BY <1>2, PopulatedG, PopulatedE DEF ShareRow
  <2> QED  BY <1>3, <2>1
<1>7. /\ gb.sums[k] = ((gb.andedMacs[0][k] \oplus gb.tripleMacs[0][k])
                         \oplus AndAllBits(gb.anded[k] # gb.triple[k], setup.alpha0))
                        \oplus (cellsG(g.in0, g.in1) \oplus cellsG(g.in1, g.in0))
      /\ ev.sums[k] = (ev.garblerAndedKeys[0][k] \oplus ev.tripleKeys[0][k])
                        \oplus (cellsE(g.in0, g.in1) \oplus cellsE(g.in1, g.in0))
  <2>1. /\ gb.sums = SumsOfG(setup, gb.matrix, gb.a, gb.aMacs, gb.dualAuthedBStar,
                             gb.anded, gb.andedMacs, gb.triple, gb.tripleMacs)
        /\ ev.sums = SumsOfE(setup, ev.matrix, ev.aKeys, ev.garblerAndedKeys, ev.tripleKeys)
    BY DEF IInv, Stages, SumsStage
  <2> QED  BY <2>1 DEF SumsOfG, SumsOfE
<1> DEFINE x == gm[g.in0] /\ em[g.in1]
           y == gm[g.in1] /\ em[g.in0]
           ga == gb.anded[k]
           gt == gb.triple[k]
           am == gb.andedMacs[0][k]
           ak == ev.garblerAndedKeys[0][k]
           tm == gb.tripleMacs[0][k]
           tk == ev.tripleKeys[0][k]
           g0 == cellsG(g.in0, g.in1)
           e0 == cellsE(g.in0, g.in1)
           g1 == cellsG(g.in1, g.in0)
           e1 == cellsE(g.in1, g.in0)
           alpha == setup.alpha0
           beta == setup.beta0
<1>8. gb.sums[k] \oplus ev.sums[k] = AndAllBits(((ga # gt) # x) # y, prod)
  <2>1. x \in BOOLEAN /\ y \in BOOLEAN
    OBVIOUS
  <2>2. /\ alpha \oplus beta = prod /\ ga \in BOOLEAN /\ gt \in BOOLEAN
        /\ Authentic(ga, am, ak, beta) /\ Authentic(gt, tm, tk, beta)
        /\ g0 \oplus e0 = AndAllBits(x, prod) /\ g1 \oplus e1 = AndAllBits(y, prod)
    BY <1>1, <1>4, <1>5
  <2>3. /\ gb.sums[k] = ((am \oplus tm) \oplus AndAllBits(ga # gt, alpha)) \oplus (g0 \oplus g1)
        /\ ev.sums[k] = (ak \oplus tk) \oplus (e0 \oplus e1)
    BY <1>7
  <2> HIDE DEF ga, gt, am, ak, tm, tk, g0, e0, g1, e1, alpha, beta, prod, x, y
  <2>4. (((am \oplus tm) \oplus AndAllBits(ga # gt, alpha)) \oplus (g0 \oplus g1))
          \oplus ((ak \oplus tk) \oplus (e0 \oplus e1))
        = AndAllBits(((ga # gt) # x) # y, prod)
    BY <2>1, <2>2, SumsShare
  <2> QED  BY <2>3, <2>4, Zenon
<1> QED  BY <1>5, <1>6, <1>8

(* SumsShareProducts, for circuits in which every AND gate has a product   *)
(* of its own.                                                             *)
LEMMA SumsShareRightInv == IInv => (NoSamePairs(circuit) => SumsShareProducts)
<1> SUFFICES ASSUME IInv, NoSamePairs(circuit), Both(gb.sums, ev.sums),
                    NEW k \in AndIndices(circuit)
             PROVE  LET g == circuit.gates[AndGateAt(circuit, k)]
                        gm == gb.populated.masks
                        em == ev.populated.masks
                        product == (gm[g.in0] # em[g.in0]) /\ (gm[g.in1] # em[g.in1])
                    IN  gb.sums[k] \oplus ev.sums[k] =
                          AndAllBits((product # (em[g.in0] /\ em[g.in1])) # gb.triple[k],
                                     GfMul(deltaA, deltaB))
  BY DEF SumsShareProducts
<1> DEFINE g == circuit.gates[AndGateAt(circuit, k)]
           gm == gb.populated.masks
           em == ev.populated.masks
<1> HIDE DEF g, gm, em
<1>1. /\ gpc \notin UpToSums /\ epc \notin EvaluatorUpToSums
  BY DEF IInv, Stages, SumsStage, Both
<1>2. /\ circuit = setup.circuit /\ deltaA = setup.deltaA /\ deltaB = setup.deltaB
      /\ setup \in Setups /\ WellFormed(setup.circuit)
  BY SetupTypes, OfSetup DEF IInv, Objects
<1>3. k \in AndIndices(setup.circuit) /\ g = GateOf(setup, k) /\ NoSamePairs(setup.circuit)
  BY <1>2 DEF GateOf, g
<1>4. /\ gb.anded[k] \in BOOLEAN /\ gb.triple[k] \in BOOLEAN
      /\ gm[g.in0] \in BOOLEAN /\ gm[g.in1] \in BOOLEAN
      /\ em[g.in0] \in BOOLEAN /\ em[g.in1] \in BOOLEAN
      /\ gb.sums[k] \oplus ev.sums[k]
           = AndAllBits(((gb.anded[k] # gb.triple[k]) # (gm[g.in0] /\ em[g.in1]))
                          # (gm[g.in1] /\ em[g.in0]),
                        GfMul(setup.deltaA, setup.deltaB))
  BY <1>1, <1>3, SumsOfGate DEF gm, em
<1>5. gb.anded[k] = (gm[g.in0] /\ gm[g.in1])
  <2>1. gb.anded = AndedMasks(setup.circuit, gm)
    BY <1>1, Nested DEF IInv, Stages, AndedStage, gm
  <2>2. AndedMasks(setup.circuit, gm)[k] = (gm[g.in0] /\ gm[g.in1])
    BY <1>2, <1>3, AndedProducts DEF GateOf
  <2> QED  BY <2>1, <2>2
<1>6. (((gb.anded[k] # gb.triple[k]) # (gm[g.in0] /\ em[g.in1])) # (gm[g.in1] /\ em[g.in0]))
        = ((((gm[g.in0] # em[g.in0]) /\ (gm[g.in1] # em[g.in1])) # (em[g.in0] /\ em[g.in1]))
             # gb.triple[k])
  <2> DEFINE p0 == gm[g.in0]
             p1 == gm[g.in1]
             q0 == em[g.in0]
             q1 == em[g.in1]
             t == gb.triple[k]
             ga == gb.anded[k]
  <2>1. /\ p0 \in BOOLEAN /\ p1 \in BOOLEAN /\ q0 \in BOOLEAN /\ q1 \in BOOLEAN /\ t \in BOOLEAN
        /\ ga = (p0 /\ p1)
    BY <1>4, <1>5
  <2> HIDE DEF p0, p1, q0, q1, t, ga
  <2>2. (((ga # t) # (p0 /\ q1)) # (p1 /\ q0))
          = ((((p0 # q0) /\ (p1 # q1)) # (q0 /\ q1)) # t)
    BY <2>1
  <2> QED  BY <2>2 DEF p0, p1, q0, q1, t, ga
<1>7. gb.sums[k] \oplus ev.sums[k]
        = AndAllBits((((gm[g.in0] # em[g.in0]) /\ (gm[g.in1] # em[g.in1]))
                        # (em[g.in0] /\ em[g.in1])) # gb.triple[k],
                     GfMul(deltaA, deltaB))
  BY <1>2, <1>4, <1>6, Zenon
<1> QED  BY <1>7 DEF g, gm, em

(* The triple of every AND gate shares the product of its input masks.     *)
LEMMA ResultTriples ==
  ASSUME IInv, Prepared, NoSamePairs(circuit), NEW i \in AndGates(circuit)
  PROVE  TripleHolds(Result, i)
<1> DEFINE c == setup.circuit
           g == c.gates[i]
           k == AndGateOrder(c, i)
           n == AndsOf(setup)
           prod == GfMul(setup.deltaA, setup.deltaB)
           gm == gb.populated.masks
           em == ev.populated.masks
<1>1. /\ setup \in Setups /\ circuit = c /\ WellFormed(c) /\ i \in AndGates(c)
      /\ NoSamePairs(c) /\ AndIndices(c) = Below(n)
  BY SetupTypes, OfSetup DEF IInv, Objects, AndIndices, Below, AndsOf
<1>2. GetLSB(prod)
  BY <1>1, SetupTypes DEF LegalKeys
<1>3. k \in AndIndices(c) /\ AndGateAt(c, k) = i
  <2>1. k \in AndIndices(c)
    BY <1>1, AndGateOrderInjective
  <2>2. AndGateAt(c, k) \in AndGates(c) /\ AndGateOrder(c, AndGateAt(c, k)) = k
    BY <1>1, <2>1, AndGateAtExists
  <2>3. \A j \in AndGates(c) : AndGateOrder(c, j) = AndGateOrder(c, i) => j = i
    <3>1. AndGates(c) \subseteq Nat /\ \A j \in AndGates(c) : AndGateOrder(c, j) \in Int
      BY <1>1, AndGateOrderInjective DEF AndGates, GateIndices, AndIndices
    <3>2. \A j, h \in AndGates(c) : j < h => AndGateOrder(c, j) < AndGateOrder(c, h)
      BY <1>1, AndGateOrderInjective
    <3> HIDE DEF c
    <3> QED  BY <1>1, <3>1, <3>2
  <2> QED  BY <2>1, <2>2, <2>3
<1>4. GateOf(setup, k) = g
  BY <1>3 DEF GateOf
<1>5. /\ gb.anded[k] \in BOOLEAN /\ gb.triple[k] \in BOOLEAN
      /\ gm[g.in0] \in BOOLEAN /\ gm[g.in1] \in BOOLEAN
      /\ em[g.in0] \in BOOLEAN /\ em[g.in1] \in BOOLEAN
      /\ gb.sums[k] \oplus ev.sums[k]
           = AndAllBits(((gb.anded[k] # gb.triple[k]) # (gm[g.in0] /\ em[g.in1]))
                          # (gm[g.in1] /\ em[g.in0]), prod)
  <2> HIDE DEF g, k, gm, em, c, prod
  <2> QED  BY <1>1, <1>3, <1>4, AtTheEnd, SumsOfGate DEF gm, em, c, prod
<1>6. /\ gb.anded[k] = (gm[g.in0] /\ gm[g.in1]) /\ ev.anded[k] = (em[g.in0] /\ em[g.in1])
  <2>1. gb.anded = AndedMasks(c, gm) /\ ev.anded = AndedMasks(c, em)
    BY AtTheEnd DEF IInv, Stages, AndedStage, EvaluatorAndedStage
  <2>2. \A masks : AndedMasks(c, masks)[k] = (masks[g.in0] /\ masks[g.in1])
    <3>1. \A masks : AndedMasks(c, masks)[k] = (masks[c.gates[AndGateAt(c, k)].in0]
                                                  /\ masks[c.gates[AndGateAt(c, k)].in1])
      <4> HIDE DEF c, k
      <4> QED  BY <1>1, <1>3, AndedProducts
    <3> QED  BY <1>3, <3>1
  <2> HIDE DEF gm, em, g, k, c
  <2> QED  BY <2>1, <2>2
<1>7. ev.triple[k] = ((GetLSB(gb.sums[k]) # GetLSB(ev.sums[k])) # ev.anded[k])
  <2>1. ev.triple = TripleOfE(setup, LsbsOf(setup, gb.sums), ev.sums, ev.anded)
    BY AtTheEnd DEF IInv, Stages, SumsStage
  <2> HIDE DEF k
  <2> QED  BY <1>3, <2>1 DEF TripleOfE, LsbsOf
<1> DEFINE x == gm[g.in0] /\ em[g.in1]
           y == gm[g.in1] /\ em[g.in0]
<1>8. (GetLSB(gb.sums[k]) # GetLSB(ev.sums[k])) = (((gb.anded[k] # gb.triple[k]) # x) # y)
  <2> DEFINE bit == ((gb.anded[k] # gb.triple[k]) # x) # y
             p == gb.sums[k]
             q == ev.sums[k]
  <2>1. p \oplus q = AndAllBits(bit, prod) /\ bit \in BOOLEAN
    BY <1>5
  <2> HIDE DEF bit, p, q, prod, x, y, k, g, c
  <2>2. GetLSB(p \oplus q) <=> bit
    BY <1>2, <2>1, SMT DEF GetLSB, AndAllBits, ZeroBlock
  <2>3. GetLSB(p \oplus q) <=> (GetLSB(p) # GetLSB(q))
    BY SMT DEF GetLSB, \oplus
  <2>4. GetLSB(p) \in BOOLEAN /\ GetLSB(q) \in BOOLEAN
    BY DEF GetLSB
  <2>5. (GetLSB(p) # GetLSB(q)) = bit
    BY <2>1, <2>2, <2>3, <2>4
  <2> QED  BY <2>5 DEF bit, p, q
<1>9. (gb.triple[k] # ev.triple[k]) = ((gm[g.in0] # em[g.in0]) /\ (gm[g.in1] # em[g.in1]))
  <2> DEFINE p0 == gm[g.in0]
             p1 == gm[g.in1]
             q0 == em[g.in0]
             q1 == em[g.in1]
             t == gb.triple[k]
             ga == gb.anded[k]
             ea == ev.anded[k]
             lsbs == GetLSB(gb.sums[k]) # GetLSB(ev.sums[k])
  <2>1. /\ p0 \in BOOLEAN /\ p1 \in BOOLEAN /\ q0 \in BOOLEAN /\ q1 \in BOOLEAN /\ t \in BOOLEAN
        /\ ga = (p0 /\ p1) /\ ea = (q0 /\ q1)
        /\ lsbs = (((ga # t) # (p0 /\ q1)) # (p1 /\ q0))
        /\ ev.triple[k] = (lsbs # ea)
    BY <1>5, <1>6, <1>7, <1>8
  <2> HIDE DEF p0, p1, q0, q1, t, ga, ea, lsbs
  <2>2. (t # (lsbs # ea)) = ((p0 # q0) /\ (p1 # q1))
    BY <2>1
  <2>3. (t # ev.triple[k]) = ((p0 # q0) /\ (p1 # q1))
    BY <2>1, <2>2
  <2> QED  BY <2>3 DEF p0, p1, q0, q1, t
<1>10. /\ Result.circuit = c /\ Result.g.triple = gb.triple /\ Result.e.triple = ev.triple
       /\ Result.g.masks = gm /\ Result.e.masks = em
  BY <1>1 DEF Result
<1> HIDE DEF c, gm, em
<1> QED  BY <1>9, <1>10 DEF TripleHolds, MaskOf

LEMMA PreprocessedResult == IInv => (NoSamePairs(circuit) => ResultPreprocessed)
<1> SUFFICES ASSUME IInv, NoSamePairs(circuit), Prepared PROVE Preprocessed(Result)
  BY DEF ResultPreprocessed
<1>1. setup \in Setups /\ WellFormed(circuit) /\ GetLSB(deltaA) /\ circuit = setup.circuit
  BY SetupTypes, OfSetup DEF IInv, Objects, LegalKeys
<1>2. Result.circuit = circuit /\ Result.g.delta = deltaA
      /\ Result.g.masks = gb.populated.masks /\ Result.g.macs = gb.populated.macs
      /\ Result.g.keys = gb.populated.keys
      /\ Result.e.masks = ev.populated.masks /\ Result.e.macs = ev.populated.macs
      /\ Result.e.keys = ev.populated.keys
  BY DEF Result
<1>3. /\ \A i \in GateIndices(circuit) : GateShares(circuit.gates[i], gb.populated)
      /\ \A i \in GateIndices(circuit) : GateShares(circuit.gates[i], ev.populated)
  BY <1>1, AtTheEnd, PopulatedG, PopulatedE
<1>4. \A i \in GateIndices(circuit) :
        GateShares(circuit.gates[i], Result.g) /\ GateShares(circuit.gates[i], Result.e)
  <2>1. \A gate : GateShares(gate, gb.populated) => GateShares(gate, Result.g)
    BY <1>2, Zenon DEF GateShares
  <2>2. \A gate : GateShares(gate, ev.populated) => GateShares(gate, Result.e)
    BY <1>2, Zenon DEF GateShares
  <2> QED  BY <1>3, <2>1, <2>2
<1>5. \A w \in GarblerInputs(circuit) : Result.e.masks[w] = FALSE
  <2>1. GarblerInputs(circuit) \subseteq Independent(circuit)
    BY <1>1, WiresGrow DEF Independent
  <2>2. \A w \in Independent(circuit) :
          ev.populated.masks[w] = (w \notin GarblerInputs(circuit) /\ ev.b[PlaceB(setup, w)])
    BY <1>1, AtTheEnd, PopulatedE
  <2> QED  BY <1>2, <2>1, <2>2
<1>6. \A i \in AndGates(circuit) : TripleHolds(Result, i)
  BY ResultTriples
<1>7. /\ ShareShape(circuit, Result.g) /\ ShareShape(circuit, Result.e)
      /\ ShareAuthentic(circuit, Result.g, Result.e) /\ ShareAuthentic(circuit, Result.e, Result.g)
  BY ResultAuthentic
<1> DEFINE r == Result
           c == circuit
<1> HIDE DEF r, c
<1>8. r.circuit = c /\ GetLSB(r.g.delta)
  BY <1>1, <1>2 DEF r, c
<1>9. Preprocessed(r)
  <2>1. /\ ShareShape(c, r.g) /\ ShareShape(c, r.e)
        /\ ShareAuthentic(c, r.g, r.e) /\ ShareAuthentic(c, r.e, r.g)
        /\ \A w \in GarblerInputs(c) : r.e.masks[w] = FALSE
        /\ \A i \in GateIndices(c) : GateShares(c.gates[i], r.g) /\ GateShares(c.gates[i], r.e)
        /\ \A i \in AndGates(c) : TripleHolds(r, i)
    BY <1>4, <1>5, <1>6, <1>7 DEF r, c
  <2> QED  BY <1>8, <2>1 DEF Preprocessed
<1> QED  BY <1>9 DEF r

-----------------------------------------------------------------------------
(***************************************************************************)
(* The theorems.                                                           *)
(***************************************************************************)
(* Both preprocess functions stay within their steps, and every object     *)
(* they hold has the length its later steps index and, where there are     *)
(* several global keys, a vector for each of them, whatever the circuit    *)
(* and the compression parameter; and no more messages are on their way    *)
(* than the steps in between two OTs send.                                 *)
THEOREM TypeCorrect == Spec => []TypeOK
BY SpecIInv, TypesCorrect, PTL

(* Whenever no message is on its way, every value the steps of preprocess  *)
(* authenticated (fixed values, random ones, products with the matrix) has *)
(* the MAC that its key's owner checks it with.                            *)
THEOREM AuthenticationHolds == Spec => []Authenticated
BY SpecIInv, AuthenticatedKept, PTL

(* DualKeyAuthed_ab_Calculator, for any two wires: the cells over their    *)
(* source lists share the product of the garbler's mask of the one and the *)
(* evaluator's mask of the other, times the product of the global keys.    *)
THEOREM AbSharesHold == Spec => []AbShares
BY SpecIInv, CellsShareProducts, PTL

(* The blocks that check_beaver_triple compares: after step 9 those of the *)
(* two parties share, for every AND gate, the product of the joint masks,  *)
(* less the evaluator's own product and the garbler's triple share, times  *)
(* the product of the global keys.  It needs the opened differences of     *)
(* step 8, the triple shares of step 5 and both calculators to be right,   *)
(* and holds of circuits without two AND gates of the same pair of wires.  *)
THEOREM SumsShareRight == Spec => [](NoSamePairs(circuit) => SumsShareProducts)
BY SpecIInv, SumsShareRightInv, PTL

(* What the two preprocess functions return is what garble and evaluate    *)
(* rely on, in every such circuit: shares authenticated both ways that     *)
(* follow the gates, and triples that share the products of the masks.     *)
THEOREM ResultIsPreprocessed == Spec => [](NoSamePairs(circuit) => ResultPreprocessed)
BY SpecIInv, PreprocessedResult, PTL
=============================================================================
