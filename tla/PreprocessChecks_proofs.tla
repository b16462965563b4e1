----------------------- MODULE PreprocessChecks_proofs -----------------------
(***************************************************************************)
(* Proofs about PreprocessChecks, for every circuit, field, choice of      *)
(* randomness and size of the compressed vector: two honest parties raise  *)
(* no alarm in the consistency checks that end preprocessing, and both     *)
(* toss the same block.                                                    *)
(***************************************************************************)
EXTENDS PreprocessChecks, Preprocess_proofs

(***************************************************************************)
(* The objects of the checks, of a setup and of what the parties hold.     *)
(***************************************************************************)
AndsAt(s) == AndIndices(s.circuit)

SeedOf(s, name) == RandomBlock(s.seed, name, 0, 0)

ProofMask(s, key, block, delta) ==
  [block |-> SeedOf(s, block), mac |-> SeedOf(s, key) \oplus GfMul(SeedOf(s, block), delta)]

StatementOf(s, p, anded, andedMacs) ==
  [x |-> [k \in AndsAt(s) |-> BitBlock(p.masks[GateOf(s, k).in0])],
   y |-> [k \in AndsAt(s) |-> BitBlock(p.masks[GateOf(s, k).in1])],
   macX |-> [k \in AndsAt(s) |-> p.macs[GateOf(s, k).in0]],
   macY |-> [k \in AndsAt(s) |-> p.macs[GateOf(s, k).in1]],
   macZ |-> andedMacs]

StatementKeys(s, p, andedKeys) ==
  [keyX |-> [k \in AndsAt(s) |-> p.keys[GateOf(s, k).in0]],
   keyY |-> [k \in AndsAt(s) |-> p.keys[GateOf(s, k).in1]],
   keyZ |-> andedKeys]

DualStatement(s, e) ==
  LET S == Below(ColumnsOf(s))
  IN  [x |-> [l \in S |-> BitBlock(e.bStar[l])], y |-> [l \in S |-> s.deltaB],
       macX |-> e.bStarMacs, macY |-> [l \in S |-> s.beta0], macZ |-> e.dualMacs]

DualStatementKeys(s, g) ==
  [keyX |-> g.bStarKeys, keyY |-> [l \in Below(ColumnsOf(s)) |-> s.alpha0],
   keyZ |-> g.dualAuthedBStar]

ProofWith(S, challenge, statement, mask) ==
  [a0 |-> A0(S, challenge, statement, mask), a1 |-> A1(S, challenge, statement, mask)]

MaskG(s) == ProofMask(s, "proverG", "proverGBlock", s.deltaB)
MaskE(s) == ProofMask(s, "proverE", "proverEBlock", s.deltaA)
MaskD(s) == ProofMask(s, "dualProof", "dualProofBlock", s.deltaA)

ChallengesE(s) == Challenges(SeedOf(s, "verifierSeedE"), AndsAt(s))
ChallengesG(s) == Challenges(SeedOf(s, "verifierSeedG"), AndsAt(s))
ChallengesD(s) == Challenges(SeedOf(s, "dualSeed"), Below(ColumnsOf(s)))

ProofOfG(s, g) ==
  ProofWith(AndsAt(s), ChallengesE(s), StatementOf(s, g.populated, g.anded, g.andedMacs[1]),
            MaskG(s))
ProofOfE(s, e) ==
  ProofWith(AndsAt(s), ChallengesG(s), StatementOf(s, e.populated, e.anded, e.andedMacs), MaskE(s))
ProofOfD(s, e) ==
  ProofWith(Below(ColumnsOf(s)), ChallengesD(s), DualStatement(s, e), MaskD(s))

(* What the three verifiers find. *)
Convinced(s, g, e) ==
  /\ Accepts(B(AndsAt(s), ChallengesE(s), StatementKeys(s, e.populated, e.garblerAndedKeys[1]),
               SeedOf(s, "proverG"), s.deltaB),
             ProofOfG(s, g), s.deltaB)
  /\ Accepts(B(AndsAt(s), ChallengesG(s), StatementKeys(s, g.populated, g.evaluatorAndedKeys),
               SeedOf(s, "proverE"), s.deltaA),
             ProofOfE(s, e), s.deltaA)
  /\ Accepts(B(Below(ColumnsOf(s)), ChallengesD(s), DualStatementKeys(s, g),
               SeedOf(s, "dualProof"), s.deltaA),
             ProofOfD(s, e), s.deltaA)

(* tmpDelta under deltaB, in step 4's and step 5's authentication. *)
TmpDeltaTwice(s, g, e) ==
  /\ g.tmpDelta \in Block
  /\ g.tmpDeltaMacs[ColumnsOf(s)][0]
       = e.tmpDeltaKeys[ColumnsOf(s)][0] \oplus GfMul(g.tmpDelta, s.deltaB)
  /\ g.tmpDeltaMacs5[1][0] = e.tmpDeltaKeys5[1][0] \oplus GfMul(g.tmpDelta, s.deltaB)

(* The same values under two global keys: local keys and MACs of n values. *)
TwoKeyed(n, values, macs, keys, globals) ==
  /\ globals[1] \in Block /\ globals[2] \in Block
  /\ \A j \in {1, 2} : keys[j] \in BlocksOfLength(n) /\ macs[j] \in BlocksOfLength(n)
  /\ values \in BlocksOfLength(n)
  /\ \A j \in {1, 2}, i \in Below(n) : macs[j][i] = keys[j][i] \oplus GfMul(values[i], globals[j])

EqSizeOf(s, round) == IF round = "delta" THEN 1 ELSE ColumnsOf(s)

EqValuesOf(s, e, round) == IF round = "delta" THEN [i \in {0} |-> s.deltaB] ELSE e.dualMacs

EqMacsOf(s, e, mac3, round) ==
  IF round = "delta"
  THEN <<[i \in {0} |-> s.beta0], [i \in {0} |-> mac3]>>
  ELSE <<[l \in Below(ColumnsOf(s)) |-> AndAllBits(e.bStar[l], s.deltaB)],
         [l \in Below(ColumnsOf(s)) |-> e.tmpDeltaKeys[l][0]]>>

EqGlobalOf(s, g, round) ==
  IF round = "delta" THEN <<s.deltaA, g.tmpDelta>> ELSE <<GfInverse(s.deltaA), g.tmpDelta>>

EqKeysOf(s, g, key3, round) ==
  IF round = "delta"
  THEN <<[i \in {0} |-> s.alpha0], [i \in {0} |-> key3]>>
  ELSE <<[l \in Below(ColumnsOf(s)) |-> GfMul(g.dualAuthedBStar[l], GfInverse(s.deltaA))],
         [l \in Below(ColumnsOf(s)) |-> g.tmpDeltaMacs[l][0]]>>

BStarTwice(s, g, e) ==
  \A key3, mac3 :
    TwoKeyed(ColumnsOf(s), EqValuesOf(s, e, "bStar"), EqMacsOf(s, e, mac3, "bStar"),
             EqKeysOf(s, g, key3, "bStar"), EqGlobalOf(s, g, "bStar"))

Known(s, g, e) ==
  s \in Setups /\ Convinced(s, g, e) /\ TmpDeltaTwice(s, g, e) /\ BStarTwice(s, g, e)

-----------------------------------------------------------------------------
LEMMA CheckBlocks ==
  ASSUME NEW s \in Setups
  PROVE  /\ \A name \in {"proverG", "proverGBlock", "verifierSeedE", "proverE", "proverEBlock",
                         "verifierSeedG", "dualProof", "dualProofBlock", "dualSeed", "sid3",
                         "sid3Choice", "tossG", "tossE"} : SeedOf(s, name) \in Block
         /\ \A k \in AndsAt(s) : ChallengesE(s)[k] \in Block /\ ChallengesG(s)[k] \in Block
         /\ \A l \in Below(ColumnsOf(s)) : ChallengesD(s)[l] \in Block
<1>1. 0 \in Below(ColumnsOf(s)) /\ ColumnsOf(s) = CompressParam(EvaluatorWires(s.circuit))
  BY SetupTypes DEF Below, ColumnsOf, RowsOf
<1>2. \A name \in {"proverG", "proverGBlock", "verifierSeedE", "proverE", "proverEBlock",
                   "verifierSeedG", "dualProof", "dualProofBlock", "dualSeed", "sid3",
                   "sid3Choice", "tossG", "tossE"} : SeedOf(s, name) \in Block
  BY <1>1, CheckRandomnessAssumption DEF SeedOf
<1>3. \A seed \in Block : \A k \in AndsAt(s) \cup Below(ColumnsOf(s)) : Challenge(seed, k) \in Block
  BY <1>1, ChallengeAssumption DEF AndsAt
<1> QED  BY <1>2, <1>3 DEF ChallengesE, ChallengesG, ChallengesD, Challenges

(* A bit's MAC is the MAC of the block it stands for. *)
LEMMA BitAsBlock ==
  ASSUME NEW bit \in BOOLEAN, NEW mac, NEW key, NEW delta \in Block,
         Authentic(bit, mac, key, delta)
  PROVE  BitBlock(bit) \in Block /\ AuthenticBlock(BitBlock(bit), mac, key, delta)
<1>1. One \in Block /\ ZeroBlock \in Block
  BY BlockBitsAssumption DEF One, Block, ZeroBlock
<1>2. GfMul(One, delta) = delta /\ GfMul(ZeroBlock, delta) = ZeroBlock
  BY OneAssumption, FieldZero
<1>3. GfMul(BitBlock(bit), delta) = AndAllBits(bit, delta)
  BY <1>2, Zenon DEF BitBlock, AndAllBits
<1> QED  BY <1>1, <1>3, Zenon DEF BitBlock, AuthenticBlock, Authentic

LEMMA BitProducts ==
  ASSUME NEW p \in BOOLEAN, NEW q \in BOOLEAN, NEW delta \in Block
  PROVE  /\ GfMul(BitBlock(p), BitBlock(q)) = BitBlock(p /\ q)
         /\ GfMul(BitBlock(p), delta) = AndAllBits(p, delta)
<1>1. One \in Block /\ ZeroBlock \in Block
  BY BlockBitsAssumption DEF One, Block, ZeroBlock
<1>2. \A x \in Block : GfMul(One, x) = x /\ GfMul(ZeroBlock, x) = ZeroBlock
  BY OneAssumption, FieldZero
<1>3. BitBlock(q) \in Block
  BY <1>1 DEF BitBlock
<1>4. CASE p
  BY <1>2, <1>3, <1>4, Zenon DEF BitBlock, AndAllBits
<1>5. CASE ~p
  BY <1>2, <1>3, <1>5, Zenon DEF BitBlock, AndAllBits
<1> QED  BY <1>4, <1>5

(* The mask of a proof is authenticated. *)
LEMMA MaskHeld ==
  ASSUME NEW s \in Setups, NEW key, NEW block, NEW delta \in Block,
         SeedOf(s, key) \in Block, SeedOf(s, block) \in Block
  PROVE  /\ ProofMask(s, key, block, delta).block \in Block
         /\ AuthenticBlock(ProofMask(s, key, block, delta).block,
                           ProofMask(s, key, block, delta).mac, SeedOf(s, key), delta)
BY DEF ProofMask, AuthenticBlock

(***************************************************************************)
(* A party that holds authenticated masks and their authenticated products *)
(* convinces the other one.                                                *)
(***************************************************************************)
LEMMA MaskProof ==
  ASSUME NEW s \in Setups, NEW delta \in Block, NEW p, NEW q, NEW anded, NEW andedMacs,
         NEW andedKeys, NEW key, NEW block, NEW challenge,
         SeedOf(s, key) \in Block, SeedOf(s, block) \in Block,
         \A w \in Wires(s.circuit) :
           /\ p.masks[w] \in BOOLEAN /\ q.keys[w] \in Block
           /\ Authentic(p.masks[w], p.macs[w], q.keys[w], delta),
         \A k \in AndsAt(s) :
           /\ challenge[k] \in Block /\ andedKeys[k] \in Block
           /\ anded[k] = (p.masks[GateOf(s, k).in0] /\ p.masks[GateOf(s, k).in1])
           /\ Authentic(anded[k], andedMacs[k], andedKeys[k], delta)
  PROVE  Accepts(B(AndsAt(s), challenge, StatementKeys(s, q, andedKeys), SeedOf(s, key), delta),
                 ProofWith(AndsAt(s), challenge, StatementOf(s, p, anded, andedMacs),
                           ProofMask(s, key, block, delta)),
                 delta)
<1> DEFINE S == AndsAt(s)
           st == StatementOf(s, p, anded, andedMacs)
           v == StatementKeys(s, q, andedKeys)
           z == [k \in S |-> BitBlock(anded[k])]
           mask == ProofMask(s, key, block, delta)
<1>1. IsFiniteSet(S)
  BY SetupTypes, FS_Interval DEF AndsAt, AndIndices, AndsOf
<1>2. mask.block \in Block /\ AuthenticBlock(mask.block, mask.mac, SeedOf(s, key), delta)
  BY MaskHeld
<1>3. ASSUME NEW k \in S
      PROVE  HoldsAt(k, challenge, st, z, v, delta) /\ z[k] = GfMul(st.x[k], st.y[k])
  <2> DEFINE w0 == GateOf(s, k).in0
             w1 == GateOf(s, k).in1
  <2>1. w0 \in Wires(s.circuit) /\ w1 \in Wires(s.circuit)
    <3> DEFINE c == s.circuit
               i == AndGateAt(c, k)
    <3>1. WellFormed(c) /\ k \in AndIndices(c)
      BY SetupTypes DEF AndsAt
    <3>2. i \in GateIndices(c) /\ c.gates[i].type = "AND"
      BY <3>1, AndGateAtExists DEF AndGates, IsAnd
    <3>3. c.gates[i].in0 \in Wires(c) /\ c.gates[i].in1 \in Wires(c)
      BY <3>1, <3>2, GateWires
    <3> QED  BY <3>3 DEF GateOf
  <2>2. /\ st.x[k] = BitBlock(p.masks[w0]) /\ st.y[k] = BitBlock(p.masks[w1])
        /\ st.macX[k] = p.macs[w0] /\ st.macY[k] = p.macs[w1] /\ st.macZ[k] = andedMacs[k]
        /\ v.keyX[k] = q.keys[w0] /\ v.keyY[k] = q.keys[w1] /\ v.keyZ[k] = andedKeys[k]
        /\ z[k] = BitBlock(anded[k])
    BY DEF StatementOf, StatementKeys
  <2> HIDE DEF st, v, z
  <2>3. /\ p.masks[w0] \in BOOLEAN /\ p.masks[w1] \in BOOLEAN
        /\ anded[k] = (p.masks[w0] /\ p.masks[w1])
        /\ q.keys[w0] \in Block /\ q.keys[w1] \in Block
        /\ Authentic(p.masks[w0], p.macs[w0], q.keys[w0], delta)
        /\ Authentic(p.masks[w1], p.macs[w1], q.keys[w1], delta)
    BY <2>1
  <2> HIDE DEF w0, w1
  <2>4. anded[k] \in BOOLEAN
    BY <2>3
  <2>5. /\ BitBlock(p.masks[w0]) \in Block /\ BitBlock(p.masks[w1]) \in Block
        /\ BitBlock(anded[k]) \in Block
        /\ AuthenticBlock(BitBlock(p.masks[w0]), p.macs[w0], q.keys[w0], delta)
        /\ AuthenticBlock(BitBlock(p.masks[w1]), p.macs[w1], q.keys[w1], delta)
        /\ AuthenticBlock(BitBlock(anded[k]), andedMacs[k], andedKeys[k], delta)
    BY <2>3, <2>4, BitAsBlock
  <2>6. GfMul(BitBlock(p.masks[w0]), BitBlock(p.masks[w1])) = BitBlock(anded[k])
    <3>1. GfMul(BitBlock(p.masks[w0]), BitBlock(p.masks[w1]))
            = BitBlock(p.masks[w0] /\ p.masks[w1])
      BY <2>3, BitProducts
    <3> QED  BY <2>3, <3>1, Zenon
  <2> QED  BY <2>2, <2>3, <2>5, <2>6 DEF HoldsAt
<1> HIDE DEF S, st, v, z, mask
<1>4. Accepts(B(S, challenge, v, SeedOf(s, key), delta),
              [a0 |-> A0(S, challenge, st, mask), a1 |-> A1(S, challenge, st, mask)], delta)
  BY <1>1, <1>2, <1>3, ListAccepted
<1> QED  BY <1>4, Zenon DEF S, st, v, mask, ProofWith

(* What the wires and the products hold when the checks begin.             *)
LEMMA MasksHeld ==
  ASSUME IInv, Prepared, NoSamePairs(circuit)
  PROVE  /\ \A w \in Wires(setup.circuit) :
              /\ gb.populated.masks[w] \in BOOLEAN /\ gb.populated.keys[w] \in Block
              /\ ev.populated.masks[w] \in BOOLEAN /\ ev.populated.keys[w] \in Block
              /\ Authentic(gb.populated.masks[w], gb.populated.macs[w], ev.populated.keys[w],
                           setup.deltaB)
              /\ Authentic(ev.populated.masks[w], ev.populated.macs[w], gb.populated.keys[w],
                           setup.deltaA)
         /\ \A k \in AndsAt(setup) :
              /\ ev.garblerAndedKeys[1][k] \in Block /\ gb.evaluatorAndedKeys[k] \in Block
              /\ gb.anded[k] = (/\ gb.populated.masks[GateOf(setup, k).in0]
                                /\ gb.populated.masks[GateOf(setup, k).in1])
              /\ ev.anded[k] = (/\ ev.populated.masks[GateOf(setup, k).in0]
                                /\ ev.populated.masks[GateOf(setup, k).in1])
              /\ Authentic(gb.anded[k], gb.andedMacs[1][k], ev.garblerAndedKeys[1][k],
                           setup.deltaB)
              /\ Authentic(ev.anded[k], ev.andedMacs[k], gb.evaluatorAndedKeys[k], setup.deltaA)
<1> DEFINE c == setup.circuit
<1>1. setup \in Setups /\ WellFormed(c) /\ circuit = c /\ deltaA = setup.deltaA
      /\ deltaB = setup.deltaB
  BY SetupTypes, OfSetup DEF IInv, Objects
<1>2. /\ ShareShape(c, Result.g) /\ ShareShape(c, Result.e)
      /\ ShareAuthentic(c, Result.g, Result.e) /\ ShareAuthentic(c, Result.e, Result.g)
  BY <1>1, ResultAuthentic
<1>3. /\ Result.g.masks = gb.populated.masks /\ Result.g.macs = gb.populated.macs
      /\ Result.g.keys = gb.populated.keys /\ Result.g.delta = setup.deltaA
      /\ Result.e.masks = ev.populated.masks /\ Result.e.macs = ev.populated.macs
      /\ Result.e.keys = ev.populated.keys /\ Result.e.delta = setup.deltaB
  BY <1>1 DEF Result
<1>4. \A w \in Wires(c) :
        /\ gb.populated.masks[w] \in BOOLEAN /\ gb.populated.keys[w] \in Block
        /\ ev.populated.masks[w] \in BOOLEAN /\ ev.populated.keys[w] \in Block
        /\ Authentic(gb.populated.masks[w], gb.populated.macs[w], ev.populated.keys[w],
                     setup.deltaB)
        /\ Authentic(ev.populated.masks[w], ev.populated.macs[w], gb.populated.keys[w],
                     setup.deltaA)
  BY <1>2, <1>3 DEF ShareShape, ShareAuthentic
<1>5. /\ BitsMade(Sid2Of(setup), AndsOf(setup), gb.anded, gb.andedMacs, ev.garblerAndedKeys)
      /\ gb.anded = AndedMasks(c, gb.populated.masks)
  BY AtTheEnd DEF IInv, Stages, AndedStage, Once
<1>6. /\ BitsMade(Only(setup.deltaA), AndsOf(setup), ev.anded, Only(ev.andedMacs),
                  Only(gb.evaluatorAndedKeys))
      /\ ev.anded = AndedMasks(c, ev.populated.masks)
  BY AtTheEnd DEF IInv, Stages, EvaluatorAndedStage, Once
<1>7. AndsAt(setup) = Below(AndsOf(setup))
  BY DEF AndsAt, AndIndices, AndsOf, Below
<1>8. \A k \in Below(AndsOf(setup)) :
        /\ ev.garblerAndedKeys[1][k] \in Block
        /\ Authentic(gb.anded[k], gb.andedMacs[1][k], ev.garblerAndedKeys[1][k], setup.deltaB)
  BY <1>1, <1>5, TwoKeys DEF BlocksOfLength
<1>9. \A k \in Below(AndsOf(setup)) :
        /\ gb.evaluatorAndedKeys[k] \in Block
        /\ Authentic(ev.anded[k], ev.andedMacs[k], gb.evaluatorAndedKeys[k], setup.deltaA)
  <2>1. /\ gb.evaluatorAndedKeys \in BlocksOfLength(AndsOf(setup))
        /\ \A k \in Below(AndsOf(setup)) :
             Authentic(ev.anded[k], ev.andedMacs[k], gb.evaluatorAndedKeys[k], setup.deltaA)
    BY <1>1, <1>6, OneKey
  <2> QED  BY <2>1 DEF BlocksOfLength
<1>10. ASSUME NEW k \in AndsAt(setup)
       PROVE  /\ gb.anded[k] = (/\ gb.populated.masks[GateOf(setup, k).in0]
                                /\ gb.populated.masks[GateOf(setup, k).in1])
              /\ ev.anded[k] = (/\ ev.populated.masks[GateOf(setup, k).in0]
                                /\ ev.populated.masks[GateOf(setup, k).in1])
  <2>1. WellFormed(c) /\ NoSamePairs(c) /\ k \in AndIndices(c)
    BY <1>1 DEF AndsAt
  <2>2. \A masks : AndedMasks(c, masks)[k] = (masks[c.gates[AndGateAt(c, k)].in0]
                                                /\ masks[c.gates[AndGateAt(c, k)].in1])
    <3> HIDE DEF c
    <3> QED  BY <2>1, AndedProducts
  <2> QED  BY <1>5, <1>6, <2>2, Zenon DEF GateOf
<1> QED  BY <1>4, <1>7, <1>8, <1>9, <1>10

(* bStar * deltaB, proved to the garbler.                                  *)
LEMMA DualConvinced ==
  ASSUME NEW s \in Setups, NEW g, NEW e, e.bStar \in BitsOfLength(ColumnsOf(s)),
         g.dualAuthedBStar \in BlocksOfLength(ColumnsOf(s)),
         \A l \in Below(ColumnsOf(s)) :
           /\ g.bStarKeys[l] \in Block
           /\ Authentic(e.bStar[l], e.bStarMacs[l], g.bStarKeys[l], s.deltaA)
           /\ e.dualMacs[l] = g.dualAuthedBStar[l]
                                \oplus GfMul(AndAllBits(e.bStar[l], s.deltaB), s.deltaA)
  PROVE  Accepts(B(Below(ColumnsOf(s)), ChallengesD(s), DualStatementKeys(s, g),
                   SeedOf(s, "dualProof"), s.deltaA),
                 ProofOfD(s, e), s.deltaA)
<1> DEFINE S == Below(ColumnsOf(s))
           st == DualStatement(s, e)
           v == DualStatementKeys(s, g)
           z == [l \in S |-> AndAllBits(e.bStar[l], s.deltaB)]
           mask == MaskD(s)
           chal == ChallengesD(s)
           delta == s.deltaA
<1>1. /\ IsFiniteSet(S) /\ delta \in Block /\ s.deltaB \in Block /\ s.alpha0 \in Block
      /\ s.beta0 \in Block
  BY SetupTypes, FS_Interval DEF Below
<1>2. mask.block \in Block /\ AuthenticBlock(mask.block, mask.mac, SeedOf(s, "dualProof"), delta)
      /\ SeedOf(s, "dualProof") \in Block
  BY <1>1, CheckBlocks, MaskHeld DEF MaskD
<1>3. s.beta0 = s.alpha0 \oplus GfMul(s.deltaB, s.deltaA)
  <2>1. s.alpha0 \oplus s.beta0 = GfMul(s.deltaA, s.deltaB)
    BY SetupTypes DEF LegalKeys
  <2>2. GfMul(s.deltaA, s.deltaB) = GfMul(s.deltaB, s.deltaA)
    BY <1>1, Product
  <2>3. \A a, b : b = a \oplus (a \oplus b)
    BY SMT DEF \oplus
  <2>4. s.beta0 = s.alpha0 \oplus (s.alpha0 \oplus s.beta0)
    BY <2>3
  <2> QED  BY <2>1, <2>2, <2>4, Zenon
<1>4. ASSUME NEW l \in S
      PROVE  HoldsAt(l, chal, st, z, v, delta) /\ z[l] = GfMul(st.x[l], st.y[l])
  <2>1. /\ st.x[l] = BitBlock(e.bStar[l]) /\ st.y[l] = s.deltaB
        /\ st.macX[l] = e.bStarMacs[l] /\ st.macY[l] = s.beta0 /\ st.macZ[l] = e.dualMacs[l]
        /\ v.keyX[l] = g.bStarKeys[l] /\ v.keyY[l] = s.alpha0
        /\ v.keyZ[l] = g.dualAuthedBStar[l] /\ z[l] = AndAllBits(e.bStar[l], s.deltaB)
    BY DEF DualStatement, DualStatementKeys
  <2> HIDE DEF st, v, z
  <2>2. e.bStar[l] \in BOOLEAN /\ g.dualAuthedBStar[l] \in Block /\ chal[l] \in Block
    BY CheckBlocks DEF BitsOfLength, BlocksOfLength
  <2>3. /\ BitBlock(e.bStar[l]) \in Block
        /\ AuthenticBlock(BitBlock(e.bStar[l]), e.bStarMacs[l], g.bStarKeys[l], delta)
    BY <1>1, <2>2, BitAsBlock
  <2>4. /\ AndAllBits(e.bStar[l], s.deltaB) \in Block
        /\ GfMul(BitBlock(e.bStar[l]), s.deltaB) = AndAllBits(e.bStar[l], s.deltaB)
    BY <1>1, <2>2, BitProducts, BlockType
  <2> QED  BY <1>1, <1>3, <2>1, <2>2, <2>3, <2>4 DEF HoldsAt, AuthenticBlock
<1> HIDE DEF S, st, v, z, mask, chal, delta
<1>5. Accepts(B(S, chal, v, SeedOf(s, "dualProof"), delta),
              [a0 |-> A0(S, chal, st, mask), a1 |-> A1(S, chal, st, mask)], delta)
  BY <1>1, <1>2, <1>4, ListAccepted
<1> QED  BY <1>5, Zenon DEF S, st, v, mask, chal, delta, ProofWith, ProofOfD

(* The global keys that the equality checks divide by.                     *)
LEMMA Inverted ==
  ASSUME NEW x \in Block, x # ZeroBlock
  PROVE  GfInverse(x) \in Block /\ GfMul(x, GfInverse(x)) = One
<1>1. \E y \in Block : GfMul(x, y) = One
  BY OneAssumption
<1> QED  BY <1>1 DEF GfInverse

(* A value's MAC under delta, divided by delta, is the value's MAC of its  *)
(* own MAC: values and MACs exchange their places.                         *)
LEMMA Exchanged ==
  ASSUME NEW delta \in Block, delta # ZeroBlock, NEW value \in Block, NEW key \in Block,
         NEW mac \in Block, mac = key \oplus GfMul(value, delta)
  PROVE  value = GfMul(key, GfInverse(delta)) \oplus GfMul(mac, GfInverse(delta))
<1> DEFINE inv == GfInverse(delta)
<1>1. inv \in Block /\ GfMul(delta, inv) = One
  BY Inverted
<1> HIDE DEF inv
<1>2. GfMul(value, delta) \in Block
  BY Product
<1>3. GfMul(mac, inv) = GfMul(key, inv) \oplus GfMul(GfMul(value, delta), inv)
  <2>1. \A a, b, x \in Block : GfMul(a \oplus b, x) = GfMul(a, x) \oplus GfMul(b, x)
    BY Product
  <2> QED  BY <1>1, <1>2, <2>1
<1>4. GfMul(GfMul(value, delta), inv) = value
  <2>1. One \in Block
    BY BlockBitsAssumption DEF One, Block
  <2>2. GfMul(GfMul(value, delta), inv) = GfMul(value, GfMul(delta, inv))
    BY <1>1, Product
  <2>3. GfMul(value, One) = GfMul(One, value) /\ GfMul(One, value) = value
    BY <2>1, Product, OneAssumption
  <2> QED  BY <1>1, <2>2, <2>3
<1>5. \A a, b : b = a \oplus (a \oplus b)
  BY SMT DEF \oplus
<1>6. GfMul(mac, inv) = GfMul(key, inv) \oplus value
  BY <1>3, <1>4
<1>7. value = GfMul(key, inv) \oplus GfMul(mac, inv)
  BY <1>5, <1>6
<1> QED  BY <1>7 DEF inv

LEMMA BStarKeyedTwice ==
  ASSUME NEW s \in Setups, NEW g, NEW e, e.bStar \in BitsOfLength(ColumnsOf(s)),
         g.dualAuthedBStar \in BlocksOfLength(ColumnsOf(s)),
         e.dualMacs \in BlocksOfLength(ColumnsOf(s)), g.tmpDelta \in Block,
         \A l \in Below(ColumnsOf(s)) :
           /\ e.dualMacs[l] = g.dualAuthedBStar[l]
                                \oplus GfMul(AndAllBits(e.bStar[l], s.deltaB), s.deltaA)
           /\ e.tmpDeltaKeys[l][0] \in Block /\ g.tmpDeltaMacs[l][0] \in Block
           /\ g.tmpDeltaMacs[l][0] = e.tmpDeltaKeys[l][0] \oplus GfMul(g.tmpDelta, e.dualMacs[l])
  PROVE  BStarTwice(s, g, e)
<1> SUFFICES ASSUME NEW key3, NEW mac3
             PROVE  TwoKeyed(ColumnsOf(s), EqValuesOf(s, e, "bStar"),
                             EqMacsOf(s, e, mac3, "bStar"), EqKeysOf(s, g, key3, "bStar"),
                             EqGlobalOf(s, g, "bStar"))
  BY DEF BStarTwice
<1> DEFINE n == ColumnsOf(s)
           inv == GfInverse(s.deltaA)
           macs == EqMacsOf(s, e, mac3, "bStar")
           keys == EqKeysOf(s, g, key3, "bStar")
           globals == EqGlobalOf(s, g, "bStar")
<1>1. s.deltaA \in Block /\ s.deltaB \in Block /\ s.deltaA # ZeroBlock
  BY SetupTypes DEF LegalKeys, GetLSB, ZeroBlock
<1>2. inv \in Block
  BY <1>1, Inverted
<1>3. /\ macs[1] = [l \in Below(n) |-> AndAllBits(e.bStar[l], s.deltaB)]
      /\ macs[2] = [l \in Below(n) |-> e.tmpDeltaKeys[l][0]]
      /\ keys[1] = [l \in Below(n) |-> GfMul(g.dualAuthedBStar[l], inv)]
      /\ keys[2] = [l \in Below(n) |-> g.tmpDeltaMacs[l][0]]
      /\ globals[1] = inv /\ globals[2] = g.tmpDelta /\ EqValuesOf(s, e, "bStar") = e.dualMacs
  BY DEF EqMacsOf, EqKeysOf, EqGlobalOf, EqValuesOf
<1> HIDE DEF macs, keys, globals, n, inv
<1>4. ASSUME NEW l \in Below(n)
      PROVE  /\ AndAllBits(e.bStar[l], s.deltaB) \in Block
             /\ GfMul(g.dualAuthedBStar[l], inv) \in Block
             /\ macs[1][l] = keys[1][l] \oplus GfMul(e.dualMacs[l], globals[1])
             /\ macs[2][l] = keys[2][l] \oplus GfMul(e.dualMacs[l], globals[2])
  <2>1. /\ e.bStar[l] \in BOOLEAN /\ g.dualAuthedBStar[l] \in Block /\ e.dualMacs[l] \in Block
        /\ e.dualMacs[l] = g.dualAuthedBStar[l]
                             \oplus GfMul(AndAllBits(e.bStar[l], s.deltaB), s.deltaA)
        /\ e.tmpDeltaKeys[l][0] \in Block /\ g.tmpDeltaMacs[l][0] \in Block
        /\ g.tmpDeltaMacs[l][0] = e.tmpDeltaKeys[l][0] \oplus GfMul(g.tmpDelta, e.dualMacs[l])
    BY DEF BitsOfLength, BlocksOfLength, n
  <2>2. AndAllBits(e.bStar[l], s.deltaB) \in Block
    BY <1>1, BlockType
  <2>3. AndAllBits(e.bStar[l], s.deltaB)
          = GfMul(g.dualAuthedBStar[l], inv) \oplus GfMul(e.dualMacs[l], inv)
    <3> DEFINE value == AndAllBits(e.bStar[l], s.deltaB)
               key == g.dualAuthedBStar[l]
               mac == e.dualMacs[l]
    <3>1. /\ value \in Block /\ key \in Block /\ mac \in Block
          /\ mac = key \oplus GfMul(value, s.deltaA)
      BY <2>1, <2>2
    <3> HIDE DEF value, key, mac
    <3>2. value = GfMul(key, GfInverse(s.deltaA)) \oplus GfMul(mac, GfInverse(s.deltaA))
      BY <1>1, <3>1, Exchanged
    <3> QED  BY <3>2 DEF value, key, mac, inv
  <2>4. GfMul(g.dualAuthedBStar[l], inv) \in Block
    BY <1>2, <2>1, Product
  <2>5. e.tmpDeltaKeys[l][0] = g.tmpDeltaMacs[l][0] \oplus GfMul(e.dualMacs[l], g.tmpDelta)
    <3>1. GfMul(g.tmpDelta, e.dualMacs[l]) = GfMul(e.dualMacs[l], g.tmpDelta)
      BY <2>1, Product
    <3>2. \A a, b, c : a = b \oplus c => b = a \oplus c
      BY SMT DEF \oplus
    <3> QED  BY <2>1, <3>1, <3>2
  <2> QED  BY <1>3, <2>2, <2>3, <2>4, <2>5
<1>5. \A j \in {1, 2} : keys[j] \in BlocksOfLength(n) /\ macs[j] \in BlocksOfLength(n)
  BY <1>3, <1>4 DEF BlocksOfLength, n
<1>6. TwoKeyed(n, e.dualMacs, macs, keys, globals)
  BY <1>2, <1>3, <1>4, <1>5 DEF TwoKeyed, n
<1> QED  BY <1>3, <1>6 DEF n, macs, keys, globals

(* What is authenticated as a block under deltaA, or one under many keys.  *)
LEMMA BlocksKeyed ==
  ASSUME NEW delta, NEW n, NEW blocks, NEW macs, NEW keys,
         BlocksMade(Only(delta), n, blocks, Only(macs), Only(keys))
  PROVE  /\ blocks \in BlocksOfLength(n) /\ macs \in BlocksOfLength(n)
         /\ keys \in BlocksOfLength(n)
         /\ \A k \in Below(n) : macs[k] = keys[k] \oplus GfMul(blocks[k], delta)
<1>1. /\ DOMAIN Only(delta) = {0} /\ Only(delta)[0] = delta
      /\ Only(macs)[0] = macs /\ Only(keys)[0] = keys
  BY OnlyType
<1>2. macs \in BlocksOfLength(n) /\ keys \in BlocksOfLength(n) /\ blocks \in BlocksOfLength(n)
  BY <1>1, OnlyBlocks DEF BlocksMade
<1> QED  BY <1>1, <1>2 DEF BlocksMade, BlocksAuthentic, BlocksOfLength

LEMMA OneBlockKeyed ==
  ASSUME NEW x, NEW deltas, NEW macs, NEW keys, BlocksMade(deltas, 1, Only(x), macs, keys)
  PROVE  /\ x \in Block
         /\ \A d \in DOMAIN deltas : /\ macs[d][0] \in Block /\ keys[d][0] \in Block
                                     /\ macs[d][0] = keys[d][0] \oplus GfMul(x, deltas[d])
<1>1. 0 \in Below(1) /\ Only(x)[0] = x /\ DOMAIN Only(x) = {0}
  BY OnlyType DEF Below
<1>2. x \in Block
  BY <1>1 DEF BlocksMade, BlocksOfLength
<1>3. \A d \in DOMAIN deltas : macs[d][0] \in Block /\ keys[d][0] \in Block
  BY <1>1 DEF BlocksMade, TableOf, BlocksOfLength
<1>4. \A d \in DOMAIN deltas : macs[d][0] = keys[d][0] \oplus GfMul(x, deltas[d])
  BY <1>1 DEF BlocksMade, BlocksAuthentic
<1> QED  BY <1>2, <1>3, <1>4

(* What preprocessing hands over to its checks.                            *)
LEMMA KnownAtTheEnd ==
  ASSUME IInv, Prepared, NoSamePairs(circuit)
  PROVE  Known(setup, gb, ev)
<1> DEFINE n == ColumnsOf(setup)
<1>1. /\ setup \in Setups /\ setup.deltaA \in Block /\ setup.deltaB \in Block
      /\ n \in Nat \ {0}
  BY SetupTypes DEF IInv, Objects
<1>2. /\ BitsMade(Only(setup.deltaA), n, ev.bStar, Only(ev.bStarMacs), Only(gb.bStarKeys))
      /\ BlocksMade(Only(setup.deltaA), n, DualValues(setup, ev.bStar), Only(ev.dualMacs),
                    Only(gb.dualAuthedBStar))
  BY AtTheEnd DEF IInv, Stages, BStarStage, BStarMade, DualStage, Once
<1>3. /\ ev.bStar \in BitsOfLength(n)
      /\ \A l \in Below(n) :
           /\ gb.bStarKeys[l] \in Block
           /\ Authentic(ev.bStar[l], ev.bStarMacs[l], gb.bStarKeys[l], setup.deltaA)
  <2>1. /\ ev.bStar \in BitsOfLength(n) /\ gb.bStarKeys \in BlocksOfLength(n)
        /\ \A l \in Below(n) :
             Authentic(ev.bStar[l], ev.bStarMacs[l], gb.bStarKeys[l], setup.deltaA)
    BY <1>1, <1>2, OneKey
  <2> QED  BY <2>1 DEF BlocksOfLength
<1>4. /\ gb.dualAuthedBStar \in BlocksOfLength(n) /\ ev.dualMacs \in BlocksOfLength(n)
      /\ \A l \in Below(n) :
           ev.dualMacs[l] = gb.dualAuthedBStar[l]
                              \oplus GfMul(AndAllBits(ev.bStar[l], setup.deltaB), setup.deltaA)
  <2> DEFINE values == DualValues(setup, ev.bStar)
  <2>1. /\ gb.dualAuthedBStar \in BlocksOfLength(n) /\ ev.dualMacs \in BlocksOfLength(n)
        /\ \A l \in Below(n) :
             ev.dualMacs[l] = gb.dualAuthedBStar[l] \oplus GfMul(values[l], setup.deltaA)
    <3>1. BlocksMade(Only(setup.deltaA), n, values, Only(ev.dualMacs), Only(gb.dualAuthedBStar))
      BY <1>2
    <3> HIDE DEF values, n
    <3> DEFINE macs == ev.dualMacs
               keys == gb.dualAuthedBStar
               delta == setup.deltaA
    <3>3. BlocksMade(Only(delta), n, values, Only(macs), Only(keys))
      BY <3>1
    <3> HIDE DEF macs, keys, delta
    <3>4. /\ values \in BlocksOfLength(n) /\ macs \in BlocksOfLength(n)
          /\ keys \in BlocksOfLength(n)
          /\ \A k \in Below(n) : macs[k] = keys[k] \oplus GfMul(values[k], delta)
      BY <3>3, BlocksKeyed
    <3> QED  BY <3>4 DEF macs, keys, delta
  <2>2. \A l \in Below(n) : DualValues(setup, ev.bStar)[l] = AndAllBits(ev.bStar[l], setup.deltaB)
    BY DEF DualValues
  <2> QED  BY <2>1, <2>2
<1>5. Convinced(setup, gb, ev)
  <2>1. /\ Accepts(B(AndsAt(setup), ChallengesE(setup),
                     StatementKeys(setup, ev.populated, ev.garblerAndedKeys[1]),
                     SeedOf(setup, "proverG"), setup.deltaB),
                   ProofOfG(setup, gb), setup.deltaB)
    BY <1>1, MasksHeld, CheckBlocks, MaskProof, ZenonT(40) DEF ProofOfG, MaskG
  <2>2. Accepts(B(AndsAt(setup), ChallengesG(setup),
                  StatementKeys(setup, gb.populated, gb.evaluatorAndedKeys),
                  SeedOf(setup, "proverE"), setup.deltaA),
                ProofOfE(setup, ev), setup.deltaA)
    BY <1>1, MasksHeld, CheckBlocks, MaskProof DEF ProofOfE, MaskE
  <2>3. Accepts(B(Below(ColumnsOf(setup)), ChallengesD(setup), DualStatementKeys(setup, gb),
                  SeedOf(setup, "dualProof"), setup.deltaA),
                ProofOfD(setup, ev), setup.deltaA)
    BY <1>1, <1>3, <1>4, DualConvinced
  <2> QED  BY <2>1, <2>2, <2>3 DEF Convinced
<1>6. /\ gb.tmpDelta \in Block
      /\ \A d \in 0 .. n :
           /\ gb.tmpDeltaMacs[d][0] \in Block /\ ev.tmpDeltaKeys[d][0] \in Block
           /\ gb.tmpDeltaMacs[d][0]
                = ev.tmpDeltaKeys[d][0]
                    \oplus GfMul(gb.tmpDelta, IF d = n THEN setup.deltaB ELSE ev.dualMacs[d])
  <2> DEFINE deltas == Sid1Of(setup, ev.dualMacs)
  <2>1. BlocksMade(deltas, 1, Only(gb.tmpDelta), gb.tmpDeltaMacs, ev.tmpDeltaKeys)
    BY AtTheEnd DEF IInv, Stages, TmpDeltaStage, Once, UpToTriple
  <2>2. DOMAIN deltas = 0 .. n
        /\ \A d \in 0 .. n : deltas[d] = IF d = n THEN setup.deltaB ELSE ev.dualMacs[d]
    BY DEF Sid1Of
  <2> HIDE DEF deltas
  <2>3. /\ gb.tmpDelta \in Block
        /\ \A d \in DOMAIN deltas :
             /\ gb.tmpDeltaMacs[d][0] \in Block /\ ev.tmpDeltaKeys[d][0] \in Block
             /\ gb.tmpDeltaMacs[d][0] = ev.tmpDeltaKeys[d][0] \oplus GfMul(gb.tmpDelta, deltas[d])
    BY <2>1, OneBlockKeyed
  <2> HIDE DEF n
  <2> QED  BY <2>2, <2>3
<1>7. gb.tmpDeltaMacs5[1][0] = ev.tmpDeltaKeys5[1][0] \oplus GfMul(gb.tmpDelta, setup.deltaB)
  <2>1. BlocksMade(Sid2Of(setup), 1, Only(gb.tmpDelta), gb.tmpDeltaMacs5, ev.tmpDeltaKeys5)
    BY AtTheEnd DEF IInv, Stages, TmpDelta5Stage, Once, UpToPopulate
  <2>2. 1 \in DOMAIN Sid2Of(setup) /\ Sid2Of(setup)[1] = setup.deltaB
    BY DEF Sid2Of
  <2>3. \A d \in DOMAIN Sid2Of(setup) :
          gb.tmpDeltaMacs5[d][0]
            = ev.tmpDeltaKeys5[d][0] \oplus GfMul(gb.tmpDelta, Sid2Of(setup)[d])
    BY <2>1, OneBlockKeyed
  <2> QED  BY <2>2, <2>3
<1>8. TmpDeltaTwice(setup, gb, ev)
  <2>1. n \in 0 .. n
    BY <1>1
  <2> QED  BY <1>6, <1>7, <2>1 DEF TmpDeltaTwice
<1>9. BStarTwice(setup, gb, ev)
  <2>1. \A l \in Below(n) : l \in 0 .. n /\ l # n
    BY <1>1 DEF Below
  <2>2. \A l \in Below(n) :
          /\ ev.tmpDeltaKeys[l][0] \in Block /\ gb.tmpDeltaMacs[l][0] \in Block
          /\ gb.tmpDeltaMacs[l][0]
               = ev.tmpDeltaKeys[l][0] \oplus GfMul(gb.tmpDelta, ev.dualMacs[l])
    <3> HIDE DEF n
    <3> QED  BY <1>6, <2>1
  <2> QED  BY <1>1, <1>3, <1>4, <1>6, <2>2, BStarKeyedTwice
<1> QED  BY <1>1, <1>5, <1>8, <1>9 DEF Known

-----------------------------------------------------------------------------
(***************************************************************************)
(* Two honest parties send what the setup and the objects of preprocessing *)
(* determine.  s, g and e are setup, gb and ev, which the checks leave     *)
(* alone; round says which of the two equality checks is meant.            *)
(***************************************************************************)
(* The third authentication of deltaB, before and after the difference.    *)
Mac3Of(s, g) == SeedOf(s, "sid3") \oplus GfMul(SeedOf(s, "sid3Choice"), g.tmpDelta)

Diff3Of(s) == SeedOf(s, "sid3Choice") \oplus s.deltaB

Key3Of(s, g) == SeedOf(s, "sid3") \oplus GfMul(Diff3Of(s), g.tmpDelta)

(* What both parties hash in check_same_bit's two comparisons.             *)
Same1Of(s, e) == e.tmpDeltaKeys[ColumnsOf(s)][0] \oplus e.tmpDeltaKeys5[1][0]

Same2Of(s, g, e) == e.tmpDeltaKeys5[1][0] \oplus Mac3Of(s, g)

(* The equality checks: drawn keys and choices, differences, fixed keys.   *)
DrawnKeys(s, name, delta, n) ==
  [d \in DOMAIN Only(delta) |-> [i \in Below(n) |-> RandomBlock(s.seed, name, d, i)]]

DrawnChoices(s, name, n) == DrawnKeys(s, name, ZeroBlock, n)[0]

EqDelta(s, g, round, j) == EqGlobalOf(s, g, round)[j]

EqDrawn(s, g, round, name, j) == DrawnKeys(s, name, EqDelta(s, g, round, j), EqSizeOf(s, round))

EqDiff(s, g, e, round, choices, j) ==
  BlockDiff(DrawnChoices(s, choices, EqSizeOf(s, round)), EqMacsOf(s, e, Mac3Of(s, g), round)[j])

EqMade(s, g, round, name, choices, j) ==
  BlockMacs(EqDrawn(s, g, round, name, j), Only(EqDelta(s, g, round, j)),
            DrawnChoices(s, choices, EqSizeOf(s, round)))[0]

EqFixed(s, g, e, round, name, choices, j, i) ==
  FixedBlockKeys(Only(EqDrawn(s, g, round, name, j)[0]), Only(EqDelta(s, g, round, j)),
                 EqDiff(s, g, e, round, choices, i))[0]

(* eqKeys1 and eqMacs1, then eqKeys0 and eqMacs0.                          *)
EqKeys1Of(s, g, e, round) == EqFixed(s, g, e, round, "eq0", "eq0Choices", 1, 2)
EqMacs1Of(s, g, round) == EqMade(s, g, round, "eq0", "eq0Choices", 1)
EqKeys0Of(s, g, e, round) == EqFixed(s, g, e, round, "eq1", "eq1Choices", 2, 1)
EqMacs0Of(s, g, round) == EqMade(s, g, round, "eq1", "eq1Choices", 2)

DigestOf(s, g, round) ==
  Digest(EqSizeOf(s, round),
         [i \in Below(EqSizeOf(s, round)) |->
            EqMacs0Of(s, g, round)[i] \oplus EqMacs1Of(s, g, round)[i]])

Diff1Of(s, g, e, round) == EqDiff(s, g, e, round, "eq0Choices", 2)
Diff0Of(s, g, e, round) == EqDiff(s, g, e, round, "eq1Choices", 1)

DiffROf(s) == SeedOf(s, "dualRChoice") \oplus GfMul(SeedOf(s, "r"), s.deltaB)

TossOf(s) == SeedOf(s, "tossG") \oplus SeedOf(s, "tossE")

(* All messages of the evaluator up to its toss, and of the garbler.       *)
MessagesToG(s, g, e) ==
  <<SeedOf(s, "verifierSeedE"), ProofOfE(s, e), ProofOfD(s, e), Diff3Of(s),
    Half("high", Same1Of(s, e)), Half("high", Same2Of(s, g, e)),
    Diff1Of(s, g, e, "delta"), Diff0Of(s, g, e, "delta"), DigestOf(s, g, "delta"),
    Diff1Of(s, g, e, "bStar"), Diff0Of(s, g, e, "bStar"), DigestOf(s, g, "bStar"),
    DiffROf(s), Commitment(SeedOf(s, "tossE")), SeedOf(s, "tossE")>>

MessagesToE(s, g, e) ==
  <<SeedOf(s, "verifierSeedG"), ProofOfG(s, g), SeedOf(s, "dualSeed"),
    Half("low", Same1Of(s, e)), Half("low", Same2Of(s, g, e)),
    Commitment(SeedOf(s, "tossG")), SeedOf(s, "tossG")>>

-----------------------------------------------------------------------------
(***************************************************************************)
(* Where a party is tells how many messages it has read and sent.          *)
(***************************************************************************)
GarblerChecksOn ==
  {<<"seed", Unset, 0, 0>>, <<"proverE", Unset, 1, 0>>, <<"prove", Unset, 1, 1>>,
   <<"verify", Unset, 1, 2>>, <<"dualProof", Unset, 2, 2>>, <<"verifyDual", Unset, 2, 3>>,
   <<"sid3", Unset, 3, 3>>, <<"sid3Diff", Unset, 3, 3>>, <<"compare", "same1", 4, 3>>,
   <<"comparing", "same1", 4, 4>>, <<"compare", "same2", 5, 4>>, <<"comparing", "same2", 5, 5>>,
   <<"eq0", "delta", 6, 5>>, <<"eq0Diff", "delta", 6, 5>>, <<"eq1", "delta", 7, 5>>,
   <<"eq1Diff", "delta", 7, 5>>, <<"digest", "delta", 8, 5>>, <<"eq0", "bStar", 9, 5>>,
   <<"eq0Diff", "bStar", 9, 5>>, <<"eq1", "bStar", 10, 5>>, <<"eq1Diff", "bStar", 10, 5>>,
   <<"digest", "bStar", 11, 5>>}

GarblerTriples ==
  {<<"authedR", "beaver1", 12, 5>>, <<"dualR", "beaver1", 12, 5>>,
   <<"dualRDiff", "beaver1", 12, 5>>, <<"commit", "beaver1", 13, 5>>,
   <<"reveal", "beaver1", 13, 6>>, <<"tossed", "beaver1", 14, 7>>, <<"recvY", "beaver1", 15, 7>>,
   <<"compare", "beaver1", 16, 7>>, <<"comparing", "beaver1", 16, 8>>,
   <<"compare", "beaver2", 17, 8>>, <<"comparing", "beaver2", 17, 9>>, <<"done", Unset, 18, 9>>}

GarblerPlaces(S) ==
  GarblerChecksOn \cup (IF S = {} THEN {<<"done", "beaver1", 12, 5>>} ELSE GarblerTriples)

EvaluatorChecksOn ==
  {<<"proverE", Unset, 0, 1>>, <<"seed", Unset, 0, 1>>, <<"verify", Unset, 1, 1>>,
   <<"prove", Unset, 2, 1>>, <<"dualProof", Unset, 2, 2>>, <<"dualSeed", Unset, 2, 2>>,
   <<"sid3", Unset, 3, 3>>, <<"compare", "same1", 3, 4>>, <<"comparing", "same1", 3, 5>>,
   <<"compare", "same2", 4, 5>>, <<"comparing", "same2", 4, 6>>, <<"eq0", "delta", 5, 6>>,
   <<"eq1", "delta", 5, 7>>, <<"digest", "delta", 5, 8>>, <<"eq0", "bStar", 5, 9>>,
   <<"eq1", "bStar", 5, 10>>, <<"digest", "bStar", 5, 11>>}

EvaluatorTriples ==
  {<<"authedR", "beaver1", 5, 12>>, <<"dualR", "beaver1", 5, 12>>, <<"commit", "beaver1", 5, 13>>,
   <<"reveal", "beaver1", 5, 14>>, <<"tossed", "beaver1", 6, 15>>, <<"sendY", "beaver1", 7, 15>>,
   <<"compare", "beaver1", 7, 16>>, <<"comparing", "beaver1", 7, 17>>,
   <<"compare", "beaver2", 8, 17>>, <<"comparing", "beaver2", 8, 18>>, <<"done", Unset, 9, 18>>}

EvaluatorPlaces(S) ==
  EvaluatorChecksOn \cup (IF S = {} THEN {<<"done", "beaver1", 5, 12>>} ELSE EvaluatorTriples)

(* q: the messages that were sent and not read, of those known beforehand. *)
InFlight(q, messages, read, sent) ==
  /\ read \in Nat /\ sent \in Nat /\ read <= sent
  /\ Len(q) = sent - read /\ q = [k \in 1 .. (sent - read) |-> q[k]]
  /\ \A k \in 1 .. (sent - read) :
       read + k \in DOMAIN messages => q[k] = messages[read + k]

Streams ==
  \E a, d \in 0 .. 18, b, c \in 0 .. 9 :
    /\ <<gpc, gck.round, a, b>> \in GarblerPlaces(AndsAt(setup))
    /\ <<epc, eck.round, c, d>> \in EvaluatorPlaces(AndsAt(setup))
    /\ InFlight(toG, MessagesToG(setup, gb, ev), a, d)
    /\ InFlight(toE, MessagesToE(setup, gb, ev), c, b)

(***************************************************************************)
(* And what it has computed: as far as a later step uses it.               *)
(***************************************************************************)
GarblerMasks ==
  /\ gpc \in {"seed", "proverE", "prove"} => gck.mask = MaskG(setup)
  /\ gpc \in {"proverE", "prove"} => gck.seed = SeedOf(setup, "verifierSeedE")
  /\ gpc \in {"prove", "verify"} =>
       gck.maskKey = SeedOf(setup, "proverE") /\ gck.chal = ChallengesG(setup)
  /\ gpc = "verifyDual" =>
       gck.dualKey = SeedOf(setup, "dualProof") /\ gck.chal = ChallengesD(setup)

EvaluatorMasks ==
  /\ epc \in {"proverE", "seed", "verify"} =>
       eck.maskKey = SeedOf(setup, "proverG") /\ eck.chal = ChallengesE(setup)
  /\ epc \in {"seed", "verify", "prove"} => eck.mask = MaskE(setup)
  /\ epc \in {"verify", "prove"} => eck.seed = SeedOf(setup, "verifierSeedG")
  /\ epc = "dualSeed" => eck.dualMask = MaskD(setup)

BeforeBStar(pc, round) ==
  \/ pc \in {"compare", "comparing"} /\ round \in {"same1", "same2"}
  \/ pc \in {"eq0", "eq0Diff", "eq1", "eq1Diff", "digest"} /\ round = "delta"

GarblerEquals ==
  /\ gpc = "sid3Diff" => gck.key3 = SeedOf(setup, "sid3")
  /\ BeforeBStar(gpc, gck.round) => gck.key3 = Key3Of(setup, gb)
  /\ gpc = "eq0Diff" => gck.eqKeys1 = EqDrawn(setup, gb, gck.round, "eq0", 1)[0]
  /\ gpc \in {"eq1", "eq1Diff", "digest"} => gck.eqKeys1 = EqKeys1Of(setup, gb, ev, gck.round)
  /\ gpc = "eq1Diff" => gck.eqKeys0 = EqDrawn(setup, gb, gck.round, "eq1", 2)[0]
  /\ gpc = "digest" => gck.eqKeys0 = EqKeys0Of(setup, gb, ev, gck.round)

EvaluatorEquals ==
  /\ BeforeBStar(epc, eck.round) => eck.mac3 = Mac3Of(setup, gb)
  /\ epc \in {"eq1", "digest"} => eck.eqMacs1 = EqMacs1Of(setup, gb, eck.round)
  /\ epc = "digest" => eck.eqMacs0 = EqMacs0Of(setup, gb, eck.round)

GarblerTosses ==
  IF AndsAt(setup) = {} THEN gck.toss = Unset
  ELSE /\ gpc \in {"reveal", "tossed"} => gck.toss = SeedOf(setup, "tossG")
       /\ gpc = "tossed" => gck.peerCommitment = Commitment(SeedOf(setup, "tossE"))
       /\ gpc \in {"recvY", "done"} => gck.toss = TossOf(setup)
       /\ gpc \in {"compare", "comparing"} /\ gck.round \in {"beaver1", "beaver2"} =>
            gck.toss = TossOf(setup)

EvaluatorTosses ==
  IF AndsAt(setup) = {} THEN eck.toss = Unset
  ELSE /\ epc = "dualR" => eck.r = SeedOf(setup, "r")
       /\ epc \in {"reveal", "tossed"} => eck.toss = SeedOf(setup, "tossE")
       /\ epc = "tossed" => eck.peerCommitment = Commitment(SeedOf(setup, "tossG"))
       /\ epc \in {"sendY", "done"} => eck.toss = TossOf(setup)
       /\ epc \in {"compare", "comparing"} /\ eck.round \in {"beaver1", "beaver2"} =>
            eck.toss = TossOf(setup)

GarblerHolds == GarblerMasks /\ GarblerEquals /\ GarblerTosses
EvaluatorHolds == EvaluatorMasks /\ EvaluatorEquals /\ EvaluatorTosses

Named == DOMAIN gck = GarblerChecks /\ DOMAIN eck = EvaluatorChecks

(* The checks have begun. *)
Checking == Known(setup, gb, ev) /\ Named /\ Streams /\ GarblerHolds /\ EvaluatorHolds

CheckInv ==
  \/ IInv /\ gck = Unconstructed(GarblerChecks) /\ eck = Unconstructed(EvaluatorChecks)
  \/ Checking

(***************************************************************************)
(* Queues of messages known beforehand.                                    *)
(***************************************************************************)
LEMMA QueueOf ==
  ASSUME NEW q, NEW messages, NEW read, NEW sent, InFlight(q, messages, read, sent)
  PROVE  /\ sent - read \in Nat /\ Len(q) = sent - read
         /\ \E S : q \in Seq(S) /\ \A x : \E T : x \in T /\ q \in Seq(T)
<1>1. sent - read \in Nat /\ Len(q) = sent - read /\ q = [k \in 1 .. (sent - read) |-> q[k]]
  BY DEF InFlight
<1> DEFINE n == sent - read
<1>2. ASSUME NEW S, \A k \in 1 .. n : q[k] \in S
      PROVE  q \in Seq(S)
  <2>1. q \in [1 .. n -> S]
    BY <1>1, <1>2
  <2> QED  BY <1>1, <2>1
<1> DEFINE values == {q[k] : k \in 1 .. n}
<1>3. q \in Seq(values)
  BY <1>2
<1>4. ASSUME NEW x
      PROVE  \E T : x \in T /\ q \in Seq(T)
  <2>1. q \in Seq(values \cup {x}) /\ x \in values \cup {x}
    BY <1>2
  <2> QED  BY <2>1
<1> QED  BY <1>1, <1>3, <1>4

LEMMA InFlightTaken ==
  ASSUME NEW q, NEW messages, NEW read, NEW sent, InFlight(q, messages, read, sent), q # <<>>
  PROVE  /\ read + 1 <= sent
         /\ read + 1 \in DOMAIN messages => Head(q) = messages[read + 1]
         /\ InFlight(Tail(q), messages, read + 1, sent)
<1>1. PICK S : q \in Seq(S)
  BY QueueOf
<1>2. /\ read \in Nat /\ sent \in Nat /\ read <= sent /\ Len(q) = sent - read
      /\ \A k \in 1 .. (sent - read) :
           read + k \in DOMAIN messages => q[k] = messages[read + k]
  BY DEF InFlight
<1>3. /\ Tail(q) \in Seq(S) /\ Len(Tail(q)) = Len(q) - 1
      /\ \A i \in 1 .. Len(Tail(q)) : Tail(q)[i] = q[i + 1]
  BY <1>1, HeadTailProperties
<1>4. Head(q) = q[1]
  BY <1>1
<1>5. sent - read # 0
  BY <1>1, <1>2, EmptySeq
<1>6. Tail(q) = [k \in 1 .. (sent - (read + 1)) |-> Tail(q)[k]]
  <2>1. Len(Tail(q)) = sent - (read + 1)
    BY <1>2, <1>3
  <2> DEFINE t == Tail(q)
             n == sent - (read + 1)
  <2>2. t \in Seq(S) /\ Len(t) = n
    BY <1>3, <2>1
  <2> HIDE DEF t, n
  <2>3. t = [k \in 1 .. n |-> t[k]]
    BY <2>2
  <2> QED  BY <2>3 DEF t, n
<1>7. \A k \in 1 .. (sent - (read + 1)) :
        (read + 1) + k \in DOMAIN messages => Tail(q)[k] = messages[(read + 1) + k]
  <2>1. ASSUME NEW k \in 1 .. (sent - (read + 1)), (read + 1) + k \in DOMAIN messages
        PROVE  Tail(q)[k] = messages[(read + 1) + k]
    <3>1. k + 1 \in 1 .. (sent - read) /\ read + (k + 1) = (read + 1) + k
          /\ k \in 1 .. Len(Tail(q))
      BY <1>2, <1>3
    <3>2. Tail(q)[k] = q[k + 1] /\ q[k + 1] = messages[read + (k + 1)]
      BY <1>2, <1>3, <2>1, <3>1
    <3> QED  BY <3>1, <3>2
  <2> QED  BY <2>1
<1>8. read + 1 \in Nat /\ read + 1 <= sent /\ Len(Tail(q)) = sent - (read + 1)
  BY <1>2, <1>3, <1>5
<1>9. read + 1 \in DOMAIN messages => Head(q) = messages[read + 1]
  <2>1. 1 \in 1 .. (sent - read)
    BY <1>2, <1>5
  <2> QED  BY <1>2, <1>4, <2>1
<1> QED  BY <1>2, <1>6, <1>7, <1>8, <1>9 DEF InFlight

LEMMA InFlightGiven ==
  ASSUME NEW q, NEW messages, NEW read, NEW sent, InFlight(q, messages, read, sent), NEW x,
         sent + 1 \in DOMAIN messages => x = messages[sent + 1]
  PROVE  InFlight(Append(q, x), messages, read, sent + 1)
<1>1. PICK S : x \in S /\ q \in Seq(S)
  BY QueueOf
<1>2. /\ read \in Nat /\ sent \in Nat /\ read <= sent /\ Len(q) = sent - read
      /\ \A k \in 1 .. (sent - read) :
           read + k \in DOMAIN messages => q[k] = messages[read + k]
  BY DEF InFlight
<1> DEFINE r == Append(q, x)
           n == (sent + 1) - read
<1>3. /\ r \in Seq(S) /\ Len(r) = n /\ \A i \in 1 .. (sent - read) : r[i] = q[i]
      /\ r[n] = x
  <2>1. /\ r \in Seq(S) /\ Len(r) = Len(q) + 1 /\ \A i \in 1 .. Len(q) : r[i] = q[i]
        /\ r[Len(q) + 1] = x
    BY <1>1, AppendProperties
  <2>2. Len(q) + 1 = n
    BY <1>2
  <2> QED  BY <1>2, <2>1, <2>2
<1> HIDE DEF r
<1>4. r = [k \in 1 .. n |-> r[k]]
  BY <1>3
<1>5. ASSUME NEW k \in 1 .. n, read + k \in DOMAIN messages
      PROVE  r[k] = messages[read + k]
  <2>1. CASE k = n
    <3>1. read + k = sent + 1
      BY <1>2, <2>1
    <3> QED  BY <1>3, <1>5, <2>1, <3>1
  <2>2. CASE k # n
    <3>1. k \in 1 .. (sent - read)
      BY <1>2, <2>2
    <3> QED  BY <1>2, <1>3, <1>5, <3>1
  <2> QED  BY <2>1, <2>2
<1>6. read <= sent + 1 /\ sent + 1 \in Nat
  BY <1>2
<1>7. InFlight(r, messages, read, sent + 1)
  BY <1>2, <1>3, <1>4, <1>5, <1>6 DEF InFlight
<1> QED  BY <1>7 DEF r

-----------------------------------------------------------------------------
(***************************************************************************)
(* How the steps move the parties and the queues.                          *)
(***************************************************************************)
Fixed == UNCHANGED <<setup, gb, ev>>

GarblerStays == gpc' = gpc /\ gck' = gck
EvaluatorStays == epc' = epc /\ eck' = eck

(* The party has read a messages and sent b, whatever its place is called. *)
GarblerAt(a, b) ==
  \A x, y : <<gpc, gck.round, x, y>> \in GarblerPlaces(AndsAt(setup)) => x = a /\ y = b

EvaluatorAt(c, d) ==
  \A x, y : <<epc, eck.round, x, y>> \in EvaluatorPlaces(AndsAt(setup)) => x = c /\ y = d

GarblerTo(a, b) ==
  /\ a \in 0 .. 18 /\ b \in 0 .. 9
  /\ <<gpc', gck'.round, a, b>> \in GarblerPlaces(AndsAt(setup))

EvaluatorTo(c, d) ==
  /\ c \in 0 .. 9 /\ d \in 0 .. 18
  /\ <<epc', eck'.round, c, d>> \in EvaluatorPlaces(AndsAt(setup))

LEMMA GarblerLocated ==
  ASSUME Streams, NEW a, NEW b, GarblerAt(a, b)
  PROVE  \E d \in 0 .. 18, c \in 0 .. 9 :
           /\ a \in 0 .. 18 /\ b \in 0 .. 9
           /\ <<epc, eck.round, c, d>> \in EvaluatorPlaces(AndsAt(setup))
           /\ InFlight(toG, MessagesToG(setup, gb, ev), a, d)
           /\ InFlight(toE, MessagesToE(setup, gb, ev), c, b)
<1>1. PICK x, d \in 0 .. 18, y, c \in 0 .. 9 :
        /\ <<gpc, gck.round, x, y>> \in GarblerPlaces(AndsAt(setup))
        /\ <<epc, eck.round, c, d>> \in EvaluatorPlaces(AndsAt(setup))
        /\ InFlight(toG, MessagesToG(setup, gb, ev), x, d)
        /\ InFlight(toE, MessagesToE(setup, gb, ev), c, y)
  BY Zenon DEF Streams
<1>2. x = a /\ y = b
  BY <1>1, Zenon DEF GarblerAt
<1> QED  BY <1>1, <1>2, Zenon

LEMMA EvaluatorLocated ==
  ASSUME Streams, NEW c, NEW d, EvaluatorAt(c, d)
  PROVE  \E a \in 0 .. 18, b \in 0 .. 9 :
           /\ c \in 0 .. 9 /\ d \in 0 .. 18
           /\ <<gpc, gck.round, a, b>> \in GarblerPlaces(AndsAt(setup))
           /\ InFlight(toG, MessagesToG(setup, gb, ev), a, d)
           /\ InFlight(toE, MessagesToE(setup, gb, ev), c, b)
<1>1. PICK a, y \in 0 .. 18, b, x \in 0 .. 9 :
        /\ <<gpc, gck.round, a, b>> \in GarblerPlaces(AndsAt(setup))
        /\ <<epc, eck.round, x, y>> \in EvaluatorPlaces(AndsAt(setup))
        /\ InFlight(toG, MessagesToG(setup, gb, ev), a, y)
        /\ InFlight(toE, MessagesToE(setup, gb, ev), x, b)
  BY Zenon DEF Streams
<1>2. x = c /\ y = d
  BY <1>1, Zenon DEF EvaluatorAt
<1> QED  BY <1>1, <1>2, Zenon

LEMMA StreamsMove ==
  ASSUME Fixed, NEW a, NEW b, NEW c, NEW d, GarblerTo(a, b), EvaluatorTo(c, d),
         InFlight(toG', MessagesToG(setup, gb, ev), a, d),
         InFlight(toE', MessagesToE(setup, gb, ev), c, b)
  PROVE  Streams'
<1>1. /\ setup' = setup /\ gb' = gb /\ ev' = ev
      /\ a \in 0 .. 18 /\ d \in 0 .. 18 /\ b \in 0 .. 9 /\ c \in 0 .. 9
      /\ <<gpc', gck'.round, a, b>> \in GarblerPlaces(AndsAt(setup))
      /\ <<epc', eck'.round, c, d>> \in EvaluatorPlaces(AndsAt(setup))
  BY DEF Fixed, GarblerTo, EvaluatorTo
<1>2. /\ <<gpc', gck'.round, a, b>> \in GarblerPlaces(AndsAt(setup'))
      /\ <<epc', eck'.round, c, d>> \in EvaluatorPlaces(AndsAt(setup'))
      /\ InFlight(toG', MessagesToG(setup', gb', ev'), a, d)
      /\ InFlight(toE', MessagesToE(setup', gb', ev'), c, b)
  BY <1>1
<1> QED  BY <1>1, <1>2 DEF Streams

(* A party that moves alone leaves the other where it is.                  *)
LEMMA StayingAt ==
  ASSUME NEW a \in 0 .. 18, NEW b \in 0 .. 9
  PROVE  /\ GarblerStays /\ <<gpc, gck.round, a, b>> \in GarblerPlaces(AndsAt(setup)) =>
              GarblerTo(a, b)
         /\ EvaluatorStays /\ <<epc, eck.round, b, a>> \in EvaluatorPlaces(AndsAt(setup)) =>
              EvaluatorTo(b, a)
BY DEF GarblerStays, EvaluatorStays, GarblerTo, EvaluatorTo

LEMMA GarblerHead ==
  ASSUME Streams, toG # <<>>, NEW a, NEW b, GarblerAt(a, b),
         a + 1 \in DOMAIN MessagesToG(setup, gb, ev)
  PROVE  Head(toG) = MessagesToG(setup, gb, ev)[a + 1]
<1>1. PICK d \in 0 .. 18 : InFlight(toG, MessagesToG(setup, gb, ev), a, d)
  BY GarblerLocated, Zenon
<1> QED  BY <1>1, InFlightTaken

LEMMA EvaluatorHead ==
  ASSUME Streams, toE # <<>>, NEW c, NEW d, EvaluatorAt(c, d),
         c + 1 \in DOMAIN MessagesToE(setup, gb, ev)
  PROVE  Head(toE) = MessagesToE(setup, gb, ev)[c + 1]
<1>1. PICK b \in 0 .. 9 : InFlight(toE, MessagesToE(setup, gb, ev), c, b)
  BY EvaluatorLocated, Zenon
<1> QED  BY <1>1, InFlightTaken

LEMMA GarblerTakes ==
  ASSUME Streams, Fixed, EvaluatorStays, ReadG, NEW a, NEW b, GarblerAt(a, b),
         GarblerTo(a + 1, b)
  PROVE  Streams'
<1>1. PICK d \in 0 .. 18, c \in 0 .. 9 :
        /\ a \in 0 .. 18 /\ b \in 0 .. 9
        /\ <<epc, eck.round, c, d>> \in EvaluatorPlaces(AndsAt(setup))
        /\ InFlight(toG, MessagesToG(setup, gb, ev), a, d)
        /\ InFlight(toE, MessagesToE(setup, gb, ev), c, b)
  BY GarblerLocated, Zenon
<1>2. InFlight(toG', MessagesToG(setup, gb, ev), a + 1, d) /\ toE' = toE
  BY <1>1, InFlightTaken DEF ReadG
<1>3. EvaluatorTo(c, d)
  BY <1>1, StayingAt
<1> QED  BY <1>1, <1>2, <1>3, StreamsMove

LEMMA EvaluatorTakes ==
  ASSUME Streams, Fixed, GarblerStays, ReadE, NEW c, NEW d, EvaluatorAt(c, d),
         EvaluatorTo(c + 1, d)
  PROVE  Streams'
<1>1. PICK a \in 0 .. 18, b \in 0 .. 9 :
        /\ c \in 0 .. 9 /\ d \in 0 .. 18
        /\ <<gpc, gck.round, a, b>> \in GarblerPlaces(AndsAt(setup))
        /\ InFlight(toG, MessagesToG(setup, gb, ev), a, d)
        /\ InFlight(toE, MessagesToE(setup, gb, ev), c, b)
  BY EvaluatorLocated, Zenon
<1>2. InFlight(toE', MessagesToE(setup, gb, ev), c + 1, b) /\ toG' = toG
  BY <1>1, InFlightTaken DEF ReadE
<1>3. GarblerTo(a, b)
  BY <1>1, StayingAt
<1> QED  BY <1>1, <1>2, <1>3, StreamsMove

LEMMA GarblerGives ==
  ASSUME Streams, Fixed, EvaluatorStays, NEW x, SendE(x), NEW a, NEW b, GarblerAt(a, b),
         GarblerTo(a, b + 1),
         b + 1 \in DOMAIN MessagesToE(setup, gb, ev) => x = MessagesToE(setup, gb, ev)[b + 1]
  PROVE  Streams'
<1>1. PICK d \in 0 .. 18, c \in 0 .. 9 :
        /\ a \in 0 .. 18 /\ b \in 0 .. 9
        /\ <<epc, eck.round, c, d>> \in EvaluatorPlaces(AndsAt(setup))
        /\ InFlight(toG, MessagesToG(setup, gb, ev), a, d)
        /\ InFlight(toE, MessagesToE(setup, gb, ev), c, b)
  BY GarblerLocated, Zenon
<1>2. toE' = Append(toE, x) /\ toG' = toG
  BY DEF SendE
<1>3. InFlight(Append(toE, x), MessagesToE(setup, gb, ev), c, b + 1)
  BY <1>1, InFlightGiven
<1>4. EvaluatorTo(c, d)
  BY <1>1, StayingAt
<1> QED  BY <1>1, <1>2, <1>3, <1>4, StreamsMove

LEMMA EvaluatorGives ==
  ASSUME Streams, Fixed, GarblerStays, NEW x, SendG(x), NEW c, NEW d, EvaluatorAt(c, d),
         EvaluatorTo(c, d + 1),
         d + 1 \in DOMAIN MessagesToG(setup, gb, ev) => x = MessagesToG(setup, gb, ev)[d + 1]
  PROVE  Streams'
<1>1. PICK a \in 0 .. 18, b \in 0 .. 9 :
        /\ c \in 0 .. 9 /\ d \in 0 .. 18
        /\ <<gpc, gck.round, a, b>> \in GarblerPlaces(AndsAt(setup))
        /\ InFlight(toG, MessagesToG(setup, gb, ev), a, d)
        /\ InFlight(toE, MessagesToE(setup, gb, ev), c, b)
  BY EvaluatorLocated, Zenon
<1>2. toG' = Append(toG, x) /\ toE' = toE
  BY DEF SendG
<1>3. InFlight(Append(toG, x), MessagesToG(setup, gb, ev), a, d + 1)
  BY <1>1, InFlightGiven
<1>4. GarblerTo(a, b)
  BY <1>1, StayingAt
<1> QED  BY <1>1, <1>2, <1>3, <1>4, StreamsMove

(* Reading one message and sending another in a step.                      *)
LEMMA GarblerAnswers ==
  ASSUME Streams, Fixed, EvaluatorStays, toG # <<>>, toG' = Tail(toG), NEW x,
         toE' = Append(toE, x), NEW a, NEW b, GarblerAt(a, b), GarblerTo(a + 1, b + 1),
         b + 1 \in DOMAIN MessagesToE(setup, gb, ev) => x = MessagesToE(setup, gb, ev)[b + 1]
  PROVE  Streams'
<1>1. PICK d \in 0 .. 18, c \in 0 .. 9 :
        /\ a \in 0 .. 18 /\ b \in 0 .. 9
        /\ <<epc, eck.round, c, d>> \in EvaluatorPlaces(AndsAt(setup))
        /\ InFlight(toG, MessagesToG(setup, gb, ev), a, d)
        /\ InFlight(toE, MessagesToE(setup, gb, ev), c, b)
  BY GarblerLocated, Zenon
<1>2. InFlight(toG', MessagesToG(setup, gb, ev), a + 1, d)
  BY <1>1, InFlightTaken
<1>3. InFlight(Append(toE, x), MessagesToE(setup, gb, ev), c, b + 1)
  BY <1>1, InFlightGiven
<1>4. EvaluatorTo(c, d)
  BY <1>1, StayingAt
<1> QED  BY <1>2, <1>3, <1>4, StreamsMove

LEMMA EvaluatorAnswers ==
  ASSUME Streams, Fixed, GarblerStays, toE # <<>>, toE' = Tail(toE), NEW x,
         toG' = Append(toG, x), NEW c, NEW d, EvaluatorAt(c, d), EvaluatorTo(c + 1, d + 1),
         d + 1 \in DOMAIN MessagesToG(setup, gb, ev) => x = MessagesToG(setup, gb, ev)[d + 1]
  PROVE  Streams'
<1>1. PICK a \in 0 .. 18, b \in 0 .. 9 :
        /\ c \in 0 .. 9 /\ d \in 0 .. 18
        /\ <<gpc, gck.round, a, b>> \in GarblerPlaces(AndsAt(setup))
        /\ InFlight(toG, MessagesToG(setup, gb, ev), a, d)
        /\ InFlight(toE, MessagesToE(setup, gb, ev), c, b)
  BY EvaluatorLocated, Zenon
<1>2. InFlight(toE', MessagesToE(setup, gb, ev), c + 1, b)
  BY <1>1, InFlightTaken
<1>3. InFlight(Append(toG, x), MessagesToG(setup, gb, ev), a, d + 1)
  BY <1>1, InFlightGiven
<1>4. GarblerTo(a, b)
  BY <1>1, StayingAt
<1> QED  BY <1>2, <1>3, <1>4, StreamsMove

(* Both parties step; one of them sends, or none.                          *)
LEMMA BothGive ==
  ASSUME Streams, Fixed, NEW a, NEW b, NEW c, NEW d, GarblerAt(a, b), EvaluatorAt(c, d)
  PROVE  /\ Quiet /\ GarblerTo(a, b) /\ EvaluatorTo(c, d) => Streams'
         /\ \A x : /\ SendG(x) /\ GarblerTo(a, b) /\ EvaluatorTo(c, d + 1)
                   /\ d + 1 \in DOMAIN MessagesToG(setup, gb, ev) =>
                        x = MessagesToG(setup, gb, ev)[d + 1]
                   => Streams'
         /\ \A x : /\ SendE(x) /\ GarblerTo(a, b + 1) /\ EvaluatorTo(c, d)
                   /\ b + 1 \in DOMAIN MessagesToE(setup, gb, ev) =>
                        x = MessagesToE(setup, gb, ev)[b + 1]
                   => Streams'
<1>1. /\ InFlight(toG, MessagesToG(setup, gb, ev), a, d)
      /\ InFlight(toE, MessagesToE(setup, gb, ev), c, b)
  <2>1. PICK x, z \in 0 .. 18, y, w \in 0 .. 9 :
          /\ <<gpc, gck.round, x, y>> \in GarblerPlaces(AndsAt(setup))
          /\ <<epc, eck.round, w, z>> \in EvaluatorPlaces(AndsAt(setup))
          /\ InFlight(toG, MessagesToG(setup, gb, ev), x, z)
          /\ InFlight(toE, MessagesToE(setup, gb, ev), w, y)
    BY Zenon DEF Streams
  <2>2. x = a /\ y = b /\ w = c /\ z = d
    BY <2>1, Zenon DEF GarblerAt, EvaluatorAt
  <2> QED  BY <2>1, <2>2, Zenon
<1>2. Quiet /\ GarblerTo(a, b) /\ EvaluatorTo(c, d) => Streams'
  BY <1>1, StreamsMove DEF Quiet
<1>3. ASSUME NEW x, SendG(x), GarblerTo(a, b), EvaluatorTo(c, d + 1),
             d + 1 \in DOMAIN MessagesToG(setup, gb, ev) => x = MessagesToG(setup, gb, ev)[d + 1]
      PROVE  Streams'
  <2>1. toG' = Append(toG, x) /\ toE' = toE
    BY <1>3 DEF SendG
  <2>2. InFlight(Append(toG, x), MessagesToG(setup, gb, ev), a, d + 1)
    BY <1>1, <1>3, InFlightGiven
  <2> QED  BY <1>1, <1>3, <2>1, <2>2, StreamsMove
<1>4. ASSUME NEW x, SendE(x), GarblerTo(a, b + 1), EvaluatorTo(c, d),
             b + 1 \in DOMAIN MessagesToE(setup, gb, ev) => x = MessagesToE(setup, gb, ev)[b + 1]
      PROVE  Streams'
  <2>1. toE' = Append(toE, x) /\ toG' = toG
    BY <1>4 DEF SendE
  <2>2. InFlight(Append(toE, x), MessagesToE(setup, gb, ev), c, b + 1)
    BY <1>1, <1>4, InFlightGiven
  <2> QED  BY <1>1, <1>4, <2>1, <2>2, StreamsMove
<1> QED  BY <1>2, <1>3, <1>4

(* What a step leaves alone.                                               *)
LEMMA HeldStill ==
  ASSUME Fixed
  PROVE  /\ Known(setup, gb, ev) => Known(setup, gb, ev)'
         /\ GarblerStays /\ GarblerHolds => GarblerHolds'
         /\ EvaluatorStays /\ EvaluatorHolds => EvaluatorHolds'
<1>1. setup' = setup /\ gb' = gb /\ ev' = ev
  BY DEF Fixed
<1>2. Known(setup, gb, ev) => Known(setup, gb, ev)'
  BY <1>1
<1>3. GarblerStays /\ GarblerHolds => GarblerHolds'
  BY <1>1 DEF GarblerStays, GarblerHolds, GarblerMasks, GarblerEquals, GarblerTosses
<1>4. EvaluatorStays /\ EvaluatorHolds => EvaluatorHolds'
  BY <1>1 DEF EvaluatorStays, EvaluatorHolds, EvaluatorMasks, EvaluatorEquals, EvaluatorTosses
<1> QED  BY <1>2, <1>3, <1>4

LEMMA GarblerGoesOn ==
  ASSUME Checking, Fixed, EvaluatorStays, DOMAIN gck' = DOMAIN gck, Streams', GarblerHolds'
  PROVE  Checking'
<1>1. Known(setup, gb, ev)' /\ EvaluatorHolds'
  BY HeldStill DEF Checking
<1> QED  BY <1>1 DEF Checking, Named, EvaluatorStays

LEMMA EvaluatorGoesOn ==
  ASSUME Checking, Fixed, GarblerStays, DOMAIN eck' = DOMAIN eck, Streams', EvaluatorHolds'
  PROVE  Checking'
<1>1. Known(setup, gb, ev)' /\ GarblerHolds'
  BY HeldStill DEF Checking
<1> QED  BY <1>1 DEF Checking, Named, GarblerStays

LEMMA BothGoOn ==
  ASSUME Checking, Fixed, DOMAIN gck' = DOMAIN gck, DOMAIN eck' = DOMAIN eck, Streams',
         GarblerHolds', EvaluatorHolds'
  PROVE  Checking'
<1>1. Known(setup, gb, ev)'
  BY HeldStill DEF Checking
<1> QED  BY <1>1 DEF Checking, Named

(* Each party is at one of its places. *)
LEMMA Somewhere ==
  ASSUME Streams
  PROVE  /\ \E a, b : <<gpc, gck.round, a, b>> \in GarblerPlaces(AndsAt(setup))
         /\ \E c, d : <<epc, eck.round, c, d>> \in EvaluatorPlaces(AndsAt(setup))
BY Zenon DEF Streams

(* The places, one by one: how many messages were read and sent there.     *)
LEMMA GarblerTable ==
  ASSUME NEW S, NEW pc, NEW r, NEW x, NEW y, <<pc, r, x, y>> \in GarblerPlaces(S)
  PROVE  /\ pc = "seed" => r = Unset /\ x = 0 /\ y = 0
         /\ pc = "proverE" => r = Unset /\ x = 1 /\ y = 0
         /\ pc = "prove" => r = Unset /\ x = 1 /\ y = 1
         /\ pc = "verify" => r = Unset /\ x = 1 /\ y = 2
         /\ pc = "dualProof" => r = Unset /\ x = 2 /\ y = 2
         /\ pc = "verifyDual" => r = Unset /\ x = 2 /\ y = 3
         /\ pc = "sid3" => r = Unset /\ x = 3 /\ y = 3
         /\ pc = "sid3Diff" => r = Unset /\ x = 3 /\ y = 3
         /\ pc = "compare" =>
              \/ r = "same1" /\ x = 4 /\ y = 3
              \/ r = "same2" /\ x = 5 /\ y = 4
              \/ r = "beaver1" /\ x = 16 /\ y = 7 /\ S # {}
              \/ r = "beaver2" /\ x = 17 /\ y = 8 /\ S # {}
         /\ pc = "comparing" =>
              \/ r = "same1" /\ x = 4 /\ y = 4
              \/ r = "same2" /\ x = 5 /\ y = 5
              \/ r = "beaver1" /\ x = 16 /\ y = 8 /\ S # {}
              \/ r = "beaver2" /\ x = 17 /\ y = 9 /\ S # {}
         /\ pc = "eq0" =>
              \/ r = "delta" /\ x = 6 /\ y = 5
              \/ r = "bStar" /\ x = 9 /\ y = 5
         /\ pc = "eq0Diff" =>
              \/ r = "delta" /\ x = 6 /\ y = 5
              \/ r = "bStar" /\ x = 9 /\ y = 5
         /\ pc = "eq1" =>
              \/ r = "delta" /\ x = 7 /\ y = 5
              \/ r = "bStar" /\ x = 10 /\ y = 5
         /\ pc = "eq1Diff" =>
              \/ r = "delta" /\ x = 7 /\ y = 5
              \/ r = "bStar" /\ x = 10 /\ y = 5
         /\ pc = "digest" =>
              \/ r = "delta" /\ x = 8 /\ y = 5
              \/ r = "bStar" /\ x = 11 /\ y = 5
         /\ pc = "authedR" => r = "beaver1" /\ x = 12 /\ y = 5 /\ S # {}
         /\ pc = "dualR" => r = "beaver1" /\ x = 12 /\ y = 5 /\ S # {}
         /\ pc = "dualRDiff" => r = "beaver1" /\ x = 12 /\ y = 5 /\ S # {}
         /\ pc = "commit" => r = "beaver1" /\ x = 13 /\ y = 5 /\ S # {}
         /\ pc = "reveal" => r = "beaver1" /\ x = 13 /\ y = 6 /\ S # {}
         /\ pc = "tossed" => r = "beaver1" /\ x = 14 /\ y = 7 /\ S # {}
         /\ pc = "recvY" => r = "beaver1" /\ x = 15 /\ y = 7 /\ S # {}
         /\ pc = "done" =>
              IF S = {} THEN x = 12 /\ y = 5 ELSE x = 18 /\ y = 9
         /\ pc \in {"seed", "proverE", "prove", "verify", "dualProof", "verifyDual", "sid3",
                    "sid3Diff", "compare", "comparing", "eq0", "eq0Diff", "eq1", "eq1Diff",
                    "digest", "authedR", "dualR", "dualRDiff", "commit", "reveal", "tossed",
                    "recvY", "done"}
BY DEF GarblerPlaces, GarblerChecksOn, GarblerTriples

LEMMA GarblerWhere ==
  ASSUME Streams
  PROVE  /\ gpc = "seed" => gck.round = Unset /\ GarblerAt(0, 0)
         /\ gpc = "proverE" => gck.round = Unset /\ GarblerAt(1, 0)
         /\ gpc = "prove" => gck.round = Unset /\ GarblerAt(1, 1)
         /\ gpc = "verify" => gck.round = Unset /\ GarblerAt(1, 2)
         /\ gpc = "dualProof" => gck.round = Unset /\ GarblerAt(2, 2)
         /\ gpc = "verifyDual" => gck.round = Unset /\ GarblerAt(2, 3)
         /\ gpc = "sid3" => gck.round = Unset /\ GarblerAt(3, 3)
         /\ gpc = "sid3Diff" => gck.round = Unset /\ GarblerAt(3, 3)
         /\ gpc = "compare" =>
              \/ gck.round = "same1" /\ GarblerAt(4, 3)
              \/ gck.round = "same2" /\ GarblerAt(5, 4)
              \/ gck.round = "beaver1" /\ GarblerAt(16, 7) /\ AndsAt(setup) # {}
              \/ gck.round = "beaver2" /\ GarblerAt(17, 8) /\ AndsAt(setup) # {}
         /\ gpc = "comparing" =>
              \/ gck.round = "same1" /\ GarblerAt(4, 4)
              \/ gck.round = "same2" /\ GarblerAt(5, 5)
              \/ gck.round = "beaver1" /\ GarblerAt(16, 8) /\ AndsAt(setup) # {}
              \/ gck.round = "beaver2" /\ GarblerAt(17, 9) /\ AndsAt(setup) # {}
         /\ gpc = "eq0" =>
              \/ gck.round = "delta" /\ GarblerAt(6, 5)
              \/ gck.round = "bStar" /\ GarblerAt(9, 5)
         /\ gpc = "eq0Diff" =>
              \/ gck.round = "delta" /\ GarblerAt(6, 5)
              \/ gck.round = "bStar" /\ GarblerAt(9, 5)
         /\ gpc = "eq1" =>
              \/ gck.round = "delta" /\ GarblerAt(7, 5)
              \/ gck.round = "bStar" /\ GarblerAt(10, 5)
         /\ gpc = "eq1Diff" =>
              \/ gck.round = "delta" /\ GarblerAt(7, 5)
              \/ gck.round = "bStar" /\ GarblerAt(10, 5)
         /\ gpc = "digest" =>
              \/ gck.round = "delta" /\ GarblerAt(8, 5)
              \/ gck.round = "bStar" /\ GarblerAt(11, 5)
         /\ gpc = "authedR" => gck.round = "beaver1" /\ GarblerAt(12, 5) /\ AndsAt(setup) # {}
         /\ gpc = "dualR" => gck.round = "beaver1" /\ GarblerAt(12, 5) /\ AndsAt(setup) # {}
         /\ gpc = "dualRDiff" => gck.round = "beaver1" /\ GarblerAt(12, 5) /\ AndsAt(setup) # {}
         /\ gpc = "commit" => gck.round = "beaver1" /\ GarblerAt(13, 5) /\ AndsAt(setup) # {}
         /\ gpc = "reveal" => gck.round = "beaver1" /\ GarblerAt(13, 6) /\ AndsAt(setup) # {}
         /\ gpc = "tossed" => gck.round = "beaver1" /\ GarblerAt(14, 7) /\ AndsAt(setup) # {}
         /\ gpc = "recvY" => gck.round = "beaver1" /\ GarblerAt(15, 7) /\ AndsAt(setup) # {}
         /\ gpc \in {"seed", "proverE", "prove", "verify", "dualProof", "verifyDual", "sid3",
                     "sid3Diff", "compare", "comparing", "eq0", "eq0Diff", "eq1", "eq1Diff",
                     "digest", "authedR", "dualR", "dualRDiff", "commit", "reveal", "tossed",
                     "recvY", "done"}
<1>1. PICK a, b : <<gpc, gck.round, a, b>> \in GarblerPlaces(AndsAt(setup))
  BY Somewhere
<1>2. GarblerAt(a, b)
  BY <1>1, GarblerTable DEF GarblerAt
<1> QED  BY <1>1, <1>2, GarblerTable

LEMMA EvaluatorTable ==
  ASSUME NEW S, NEW pc, NEW r, NEW x, NEW y, <<pc, r, x, y>> \in EvaluatorPlaces(S)
  PROVE  /\ pc = "proverE" => r = Unset /\ x = 0 /\ y = 1
         /\ pc = "seed" => r = Unset /\ x = 0 /\ y = 1
         /\ pc = "verify" => r = Unset /\ x = 1 /\ y = 1
         /\ pc = "prove" => r = Unset /\ x = 2 /\ y = 1
         /\ pc = "dualProof" => r = Unset /\ x = 2 /\ y = 2
         /\ pc = "dualSeed" => r = Unset /\ x = 2 /\ y = 2
         /\ pc = "sid3" => r = Unset /\ x = 3 /\ y = 3
         /\ pc = "compare" =>
              \/ r = "same1" /\ x = 3 /\ y = 4
              \/ r = "same2" /\ x = 4 /\ y = 5
              \/ r = "beaver1" /\ x = 7 /\ y = 16 /\ S # {}
              \/ r = "beaver2" /\ x = 8 /\ y = 17 /\ S # {}
         /\ pc = "comparing" =>
              \/ r = "same1" /\ x = 3 /\ y = 5
              \/ r = "same2" /\ x = 4 /\ y = 6
              \/ r = "beaver1" /\ x = 7 /\ y = 17 /\ S # {}
              \/ r = "beaver2" /\ x = 8 /\ y = 18 /\ S # {}
         /\ pc = "eq0" =>
              \/ r = "delta" /\ x = 5 /\ y = 6
              \/ r = "bStar" /\ x = 5 /\ y = 9
         /\ pc = "eq1" =>
              \/ r = "delta" /\ x = 5 /\ y = 7
              \/ r = "bStar" /\ x = 5 /\ y = 10
         /\ pc = "digest" =>
              \/ r = "delta" /\ x = 5 /\ y = 8
              \/ r = "bStar" /\ x = 5 /\ y = 11
         /\ pc = "authedR" => r = "beaver1" /\ x = 5 /\ y = 12 /\ S # {}
         /\ pc = "dualR" => r = "beaver1" /\ x = 5 /\ y = 12 /\ S # {}
         /\ pc = "commit" => r = "beaver1" /\ x = 5 /\ y = 13 /\ S # {}
         /\ pc = "reveal" => r = "beaver1" /\ x = 5 /\ y = 14 /\ S # {}
         /\ pc = "tossed" => r = "beaver1" /\ x = 6 /\ y = 15 /\ S # {}
         /\ pc = "sendY" => r = "beaver1" /\ x = 7 /\ y = 15 /\ S # {}
         /\ pc = "done" =>
              IF S = {} THEN x = 5 /\ y = 12 ELSE x = 9 /\ y = 18
         /\ pc \in {"proverE", "seed", "verify", "prove", "dualProof", "dualSeed", "sid3",
                    "compare", "comparing", "eq0", "eq1", "digest", "authedR", "dualR", "commit",
                    "reveal", "tossed", "sendY", "done"}
BY DEF EvaluatorPlaces, EvaluatorChecksOn, EvaluatorTriples

LEMMA EvaluatorWhere ==
  ASSUME Streams
  PROVE  /\ epc = "proverE" => eck.round = Unset /\ EvaluatorAt(0, 1)
         /\ epc = "seed" => eck.round = Unset /\ EvaluatorAt(0, 1)
         /\ epc = "verify" => eck.round = Unset /\ EvaluatorAt(1, 1)
         /\ epc = "prove" => eck.round = Unset /\ EvaluatorAt(2, 1)
         /\ epc = "dualProof" => eck.round = Unset /\ EvaluatorAt(2, 2)
         /\ epc = "dualSeed" => eck.round = Unset /\ EvaluatorAt(2, 2)
         /\ epc = "sid3" => eck.round = Unset /\ EvaluatorAt(3, 3)
         /\ epc = "compare" =>
              \/ eck.round = "same1" /\ EvaluatorAt(3, 4)
              \/ eck.round = "same2" /\ EvaluatorAt(4, 5)
              \/ eck.round = "beaver1" /\ EvaluatorAt(7, 16) /\ AndsAt(setup) # {}
              \/ eck.round = "beaver2" /\ EvaluatorAt(8, 17) /\ AndsAt(setup) # {}
         /\ epc = "comparing" =>
              \/ eck.round = "same1" /\ EvaluatorAt(3, 5)
              \/ eck.round = "same2" /\ EvaluatorAt(4, 6)
              \/ eck.round = "beaver1" /\ EvaluatorAt(7, 17) /\ AndsAt(setup) # {}
              \/ eck.round = "beaver2" /\ EvaluatorAt(8, 18) /\ AndsAt(setup) # {}
         /\ epc = "eq0" =>
              \/ eck.round = "delta" /\ EvaluatorAt(5, 6)
              \/ eck.round = "bStar" /\ EvaluatorAt(5, 9)
         /\ epc = "eq1" =>
              \/ eck.round = "delta" /\ EvaluatorAt(5, 7)
              \/ eck.round = "bStar" /\ EvaluatorAt(5, 10)
         /\ epc = "digest" =>
              \/ eck.round = "delta" /\ EvaluatorAt(5, 8)
              \/ eck.round = "bStar" /\ EvaluatorAt(5, 11)
         /\ epc = "authedR" => eck.round = "beaver1" /\ EvaluatorAt(5, 12) /\ AndsAt(setup) # {}
         /\ epc = "dualR" => eck.round = "beaver1" /\ EvaluatorAt(5, 12) /\ AndsAt(setup) # {}
         /\ epc = "commit" => eck.round = "beaver1" /\ EvaluatorAt(5, 13) /\ AndsAt(setup) # {}
         /\ epc = "reveal" => eck.round = "beaver1" /\ EvaluatorAt(5, 14) /\ AndsAt(setup) # {}
         /\ epc = "tossed" => eck.round = "beaver1" /\ EvaluatorAt(6, 15) /\ AndsAt(setup) # {}
         /\ epc = "sendY" => eck.round = "beaver1" /\ EvaluatorAt(7, 15) /\ AndsAt(setup) # {}
         /\ epc \in {"proverE", "seed", "verify", "prove", "dualProof", "dualSeed", "sid3",
                     "compare", "comparing", "eq0", "eq1", "digest", "authedR", "dualR", "commit",
                     "reveal", "tossed", "sendY", "done"}
<1>1. PICK c, d : <<epc, eck.round, c, d>> \in EvaluatorPlaces(AndsAt(setup))
  BY Somewhere
<1>2. EvaluatorAt(c, d)
  BY <1>1, EvaluatorTable DEF EvaluatorAt
<1> QED  BY <1>1, <1>2, EvaluatorTable

LEMMA GarblerThere ==
  /\ gpc' = "seed" /\ gck'.round = Unset => GarblerTo(0, 0)
  /\ gpc' = "proverE" /\ gck'.round = Unset => GarblerTo(1, 0)
  /\ gpc' = "prove" /\ gck'.round = Unset => GarblerTo(1, 1)
  /\ gpc' = "verify" /\ gck'.round = Unset => GarblerTo(1, 2)
  /\ gpc' = "dualProof" /\ gck'.round = Unset => GarblerTo(2, 2)
  /\ gpc' = "verifyDual" /\ gck'.round = Unset => GarblerTo(2, 3)
  /\ gpc' = "sid3" /\ gck'.round = Unset => GarblerTo(3, 3)
  /\ gpc' = "sid3Diff" /\ gck'.round = Unset => GarblerTo(3, 3)
  /\ gpc' = "compare" /\ gck'.round = "same1" => GarblerTo(4, 3)
  /\ gpc' = "comparing" /\ gck'.round = "same1" => GarblerTo(4, 4)
  /\ gpc' = "compare" /\ gck'.round = "same2" => GarblerTo(5, 4)
  /\ gpc' = "comparing" /\ gck'.round = "same2" => GarblerTo(5, 5)
  /\ gpc' = "eq0" /\ gck'.round = "delta" => GarblerTo(6, 5)
  /\ gpc' = "eq0Diff" /\ gck'.round = "delta" => GarblerTo(6, 5)
  /\ gpc' = "eq1" /\ gck'.round = "delta" => GarblerTo(7, 5)
  /\ gpc' = "eq1Diff" /\ gck'.round = "delta" => GarblerTo(7, 5)
  /\ gpc' = "digest" /\ gck'.round = "delta" => GarblerTo(8, 5)
  /\ gpc' = "eq0" /\ gck'.round = "bStar" => GarblerTo(9, 5)
  /\ gpc' = "eq0Diff" /\ gck'.round = "bStar" => GarblerTo(9, 5)
  /\ gpc' = "eq1" /\ gck'.round = "bStar" => GarblerTo(10, 5)
  /\ gpc' = "eq1Diff" /\ gck'.round = "bStar" => GarblerTo(10, 5)
  /\ gpc' = "digest" /\ gck'.round = "bStar" => GarblerTo(11, 5)
  /\ AndsAt(setup) # {} =>
       /\ gpc' = "authedR" /\ gck'.round = "beaver1" => GarblerTo(12, 5)
       /\ gpc' = "dualR" /\ gck'.round = "beaver1" => GarblerTo(12, 5)
       /\ gpc' = "dualRDiff" /\ gck'.round = "beaver1" => GarblerTo(12, 5)
       /\ gpc' = "commit" /\ gck'.round = "beaver1" => GarblerTo(13, 5)
       /\ gpc' = "reveal" /\ gck'.round = "beaver1" => GarblerTo(13, 6)
       /\ gpc' = "tossed" /\ gck'.round = "beaver1" => GarblerTo(14, 7)
       /\ gpc' = "recvY" /\ gck'.round = "beaver1" => GarblerTo(15, 7)
       /\ gpc' = "compare" /\ gck'.round = "beaver1" => GarblerTo(16, 7)
       /\ gpc' = "comparing" /\ gck'.round = "beaver1" => GarblerTo(16, 8)
       /\ gpc' = "compare" /\ gck'.round = "beaver2" => GarblerTo(17, 8)
       /\ gpc' = "comparing" /\ gck'.round = "beaver2" => GarblerTo(17, 9)
       /\ gpc' = "done" /\ gck'.round = Unset => GarblerTo(18, 9)
  /\ AndsAt(setup) = {} /\ gpc' = "done" /\ gck'.round = "beaver1" => GarblerTo(12, 5)
BY SMTT(150) DEF GarblerTo, GarblerPlaces, GarblerChecksOn, GarblerTriples

LEMMA EvaluatorThere ==
  /\ epc' = "proverE" /\ eck'.round = Unset => EvaluatorTo(0, 1)
  /\ epc' = "seed" /\ eck'.round = Unset => EvaluatorTo(0, 1)
  /\ epc' = "verify" /\ eck'.round = Unset => EvaluatorTo(1, 1)
  /\ epc' = "prove" /\ eck'.round = Unset => EvaluatorTo(2, 1)
  /\ epc' = "dualProof" /\ eck'.round = Unset => EvaluatorTo(2, 2)
  /\ epc' = "dualSeed" /\ eck'.round = Unset => EvaluatorTo(2, 2)
  /\ epc' = "sid3" /\ eck'.round = Unset => EvaluatorTo(3, 3)
  /\ epc' = "compare" /\ eck'.round = "same1" => EvaluatorTo(3, 4)
  /\ epc' = "comparing" /\ eck'.round = "same1" => EvaluatorTo(3, 5)
  /\ epc' = "compare" /\ eck'.round = "same2" => EvaluatorTo(4, 5)
  /\ epc' = "comparing" /\ eck'.round = "same2" => EvaluatorTo(4, 6)
  /\ epc' = "eq0" /\ eck'.round = "delta" => EvaluatorTo(5, 6)
  /\ epc' = "eq1" /\ eck'.round = "delta" => EvaluatorTo(5, 7)
  /\ epc' = "digest" /\ eck'.round = "delta" => EvaluatorTo(5, 8)
  /\ epc' = "eq0" /\ eck'.round = "bStar" => EvaluatorTo(5, 9)
  /\ epc' = "eq1" /\ eck'.round = "bStar" => EvaluatorTo(5, 10)
  /\ epc' = "digest" /\ eck'.round = "bStar" => EvaluatorTo(5, 11)
  /\ AndsAt(setup) # {} =>
       /\ epc' = "authedR" /\ eck'.round = "beaver1" => EvaluatorTo(5, 12)
       /\ epc' = "dualR" /\ eck'.round = "beaver1" => EvaluatorTo(5, 12)
       /\ epc' = "commit" /\ eck'.round = "beaver1" => EvaluatorTo(5, 13)
       /\ epc' = "reveal" /\ eck'.round = "beaver1" => EvaluatorTo(5, 14)
       /\ epc' = "tossed" /\ eck'.round = "beaver1" => EvaluatorTo(6, 15)
       /\ epc' = "sendY" /\ eck'.round = "beaver1" => EvaluatorTo(7, 15)
       /\ epc' = "compare" /\ eck'.round = "beaver1" => EvaluatorTo(7, 16)
       /\ epc' = "comparing" /\ eck'.round = "beaver1" => EvaluatorTo(7, 17)
       /\ epc' = "compare" /\ eck'.round = "beaver2" => EvaluatorTo(8, 17)
       /\ epc' = "comparing" /\ eck'.round = "beaver2" => EvaluatorTo(8, 18)
       /\ epc' = "done" /\ eck'.round = Unset => EvaluatorTo(9, 18)
  /\ AndsAt(setup) = {} /\ epc' = "done" /\ eck'.round = "beaver1" => EvaluatorTo(5, 12)
BY DEF EvaluatorTo, EvaluatorPlaces, EvaluatorChecksOn, EvaluatorTriples

LEMMA KnownMessages ==
  ASSUME NEW s, NEW g, NEW e
  PROVE  /\ DOMAIN MessagesToG(s, g, e) = 1 .. 15 /\ DOMAIN MessagesToE(s, g, e) = 1 .. 7
         /\ MessagesToG(s, g, e)[1] = SeedOf(s, "verifierSeedE")
         /\ MessagesToG(s, g, e)[2] = ProofOfE(s, e)
         /\ MessagesToG(s, g, e)[3] = ProofOfD(s, e)
         /\ MessagesToG(s, g, e)[4] = Diff3Of(s)
         /\ MessagesToG(s, g, e)[5] = Half("high", Same1Of(s, e))
         /\ MessagesToG(s, g, e)[6] = Half("high", Same2Of(s, g, e))
         /\ MessagesToG(s, g, e)[7] = Diff1Of(s, g, e, "delta")
         /\ MessagesToG(s, g, e)[8] = Diff0Of(s, g, e, "delta")
         /\ MessagesToG(s, g, e)[9] = DigestOf(s, g, "delta")
         /\ MessagesToG(s, g, e)[10] = Diff1Of(s, g, e, "bStar")
         /\ MessagesToG(s, g, e)[11] = Diff0Of(s, g, e, "bStar")
         /\ MessagesToG(s, g, e)[12] = DigestOf(s, g, "bStar")
         /\ MessagesToG(s, g, e)[13] = DiffROf(s)
         /\ MessagesToG(s, g, e)[14] = Commitment(SeedOf(s, "tossE"))
         /\ MessagesToG(s, g, e)[15] = SeedOf(s, "tossE")
         /\ MessagesToE(s, g, e)[1] = SeedOf(s, "verifierSeedG")
         /\ MessagesToE(s, g, e)[2] = ProofOfG(s, g)
         /\ MessagesToE(s, g, e)[3] = SeedOf(s, "dualSeed")
         /\ MessagesToE(s, g, e)[4] = Half("low", Same1Of(s, e))
         /\ MessagesToE(s, g, e)[5] = Half("low", Same2Of(s, g, e))
         /\ MessagesToE(s, g, e)[6] = Commitment(SeedOf(s, "tossG"))
         /\ MessagesToE(s, g, e)[7] = SeedOf(s, "tossG")
BY DEF MessagesToG, MessagesToE

(* The model's operators, of the setup.                                    *)
LEMMA OfChecks ==
  /\ ands = AndsAt(setup) /\ L = ColumnsOf(setup) /\ deltaA = setup.deltaA
  /\ deltaB = setup.deltaB
  /\ \A name : RandomSeed(name) = SeedOf(setup, name)
  /\ \A name : RandomBlock(setup.seed, name, 0, 0) = SeedOf(setup, name)
  /\ \A p, anded, macs : MaskStatement(p, anded, macs) = StatementOf(setup, p, anded, macs)
  /\ \A p, keys : MaskKeys(p, keys) = StatementKeys(setup, p, keys)
  /\ \A st, seed, mask :
       ProofOf(st, seed, mask)
         = ProofWith(AndsAt(setup), Challenges(seed, AndsAt(setup)), st, mask)
<1>1. ands = AndsAt(setup) /\ L = ColumnsOf(setup) /\ deltaA = setup.deltaA
      /\ deltaB = setup.deltaB
  BY OfSetup DEF ands, AndsAt
<1>2. \A k : andGate(k) = GateOf(setup, k)
  BY DEF andGate, GateOf, circuit
<1>3. \A p, anded, macs : MaskStatement(p, anded, macs) = StatementOf(setup, p, anded, macs)
  BY <1>1, <1>2, Zenon DEF MaskStatement, StatementOf
<1>4. \A p, keys : MaskKeys(p, keys) = StatementKeys(setup, p, keys)
  BY <1>1, <1>2, Zenon DEF MaskKeys, StatementKeys
<1>5. \A st, seed, mask :
        ProofOf(st, seed, mask)
          = ProofWith(AndsAt(setup), Challenges(seed, AndsAt(setup)), st, mask)
  BY <1>1, Zenon DEF ProofOf, ProofWith
<1> QED  BY <1>1, <1>3, <1>4, <1>5, Zenon DEF RandomSeed, SeedOf

-----------------------------------------------------------------------------
(***************************************************************************)
(* The products and the dual proof.                                        *)
(***************************************************************************)
LEMMA ProverGKeeps ==
  ASSUME IInv, NoSamePairs(circuit), gck = Unconstructed(GarblerChecks),
         eck = Unconstructed(EvaluatorChecks), ProverG
  PROVE  Checking'
<1>1. /\ gpc = "check" /\ epc = "check" /\ gpc' = "seed" /\ epc' = "proverE" /\ Fixed
      /\ toG = <<>> /\ toE = <<>> /\ toG' = Append(toG, SeedOf(setup, "verifierSeedE"))
      /\ toE' = toE
  BY OfChecks DEF ProverG, TogetherCheck, Together, Fixed, SendG
<1>2. /\ gck' = [gck EXCEPT !.mask = MaskG(setup)]
      /\ eck' = [eck EXCEPT !.maskKey = SeedOf(setup, "proverG"), !.chal = ChallengesE(setup)]
  BY OfChecks DEF ProverG, MaskG, ProofMask, ChallengesE
<1>3. Known(setup, gb, ev)
  BY <1>1, KnownAtTheEnd DEF Prepared
<1>4. /\ DOMAIN gck = GarblerChecks /\ DOMAIN eck = EvaluatorChecks
      /\ \A n \in GarblerChecks : gck[n] = Unset
      /\ \A n \in EvaluatorChecks : eck[n] = Unset
  BY DEF Unconstructed
<1>5. /\ DOMAIN gck' = GarblerChecks /\ gck'.mask = MaskG(setup) /\ gck'.round = Unset
      /\ gck'.toss = Unset
  BY <1>2, <1>4 DEF GarblerChecks
<1>6. /\ DOMAIN eck' = EvaluatorChecks /\ eck'.round = Unset /\ eck'.toss = Unset
      /\ eck'.maskKey = SeedOf(setup, "proverG") /\ eck'.chal = ChallengesE(setup)
  BY <1>2, <1>4 DEF EvaluatorChecks
<1>7. Streams'
  <2> DEFINE mG == MessagesToG(setup, gb, ev)
             mE == MessagesToE(setup, gb, ev)
  <2>1. \A m : InFlight(<<>>, m, 0, 0)
    BY EmptySeq DEF InFlight
  <2>2. InFlight(Append(<<>>, SeedOf(setup, "verifierSeedE")), mG, 0, 0 + 1)
    <3>1. mG[0 + 1] = SeedOf(setup, "verifierSeedE")
      BY KnownMessages
    <3> HIDE DEF mG
    <3>2. InFlight(<<>>, mG, 0, 0)
      BY <2>1
    <3> QED  BY <3>1, <3>2, InFlightGiven
  <2>3. InFlight(toG', mG, 0, 1) /\ InFlight(toE', mE, 0, 0)
    BY <1>1, <2>1, <2>2
  <2>4. GarblerTo(0, 0) /\ EvaluatorTo(0, 1)
    BY <1>1, <1>5, <1>6 DEF GarblerTo, EvaluatorTo, GarblerPlaces, EvaluatorPlaces,
       GarblerChecksOn, EvaluatorChecksOn
  <2> QED  BY <1>1, <2>3, <2>4, StreamsMove
<1>8. GarblerHolds'
  BY <1>1, <1>5 DEF Fixed, GarblerHolds, GarblerMasks, GarblerEquals, GarblerTosses, BeforeBStar
<1>9. EvaluatorHolds'
  BY <1>1, <1>6 DEF Fixed, EvaluatorHolds, EvaluatorMasks, EvaluatorEquals, EvaluatorTosses,
     BeforeBStar
<1>10. Known(setup, gb, ev)'
  BY <1>1, <1>3, HeldStill
<1> QED  BY <1>5, <1>6, <1>7, <1>8, <1>9, <1>10 DEF Checking, Named

LEMMA RecvSeedGKeeps ==
  ASSUME Checking, RecvSeedG
  PROVE  Checking'
<1>1. /\ gpc = "seed" /\ gpc' = "proverE" /\ Fixed /\ EvaluatorStays /\ ReadG /\ toG # <<>>
      /\ gck' = [gck EXCEPT !.seed = Head(toG)] /\ Streams
  BY DEF RecvSeedG, GarblerCheck, GarblerStep, Fixed, EvaluatorStays, ReadG, Checking
<1>2. /\ DOMAIN gck' = DOMAIN gck /\ gck'.seed = Head(toG)
      /\ gck'.mask = gck.mask /\ gck'.round = gck.round /\ gck'.toss = gck.toss
  BY <1>1 DEF Checking, Named, GarblerChecks
<1>3. GarblerAt(0, 0) /\ GarblerTo(1, 0)
  BY <1>1, <1>2, GarblerWhere, GarblerThere
<1>4. Head(toG) = SeedOf(setup, "verifierSeedE")
  BY <1>1, <1>3, KnownMessages, GarblerHead
<1>5. Streams'
  BY <1>1, <1>3, GarblerTakes
<1>6. GarblerHolds'
  BY <1>1, <1>2, <1>4 DEF Checking, Fixed, GarblerHolds, GarblerMasks, GarblerEquals,
     GarblerTosses, BeforeBStar
<1> QED  BY <1>1, <1>2, <1>5, <1>6, GarblerGoesOn

LEMMA ProverEKeeps ==
  ASSUME Checking, ProverE
  PROVE  Checking'
<1>1. /\ gpc = "proverE" /\ epc = "proverE" /\ gpc' = "prove" /\ epc' = "seed" /\ Fixed
      /\ SendE(SeedOf(setup, "verifierSeedG")) /\ Streams
  BY OfChecks DEF ProverE, TogetherCheck, Together, Fixed, Checking
<1>2. /\ gck' = [gck EXCEPT !.maskKey = SeedOf(setup, "proverE"), !.chal = ChallengesG(setup)]
      /\ eck' = [eck EXCEPT !.mask = MaskE(setup)]
  <2>1. /\ ChallengesG(setup) = Challenges(RandomSeed("verifierSeedG"), ands)
        /\ SeedOf(setup, "proverE") = RandomBlock(setup.seed, "proverE", 0, 0)
    BY OfChecks, Zenon DEF ChallengesG
  <2>2. MaskE(setup) = [block |-> RandomBlock(setup.seed, "proverEBlock", 0, 0),
                       mac |-> RandomBlock(setup.seed, "proverE", 0, 0)
                                 \oplus GfMul(RandomBlock(setup.seed, "proverEBlock", 0, 0),
                                             deltaA)]
    BY Zenon DEF MaskE, ProofMask, SeedOf, deltaA
  <2> QED  BY <2>1, <2>2, Zenon DEF ProverE
<1>3. /\ DOMAIN gck' = DOMAIN gck /\ gck'.round = gck.round /\ gck'.toss = gck.toss
      /\ gck'.mask = gck.mask /\ gck'.seed = gck.seed
      /\ gck'.maskKey = SeedOf(setup, "proverE") /\ gck'.chal = ChallengesG(setup)
  BY <1>2 DEF Checking, Named, GarblerChecks
<1>4. /\ DOMAIN eck' = DOMAIN eck /\ eck'.round = eck.round /\ eck'.toss = eck.toss
      /\ eck'.maskKey = eck.maskKey /\ eck'.chal = eck.chal /\ eck'.mask = MaskE(setup)
  BY <1>2 DEF Checking, Named, EvaluatorChecks
<1>5. GarblerAt(1, 0) /\ EvaluatorAt(0, 1) /\ GarblerTo(1, 1) /\ EvaluatorTo(0, 1)
  BY <1>1, <1>3, <1>4, GarblerWhere, EvaluatorWhere, GarblerThere, EvaluatorThere
<1>6. Streams'
  BY <1>1, <1>5, KnownMessages, BothGive
<1>7. GarblerHolds'
  BY <1>1, <1>3 DEF Checking, Fixed, GarblerHolds, GarblerMasks, GarblerEquals, GarblerTosses,
     BeforeBStar
<1>8. EvaluatorHolds'
  BY <1>1, <1>4 DEF Checking, Fixed, EvaluatorHolds, EvaluatorMasks, EvaluatorEquals,
     EvaluatorTosses, BeforeBStar
<1> QED  BY <1>1, <1>3, <1>4, <1>6, <1>7, <1>8, BothGoOn

LEMMA RecvSeedEKeeps ==
  ASSUME Checking, RecvSeedE
  PROVE  Checking'
<1>1. /\ epc = "seed" /\ epc' = "verify" /\ Fixed /\ GarblerStays /\ ReadE /\ toE # <<>>
      /\ eck' = [eck EXCEPT !.seed = Head(toE)] /\ Streams
  BY DEF RecvSeedE, EvaluatorCheck, EvaluatorStep, Fixed, GarblerStays, ReadE, Checking
<1>2. /\ DOMAIN eck' = DOMAIN eck /\ eck'.seed = Head(toE) /\ eck'.maskKey = eck.maskKey
      /\ eck'.chal = eck.chal /\ eck'.mask = eck.mask /\ eck'.round = eck.round
      /\ eck'.toss = eck.toss
  BY <1>1 DEF Checking, Named, EvaluatorChecks
<1>3. EvaluatorAt(0, 1) /\ EvaluatorTo(1, 1)
  BY <1>1, <1>2, EvaluatorWhere, EvaluatorThere
<1>4. Head(toE) = SeedOf(setup, "verifierSeedG")
  BY <1>1, <1>3, KnownMessages, EvaluatorHead
<1>5. Streams'
  BY <1>1, <1>3, EvaluatorTakes
<1>6. EvaluatorHolds'
  BY <1>1, <1>2, <1>4 DEF Checking, Fixed, EvaluatorHolds, EvaluatorMasks, EvaluatorEquals,
     EvaluatorTosses, BeforeBStar
<1> QED  BY <1>1, <1>2, <1>5, <1>6, EvaluatorGoesOn

LEMMA ProveGKeeps ==
  ASSUME Checking, ProveG
  PROVE  Checking'
<1>1. /\ gpc = "prove" /\ gpc' = "verify" /\ Fixed /\ EvaluatorStays /\ Streams /\ gck' = gck
      /\ SendE(ProofOf(MaskStatement(gb.populated, gb.anded, gb.andedMacs[1]), gck.seed, gck.mask))
  BY DEF ProveG, GarblerCheck, GarblerStep, Fixed, EvaluatorStays, Checking
<1>2. gck.seed = SeedOf(setup, "verifierSeedE") /\ gck.mask = MaskG(setup)
  BY <1>1 DEF Checking, GarblerHolds, GarblerMasks
<1>3. ProofOf(MaskStatement(gb.populated, gb.anded, gb.andedMacs[1]), gck.seed, gck.mask)
        = ProofOfG(setup, gb)
  BY <1>2, OfChecks, Zenon DEF ProofOfG, ChallengesE
<1>4. GarblerAt(1, 1) /\ GarblerTo(1, 2)
  BY <1>1, GarblerWhere, GarblerThere
<1>5. Streams'
  BY <1>1, <1>3, <1>4, KnownMessages, GarblerGives
<1>6. GarblerHolds'
  BY <1>1 DEF Checking, Fixed, GarblerHolds, GarblerMasks, GarblerEquals, GarblerTosses,
     BeforeBStar
<1> QED  BY <1>1, <1>5, <1>6, GarblerGoesOn

LEMMA VerifyEKeeps ==
  ASSUME Checking, VerifyE
  PROVE  Checking'
<1> DEFINE b == B(ands, eck.chal, MaskKeys(ev.populated, ev.garblerAndedKeys[1]), eck.maskKey,
                  deltaB)
<1>1. /\ epc = "verify" /\ epc' = Unless(Accepts(b, Head(toE), deltaB), "prove") /\ Fixed
      /\ GarblerStays /\ ReadE /\ toE # <<>> /\ eck' = eck /\ Streams
  BY DEF VerifyE, EvaluatorCheck, EvaluatorStep, Fixed, GarblerStays, ReadE, Checking
<1>2. EvaluatorAt(1, 1)
  BY <1>1, EvaluatorWhere
<1>3. Head(toE) = ProofOfG(setup, gb)
  BY <1>1, <1>2, KnownMessages, EvaluatorHead
<1>4. eck.chal = ChallengesE(setup) /\ eck.maskKey = SeedOf(setup, "proverG")
  BY <1>1 DEF Checking, EvaluatorHolds, EvaluatorMasks
<1>5. Accepts(b, Head(toE), deltaB)
  BY <1>3, <1>4, OfChecks, Zenon DEF Checking, Known, Convinced
<1>6. epc' = "prove" /\ EvaluatorTo(2, 1)
  BY <1>1, <1>5, EvaluatorWhere, EvaluatorThere DEF Unless
<1>7. Streams'
  BY <1>1, <1>2, <1>6, EvaluatorTakes
<1>8. EvaluatorHolds'
  BY <1>1, <1>6 DEF Checking, Fixed, EvaluatorHolds, EvaluatorMasks, EvaluatorEquals,
     EvaluatorTosses, BeforeBStar
<1> QED  BY <1>1, <1>7, <1>8, EvaluatorGoesOn

LEMMA ProveEKeeps ==
  ASSUME Checking, ProveE
  PROVE  Checking'
<1>1. /\ epc = "prove" /\ epc' = "dualProof" /\ Fixed /\ GarblerStays /\ Streams /\ eck' = eck
      /\ SendG(ProofOf(MaskStatement(ev.populated, ev.anded, ev.andedMacs), eck.seed, eck.mask))
  BY DEF ProveE, EvaluatorCheck, EvaluatorStep, Fixed, GarblerStays, Checking
<1>2. eck.seed = SeedOf(setup, "verifierSeedG") /\ eck.mask = MaskE(setup)
  BY <1>1 DEF Checking, EvaluatorHolds, EvaluatorMasks
<1>3. ProofOf(MaskStatement(ev.populated, ev.anded, ev.andedMacs), eck.seed, eck.mask)
        = ProofOfE(setup, ev)
  BY <1>2, OfChecks, Zenon DEF ProofOfE, ChallengesG
<1>4. EvaluatorAt(2, 1) /\ EvaluatorTo(2, 2)
  BY <1>1, EvaluatorWhere, EvaluatorThere
<1>5. Streams'
  BY <1>1, <1>3, <1>4, KnownMessages, EvaluatorGives
<1>6. EvaluatorHolds'
  BY <1>1 DEF Checking, Fixed, EvaluatorHolds, EvaluatorMasks, EvaluatorEquals, EvaluatorTosses,
     BeforeBStar
<1> QED  BY <1>1, <1>5, <1>6, EvaluatorGoesOn

LEMMA VerifyGKeeps ==
  ASSUME Checking, VerifyG
  PROVE  Checking'
<1> DEFINE b == B(ands, gck.chal, MaskKeys(gb.populated, gb.evaluatorAndedKeys), gck.maskKey,
                  deltaA)
<1>1. /\ gpc = "verify" /\ gpc' = Unless(Accepts(b, Head(toG), deltaA), "dualProof") /\ Fixed
      /\ EvaluatorStays /\ ReadG /\ toG # <<>> /\ gck' = gck /\ Streams
  BY DEF VerifyG, GarblerCheck, GarblerStep, Fixed, EvaluatorStays, ReadG, Checking
<1>2. GarblerAt(1, 2)
  BY <1>1, GarblerWhere
<1>3. Head(toG) = ProofOfE(setup, ev)
  BY <1>1, <1>2, KnownMessages, GarblerHead
<1>4. gck.chal = ChallengesG(setup) /\ gck.maskKey = SeedOf(setup, "proverE")
  BY <1>1 DEF Checking, GarblerHolds, GarblerMasks
<1>5. Accepts(b, Head(toG), deltaA)
  BY <1>3, <1>4, OfChecks, Zenon DEF Checking, Known, Convinced
<1>6. gpc' = "dualProof" /\ GarblerTo(2, 2)
  BY <1>1, <1>5, GarblerWhere, GarblerThere DEF Unless
<1>7. Streams'
  BY <1>1, <1>2, <1>6, GarblerTakes
<1>8. GarblerHolds'
  BY <1>1, <1>6 DEF Checking, Fixed, GarblerHolds, GarblerMasks, GarblerEquals, GarblerTosses,
     BeforeBStar
<1> QED  BY <1>1, <1>7, <1>8, GarblerGoesOn

LEMMA DualProofKeeps ==
  ASSUME Checking, DualProof
  PROVE  Checking'
<1>1. /\ gpc = "dualProof" /\ epc = "dualProof" /\ gpc' = "verifyDual" /\ epc' = "dualSeed"
      /\ Fixed /\ SendE(SeedOf(setup, "dualSeed")) /\ Streams
  BY OfChecks DEF DualProof, TogetherCheck, Together, Fixed, Checking
<1>2. /\ gck' = [gck EXCEPT !.dualKey = SeedOf(setup, "dualProof"), !.chal = ChallengesD(setup)]
      /\ eck' = [eck EXCEPT !.dualMask = MaskD(setup)]
  <2>1. /\ ChallengesD(setup) = Challenges(RandomSeed("dualSeed"), Below(L))
        /\ SeedOf(setup, "dualProof") = RandomBlock(setup.seed, "dualProof", 0, 0)
    BY OfChecks, Zenon DEF ChallengesD
  <2>2. MaskD(setup) = [block |-> RandomBlock(setup.seed, "dualProofBlock", 0, 0),
                       mac |-> RandomBlock(setup.seed, "dualProof", 0, 0)
                                 \oplus GfMul(RandomBlock(setup.seed, "dualProofBlock", 0, 0),
                                             deltaA)]
    BY Zenon DEF MaskD, ProofMask, SeedOf, deltaA
  <2> QED  BY <2>1, <2>2, Zenon DEF DualProof
<1>3. /\ DOMAIN gck' = DOMAIN gck /\ gck'.round = gck.round /\ gck'.toss = gck.toss
      /\ gck'.dualKey = SeedOf(setup, "dualProof") /\ gck'.chal = ChallengesD(setup)
  BY <1>2 DEF Checking, Named, GarblerChecks
<1>4. /\ DOMAIN eck' = DOMAIN eck /\ eck'.round = eck.round /\ eck'.toss = eck.toss
      /\ eck'.dualMask = MaskD(setup)
  BY <1>2 DEF Checking, Named, EvaluatorChecks
<1>5. GarblerAt(2, 2) /\ EvaluatorAt(2, 2) /\ GarblerTo(2, 3) /\ EvaluatorTo(2, 2)
  BY <1>1, <1>3, <1>4, GarblerWhere, EvaluatorWhere, GarblerThere, EvaluatorThere
<1>6. Streams'
  BY <1>1, <1>5, KnownMessages, BothGive
<1>7. GarblerHolds'
  BY <1>1, <1>3 DEF Checking, Fixed, GarblerHolds, GarblerMasks, GarblerEquals, GarblerTosses,
     BeforeBStar
<1>8. EvaluatorHolds'
  BY <1>1, <1>4 DEF Checking, Fixed, EvaluatorHolds, EvaluatorMasks, EvaluatorEquals,
     EvaluatorTosses, BeforeBStar
<1> QED  BY <1>1, <1>3, <1>4, <1>6, <1>7, <1>8, BothGoOn

LEMMA ProveDualKeeps ==
  ASSUME Checking, ProveDual
  PROVE  Checking'
<1> DEFINE S == Below(L)
           statement == [x |-> [l \in S |-> BitBlock(ev.bStar[l])], y |-> [l \in S |-> deltaB],
                         macX |-> ev.bStarMacs, macY |-> [l \in S |-> setup.beta0],
                         macZ |-> ev.dualMacs]
           chal == Challenges(Head(toE), S)
           proof == [a0 |-> A0(S, chal, statement, eck.dualMask),
                     a1 |-> A1(S, chal, statement, eck.dualMask)]
<1>1. /\ epc = "dualSeed" /\ epc' = "sid3" /\ Fixed /\ GarblerStays /\ Streams /\ eck' = eck
      /\ toE # <<>> /\ toE' = Tail(toE) /\ toG' = Append(toG, proof)
  BY DEF ProveDual, EvaluatorCheck, EvaluatorStep, Fixed, GarblerStays, Checking
<1>2. EvaluatorAt(2, 2) /\ EvaluatorTo(3, 3)
  BY <1>1, EvaluatorWhere, EvaluatorThere
<1>3. Head(toE) = SeedOf(setup, "dualSeed")
  BY <1>1, <1>2, KnownMessages, EvaluatorHead
<1>4. eck.dualMask = MaskD(setup)
  BY <1>1 DEF Checking, EvaluatorHolds, EvaluatorMasks
<1>5. statement = DualStatement(setup, ev) /\ chal = ChallengesD(setup)
      /\ S = Below(ColumnsOf(setup))
  BY <1>3, OfChecks, Zenon DEF DualStatement, ChallengesD
<1>6. proof = ProofOfD(setup, ev)
  BY <1>4, <1>5, Zenon DEF ProofOfD, ProofWith
<1> HIDE DEF proof
<1>7. Streams'
  BY <1>1, <1>2, <1>6, KnownMessages, EvaluatorAnswers
<1>8. EvaluatorHolds'
  BY <1>1 DEF Checking, Fixed, EvaluatorHolds, EvaluatorMasks, EvaluatorEquals, EvaluatorTosses,
     BeforeBStar
<1> QED  BY <1>1, <1>7, <1>8, EvaluatorGoesOn

LEMMA VerifyDualKeeps ==
  ASSUME Checking, VerifyDual
  PROVE  Checking'
<1> DEFINE S == Below(L)
           keys == [keyX |-> gb.bStarKeys, keyY |-> [l \in S |-> setup.alpha0],
                    keyZ |-> gb.dualAuthedBStar]
           b == B(S, gck.chal, keys, gck.dualKey, deltaA)
<1>1. /\ gpc = "verifyDual" /\ gpc' = Unless(Accepts(b, Head(toG), deltaA), "sid3") /\ Fixed
      /\ EvaluatorStays /\ ReadG /\ toG # <<>> /\ gck' = gck /\ Streams
  BY DEF VerifyDual, GarblerCheck, GarblerStep, Fixed, EvaluatorStays, ReadG, Checking
<1>2. GarblerAt(2, 3)
  BY <1>1, GarblerWhere
<1>3. Head(toG) = ProofOfD(setup, ev)
  BY <1>1, <1>2, KnownMessages, GarblerHead
<1>4. gck.chal = ChallengesD(setup) /\ gck.dualKey = SeedOf(setup, "dualProof")
  BY <1>1 DEF Checking, GarblerHolds, GarblerMasks
<1>5. keys = DualStatementKeys(setup, gb) /\ S = Below(ColumnsOf(setup))
  BY OfChecks, Zenon DEF DualStatementKeys
<1>6. Accepts(b, Head(toG), deltaA)
  BY <1>3, <1>4, <1>5, OfChecks, Zenon DEF Checking, Known, Convinced
<1>7. gpc' = "sid3" /\ GarblerTo(3, 3)
  BY <1>1, <1>6, GarblerWhere, GarblerThere DEF Unless
<1>8. Streams'
  BY <1>1, <1>2, <1>7, GarblerTakes
<1>9. GarblerHolds'
  BY <1>1, <1>7 DEF Checking, Fixed, GarblerHolds, GarblerMasks, GarblerEquals, GarblerTosses,
     BeforeBStar
<1> QED  BY <1>1, <1>8, <1>9, GarblerGoesOn

-----------------------------------------------------------------------------
(***************************************************************************)
(* The three authentications of deltaB under tmpDelta, and the comparisons.*)
(***************************************************************************)
LEMMA SameBits ==
  ASSUME Known(setup, gb, ev)
  PROVE  /\ BetaKeys[L] \oplus gb.tmpDeltaMacs5[1][0] = Same1Of(setup, ev)
         /\ BetaMacs[L] \oplus ev.tmpDeltaKeys5[1][0] = Same1Of(setup, ev)
         /\ gb.tmpDeltaMacs5[1][0] \oplus Key3Of(setup, gb) = Same2Of(setup, gb, ev)
<1> DEFINE n == ColumnsOf(setup)
           k == ev.tmpDeltaKeys[n][0]
           k5 == ev.tmpDeltaKeys5[1][0]
           td == gb.tmpDelta
           m == GfMul(td, setup.deltaB)
           c == SeedOf(setup, "sid3Choice")
           x == SeedOf(setup, "sid3")
<1>1. setup \in Setups /\ TmpDeltaTwice(setup, gb, ev)
  BY DEF Known
<1>2. L = n /\ n \in 0 .. n
  BY <1>1, SetupTypes, OfSetup
<1>3. /\ BetaKeys[L] = gb.tmpDeltaMacs[n][0] /\ BetaMacs[L] = k
      /\ Same1Of(setup, ev) = k \oplus k5
      /\ Same2Of(setup, gb, ev) = k5 \oplus (x \oplus GfMul(c, td))
      /\ Key3Of(setup, gb) = x \oplus GfMul(c \oplus setup.deltaB, td)
  BY <1>2 DEF BetaKeys, BetaMacs, Same1Of, Same2Of, Mac3Of, Key3Of, Diff3Of
<1>4. gb.tmpDeltaMacs[n][0] = k \oplus m /\ gb.tmpDeltaMacs5[1][0] = k5 \oplus m /\ td \in Block
  BY <1>1 DEF TmpDeltaTwice
<1>5. c \in Block /\ setup.deltaB \in Block
  BY <1>1, CheckBlocks, SetupTypes
<1> HIDE DEF n, k, k5, td, m, c, x
<1>6. GfMul(c \oplus setup.deltaB, td) = GfMul(c, td) \oplus m
  <2>1. GfMul(c \oplus setup.deltaB, td) = GfMul(c, td) \oplus GfMul(setup.deltaB, td)
    BY <1>4, <1>5, Product
  <2>2. GfMul(setup.deltaB, td) = m
    BY <1>4, <1>5, Product DEF m
  <2> QED  BY <2>1, <2>2
<1>7. \A a, b, d : (a \oplus d) \oplus (b \oplus d) = a \oplus b
  BY SMT DEF \oplus
<1>8. \A a, b, d, e : (a \oplus d) \oplus (b \oplus (e \oplus d)) = a \oplus (b \oplus e)
  BY SMT DEF \oplus
<1>9. BetaKeys[L] \oplus gb.tmpDeltaMacs5[1][0] = Same1Of(setup, ev)
  BY <1>3, <1>4, <1>7 DEF k5
<1>10. gb.tmpDeltaMacs5[1][0] \oplus Key3Of(setup, gb) = Same2Of(setup, gb, ev)
  BY <1>3, <1>4, <1>6, <1>8
<1> QED  BY <1>3, <1>9, <1>10 DEF k5

LEMMA Sid3Keeps ==
  ASSUME Checking, Sid3
  PROVE  Checking'
<1>1. /\ gpc = "sid3" /\ epc = "sid3" /\ gpc' = "sid3Diff" /\ epc' = "compare" /\ Fixed
      /\ SendG(Diff3Of(setup)) /\ Streams
  BY OfChecks DEF Sid3, TogetherCheck, Together, Fixed, Checking, Diff3Of
<1>2. /\ gck' = [gck EXCEPT !.key3 = SeedOf(setup, "sid3")]
      /\ eck' = [eck EXCEPT !.mac3 = Mac3Of(setup, gb), !.round = "same1"]
  BY Zenon DEF Sid3, Mac3Of, SeedOf
<1>3. /\ DOMAIN gck' = DOMAIN gck /\ gck'.round = gck.round /\ gck'.toss = gck.toss
      /\ gck'.key3 = SeedOf(setup, "sid3")
  BY <1>2 DEF Checking, Named, GarblerChecks
<1>4. /\ DOMAIN eck' = DOMAIN eck /\ eck'.round = "same1" /\ eck'.toss = eck.toss
      /\ eck'.mac3 = Mac3Of(setup, gb)
  BY <1>2 DEF Checking, Named, EvaluatorChecks
<1>5. GarblerAt(3, 3) /\ EvaluatorAt(3, 3) /\ GarblerTo(3, 3) /\ EvaluatorTo(3, 4)
  BY <1>1, <1>3, <1>4, GarblerWhere, EvaluatorWhere, GarblerThere, EvaluatorThere
<1>6. Streams'
  BY <1>1, <1>5, KnownMessages, BothGive
<1>7. GarblerHolds'
  BY <1>1, <1>3 DEF Checking, Fixed, GarblerHolds, GarblerMasks, GarblerEquals, GarblerTosses,
     BeforeBStar
<1>8. EvaluatorHolds'
  BY <1>1, <1>4 DEF Checking, Fixed, EvaluatorHolds, EvaluatorMasks, EvaluatorEquals,
     EvaluatorTosses, BeforeBStar
<1> QED  BY <1>1, <1>3, <1>4, <1>6, <1>7, <1>8, BothGoOn

LEMMA Sid3DiffKeeps ==
  ASSUME Checking, Sid3Diff
  PROVE  Checking'
<1>1. /\ gpc = "sid3Diff" /\ gpc' = "compare" /\ Fixed /\ EvaluatorStays /\ ReadG /\ toG # <<>>
      /\ gck' = [gck EXCEPT !.key3 = @ \oplus GfMul(Head(toG), gb.tmpDelta), !.round = "same1"]
      /\ Streams
  BY DEF Sid3Diff, GarblerCheck, GarblerStep, Fixed, EvaluatorStays, ReadG, Checking
<1>2. /\ DOMAIN gck' = DOMAIN gck /\ gck'.round = "same1" /\ gck'.toss = gck.toss
      /\ gck'.key3 = gck.key3 \oplus GfMul(Head(toG), gb.tmpDelta)
  BY <1>1 DEF Checking, Named, GarblerChecks
<1>3. GarblerAt(3, 3) /\ GarblerTo(4, 3)
  BY <1>1, <1>2, GarblerWhere, GarblerThere
<1>4. Head(toG) = Diff3Of(setup)
  BY <1>1, <1>3, KnownMessages, GarblerHead
<1>5. gck.key3 = SeedOf(setup, "sid3")
  BY <1>1 DEF Checking, GarblerHolds, GarblerEquals
<1>6. gck'.key3 = Key3Of(setup, gb)
  BY <1>2, <1>4, <1>5 DEF Key3Of
<1>7. Streams'
  BY <1>1, <1>3, GarblerTakes
<1>8. GarblerHolds'
  BY <1>1, <1>2, <1>6 DEF Checking, Fixed, GarblerHolds, GarblerMasks, GarblerEquals,
     GarblerTosses, BeforeBStar
<1> QED  BY <1>1, <1>2, <1>7, <1>8, GarblerGoesOn

LEMMA CompareSendGKeeps ==
  ASSUME Checking, CompareSendG
  PROVE  Checking'
<1>1. /\ gpc = "compare" /\ gpc' = "comparing" /\ Fixed /\ EvaluatorStays /\ Streams
      /\ gck' = gck /\ SendE(Half("low", ComparedG)) /\ Known(setup, gb, ev)
  BY DEF CompareSendG, GarblerCheck, GarblerStep, Fixed, EvaluatorStays, Checking
<1>2. Streams'
  <2>1. CASE gck.round = "same1"
    <3>1. GarblerAt(4, 3) /\ GarblerTo(4, 4)
      BY <1>1, <2>1, GarblerWhere, GarblerThere
    <3>2. ComparedG = Same1Of(setup, ev)
      BY <1>1, <2>1, SameBits DEF ComparedG
    <3> QED  BY <1>1, <3>1, <3>2, KnownMessages, GarblerGives
  <2>2. CASE gck.round = "same2"
    <3>1. GarblerAt(5, 4) /\ GarblerTo(5, 5)
      BY <1>1, <2>2, GarblerWhere, GarblerThere
    <3>2. gck.key3 = Key3Of(setup, gb)
      BY <1>1, <2>2 DEF Checking, GarblerHolds, GarblerEquals, BeforeBStar
    <3>3. ComparedG = Same2Of(setup, gb, ev)
      BY <1>1, <2>2, <3>2, SameBits DEF ComparedG
    <3> QED  BY <1>1, <3>1, <3>3, KnownMessages, GarblerGives
  <2>3. CASE gck.round = "beaver1"
    <3>1. GarblerAt(16, 7) /\ GarblerTo(16, 8)
      BY <1>1, <2>3, GarblerWhere, GarblerThere
    <3> QED  BY <1>1, <3>1, KnownMessages, GarblerGives
  <2>4. CASE gck.round = "beaver2"
    <3>1. GarblerAt(17, 8) /\ GarblerTo(17, 9)
      BY <1>1, <2>4, GarblerWhere, GarblerThere
    <3> QED  BY <1>1, <3>1, KnownMessages, GarblerGives
  <2>5. gck.round \in {"same1", "same2", "beaver1", "beaver2"}
    BY <1>1, GarblerWhere
  <2> QED  BY <2>1, <2>2, <2>3, <2>4, <2>5
<1>3. GarblerHolds'
  BY <1>1 DEF Checking, Fixed, GarblerHolds, GarblerMasks, GarblerEquals, GarblerTosses,
     BeforeBStar
<1> QED  BY <1>1, <1>2, <1>3, GarblerGoesOn

LEMMA CompareSendEKeeps ==
  ASSUME Checking, CompareSendE
  PROVE  Checking'
<1>1. /\ epc = "compare" /\ epc' = "comparing" /\ Fixed /\ GarblerStays /\ Streams
      /\ eck' = eck /\ SendG(Half("high", ComparedE)) /\ Known(setup, gb, ev)
  BY DEF CompareSendE, EvaluatorCheck, EvaluatorStep, Fixed, GarblerStays, Checking
<1>2. Streams'
  <2>1. CASE eck.round = "same1"
    <3>1. EvaluatorAt(3, 4) /\ EvaluatorTo(3, 5)
      BY <1>1, <2>1, EvaluatorWhere, EvaluatorThere
    <3>2. ComparedE = Same1Of(setup, ev)
      BY <1>1, <2>1, SameBits DEF ComparedE
    <3> QED  BY <1>1, <3>1, <3>2, KnownMessages, EvaluatorGives
  <2>2. CASE eck.round = "same2"
    <3>1. EvaluatorAt(4, 5) /\ EvaluatorTo(4, 6)
      BY <1>1, <2>2, EvaluatorWhere, EvaluatorThere
    <3>2. eck.mac3 = Mac3Of(setup, gb)
      BY <1>1, <2>2 DEF Checking, EvaluatorHolds, EvaluatorEquals, BeforeBStar
    <3>3. ComparedE = Same2Of(setup, gb, ev)
      BY <1>1, <2>2, <3>2 DEF ComparedE, Same2Of
    <3> QED  BY <1>1, <3>1, <3>3, KnownMessages, EvaluatorGives
  <2>3. CASE eck.round = "beaver1"
    <3>1. EvaluatorAt(7, 16) /\ EvaluatorTo(7, 17)
      BY <1>1, <2>3, EvaluatorWhere, EvaluatorThere
    <3> QED  BY <1>1, <3>1, KnownMessages, EvaluatorGives
  <2>4. CASE eck.round = "beaver2"
    <3>1. EvaluatorAt(8, 17) /\ EvaluatorTo(8, 18)
      BY <1>1, <2>4, EvaluatorWhere, EvaluatorThere
    <3> QED  BY <1>1, <3>1, KnownMessages, EvaluatorGives
  <2>5. eck.round \in {"same1", "same2", "beaver1", "beaver2"}
    BY <1>1, EvaluatorWhere
  <2> QED  BY <2>1, <2>2, <2>3, <2>4, <2>5
<1>3. EvaluatorHolds'
  BY <1>1 DEF Checking, Fixed, EvaluatorHolds, EvaluatorMasks, EvaluatorEquals, EvaluatorTosses,
     BeforeBStar
<1> QED  BY <1>1, <1>2, <1>3, EvaluatorGoesOn

LEMMA CompareRecvGKeeps ==
  ASSUME Checking, CompareRecvG
  PROVE  Checking'
<1> DEFINE ok == Head(toG) = Half("high", ComparedG)
<1>1. /\ gpc = "comparing" /\ gpc' = AfterCompare(gck, ok) /\ Fixed /\ EvaluatorStays /\ Streams
      /\ ReadG /\ toG # <<>> /\ gck' = Compared(gck, ok) /\ Known(setup, gb, ev)
      /\ DOMAIN gck = GarblerChecks
  BY DEF CompareRecvG, GarblerCheck, GarblerStep, Fixed, EvaluatorStays, ReadG, Checking, Named
<1>2. CASE gck.round = "same1"
  <2>1. GarblerAt(4, 4)
    BY <1>1, <1>2, GarblerWhere
  <2>2. ok
    <3>1. ComparedG = Same1Of(setup, ev)
      BY <1>1, <1>2, SameBits DEF ComparedG
    <3>2. Head(toG) = Half("high", Same1Of(setup, ev))
      BY <1>1, <2>1, KnownMessages, GarblerHead
    <3> QED  BY <3>1, <3>2
  <2> HIDE DEF ok
  <2>3. /\ gpc' = "compare" /\ DOMAIN gck' = DOMAIN gck /\ gck'.round = "same2"
        /\ gck'.key3 = gck.key3 /\ gck'.toss = gck.toss
    BY <1>1, <1>2, <2>2 DEF AfterCompare, Compared, Unless, GarblerChecks
  <2>4. GarblerTo(5, 4)
    BY <2>3, GarblerThere
  <2>5. Streams'
    BY <1>1, <2>1, <2>4, GarblerTakes
  <2>6. GarblerHolds'
    BY <1>1, <1>2, <2>3 DEF Checking, Fixed, GarblerHolds, GarblerMasks, GarblerEquals,
       GarblerTosses, BeforeBStar
  <2> QED  BY <1>1, <2>3, <2>5, <2>6, GarblerGoesOn
<1>3. CASE gck.round = "same2"
  <2>1. GarblerAt(5, 5)
    BY <1>1, <1>3, GarblerWhere
  <2>2. ok
    <3>1. gck.key3 = Key3Of(setup, gb)
      BY <1>1, <1>3 DEF Checking, GarblerHolds, GarblerEquals, BeforeBStar
    <3>2. ComparedG = Same2Of(setup, gb, ev)
      BY <1>1, <1>3, <3>1, SameBits DEF ComparedG
    <3>3. Head(toG) = Half("high", Same2Of(setup, gb, ev))
      BY <1>1, <2>1, KnownMessages, GarblerHead
    <3> QED  BY <3>2, <3>3
  <2> HIDE DEF ok
  <2>3. /\ gpc' = "eq0" /\ DOMAIN gck' = DOMAIN gck /\ gck'.round = "delta"
        /\ gck'.key3 = gck.key3 /\ gck'.toss = gck.toss
    BY <1>1, <1>3, <2>2 DEF AfterCompare, Compared, Unless, GarblerChecks
  <2>4. GarblerTo(6, 5)
    BY <2>3, GarblerThere
  <2>5. Streams'
    BY <1>1, <2>1, <2>4, GarblerTakes
  <2>6. GarblerHolds'
    BY <1>1, <1>3, <2>3 DEF Checking, Fixed, GarblerHolds, GarblerMasks, GarblerEquals,
       GarblerTosses, BeforeBStar
  <2> QED  BY <1>1, <2>3, <2>5, <2>6, GarblerGoesOn
<1> HIDE DEF ok
<1>4. CASE gck.round = "beaver1"
  <2>1. GarblerAt(16, 8) /\ AndsAt(setup) # {}
    BY <1>1, <1>4, GarblerWhere
  <2>2. /\ gpc' = "compare" /\ DOMAIN gck' = DOMAIN gck /\ gck'.round = "beaver2"
        /\ gck'.toss = gck.toss
    BY <1>1, <1>4 DEF AfterCompare, Compared, GarblerChecks
  <2>3. GarblerTo(17, 8)
    BY <2>1, <2>2, GarblerThere
  <2>4. Streams'
    BY <1>1, <2>1, <2>3, GarblerTakes
  <2>5. GarblerHolds'
    BY <1>1, <1>4, <2>1, <2>2 DEF Checking, Fixed, GarblerHolds, GarblerMasks, GarblerEquals,
       GarblerTosses, BeforeBStar
  <2> QED  BY <1>1, <2>2, <2>4, <2>5, GarblerGoesOn
<1>5. CASE gck.round = "beaver2"
  <2>1. GarblerAt(17, 9) /\ AndsAt(setup) # {}
    BY <1>1, <1>5, GarblerWhere
  <2>2. /\ gpc' = "done" /\ DOMAIN gck' = DOMAIN gck /\ gck'.round = Unset
        /\ gck'.toss = gck.toss
    BY <1>1, <1>5 DEF AfterCompare, Compared, GarblerChecks
  <2>3. GarblerTo(18, 9)
    BY <2>1, <2>2, GarblerThere
  <2>4. Streams'
    BY <1>1, <2>1, <2>3, GarblerTakes
  <2>5. GarblerHolds'
    BY <1>1, <1>5, <2>1, <2>2 DEF Checking, Fixed, GarblerHolds, GarblerMasks, GarblerEquals,
       GarblerTosses, BeforeBStar
  <2> QED  BY <1>1, <2>2, <2>4, <2>5, GarblerGoesOn
<1>6. gck.round \in {"same1", "same2", "beaver1", "beaver2"}
  BY <1>1, GarblerWhere
<1> QED  BY <1>2, <1>3, <1>4, <1>5, <1>6

LEMMA CompareRecvEKeeps ==
  ASSUME Checking, CompareRecvE
  PROVE  Checking'
<1> DEFINE ok == Head(toE) = Half("low", ComparedE)
<1>1. /\ epc = "comparing" /\ epc' = AfterCompare(eck, ok) /\ Fixed /\ GarblerStays /\ Streams
      /\ ReadE /\ toE # <<>> /\ eck' = Compared(eck, ok) /\ Known(setup, gb, ev)
      /\ DOMAIN eck = EvaluatorChecks
  BY DEF CompareRecvE, EvaluatorCheck, EvaluatorStep, Fixed, GarblerStays, ReadE, Checking, Named
<1>2. CASE eck.round = "same1"
  <2>1. EvaluatorAt(3, 5)
    BY <1>1, <1>2, EvaluatorWhere
  <2>2. ok
    <3>1. ComparedE = Same1Of(setup, ev)
      BY <1>1, <1>2, SameBits DEF ComparedE
    <3>2. Head(toE) = Half("low", Same1Of(setup, ev))
      BY <1>1, <2>1, KnownMessages, EvaluatorHead
    <3> QED  BY <3>1, <3>2
  <2> HIDE DEF ok
  <2>3. /\ epc' = "compare" /\ DOMAIN eck' = DOMAIN eck /\ eck'.round = "same2"
        /\ eck'.mac3 = eck.mac3 /\ eck'.toss = eck.toss
    BY <1>1, <1>2, <2>2 DEF AfterCompare, Compared, Unless, EvaluatorChecks
  <2>4. EvaluatorTo(4, 5)
    BY <2>3, EvaluatorThere
  <2>5. Streams'
    BY <1>1, <2>1, <2>4, EvaluatorTakes
  <2>6. EvaluatorHolds'
    BY <1>1, <1>2, <2>3 DEF Checking, Fixed, EvaluatorHolds, EvaluatorMasks, EvaluatorEquals,
       EvaluatorTosses, BeforeBStar
  <2> QED  BY <1>1, <2>3, <2>5, <2>6, EvaluatorGoesOn
<1>3. CASE eck.round = "same2"
  <2>1. EvaluatorAt(4, 6)
    BY <1>1, <1>3, EvaluatorWhere
  <2>2. ok
    <3>1. eck.mac3 = Mac3Of(setup, gb)
      BY <1>1, <1>3 DEF Checking, EvaluatorHolds, EvaluatorEquals, BeforeBStar
    <3>2. ComparedE = Same2Of(setup, gb, ev)
      BY <1>1, <1>3, <3>1 DEF ComparedE, Same2Of
    <3>3. Head(toE) = Half("low", Same2Of(setup, gb, ev))
      BY <1>1, <2>1, KnownMessages, EvaluatorHead
    <3> QED  BY <3>2, <3>3
  <2> HIDE DEF ok
  <2>3. /\ epc' = "eq0" /\ DOMAIN eck' = DOMAIN eck /\ eck'.round = "delta"
        /\ eck'.mac3 = eck.mac3 /\ eck'.toss = eck.toss
    BY <1>1, <1>3, <2>2 DEF AfterCompare, Compared, Unless, EvaluatorChecks
  <2>4. EvaluatorTo(5, 6)
    BY <2>3, EvaluatorThere
  <2>5. Streams'
    BY <1>1, <2>1, <2>4, EvaluatorTakes
  <2>6. EvaluatorHolds'
    BY <1>1, <1>3, <2>3 DEF Checking, Fixed, EvaluatorHolds, EvaluatorMasks, EvaluatorEquals,
       EvaluatorTosses, BeforeBStar
  <2> QED  BY <1>1, <2>3, <2>5, <2>6, EvaluatorGoesOn
<1> HIDE DEF ok
<1>4. CASE eck.round = "beaver1"
  <2>1. EvaluatorAt(7, 17) /\ AndsAt(setup) # {}
    BY <1>1, <1>4, EvaluatorWhere
  <2>2. /\ epc' = "compare" /\ DOMAIN eck' = DOMAIN eck /\ eck'.round = "beaver2"
        /\ eck'.toss = eck.toss
    BY <1>1, <1>4 DEF AfterCompare, Compared, EvaluatorChecks
  <2>3. EvaluatorTo(8, 17)
    BY <2>1, <2>2, EvaluatorThere
  <2>4. Streams'
    BY <1>1, <2>1, <2>3, EvaluatorTakes
  <2>5. EvaluatorHolds'
    BY <1>1, <1>4, <2>1, <2>2 DEF Checking, Fixed, EvaluatorHolds, EvaluatorMasks, EvaluatorEquals,
       EvaluatorTosses, BeforeBStar
  <2> QED  BY <1>1, <2>2, <2>4, <2>5, EvaluatorGoesOn
<1>5. CASE eck.round = "beaver2"
  <2>1. EvaluatorAt(8, 18) /\ AndsAt(setup) # {}
    BY <1>1, <1>5, EvaluatorWhere
  <2>2. /\ epc' = "done" /\ DOMAIN eck' = DOMAIN eck /\ eck'.round = Unset
        /\ eck'.toss = eck.toss
    BY <1>1, <1>5 DEF AfterCompare, Compared, EvaluatorChecks
  <2>3. EvaluatorTo(9, 18)
    BY <2>1, <2>2, EvaluatorThere
  <2>4. Streams'
    BY <1>1, <2>1, <2>3, EvaluatorTakes
  <2>5. EvaluatorHolds'
    BY <1>1, <1>5, <2>1, <2>2 DEF Checking, Fixed, EvaluatorHolds, EvaluatorMasks, EvaluatorEquals,
       EvaluatorTosses, BeforeBStar
  <2> QED  BY <1>1, <2>2, <2>4, <2>5, EvaluatorGoesOn
<1>6. eck.round \in {"same1", "same2", "beaver1", "beaver2"}
  BY <1>1, EvaluatorWhere
<1> QED  BY <1>2, <1>3, <1>4, <1>5, <1>6

-----------------------------------------------------------------------------
(***************************************************************************)
(* The equality checks under two global keys.                              *)
(***************************************************************************)
LEMMA DeltaKeyedTwice ==
  ASSUME NEW s, NEW g, NEW e, Known(s, g, e)
  PROVE  TwoKeyed(1, EqValuesOf(s, e, "delta"), EqMacsOf(s, e, Mac3Of(s, g), "delta"),
                  EqKeysOf(s, g, Key3Of(s, g), "delta"), EqGlobalOf(s, g, "delta"))
<1> DEFINE td == g.tmpDelta
           c == SeedOf(s, "sid3Choice")
           x == SeedOf(s, "sid3")
           macs == EqMacsOf(s, e, Mac3Of(s, g), "delta")
           keys == EqKeysOf(s, g, Key3Of(s, g), "delta")
           globals == EqGlobalOf(s, g, "delta")
           values == EqValuesOf(s, e, "delta")
<1>1. s \in Setups /\ td \in Block
  BY DEF Known, TmpDeltaTwice
<1>2. c \in Block /\ x \in Block
  BY <1>1, CheckBlocks
<1>3. /\ s.deltaA \in Block /\ s.deltaB \in Block /\ s.alpha0 \in Block /\ s.beta0 \in Block
      /\ s.alpha0 \oplus s.beta0 = GfMul(s.deltaA, s.deltaB)
  BY <1>1, SetupTypes DEF LegalKeys
<1>4. \A a, b \in Block : a \oplus b \in Block /\ GfMul(a, b) \in Block
  BY BlockType, Product
<1>5. Mac3Of(s, g) = x \oplus GfMul(c, td) /\ Key3Of(s, g) = x \oplus GfMul(c \oplus s.deltaB, td)
  BY DEF Mac3Of, Key3Of, Diff3Of
<1>6. /\ macs[1] = [i \in {0} |-> s.beta0] /\ macs[2] = [i \in {0} |-> Mac3Of(s, g)]
      /\ keys[1] = [i \in {0} |-> s.alpha0] /\ keys[2] = [i \in {0} |-> Key3Of(s, g)]
      /\ globals[1] = s.deltaA /\ globals[2] = td /\ values = [i \in {0} |-> s.deltaB]
  BY DEF EqMacsOf, EqKeysOf, EqGlobalOf, EqValuesOf
<1> HIDE DEF td, c, x, macs, keys, globals, values
<1>7. Mac3Of(s, g) \in Block /\ Key3Of(s, g) \in Block
  BY <1>1, <1>2, <1>3, <1>4, <1>5
<1>8. s.beta0 = s.alpha0 \oplus GfMul(s.deltaB, s.deltaA)
  <2>1. GfMul(s.deltaA, s.deltaB) = GfMul(s.deltaB, s.deltaA)
    BY <1>3, Product
  <2>2. \A a, b : b = a \oplus (a \oplus b)
    BY SMT DEF \oplus
  <2>3. s.beta0 = s.alpha0 \oplus (s.alpha0 \oplus s.beta0)
    BY <2>2
  <2> QED  BY <1>3, <2>1, <2>3, Zenon
<1>9. Mac3Of(s, g) = Key3Of(s, g) \oplus GfMul(s.deltaB, td)
  <2>1. GfMul(c \oplus s.deltaB, td) = GfMul(c, td) \oplus GfMul(s.deltaB, td)
    <3>1. \A a, b, d \in Block : GfMul(a \oplus b, d) = GfMul(a, d) \oplus GfMul(b, d)
      BY Product
    <3> QED  BY <1>1, <1>2, <1>3, <3>1, ZenonT(40)
  <2>2. \A a, b, d : a \oplus b = (a \oplus (b \oplus d)) \oplus d
    BY SMT DEF \oplus
  <2> QED  BY <1>5, <2>1, <2>2
<1>10. Below(1) = {0}
  BY DEF Below
<1>11. /\ \A j \in {1, 2} : keys[j] \in BlocksOfLength(1) /\ macs[j] \in BlocksOfLength(1)
       /\ values \in BlocksOfLength(1)
  BY <1>3, <1>6, <1>7, <1>10 DEF BlocksOfLength
<1>12. \A j \in {1, 2}, i \in Below(1) :
         macs[j][i] = keys[j][i] \oplus GfMul(values[i], globals[j])
  BY <1>6, <1>8, <1>9, <1>10
<1>13. TwoKeyed(1, values, macs, keys, globals)
  BY <1>1, <1>3, <1>6, <1>11, <1>12 DEF TwoKeyed
<1> QED  BY <1>13 DEF values, macs, keys, globals

LEMMA KeyedTwice ==
  ASSUME NEW s, NEW g, NEW e, Known(s, g, e), NEW round \in {"delta", "bStar"}
  PROVE  TwoKeyed(EqSizeOf(s, round), EqValuesOf(s, e, round),
                  EqMacsOf(s, e, Mac3Of(s, g), round), EqKeysOf(s, g, Key3Of(s, g), round),
                  EqGlobalOf(s, g, round))
<1>1. CASE round = "delta"
  BY <1>1, DeltaKeyedTwice DEF EqSizeOf
<1>2. CASE round = "bStar"
  <2>1. EqSizeOf(s, round) = ColumnsOf(s)
    BY <1>2 DEF EqSizeOf
  <2> QED  BY <1>2, <2>1, Zenon DEF Known, BStarTwice
<1> QED  BY <1>1, <1>2

(* One of the two authentications that an equality check makes.            *)
LEMMA EqAuthentic ==
  ASSUME NEW s, NEW g, NEW e, Known(s, g, e), NEW round \in {"delta", "bStar"},
         NEW name \in {"eq0", "eq1"}, NEW choices \in {"eq0Choices", "eq1Choices"},
         NEW j \in {1, 2}, NEW i \in {1, 2}
  PROVE  /\ EqMade(s, g, round, name, choices, j) \in BlocksOfLength(EqSizeOf(s, round))
         /\ EqFixed(s, g, e, round, name, choices, j, i) \in BlocksOfLength(EqSizeOf(s, round))
         /\ \A k \in Below(EqSizeOf(s, round)) :
              EqMade(s, g, round, name, choices, j)[k]
                = EqFixed(s, g, e, round, name, choices, j, i)[k]
                    \oplus GfMul(EqMacsOf(s, e, Mac3Of(s, g), round)[i][k], EqDelta(s, g, round, j))
<1> DEFINE n == EqSizeOf(s, round)
           delta == EqDelta(s, g, round, j)
           deltas == Only(delta)
           keys == EqDrawn(s, g, round, name, j)
           drawn == DrawnChoices(s, choices, n)
           blocks == EqMacsOf(s, e, Mac3Of(s, g), round)[i]
           macs == BlockMacs(keys, deltas, drawn)
           fixed == FixedBlockKeys(keys, deltas, BlockDiff(drawn, blocks))
<1>1. s \in Setups /\ delta \in Block /\ blocks \in BlocksOfLength(n)
  BY KeyedTwice DEF Known, TwoKeyed, EqDelta
<1>2. deltas \in [{0} -> Block] /\ DOMAIN deltas = {0} /\ deltas[0] = delta
  BY <1>1, OnlyType
<1>3. \A k \in Below(n) : \A word \in {name, choices} : RandomBlock(s.seed, word, 0, k) \in Block
  <2>1. Below(n) \subseteq Below(CompressParam(EvaluatorWires(s.circuit)))
    BY <1>1, SetupTypes DEF Below, EqSizeOf, ColumnsOf, RowsOf
  <2> QED  BY <1>1, <2>1, CheckRandomnessAssumption
<1>4. keys \in TableOf({0}, n)
  <2>1. keys = [d \in {0} |-> [k \in Below(n) |-> RandomBlock(s.seed, name, d, k)]]
    BY OnlyType, Zenon DEF EqDrawn, DrawnKeys
  <2> HIDE DEF keys, n
  <2> QED  BY <1>3, <2>1 DEF TableOf, BlocksOfLength
<1>5. drawn \in BlocksOfLength(n)
  <2>1. drawn = [k \in Below(n) |-> RandomBlock(s.seed, choices, 0, k)]
    BY OnlyType DEF DrawnChoices, DrawnKeys
  <2> HIDE DEF drawn, n
  <2> QED  BY <1>3, <2>1 DEF BlocksOfLength
<1>6. /\ EqMade(s, g, round, name, choices, j) = macs[0]
      /\ EqFixed(s, g, e, round, name, choices, j, i) = fixed[0]
  <2>1. Only(keys[0]) = keys
    BY <1>4, OnlyTable
  <2> QED  BY <2>1, Zenon DEF EqMade, EqFixed, EqDiff
<1> HIDE DEF n, delta, deltas, keys, drawn, blocks
<1>7. BlocksMade(deltas, n, blocks, macs, fixed)
  BY <1>1, <1>2, <1>4, <1>5, BlocksFixedMade
<1> HIDE DEF macs, fixed
<1>8. macs[0] \in BlocksOfLength(n) /\ fixed[0] \in BlocksOfLength(n)
  BY <1>2, <1>7 DEF BlocksMade, TableOf
<1>9. ASSUME NEW k \in Below(n)
      PROVE  macs[0][k] = fixed[0][k] \oplus GfMul(blocks[k], delta)
  <2>1. k \in DOMAIN blocks
    BY <1>1 DEF BlocksOfLength
  <2> QED  BY <1>2, <1>7, <2>1 DEF BlocksMade, BlocksAuthentic
<1> QED  BY <1>6, <1>8, <1>9 DEF n, blocks, delta

(* The garbler's term of a value: what the digest of the keys is made of.  *)
TermOf(s, g, e, round, i) ==
  (EqKeys0Of(s, g, e, round)[i] \oplus EqKeys1Of(s, g, e, round)[i])
    \oplus (GfMul(EqKeysOf(s, g, Key3Of(s, g), round)[1][i], EqDelta(s, g, round, 2))
              \oplus GfMul(EqKeysOf(s, g, Key3Of(s, g), round)[2][i], EqDelta(s, g, round, 1)))

LEMMA TermsEqual ==
  ASSUME NEW s, NEW g, NEW e, Known(s, g, e), NEW round \in {"delta", "bStar"},
         NEW i \in Below(EqSizeOf(s, round))
  PROVE  TermOf(s, g, e, round, i)
           = EqMacs0Of(s, g, round)[i] \oplus EqMacs1Of(s, g, round)[i]
<1> DEFINE m == EqMacsOf(s, e, Mac3Of(s, g), round)
           k == EqKeysOf(s, g, Key3Of(s, g), round)
           v == EqValuesOf(s, e, round)[i]
           d1 == EqDelta(s, g, round, 1)
           d2 == EqDelta(s, g, round, 2)
           m1 == m[1][i]
           m2 == m[2][i]
           k1 == k[1][i]
           k2 == k[2][i]
<1>1. /\ d1 \in Block /\ d2 \in Block /\ v \in Block
      /\ m1 \in Block /\ m2 \in Block /\ k1 \in Block /\ k2 \in Block
      /\ m1 = k1 \oplus GfMul(v, d1) /\ m2 = k2 \oplus GfMul(v, d2)
  BY KeyedTwice DEF TwoKeyed, BlocksOfLength, EqDelta
<1>2. EqMacs1Of(s, g, round)[i] = EqKeys1Of(s, g, e, round)[i] \oplus GfMul(m2, d1)
  BY EqAuthentic DEF EqMacs1Of, EqKeys1Of
<1>3. EqMacs0Of(s, g, round)[i] = EqKeys0Of(s, g, e, round)[i] \oplus GfMul(m1, d2)
  BY EqAuthentic DEF EqMacs0Of, EqKeys0Of
<1>4. TermOf(s, g, e, round, i)
        = (EqKeys0Of(s, g, e, round)[i] \oplus EqKeys1Of(s, g, e, round)[i])
            \oplus (GfMul(k1, d2) \oplus GfMul(k2, d1))
  BY Zenon DEF TermOf
<1> HIDE DEF m, k, v, d1, d2, m1, m2, k1, k2
<1>5. GfMul(m1, d2) = GfMul(k1, d2) \oplus GfMul(GfMul(v, d1), d2)
      /\ GfMul(m2, d1) = GfMul(k2, d1) \oplus GfMul(GfMul(v, d2), d1)
  BY <1>1, Product
<1>6. GfMul(GfMul(v, d1), d2) = GfMul(GfMul(v, d2), d1)
  <2>1. GfMul(GfMul(v, d1), d2) = GfMul(v, GfMul(d1, d2))
    BY <1>1, Product
  <2>2. GfMul(GfMul(v, d2), d1) = GfMul(v, GfMul(d2, d1))
    BY <1>1, Product
  <2>3. GfMul(d1, d2) = GfMul(d2, d1)
    BY <1>1, Product
  <2> QED  BY <2>1, <2>2, <2>3
<1>7. \A a, b, c, d, w : (a \oplus (c \oplus w)) \oplus (b \oplus (d \oplus w))
                            = (a \oplus b) \oplus (c \oplus d)
  BY SMT DEF \oplus
<1> QED  BY <1>2, <1>3, <1>4, <1>5, <1>6, <1>7

-----------------------------------------------------------------------------
(***************************************************************************)
(* The equality checks' steps.                                             *)
(***************************************************************************)
(* Both parties start an authentication of the same equality check.        *)
LEMMA SameRound ==
  ASSUME Streams, toG = <<>>, gpc = epc, gpc \in {"eq0", "eq1"}
  PROVE  gck.round = eck.round /\ gck.round \in {"delta", "bStar"}
<1>1. PICK a, d \in 0 .. 18, b, c \in 0 .. 9 :
        /\ <<gpc, gck.round, a, b>> \in GarblerPlaces(AndsAt(setup))
        /\ <<epc, eck.round, c, d>> \in EvaluatorPlaces(AndsAt(setup))
        /\ InFlight(toG, MessagesToG(setup, gb, ev), a, d)
  BY Zenon DEF Streams
<1>2. a = d
  <2>1. Len(toG) = d - a
    BY <1>1 DEF InFlight
  <2> QED  BY <2>1
<1>3. CASE gpc = "eq0"
  <2>1. \/ gck.round = "delta" /\ a = 6
        \/ gck.round = "bStar" /\ a = 9
    BY <1>1, <1>3, GarblerTable
  <2>2. \/ eck.round = "delta" /\ d = 6
        \/ eck.round = "bStar" /\ d = 9
    BY <1>1, <1>3, EvaluatorTable
  <2> QED  BY <1>2, <2>1, <2>2
<1>4. CASE gpc = "eq1"
  <2>1. \/ gck.round = "delta" /\ a = 7
        \/ gck.round = "bStar" /\ a = 10
    BY <1>1, <1>4, GarblerTable
  <2>2. \/ eck.round = "delta" /\ d = 7
        \/ eck.round = "bStar" /\ d = 10
    BY <1>1, <1>4, EvaluatorTable
  <2> QED  BY <1>2, <2>1, <2>2
<1> QED  BY <1>3, <1>4

(* The model's operators, of the setup and the round.                      *)
LEMMA OfEq ==
  ASSUME setup \in Setups
  PROVE  /\ EqSize = EqSizeOf(setup, eck.round)
         /\ EqMacs = EqMacsOf(setup, ev, eck.mac3, eck.round)
         /\ EqGlobal = EqGlobalOf(setup, gb, gck.round)
         /\ EqKeys = EqKeysOf(setup, gb, gck.key3, gck.round)
         /\ \A name, delta, n : RandomKeys(name, Only(delta), n) = DrawnKeys(setup, name, delta, n)
         /\ \A name, n : RandomBlocks(name, n) = DrawnChoices(setup, name, n)
<1>1. L = ColumnsOf(setup) /\ L \in Nat /\ deltaA = setup.deltaA /\ deltaB = setup.deltaB
  BY OfChecks, SetupTypes
<1>2. EqSize = EqSizeOf(setup, eck.round) /\ EqGlobal = EqGlobalOf(setup, gb, gck.round)
  BY <1>1 DEF EqSize, EqSizeOf, EqGlobal, EqGlobalOf
<1>3. \A l \in Below(L) : BetaMacs[l] = ev.tmpDeltaKeys[l][0] /\ BetaKeys[l] = gb.tmpDeltaMacs[l][0]
  BY <1>1 DEF BetaMacs, BetaKeys, Below
<1>4. EqMacs = EqMacsOf(setup, ev, eck.mac3, eck.round)
  <2>1. [l \in Below(L) |-> BetaMacs[l]] = [l \in Below(ColumnsOf(setup)) |-> ev.tmpDeltaKeys[l][0]]
    BY <1>1, <1>3
  <2> QED  BY <1>1, <2>1, Zenon DEF EqMacs, EqMacsOf
<1>5. EqKeys = EqKeysOf(setup, gb, gck.key3, gck.round)
  <2>1. [l \in Below(L) |-> BetaKeys[l]] = [l \in Below(ColumnsOf(setup)) |-> gb.tmpDeltaMacs[l][0]]
    BY <1>1, <1>3
  <2> QED  BY <1>1, <2>1, Zenon DEF EqKeys, EqKeysOf
<1>6. /\ \A name, delta, n : RandomKeys(name, Only(delta), n) = DrawnKeys(setup, name, delta, n)
      /\ \A name, n : RandomBlocks(name, n) = DrawnChoices(setup, name, n)
  BY Zenon DEF RandomKeys, DrawnKeys, RandomBlocks, DrawnChoices
<1> QED  BY <1>2, <1>4, <1>5, <1>6

(* In its second equality check a party no longer needs sid3's result.     *)
LEMMA EqHeld ==
  ASSUME Checking
  PROVE  /\ epc \in {"eq0", "eq1"} => EqMacs = EqMacsOf(setup, ev, Mac3Of(setup, gb), eck.round)
         /\ gpc = "digest" => EqKeys = EqKeysOf(setup, gb, Key3Of(setup, gb), gck.round)
<1>1. /\ EqMacs = EqMacsOf(setup, ev, eck.mac3, eck.round)
      /\ EqKeys = EqKeysOf(setup, gb, gck.key3, gck.round)
  BY OfEq DEF Checking, Known
<1>2. ASSUME epc \in {"eq0", "eq1"}
      PROVE  EqMacs = EqMacsOf(setup, ev, Mac3Of(setup, gb), eck.round)
  <2>1. CASE eck.round = "delta"
    BY <1>1, <1>2, <2>1 DEF Checking, EvaluatorHolds, EvaluatorEquals, BeforeBStar
  <2>2. CASE eck.round # "delta"
    BY <1>1, <2>2 DEF EqMacsOf
  <2> QED  BY <2>1, <2>2
<1>3. ASSUME gpc = "digest"
      PROVE  EqKeys = EqKeysOf(setup, gb, Key3Of(setup, gb), gck.round)
  <2>1. CASE gck.round = "delta"
    BY <1>1, <1>3, <2>1 DEF Checking, GarblerHolds, GarblerEquals, BeforeBStar
  <2>2. CASE gck.round # "delta"
    BY <1>1, <2>2 DEF EqKeysOf
  <2> QED  BY <2>1, <2>2
<1> QED  BY <1>2, <1>3

LEMMA Eq0Keeps ==
  ASSUME Checking, Eq0
  PROVE  Checking'
<1> DEFINE round == gck.round
           deltas == Only(EqGlobal[1])
           keys == RandomKeys("eq0", deltas, EqSize)
           choices == RandomBlocks("eq0Choices", EqSize)
<1>1. /\ gpc = "eq0" /\ epc = "eq0" /\ gpc' = "eq0Diff" /\ epc' = "eq1" /\ Fixed
      /\ Streams /\ toG = <<>> /\ setup \in Setups
  BY DEF Eq0, TogetherCheck, Together, Fixed, Checking, Known
<1>2. round = eck.round /\ round \in {"delta", "bStar"}
  BY <1>1, SameRound
<1>3. /\ gck' = [gck EXCEPT !.eqKeys1 = keys[0]]
      /\ eck' = [eck EXCEPT !.eqMacs1 = BlockMacs(keys, deltas, choices)[0]]
      /\ SendG(BlockDiff(choices, EqMacs[2]))
  BY Zenon DEF Eq0
<1>4. /\ deltas = Only(EqDelta(setup, gb, round, 1))
      /\ keys = EqDrawn(setup, gb, round, "eq0", 1)
      /\ choices = DrawnChoices(setup, "eq0Choices", EqSizeOf(setup, round))
      /\ EqMacs = EqMacsOf(setup, ev, Mac3Of(setup, gb), round)
  BY <1>1, <1>2, OfEq, EqHeld, Zenon DEF EqDelta, EqDrawn
<1>5. /\ BlockMacs(keys, deltas, choices)[0] = EqMacs1Of(setup, gb, round)
      /\ BlockDiff(choices, EqMacs[2]) = Diff1Of(setup, gb, ev, round)
  BY <1>4, Zenon DEF EqMacs1Of, EqMade, Diff1Of, EqDiff
<1> HIDE DEF round, deltas, keys, choices
<1>6. /\ DOMAIN gck' = DOMAIN gck /\ gck'.round = gck.round /\ gck'.toss = gck.toss
      /\ gck'.key3 = gck.key3 /\ gck'.eqKeys1 = EqDrawn(setup, gb, round, "eq0", 1)[0]
  BY <1>3, <1>4 DEF Checking, Named, GarblerChecks
<1>7. /\ DOMAIN eck' = DOMAIN eck /\ eck'.round = eck.round /\ eck'.toss = eck.toss
      /\ eck'.mac3 = eck.mac3 /\ eck'.eqMacs1 = EqMacs1Of(setup, gb, round)
  BY <1>3, <1>5 DEF Checking, Named, EvaluatorChecks
<1>8. Streams'
  <2>1. CASE round = "delta"
    <3>1. GarblerAt(6, 5) /\ EvaluatorAt(5, 6) /\ GarblerTo(6, 5) /\ EvaluatorTo(5, 7)
      BY <1>1, <1>2, <1>6, <1>7, <2>1, GarblerWhere, EvaluatorWhere, GarblerThere, EvaluatorThere
         DEF round
    <3> QED  BY <1>1, <1>3, <1>5, <2>1, <3>1, KnownMessages, BothGive
  <2>2. CASE round = "bStar"
    <3>1. GarblerAt(9, 5) /\ EvaluatorAt(5, 9) /\ GarblerTo(9, 5) /\ EvaluatorTo(5, 10)
      BY <1>1, <1>2, <1>6, <1>7, <2>2, GarblerWhere, EvaluatorWhere, GarblerThere, EvaluatorThere
         DEF round
    <3> QED  BY <1>1, <1>3, <1>5, <2>2, <3>1, KnownMessages, BothGive
  <2> QED  BY <1>2, <2>1, <2>2
<1>9. GarblerHolds'
  BY <1>1, <1>6 DEF Checking, Fixed, GarblerHolds, GarblerMasks, GarblerEquals, GarblerTosses,
     BeforeBStar, round
<1>10. EvaluatorHolds'
  BY <1>1, <1>2, <1>7 DEF Checking, Fixed, EvaluatorHolds, EvaluatorMasks, EvaluatorEquals,
     EvaluatorTosses, BeforeBStar
<1> QED  BY <1>1, <1>6, <1>7, <1>8, <1>9, <1>10, BothGoOn

LEMMA Eq0DiffKeeps ==
  ASSUME Checking, Eq0Diff
  PROVE  Checking'
<1> DEFINE round == gck.round
           fixed == FixedBlockKeys(Only(gck.eqKeys1), Only(EqGlobal[1]), Head(toG))[0]
<1>1. /\ gpc = "eq0Diff" /\ gpc' = "eq1" /\ Fixed /\ EvaluatorStays /\ ReadG /\ toG # <<>>
      /\ Streams /\ setup \in Setups
  BY DEF Eq0Diff, GarblerCheck, GarblerStep, Fixed, EvaluatorStays, ReadG, Checking, Known
<1>2. gck' = [gck EXCEPT !.eqKeys1 = fixed]
  BY Zenon DEF Eq0Diff
<1>3. gck.eqKeys1 = EqDrawn(setup, gb, round, "eq0", 1)[0]
  BY <1>1 DEF Checking, GarblerHolds, GarblerEquals
<1>4. Only(EqGlobal[1]) = Only(EqDelta(setup, gb, round, 1))
  BY <1>1, OfEq, Zenon DEF EqDelta
<1>5. round \in {"delta", "bStar"}
  BY <1>1, GarblerWhere
<1>6. Head(toG) = Diff1Of(setup, gb, ev, round)
  <2>1. CASE round = "delta"
    <3>1. GarblerAt(6, 5)
      BY <1>1, <2>1, GarblerWhere
    <3> QED  BY <1>1, <2>1, <3>1, KnownMessages, GarblerHead
  <2>2. CASE round = "bStar"
    <3>1. GarblerAt(9, 5)
      BY <1>1, <2>2, GarblerWhere
    <3> QED  BY <1>1, <2>2, <3>1, KnownMessages, GarblerHead
  <2> QED  BY <1>5, <2>1, <2>2
<1>7. fixed = EqKeys1Of(setup, gb, ev, round)
  BY <1>3, <1>4, <1>6, Zenon DEF EqKeys1Of, EqFixed, Diff1Of
<1> HIDE DEF fixed
<1>8. /\ DOMAIN gck' = DOMAIN gck /\ gck'.round = round /\ gck'.toss = gck.toss
      /\ gck'.key3 = gck.key3 /\ gck'.eqKeys1 = EqKeys1Of(setup, gb, ev, round)
  BY <1>2, <1>7 DEF Checking, Named, GarblerChecks
<1>9. Streams'
  <2>1. CASE round = "delta"
    <3>1. GarblerAt(6, 5) /\ GarblerTo(7, 5)
      BY <1>1, <1>8, <2>1, GarblerWhere, GarblerThere
    <3> QED  BY <1>1, <3>1, GarblerTakes
  <2>2. CASE round = "bStar"
    <3>1. GarblerAt(9, 5) /\ GarblerTo(10, 5)
      BY <1>1, <1>8, <2>2, GarblerWhere, GarblerThere
    <3> QED  BY <1>1, <3>1, GarblerTakes
  <2> QED  BY <1>5, <2>1, <2>2
<1>10. GarblerHolds'
  BY <1>1, <1>8 DEF Checking, Fixed, GarblerHolds, GarblerMasks, GarblerEquals, GarblerTosses,
     BeforeBStar
<1> QED  BY <1>1, <1>8, <1>9, <1>10, GarblerGoesOn

LEMMA Eq1Keeps ==
  ASSUME Checking, Eq1
  PROVE  Checking'
<1> DEFINE round == gck.round
           deltas == Only(EqGlobal[2])
           keys == RandomKeys("eq1", deltas, EqSize)
           choices == RandomBlocks("eq1Choices", EqSize)
<1>1. /\ gpc = "eq1" /\ epc = "eq1" /\ gpc' = "eq1Diff" /\ epc' = "digest" /\ Fixed
      /\ Streams /\ toG = <<>> /\ setup \in Setups
  BY DEF Eq1, TogetherCheck, Together, Fixed, Checking, Known
<1>2. round = eck.round /\ round \in {"delta", "bStar"}
  BY <1>1, SameRound
<1>3. /\ gck' = [gck EXCEPT !.eqKeys0 = keys[0]]
      /\ eck' = [eck EXCEPT !.eqMacs0 = BlockMacs(keys, deltas, choices)[0]]
      /\ SendG(BlockDiff(choices, EqMacs[1]))
  BY Zenon DEF Eq1
<1>4. /\ deltas = Only(EqDelta(setup, gb, round, 2))
      /\ keys = EqDrawn(setup, gb, round, "eq1", 2)
      /\ choices = DrawnChoices(setup, "eq1Choices", EqSizeOf(setup, round))
      /\ EqMacs = EqMacsOf(setup, ev, Mac3Of(setup, gb), round)
  BY <1>1, <1>2, OfEq, EqHeld, Zenon DEF EqDelta, EqDrawn
<1>5. /\ BlockMacs(keys, deltas, choices)[0] = EqMacs0Of(setup, gb, round)
      /\ BlockDiff(choices, EqMacs[1]) = Diff0Of(setup, gb, ev, round)
  BY <1>4, Zenon DEF EqMacs0Of, EqMade, Diff0Of, EqDiff
<1> HIDE DEF round, deltas, keys, choices
<1>6. /\ DOMAIN gck' = DOMAIN gck /\ gck'.round = gck.round /\ gck'.toss = gck.toss
      /\ gck'.key3 = gck.key3 /\ gck'.eqKeys1 = gck.eqKeys1
      /\ gck'.eqKeys0 = EqDrawn(setup, gb, round, "eq1", 2)[0]
  BY <1>3, <1>4 DEF Checking, Named, GarblerChecks
<1>7. /\ DOMAIN eck' = DOMAIN eck /\ eck'.round = eck.round /\ eck'.toss = eck.toss
      /\ eck'.mac3 = eck.mac3 /\ eck'.eqMacs1 = eck.eqMacs1
      /\ eck'.eqMacs0 = EqMacs0Of(setup, gb, round)
  BY <1>3, <1>5 DEF Checking, Named, EvaluatorChecks
<1>8. Streams'
  <2>1. CASE round = "delta"
    <3>1. GarblerAt(7, 5) /\ EvaluatorAt(5, 7) /\ GarblerTo(7, 5) /\ EvaluatorTo(5, 8)
      BY <1>1, <1>2, <1>6, <1>7, <2>1, GarblerWhere, EvaluatorWhere, GarblerThere, EvaluatorThere
         DEF round
    <3> QED  BY <1>1, <1>3, <1>5, <2>1, <3>1, KnownMessages, BothGive
  <2>2. CASE round = "bStar"
    <3>1. GarblerAt(10, 5) /\ EvaluatorAt(5, 10) /\ GarblerTo(10, 5) /\ EvaluatorTo(5, 11)
      BY <1>1, <1>2, <1>6, <1>7, <2>2, GarblerWhere, EvaluatorWhere, GarblerThere, EvaluatorThere
         DEF round
    <3> QED  BY <1>1, <1>3, <1>5, <2>2, <3>1, KnownMessages, BothGive
  <2> QED  BY <1>2, <2>1, <2>2
<1>9. GarblerHolds'
  BY <1>1, <1>6 DEF Checking, Fixed, GarblerHolds, GarblerMasks, GarblerEquals, GarblerTosses,
     BeforeBStar, round
<1>10. EvaluatorHolds'
  BY <1>1, <1>2, <1>7 DEF Checking, Fixed, EvaluatorHolds, EvaluatorMasks, EvaluatorEquals,
     EvaluatorTosses, BeforeBStar
<1> QED  BY <1>1, <1>6, <1>7, <1>8, <1>9, <1>10, BothGoOn

LEMMA Eq1DiffKeeps ==
  ASSUME Checking, Eq1Diff
  PROVE  Checking'
<1> DEFINE round == gck.round
           fixed == FixedBlockKeys(Only(gck.eqKeys0), Only(EqGlobal[2]), Head(toG))[0]
<1>1. /\ gpc = "eq1Diff" /\ gpc' = "digest" /\ Fixed /\ EvaluatorStays /\ ReadG /\ toG # <<>>
      /\ Streams /\ setup \in Setups
  BY DEF Eq1Diff, GarblerCheck, GarblerStep, Fixed, EvaluatorStays, ReadG, Checking, Known
<1>2. gck' = [gck EXCEPT !.eqKeys0 = fixed]
  BY Zenon DEF Eq1Diff
<1>3. gck.eqKeys0 = EqDrawn(setup, gb, round, "eq1", 2)[0]
  BY <1>1 DEF Checking, GarblerHolds, GarblerEquals
<1>4. Only(EqGlobal[2]) = Only(EqDelta(setup, gb, round, 2))
  BY <1>1, OfEq, Zenon DEF EqDelta
<1>5. round \in {"delta", "bStar"}
  BY <1>1, GarblerWhere
<1>6. Head(toG) = Diff0Of(setup, gb, ev, round)
  <2>1. CASE round = "delta"
    <3>1. GarblerAt(7, 5)
      BY <1>1, <2>1, GarblerWhere
    <3> QED  BY <1>1, <2>1, <3>1, KnownMessages, GarblerHead
  <2>2. CASE round = "bStar"
    <3>1. GarblerAt(10, 5)
      BY <1>1, <2>2, GarblerWhere
    <3> QED  BY <1>1, <2>2, <3>1, KnownMessages, GarblerHead
  <2> QED  BY <1>5, <2>1, <2>2
<1>7. fixed = EqKeys0Of(setup, gb, ev, round)
  BY <1>3, <1>4, <1>6, Zenon DEF EqKeys0Of, EqFixed, Diff0Of
<1> HIDE DEF fixed
<1>8. /\ DOMAIN gck' = DOMAIN gck /\ gck'.round = round /\ gck'.toss = gck.toss
      /\ gck'.key3 = gck.key3 /\ gck'.eqKeys1 = gck.eqKeys1
      /\ gck'.eqKeys0 = EqKeys0Of(setup, gb, ev, round)
  BY <1>2, <1>7 DEF Checking, Named, GarblerChecks
<1>9. Streams'
  <2>1. CASE round = "delta"
    <3>1. GarblerAt(7, 5) /\ GarblerTo(8, 5)
      BY <1>1, <1>8, <2>1, GarblerWhere, GarblerThere
    <3> QED  BY <1>1, <3>1, GarblerTakes
  <2>2. CASE round = "bStar"
    <3>1. GarblerAt(10, 5) /\ GarblerTo(11, 5)
      BY <1>1, <1>8, <2>2, GarblerWhere, GarblerThere
    <3> QED  BY <1>1, <3>1, GarblerTakes
  <2> QED  BY <1>5, <2>1, <2>2
<1>10. GarblerHolds'
  BY <1>1, <1>8 DEF Checking, Fixed, GarblerHolds, GarblerMasks, GarblerEquals, GarblerTosses,
     BeforeBStar
<1> QED  BY <1>1, <1>8, <1>9, <1>10, GarblerGoesOn

LEMMA SendDigestKeeps ==
  ASSUME Checking, SendDigest
  PROVE  Checking'
<1> DEFINE round == eck.round
           digest == Digest(EqSize, [i \in Below(EqSize) |-> eck.eqMacs0[i] \oplus eck.eqMacs1[i]])
<1>1. /\ epc = "digest" /\ epc' = AfterEq(eck) /\ Fixed /\ GarblerStays /\ Streams
      /\ setup \in Setups /\ eck' = NextEq(eck) /\ SendG(digest)
  BY DEF SendDigest, EvaluatorCheck, EvaluatorStep, Fixed, GarblerStays, Checking, Known
<1>2. round \in {"delta", "bStar"}
  BY <1>1, EvaluatorWhere
<1>3. digest = DigestOf(setup, gb, round)
  <2>1. eck.eqMacs0 = EqMacs0Of(setup, gb, round) /\ eck.eqMacs1 = EqMacs1Of(setup, gb, round)
    BY <1>1 DEF Checking, EvaluatorHolds, EvaluatorEquals
  <2>2. EqSize = EqSizeOf(setup, round)
    BY <1>1, OfEq
  <2> QED  BY <2>1, <2>2, Zenon DEF DigestOf
<1> HIDE DEF digest
<1>4. /\ DOMAIN eck' = DOMAIN eck /\ eck'.toss = eck.toss
      /\ eck'.round = IF round = "delta" THEN "bStar" ELSE "beaver1"
  BY <1>1 DEF NextEq, Checking, Named, EvaluatorChecks
<1>5. CASE round = "delta"
  <2>1. epc' = "eq0" /\ eck'.round = "bStar"
    BY <1>1, <1>4, <1>5 DEF AfterEq
  <2>2. EvaluatorAt(5, 8) /\ EvaluatorTo(5, 9)
    BY <1>1, <1>5, <2>1, EvaluatorWhere, EvaluatorThere
  <2>3. Streams'
    BY <1>1, <1>3, <1>5, <2>2, KnownMessages, EvaluatorGives
  <2>4. EvaluatorHolds'
    BY <1>1, <1>4, <2>1 DEF Checking, Fixed, EvaluatorHolds, EvaluatorMasks, EvaluatorEquals,
       EvaluatorTosses, BeforeBStar
  <2> QED  BY <1>1, <1>4, <2>3, <2>4, EvaluatorGoesOn
<1>6. CASE round = "bStar"
  <2>1. epc' = (IF AndsAt(setup) = {} THEN "done" ELSE "authedR") /\ eck'.round = "beaver1"
    BY <1>1, <1>4, <1>6, OfChecks DEF AfterEq
  <2>2. EvaluatorAt(5, 11) /\ EvaluatorTo(5, 12)
    BY <1>1, <1>6, <2>1, EvaluatorWhere, EvaluatorThere
  <2>3. Streams'
    BY <1>1, <1>3, <1>6, <2>2, KnownMessages, EvaluatorGives
  <2>4. EvaluatorHolds'
    BY <1>1, <1>4, <2>1 DEF Checking, Fixed, EvaluatorHolds, EvaluatorMasks, EvaluatorEquals,
       EvaluatorTosses, BeforeBStar
  <2> QED  BY <1>1, <1>4, <2>3, <2>4, EvaluatorGoesOn
<1> QED  BY <1>2, <1>5, <1>6

(* The digest of the garbler's terms is the digest that it receives.       *)
LEMMA DigestsMeet ==
  ASSUME Checking, gpc = "digest", gck.round \in {"delta", "bStar"}
  PROVE  LET size == Cardinality(DOMAIN gck.eqKeys0)
             term(i) == (gck.eqKeys0[i] \oplus gck.eqKeys1[i])
                          \oplus (GfMul(EqKeys[1][i], EqGlobal[2])
                                    \oplus GfMul(EqKeys[2][i], EqGlobal[1]))
         IN  Digest(size, [i \in Below(size) |-> term(i)]) = DigestOf(setup, gb, gck.round)
<1> DEFINE round == gck.round
           n == EqSizeOf(setup, round)
           size == Cardinality(DOMAIN gck.eqKeys0)
           term(i) == (gck.eqKeys0[i] \oplus gck.eqKeys1[i])
                        \oplus (GfMul(EqKeys[1][i], EqGlobal[2])
                                  \oplus GfMul(EqKeys[2][i], EqGlobal[1]))
           macs(i) == EqMacs0Of(setup, gb, round)[i] \oplus EqMacs1Of(setup, gb, round)[i]
<1>1. Known(setup, gb, ev) /\ setup \in Setups
  BY DEF Checking, Known
<1>2. /\ gck.eqKeys0 = EqKeys0Of(setup, gb, ev, round)
      /\ gck.eqKeys1 = EqKeys1Of(setup, gb, ev, round)
  BY DEF Checking, GarblerHolds, GarblerEquals
<1>3. /\ EqKeys = EqKeysOf(setup, gb, Key3Of(setup, gb), round)
      /\ EqGlobal = EqGlobalOf(setup, gb, round)
  BY <1>1, EqHeld, OfEq
<1>4. n \in Nat
  BY <1>1, SetupTypes DEF EqSizeOf
<1>5. size = n
  <2>1. EqKeys0Of(setup, gb, ev, round) \in BlocksOfLength(n)
    BY <1>1, EqAuthentic DEF EqKeys0Of
  <2>2. DOMAIN gck.eqKeys0 = 0 .. (n - 1)
    BY <1>2, <2>1 DEF BlocksOfLength, Below
  <2> HIDE DEF n
  <2>3. Cardinality(0 .. (n - 1)) = n
    <3>1. n - 1 \in Int /\ 0 \in Int
      BY <1>4
    <3>2. Cardinality(0 .. (n - 1)) = IF 0 > n - 1 THEN 0 ELSE (n - 1) - 0 + 1
      BY <3>1, FS_Interval
    <3> QED  BY <1>4, <3>2
  <2> QED  BY <2>2, <2>3
<1>6. ASSUME NEW i \in Below(n)
      PROVE  term(i) = macs(i)
  <2>1. term(i) = TermOf(setup, gb, ev, round, i)
    BY <1>2, <1>3, Zenon DEF TermOf, EqDelta
  <2>2. TermOf(setup, gb, ev, round, i) = macs(i)
    BY <1>1, TermsEqual
  <2> QED  BY <2>1, <2>2, Zenon
<1> HIDE DEF size, n, term, macs
<1>7. [i \in Below(size) |-> term(i)] = [i \in Below(n) |-> macs(i)]
  BY <1>5, <1>6
<1>8. Digest(size, [i \in Below(size) |-> term(i)]) = Digest(n, [i \in Below(n) |-> macs(i)])
  BY <1>5, <1>7, Zenon
<1>9. DigestOf(setup, gb, round) = Digest(n, [i \in Below(n) |-> macs(i)])
  BY Zenon DEF DigestOf, n, macs
<1> QED  BY <1>8, <1>9, Zenon DEF size, term

LEMMA RecvDigestKeeps ==
  ASSUME Checking, RecvDigest
  PROVE  Checking'
<1> DEFINE round == gck.round
           size == Cardinality(DOMAIN gck.eqKeys0)
           term(i) == (gck.eqKeys0[i] \oplus gck.eqKeys1[i])
                        \oplus (GfMul(EqKeys[1][i], EqGlobal[2])
                                  \oplus GfMul(EqKeys[2][i], EqGlobal[1]))
           ok == Head(toG) = Digest(size, [i \in Below(size) |-> term(i)])
<1>1. /\ gpc = "digest" /\ gpc' = Unless(ok, AfterEq(gck)) /\ Fixed /\ EvaluatorStays
      /\ ReadG /\ toG # <<>> /\ gck' = NextEq(gck) /\ Streams
  BY DEF RecvDigest, GarblerCheck, GarblerStep, Fixed, EvaluatorStays, ReadG, Checking
<1>2. round \in {"delta", "bStar"}
  BY <1>1, GarblerWhere
<1>3. Digest(size, [i \in Below(size) |-> term(i)]) = DigestOf(setup, gb, round)
  BY <1>1, <1>2, DigestsMeet, Zenon
<1>4. Head(toG) = DigestOf(setup, gb, round)
  <2>1. CASE round = "delta"
    <3>1. GarblerAt(8, 5)
      BY <1>1, <2>1, GarblerWhere
    <3> QED  BY <1>1, <2>1, <3>1, KnownMessages, GarblerHead
  <2>2. CASE round = "bStar"
    <3>1. GarblerAt(11, 5)
      BY <1>1, <2>2, GarblerWhere
    <3> QED  BY <1>1, <2>2, <3>1, KnownMessages, GarblerHead
  <2> QED  BY <1>2, <2>1, <2>2
<1>5. gpc' = AfterEq(gck)
  <2>1. ok
    BY <1>3, <1>4, Zenon
  <2> QED  BY <1>1, <2>1, Zenon DEF Unless
<1> HIDE DEF ok
<1>6. /\ DOMAIN gck' = DOMAIN gck /\ gck'.toss = gck.toss
      /\ gck'.round = IF round = "delta" THEN "bStar" ELSE "beaver1"
  BY <1>1 DEF NextEq, Checking, Named, GarblerChecks
<1>7. CASE round = "delta"
  <2>1. gpc' = "eq0" /\ gck'.round = "bStar"
    BY <1>5, <1>6, <1>7 DEF AfterEq
  <2>2. GarblerAt(8, 5) /\ GarblerTo(9, 5)
    BY <1>1, <1>7, <2>1, GarblerWhere, GarblerThere
  <2>3. Streams'
    BY <1>1, <2>2, GarblerTakes
  <2>4. GarblerHolds'
    BY <1>1, <1>6, <2>1 DEF Checking, Fixed, GarblerHolds, GarblerMasks, GarblerEquals,
       GarblerTosses, BeforeBStar
  <2> QED  BY <1>1, <1>6, <2>3, <2>4, GarblerGoesOn
<1>8. CASE round = "bStar"
  <2>1. gpc' = (IF AndsAt(setup) = {} THEN "done" ELSE "authedR") /\ gck'.round = "beaver1"
    BY <1>5, <1>6, <1>8, OfChecks DEF AfterEq
  <2>2. GarblerAt(11, 5) /\ GarblerTo(12, 5)
    BY <1>1, <1>8, <2>1, GarblerWhere, GarblerThere
  <2>3. Streams'
    BY <1>1, <2>2, GarblerTakes
  <2>4. GarblerHolds'
    BY <1>1, <1>6, <2>1 DEF Checking, Fixed, GarblerHolds, GarblerMasks, GarblerEquals,
       GarblerTosses, BeforeBStar
  <2> QED  BY <1>1, <1>6, <2>3, <2>4, GarblerGoesOn
<1> QED  BY <1>2, <1>7, <1>8

-----------------------------------------------------------------------------
(***************************************************************************)
(* The triples' steps.  Beyond the toss, the messages' contents are left   *)
(* open: the comparisons of check_beaver_triple make no party throw.       *)
(***************************************************************************)
LEMMA AuthedRKeeps ==
  ASSUME Checking, AuthedR
  PROVE  Checking'
<1>1. /\ gpc = "authedR" /\ epc = "authedR" /\ gpc' = "dualR" /\ epc' = "dualR" /\ Fixed
      /\ Quiet /\ Streams
  BY DEF AuthedR, TogetherCheck, Together, Fixed, Checking
<1>2. \E key, mac : /\ gck' = [gck EXCEPT !.rKey = key]
                    /\ eck' = [eck EXCEPT !.r = SeedOf(setup, "r"), !.rMac = mac]
  BY Zenon DEF AuthedR, SeedOf
<1>3. DOMAIN gck' = DOMAIN gck /\ gck'.round = gck.round /\ gck'.toss = gck.toss
  BY <1>2 DEF Checking, Named, GarblerChecks
<1>4. /\ DOMAIN eck' = DOMAIN eck /\ eck'.round = eck.round /\ eck'.toss = eck.toss
      /\ eck'.r = SeedOf(setup, "r")
  BY <1>2 DEF Checking, Named, EvaluatorChecks
<1>5. GarblerAt(12, 5) /\ EvaluatorAt(5, 12) /\ GarblerTo(12, 5) /\ EvaluatorTo(5, 12)
  BY <1>1, <1>3, <1>4, GarblerWhere, EvaluatorWhere, GarblerThere, EvaluatorThere
<1>6. Streams'
  BY <1>1, <1>5, BothGive
<1>7. GarblerHolds'
  BY <1>1, <1>3 DEF Checking, Fixed, GarblerHolds, GarblerMasks, GarblerEquals, GarblerTosses,
     BeforeBStar
<1>8. EvaluatorHolds'
  BY <1>1, <1>4 DEF Checking, Fixed, EvaluatorHolds, EvaluatorMasks, EvaluatorEquals,
     EvaluatorTosses, BeforeBStar
<1> QED  BY <1>1, <1>3, <1>4, <1>6, <1>7, <1>8, BothGoOn

LEMMA DualRKeeps ==
  ASSUME Checking, DualR
  PROVE  Checking'
<1>1. /\ gpc = "dualR" /\ epc = "dualR" /\ gpc' = "dualRDiff" /\ epc' = "commit" /\ Fixed
      /\ Streams
  BY DEF DualR, TogetherCheck, Together, Fixed, Checking
<1>2. \E key, mac : gck' = [gck EXCEPT !.dualRKey = key] /\ eck' = [eck EXCEPT !.dualRMac = mac]
  BY Zenon DEF DualR
<1>3. AndsAt(setup) # {}
  BY <1>1, GarblerWhere
<1>4. SendG(DiffROf(setup))
  <2>1. eck.r = SeedOf(setup, "r")
    BY <1>1, <1>3 DEF Checking, EvaluatorHolds, EvaluatorTosses
  <2>2. SendG(RandomBlock(setup.seed, "dualRChoice", 0, 0) \oplus GfMul(eck.r, deltaB))
    BY Zenon DEF DualR
  <2> QED  BY <2>1, <2>2, Zenon DEF DiffROf, SeedOf, deltaB
<1>5. DOMAIN gck' = DOMAIN gck /\ gck'.round = gck.round /\ gck'.toss = gck.toss
  BY <1>2 DEF Checking, Named, GarblerChecks
<1>6. DOMAIN eck' = DOMAIN eck /\ eck'.round = eck.round /\ eck'.toss = eck.toss
  BY <1>2 DEF Checking, Named, EvaluatorChecks
<1>7. GarblerAt(12, 5) /\ EvaluatorAt(5, 12) /\ GarblerTo(12, 5) /\ EvaluatorTo(5, 13)
  BY <1>1, <1>5, <1>6, GarblerWhere, EvaluatorWhere, GarblerThere, EvaluatorThere
<1>8. Streams'
  BY <1>1, <1>4, <1>7, KnownMessages, BothGive
<1>9. GarblerHolds'
  BY <1>1, <1>5 DEF Checking, Fixed, GarblerHolds, GarblerMasks, GarblerEquals, GarblerTosses,
     BeforeBStar
<1>10. EvaluatorHolds'
  BY <1>1, <1>6 DEF Checking, Fixed, EvaluatorHolds, EvaluatorMasks, EvaluatorEquals,
     EvaluatorTosses, BeforeBStar
<1> QED  BY <1>1, <1>5, <1>6, <1>8, <1>9, <1>10, BothGoOn

LEMMA DualRDiffKeeps ==
  ASSUME Checking, DualRDiff
  PROVE  Checking'
<1>1. /\ gpc = "dualRDiff" /\ gpc' = "commit" /\ Fixed /\ EvaluatorStays /\ ReadG /\ Streams
      /\ \E key : gck' = [gck EXCEPT !.dualRKey = key]
  BY DEF DualRDiff, GarblerCheck, GarblerStep, Fixed, EvaluatorStays, Checking
<1>2. DOMAIN gck' = DOMAIN gck /\ gck'.round = gck.round /\ gck'.toss = gck.toss
  BY <1>1 DEF Checking, Named, GarblerChecks
<1>3. GarblerAt(12, 5) /\ GarblerTo(13, 5)
  BY <1>1, <1>2, GarblerWhere, GarblerThere
<1>4. Streams'
  BY <1>1, <1>3, GarblerTakes
<1>5. GarblerHolds'
  BY <1>1, <1>2 DEF Checking, Fixed, GarblerHolds, GarblerMasks, GarblerEquals, GarblerTosses,
     BeforeBStar
<1> QED  BY <1>1, <1>2, <1>4, <1>5, GarblerGoesOn

LEMMA CommitGKeeps ==
  ASSUME Checking, CommitG
  PROVE  Checking'
<1>1. /\ gpc = "commit" /\ gpc' = "reveal" /\ Fixed /\ EvaluatorStays /\ Streams
      /\ gck' = [gck EXCEPT !.toss = SeedOf(setup, "tossG")] /\ SendE(Commitment(gck'.toss))
  BY OfChecks DEF CommitG, GarblerCheck, GarblerStep, Fixed, EvaluatorStays, Checking
<1>2. DOMAIN gck' = DOMAIN gck /\ gck'.round = gck.round /\ gck'.toss = SeedOf(setup, "tossG")
  BY <1>1 DEF Checking, Named, GarblerChecks
<1>3. GarblerAt(13, 5) /\ GarblerTo(13, 6) /\ AndsAt(setup) # {}
  BY <1>1, <1>2, GarblerWhere, GarblerThere
<1>4. Streams'
  BY <1>1, <1>2, <1>3, KnownMessages, GarblerGives
<1>5. GarblerHolds'
  BY <1>1, <1>2, <1>3 DEF Checking, Fixed, GarblerHolds, GarblerMasks, GarblerEquals,
     GarblerTosses, BeforeBStar
<1> QED  BY <1>1, <1>2, <1>4, <1>5, GarblerGoesOn

LEMMA CommitEKeeps ==
  ASSUME Checking, CommitE
  PROVE  Checking'
<1>1. /\ epc = "commit" /\ epc' = "reveal" /\ Fixed /\ GarblerStays /\ Streams
      /\ eck' = [eck EXCEPT !.toss = SeedOf(setup, "tossE")] /\ SendG(Commitment(eck'.toss))
  BY OfChecks DEF CommitE, EvaluatorCheck, EvaluatorStep, Fixed, GarblerStays, Checking
<1>2. DOMAIN eck' = DOMAIN eck /\ eck'.round = eck.round /\ eck'.toss = SeedOf(setup, "tossE")
  BY <1>1 DEF Checking, Named, EvaluatorChecks
<1>3. EvaluatorAt(5, 13) /\ EvaluatorTo(5, 14) /\ AndsAt(setup) # {}
  BY <1>1, <1>2, EvaluatorWhere, EvaluatorThere
<1>4. Streams'
  BY <1>1, <1>2, <1>3, KnownMessages, EvaluatorGives
<1>5. EvaluatorHolds'
  BY <1>1, <1>2, <1>3 DEF Checking, Fixed, EvaluatorHolds, EvaluatorMasks, EvaluatorEquals,
     EvaluatorTosses, BeforeBStar
<1> QED  BY <1>1, <1>2, <1>4, <1>5, EvaluatorGoesOn

LEMMA RevealGKeeps ==
  ASSUME Checking, RevealG
  PROVE  Checking'
<1>1. /\ gpc = "reveal" /\ gpc' = "tossed" /\ Fixed /\ EvaluatorStays /\ Streams
      /\ toG # <<>> /\ toG' = Tail(toG) /\ toE' = Append(toE, gck.toss)
      /\ gck' = [gck EXCEPT !.peerCommitment = Head(toG)]
  BY DEF RevealG, GarblerCheck, GarblerStep, Fixed, EvaluatorStays, Checking
<1>2. /\ DOMAIN gck' = DOMAIN gck /\ gck'.round = gck.round /\ gck'.toss = gck.toss
      /\ gck'.peerCommitment = Head(toG)
  BY <1>1 DEF Checking, Named, GarblerChecks
<1>3. GarblerAt(13, 6) /\ GarblerTo(14, 7) /\ AndsAt(setup) # {}
  BY <1>1, <1>2, GarblerWhere, GarblerThere
<1>4. Head(toG) = Commitment(SeedOf(setup, "tossE"))
  BY <1>1, <1>3, KnownMessages, GarblerHead
<1>5. gck.toss = SeedOf(setup, "tossG")
  BY <1>1, <1>3 DEF Checking, GarblerHolds, GarblerTosses
<1>6. Streams'
  BY <1>1, <1>3, <1>5, KnownMessages, GarblerAnswers
<1>7. GarblerHolds'
  BY <1>1, <1>2, <1>3, <1>4, <1>5 DEF Checking, Fixed, GarblerHolds, GarblerMasks,
     GarblerEquals, GarblerTosses, BeforeBStar
<1> QED  BY <1>1, <1>2, <1>6, <1>7, GarblerGoesOn

LEMMA RevealEKeeps ==
  ASSUME Checking, RevealE
  PROVE  Checking'
<1>1. /\ epc = "reveal" /\ epc' = "tossed" /\ Fixed /\ GarblerStays /\ Streams
      /\ toE # <<>> /\ toE' = Tail(toE) /\ toG' = Append(toG, eck.toss)
      /\ eck' = [eck EXCEPT !.peerCommitment = Head(toE)]
  BY DEF RevealE, EvaluatorCheck, EvaluatorStep, Fixed, GarblerStays, Checking
<1>2. /\ DOMAIN eck' = DOMAIN eck /\ eck'.round = eck.round /\ eck'.toss = eck.toss
      /\ eck'.peerCommitment = Head(toE)
  BY <1>1 DEF Checking, Named, EvaluatorChecks
<1>3. EvaluatorAt(5, 14) /\ EvaluatorTo(6, 15) /\ AndsAt(setup) # {}
  BY <1>1, <1>2, EvaluatorWhere, EvaluatorThere
<1>4. Head(toE) = Commitment(SeedOf(setup, "tossG"))
  BY <1>1, <1>3, KnownMessages, EvaluatorHead
<1>5. eck.toss = SeedOf(setup, "tossE")
  BY <1>1, <1>3 DEF Checking, EvaluatorHolds, EvaluatorTosses
<1>6. Streams'
  BY <1>1, <1>3, <1>5, KnownMessages, EvaluatorAnswers
<1>7. EvaluatorHolds'
  BY <1>1, <1>2, <1>3, <1>4, <1>5 DEF Checking, Fixed, EvaluatorHolds, EvaluatorMasks,
     EvaluatorEquals, EvaluatorTosses, BeforeBStar
<1> QED  BY <1>1, <1>2, <1>6, <1>7, EvaluatorGoesOn

LEMMA TossedGKeeps ==
  ASSUME Checking, TossedG
  PROVE  Checking'
<1>1. /\ gpc = "tossed" /\ Fixed /\ EvaluatorStays /\ Streams /\ ReadG /\ toG # <<>>
      /\ gpc' = Unless(gck.peerCommitment = Commitment(Head(toG)), "recvY")
      /\ gck' = [gck EXCEPT !.toss = @ \oplus Head(toG)]
  BY DEF TossedG, GarblerCheck, GarblerStep, Fixed, EvaluatorStays, ReadG, Checking
<1>2. /\ DOMAIN gck' = DOMAIN gck /\ gck'.round = gck.round
      /\ gck'.toss = gck.toss \oplus Head(toG)
  BY <1>1 DEF Checking, Named, GarblerChecks
<1>3. GarblerAt(14, 7) /\ AndsAt(setup) # {} /\ gck.round = "beaver1"
  BY <1>1, GarblerWhere
<1>4. Head(toG) = SeedOf(setup, "tossE")
  BY <1>1, <1>3, KnownMessages, GarblerHead
<1>5. gck.toss = SeedOf(setup, "tossG") /\ gck.peerCommitment = Commitment(SeedOf(setup, "tossE"))
  BY <1>1, <1>3 DEF Checking, GarblerHolds, GarblerTosses
<1>6. gpc' = "recvY" /\ gck'.toss = TossOf(setup)
  BY <1>1, <1>2, <1>4, <1>5 DEF Unless, TossOf
<1>7. GarblerTo(15, 7)
  BY <1>2, <1>3, <1>6, GarblerThere
<1>8. Streams'
  BY <1>1, <1>3, <1>7, GarblerTakes
<1>9. GarblerHolds'
  BY <1>1, <1>2, <1>3, <1>6 DEF Checking, Fixed, GarblerHolds, GarblerMasks, GarblerEquals,
     GarblerTosses, BeforeBStar
<1> QED  BY <1>1, <1>2, <1>8, <1>9, GarblerGoesOn

LEMMA TossedEKeeps ==
  ASSUME Checking, TossedE
  PROVE  Checking'
<1>1. /\ epc = "tossed" /\ Fixed /\ GarblerStays /\ Streams /\ ReadE /\ toE # <<>>
      /\ epc' = Unless(eck.peerCommitment = Commitment(Head(toE)), "sendY")
      /\ eck' = [eck EXCEPT !.toss = @ \oplus Head(toE)]
  BY DEF TossedE, EvaluatorCheck, EvaluatorStep, Fixed, GarblerStays, ReadE, Checking
<1>2. /\ DOMAIN eck' = DOMAIN eck /\ eck'.round = eck.round
      /\ eck'.toss = eck.toss \oplus Head(toE)
  BY <1>1 DEF Checking, Named, EvaluatorChecks
<1>3. EvaluatorAt(6, 15) /\ AndsAt(setup) # {} /\ eck.round = "beaver1"
  BY <1>1, EvaluatorWhere
<1>4. Head(toE) = SeedOf(setup, "tossG")
  BY <1>1, <1>3, KnownMessages, EvaluatorHead
<1>5. eck.toss = SeedOf(setup, "tossE") /\ eck.peerCommitment = Commitment(SeedOf(setup, "tossG"))
  BY <1>1, <1>3 DEF Checking, EvaluatorHolds, EvaluatorTosses
<1>6. epc' = "sendY" /\ eck'.toss = TossOf(setup)
  <2>1. \A a, b : a \oplus b = b \oplus a
    BY SMT DEF \oplus
  <2> QED  BY <1>1, <1>2, <1>4, <1>5, <2>1 DEF Unless, TossOf
<1>7. EvaluatorTo(7, 15)
  BY <1>2, <1>3, <1>6, EvaluatorThere
<1>8. Streams'
  BY <1>1, <1>3, <1>7, EvaluatorTakes
<1>9. EvaluatorHolds'
  BY <1>1, <1>2, <1>3, <1>6 DEF Checking, Fixed, EvaluatorHolds, EvaluatorMasks,
     EvaluatorEquals, EvaluatorTosses, BeforeBStar
<1> QED  BY <1>1, <1>2, <1>8, <1>9, EvaluatorGoesOn

LEMMA SendYKeeps ==
  ASSUME Checking, SendY
  PROVE  Checking'
<1>1. /\ epc = "sendY" /\ epc' = "compare" /\ Fixed /\ GarblerStays /\ Streams
      /\ \E y : eck' = [eck EXCEPT !.y = y]
      /\ SendG(eck'.y)
  BY DEF SendY, EvaluatorCheck, EvaluatorStep, Fixed, GarblerStays, Checking
<1>2. DOMAIN eck' = DOMAIN eck /\ eck'.round = eck.round /\ eck'.toss = eck.toss
  BY <1>1 DEF Checking, Named, EvaluatorChecks
<1>3. EvaluatorAt(7, 15) /\ EvaluatorTo(7, 16) /\ AndsAt(setup) # {} /\ eck.round = "beaver1"
  BY <1>1, <1>2, EvaluatorWhere, EvaluatorThere
<1>4. Streams'
  BY <1>1, <1>3, KnownMessages, EvaluatorGives
<1>5. EvaluatorHolds'
  BY <1>1, <1>2, <1>3 DEF Checking, Fixed, EvaluatorHolds, EvaluatorMasks, EvaluatorEquals,
     EvaluatorTosses, BeforeBStar
<1> QED  BY <1>1, <1>2, <1>4, <1>5, EvaluatorGoesOn

LEMMA RecvYKeeps ==
  ASSUME Checking, RecvY
  PROVE  Checking'
<1>1. /\ gpc = "recvY" /\ gpc' = "compare" /\ Fixed /\ EvaluatorStays /\ Streams /\ ReadG
      /\ \E y : gck' = [gck EXCEPT !.y = y]
  BY DEF RecvY, GarblerCheck, GarblerStep, Fixed, EvaluatorStays, Checking
<1>2. DOMAIN gck' = DOMAIN gck /\ gck'.round = gck.round /\ gck'.toss = gck.toss
  BY <1>1 DEF Checking, Named, GarblerChecks
<1>3. GarblerAt(15, 7) /\ GarblerTo(16, 7) /\ AndsAt(setup) # {} /\ gck.round = "beaver1"
  BY <1>1, <1>2, GarblerWhere, GarblerThere
<1>4. Streams'
  BY <1>1, <1>3, GarblerTakes
<1>5. GarblerHolds'
  BY <1>1, <1>2, <1>3 DEF Checking, Fixed, GarblerHolds, GarblerMasks, GarblerEquals,
     GarblerTosses, BeforeBStar
<1> QED  BY <1>1, <1>2, <1>4, <1>5, GarblerGoesOn

-----------------------------------------------------------------------------
(***************************************************************************)
(* The inductive invariant.                                                *)
(***************************************************************************)
LEMMA SetupStays == [CheckNext]_allVars => setup' = setup
<1> SUFFICES ASSUME [CheckNext]_allVars PROVE setup' = setup
  OBVIOUS
<1>1. CASE Preparing
  <2>1. CASE Correlated
    BY <2>1 DEF Correlated, BStar, DualBStar, AMatrix, TmpDelta, TripleShares, TmpDelta5,
       EvaluatorAnded, GarblerAnded, BeaverTriple, Together
  <2>2. CASE Garbler
    BY <2>2 DEF Garbler, RecvMatrix, DualBStarDiff, PopulateGarbler, EvaluatorAndedDiff,
       GarblerSums, BeaverTripleDiff, GarblerStep
  <2>3. CASE Evaluator
    BY <2>3 DEF Evaluator, SendMatrix, TmpDeltaDiff, TmpDelta5Diff, PopulateEvaluator,
       GarblerAndedDiff, EvaluatorSums, RecvLsb, EvaluatorStep
  <2> QED  BY <1>1, <2>1, <2>2, <2>3 DEF Preparing
<1>2. CASE CorrelatedChecks
  BY <1>2 DEF CorrelatedChecks, ProverG, ProverE, DualProof, Sid3, Eq0, Eq1, AuthedR, DualR,
     TogetherCheck, Together
<1>3. CASE GarblerChecking
  BY <1>3 DEF GarblerChecking, RecvSeedG, ProveG, VerifyG, VerifyDual, Sid3Diff, CompareSendG,
     CompareRecvG, Eq0Diff, Eq1Diff, RecvDigest, DualRDiff, CommitG, RevealG, TossedG, RecvY,
     GarblerCheck, GarblerStep
<1>4. CASE EvaluatorChecking
  BY <1>4 DEF EvaluatorChecking, RecvSeedE, VerifyE, ProveE, ProveDual, CompareSendE,
     CompareRecvE, SendDigest, CommitE, RevealE, TossedE, SendY, EvaluatorCheck, EvaluatorStep
<1>5. CASE UNCHANGED allVars
  BY <1>5 DEF allVars, vars
<1> QED  BY <1>1, <1>2, <1>3, <1>4, <1>5 DEF CheckNext

(* Where the parties are while they prepare: nowhere that a check starts,  *)
(* but at "check".                                                         *)
LEMMA StillPreparing ==
  ASSUME IInv
  PROVE  /\ gpc \in {"matrix", "bStar", "dualBStar", "dualBStarDiff", "aMatrix", "tmpDelta",
                     "triple", "tmpDelta5", "populate", "evaluatorAnded", "evaluatorAndedDiff",
                     "anded", "sums", "beaverTriple", "beaverTripleDiff", "check"}
         /\ epc \in {"matrix", "bStar", "dualBStar", "aMatrix", "tmpDelta", "tmpDeltaDiff",
                     "triple", "tmpDelta5", "tmpDelta5Diff", "populate", "evaluatorAnded",
                     "anded", "andedDiff", "sums", "lsb", "beaverTriple", "check"}
<1>1. PICK m \in 0 .. 2, n \in 0 .. 2 : <<gpc, epc, m, n>> \in Locations
  BY DEF IInv, Control
<1> QED  BY <1>1 DEF Locations

LEMMA PreparingKeeps ==
  ASSUME IInv, NoSamePairs(circuit), gck = Unconstructed(GarblerChecks),
         eck = Unconstructed(EvaluatorChecks), [CheckNext]_allVars
  PROVE  CheckInv'
<1>1. CASE Preparing
  BY <1>1, Inductive DEF Preparing, Next, CheckInv
<1>2. CASE UNCHANGED allVars
  BY <1>2, Inductive DEF allVars, CheckInv
<1>3. CASE CorrelatedChecks
  <2>1. CASE ProverG
    BY <2>1, ProverGKeeps DEF CheckInv
  <2>2. ~ProverE /\ ~DualProof /\ ~Sid3 /\ ~Eq0 /\ ~Eq1 /\ ~AuthedR /\ ~DualR
    BY StillPreparing DEF ProverE, DualProof, Sid3, Eq0, Eq1, AuthedR, DualR, TogetherCheck,
       Together
  <2> QED  BY <1>3, <2>1, <2>2 DEF CorrelatedChecks
<1>4. ~GarblerChecking
  BY StillPreparing DEF GarblerChecking, RecvSeedG, ProveG, VerifyG, VerifyDual, Sid3Diff,
     CompareSendG, CompareRecvG, Eq0Diff, Eq1Diff, RecvDigest, DualRDiff, CommitG, RevealG,
     TossedG, RecvY, GarblerCheck, GarblerStep
<1>5. ~EvaluatorChecking
  BY StillPreparing DEF EvaluatorChecking, RecvSeedE, VerifyE, ProveE, ProveDual, CompareSendE,
     CompareRecvE, SendDigest, CommitE, RevealE, TossedE, SendY, EvaluatorCheck, EvaluatorStep
<1> QED  BY <1>1, <1>2, <1>3, <1>4, <1>5 DEF CheckNext

LEMMA CheckingKeeps ==
  ASSUME Checking, [CheckNext]_allVars
  PROVE  Checking'
<1>1. Streams
  BY DEF Checking
<1>2. ~Preparing
  <2>1. ~Correlated
    BY <1>1, GarblerWhere DEF Correlated, BStar, DualBStar, AMatrix, TmpDelta, TripleShares,
       TmpDelta5, EvaluatorAnded, GarblerAnded, BeaverTriple, Together
  <2>2. ~Garbler
    BY <1>1, GarblerWhere DEF Garbler, RecvMatrix, DualBStarDiff, PopulateGarbler,
       EvaluatorAndedDiff, GarblerSums, BeaverTripleDiff, GarblerStep
  <2>3. ~Evaluator
    BY <1>1, EvaluatorWhere DEF Evaluator, SendMatrix, TmpDeltaDiff, TmpDelta5Diff,
       PopulateEvaluator, GarblerAndedDiff, EvaluatorSums, RecvLsb, EvaluatorStep
  <2> QED  BY <2>1, <2>2, <2>3 DEF Preparing
<1>3. CASE CorrelatedChecks
  <2>1. ~ProverG
    BY <1>1, GarblerWhere DEF ProverG, TogetherCheck, Together
  <2> QED  BY <1>3, <2>1, ProverEKeeps, DualProofKeeps, Sid3Keeps, Eq0Keeps, Eq1Keeps,
              AuthedRKeeps, DualRKeeps DEF CorrelatedChecks
<1>4. CASE GarblerChecking
  BY <1>4, RecvSeedGKeeps, ProveGKeeps, VerifyGKeeps, VerifyDualKeeps, Sid3DiffKeeps,
     CompareSendGKeeps, CompareRecvGKeeps, Eq0DiffKeeps, Eq1DiffKeeps, RecvDigestKeeps,
     DualRDiffKeeps, CommitGKeeps, RevealGKeeps, TossedGKeeps, RecvYKeeps DEF GarblerChecking
<1>5. CASE EvaluatorChecking
  BY <1>5, RecvSeedEKeeps, VerifyEKeeps, ProveEKeeps, ProveDualKeeps, CompareSendEKeeps,
     CompareRecvEKeeps, SendDigestKeeps, CommitEKeeps, RevealEKeeps, TossedEKeeps, SendYKeeps
     DEF EvaluatorChecking
<1>6. CASE UNCHANGED allVars
  <2>1. /\ setup' = setup /\ gb' = gb /\ ev' = ev /\ gck' = gck /\ eck' = eck
        /\ gpc' = gpc /\ epc' = epc /\ toG' = toG /\ toE' = toE
    BY <1>6 DEF allVars, vars
  <2>2. Fixed /\ EvaluatorStays /\ GarblerStays
    BY <2>1 DEF Fixed, EvaluatorStays, GarblerStays
  <2>3. Streams'
    BY <1>1, <2>1 DEF Streams
  <2>4. GarblerHolds'
    BY <2>2, HeldStill DEF Checking
  <2> QED  BY <2>1, <2>2, <2>3, <2>4, GarblerGoesOn
<1> QED  BY <1>2, <1>3, <1>4, <1>5, <1>6 DEF CheckNext

(* CheckInv is what the steps preserve: while the parties prepare it is    *)
(* the invariant of preprocessing, from the first check on it says what    *)
(* each party holds and which messages are on their way.                   *)
THEOREM SpecCheckInv == CheckSpec => [](NoSamePairs(circuit) => CheckInv)
<1>1. CheckInit => CheckInv
  BY Initially DEF CheckInit, CheckInv
<1>2. (NoSamePairs(circuit) => CheckInv) /\ [CheckNext]_allVars
        => (NoSamePairs(circuit) => CheckInv)'
  <2> SUFFICES ASSUME NoSamePairs(circuit) => CheckInv, [CheckNext]_allVars, NoSamePairs(circuit)'
               PROVE  CheckInv'
    OBVIOUS
  <2>1. NoSamePairs(circuit)
    BY SetupStays DEF circuit
  <2>2. CASE IInv /\ gck = Unconstructed(GarblerChecks) /\ eck = Unconstructed(EvaluatorChecks)
    BY <2>1, <2>2, PreparingKeeps
  <2>3. CASE Checking
    BY <2>3, CheckingKeeps DEF CheckInv
  <2> QED  BY <2>1, <2>2, <2>3 DEF CheckInv
<1> QED  BY <1>1, <1>2, PTL DEF CheckSpec

-----------------------------------------------------------------------------
(***************************************************************************)
(* The theorems.                                                           *)
(***************************************************************************)
(* In every circuit without two AND gates of the same pair of input wires, *)
(* two honest parties never abort in the checks that end preprocessing:    *)
(* the three zero-knowledge verifiers accept, the two comparisons of       *)
(* check_same_bit and both equality checks succeed and the commitments of  *)
(* the coin toss open, however the parties' steps interleave.              *)
THEOREM NoAlarmInChecks == CheckSpec => [](NoSamePairs(circuit) => NoFalseAlarm)
<1>1. CheckInv => NoFalseAlarm
  <2>1. ASSUME IInv
        PROVE  NoFalseAlarm
    BY <2>1, StillPreparing DEF NoFalseAlarm, Aborted
  <2>2. ASSUME Checking
        PROVE  NoFalseAlarm
    BY <2>2, GarblerWhere, EvaluatorWhere DEF Checking, NoFalseAlarm, Aborted
  <2> QED  BY <2>1, <2>2 DEF CheckInv
<1> QED  BY <1>1, SpecCheckInv, PTL

(* And when the garbler has tossed and the evaluator has too, both have    *)
(* the same block: the messages of the toss arrive at the toss.            *)
THEOREM SameBlockTossed == CheckSpec => [](NoSamePairs(circuit) => SameToss)
<1>1. CheckInv => SameToss
  <2>1. ASSUME IInv
        PROVE  SameToss
    BY <2>1, StillPreparing DEF SameToss
  <2>2. ASSUME Checking, gpc \in {"recvY", "done"},
               epc \in {"sendY", "compare", "comparing", "done"}
        PROVE  gck.toss = eck.toss
    <3>1. CASE AndsAt(setup) = {}
      BY <2>2, <3>1 DEF Checking, GarblerHolds, GarblerTosses, EvaluatorHolds, EvaluatorTosses
    <3>2. CASE AndsAt(setup) # {}
      <4>1. gck.toss = TossOf(setup)
        BY <2>2, <3>2 DEF Checking, GarblerHolds, GarblerTosses
      <4>2. epc \in {"compare", "comparing"} => eck.round \in {"beaver1", "beaver2"}
        <5>1. PICK a, d \in 0 .. 18, b, c \in 0 .. 9 :
                /\ <<gpc, gck.round, a, b>> \in GarblerPlaces(AndsAt(setup))
                /\ <<epc, eck.round, c, d>> \in EvaluatorPlaces(AndsAt(setup))
                /\ a <= d
          BY <2>2, ZenonT(40) DEF Checking, Streams, InFlight
        <5>2. a >= 15
          BY <2>2, <3>2, <5>1, GarblerTable
        <5>3. epc \in {"compare", "comparing"} =>
                \/ eck.round \in {"same1", "same2"} /\ d <= 6
                \/ eck.round \in {"beaver1", "beaver2"}
          BY <5>1, EvaluatorTable
        <5> QED  BY <5>1, <5>2, <5>3
      <4>3. eck.toss = TossOf(setup)
        BY <2>2, <3>2, <4>2 DEF Checking, EvaluatorHolds, EvaluatorTosses
      <4> QED  BY <4>1, <4>3
    <3> QED  BY <3>1, <3>2
  <2> QED  BY <2>1, <2>2 DEF CheckInv, SameToss
<1> QED  BY <1>1, SpecCheckInv, PTL
=============================================================================
