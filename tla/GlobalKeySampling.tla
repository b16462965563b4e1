-------------------------- MODULE GlobalKeySampling --------------------------
(***************************************************************************)
(* The constructors GlobalKeySampling::Garbler and ::Evaluator             *)
(* (global_key_sampling.hpp).  The parties sample their global keys deltaA *)
(* and deltaB so that the product has lowest bit 1, and keep its shares    *)
(* alpha0 and beta0.  The batches u, x and y of random bits let each check *)
(* the lowest bits of keys it does not see.                                *)
(***************************************************************************)
EXTENDS Parties, DVZK

CONSTANTS
  SecurityBits,       \* STATISTICAL_SECURITY
  Challenge(_, _)     \* of emp::PRG with a seed, by position

ASSUME SecurityAssumption ==
  /\ SecurityBits \in Nat \ {0}
  /\ \A s \in Setups : s.sampledA \in Block /\ s.sampledB \in Block

Batch == Below(SecurityBits)

(* What draws randomness, by the names of the objects it is for. *)
RandomNames ==
  {"u", "deltaB", "deltaBChoice", "x", "xDeltaB", "xDeltaBChoices", "proofX", "proofXBlock",
   "proofXSeed", "deltaA", "deltaAChoice", "y", "yDeltaA", "yDeltaAChoices", "proofY",
   "proofYBlock", "proofYSeed"}

(* Random bits are bits, random blocks, local keys and challenges blocks. *)
ASSUME RandomnessAssumption ==
  /\ \A s \in Setups, name \in RandomNames, i \in Batch :
       RandomBit(s.seed, name, i) \in BOOLEAN /\ RandomBlock(s.seed, name, 0, i) \in Block
  /\ \A seed \in Block, i \in Batch : Challenge(seed, i) \in Block

GarblerObjects ==
  {"delta", "alpha0", "uKeys", "deltaBKey", "xKeys", "xDeltaBKeys", "proofKey", "chal",
   "authedDeltaA", "y", "yMacs", "yDeltaAMacs", "proofMask", "equal"}

EvaluatorObjects ==
  {"delta", "beta0", "u", "uMacs", "authedDeltaB", "x", "xMacs", "xDeltaBMacs", "proofMask",
   "deltaAKey", "yKeys", "yDeltaAKeys", "proofKey", "chal", "equal"}

(* low | 1: the garbler's key has lowest bit 1. *)
Init ==
  /\ setup \in Setups
  /\ gpc = "u" /\ epc = "u"
  /\ gb = [Unconstructed(GarblerObjects) EXCEPT !.delta = setup.sampledA \cup One]
  /\ ev = [Unconstructed(EvaluatorObjects) EXCEPT !.delta = setup.sampledB]
  /\ toG = <<>> /\ toE = <<>>

Lsbs(blocks) == [i \in DOMAIN blocks |-> GetLSB(blocks[i])]

(* Mutant: the lowest bits of the MACs alone. *)
ExpectedLsbsOfMacs(macs, bits) == [i \in DOMAIN macs |-> GetLSB(macs[i])]

(* The LSB of key + bit * delta for a delta with lowest bit 1. *)
ExpectedLsbs(macs, bits) == [i \in DOMAIN macs |-> GetLSB(macs[i]) # bits[i]]

-----------------------------------------------------------------------------
(***************************************************************************)
(* 1 and 2: the evaluator checks that the garbler's key has lowest bit 1.  *)
(***************************************************************************)
U ==
  LET keys == RandomKeys("u", Only(gb.delta), SecurityBits)
      bits == RandomBits("u", SecurityBits)
  IN  /\ Together("u", "sendULsbs", "u", "recvULsbs")
      /\ gb' = [gb EXCEPT !.uKeys = keys[0]]
      /\ ev' = [ev EXCEPT !.u = bits, !.uMacs = BitMacs(keys, Only(gb.delta), bits)[0]]
      /\ Quiet

SendULsbs ==
  /\ GarblerStep("sendULsbs", "deltaB")
  /\ SendE(Lsbs(gb.uKeys))
  /\ UNCHANGED gb

RecvULsbs ==
  /\ ReadE
  /\ EvaluatorStep("recvULsbs", Unless(Head(toE) = ExpectedLsbs(ev.uMacs, ev.u), "deltaB"))
  /\ UNCHANGED ev

(***************************************************************************)
(* 3: the evaluator's key authenticated under the garbler's.  The parties  *)
(* exchange the lowest bits of MAC and local key; when they are the same,  *)
(* the product's lowest bit is 0 and the evaluator flips that of its key,  *)
(* which moves the garbler's local key by deltaA.                          *)
(***************************************************************************)
DeltaB ==
  LET key == RandomBlock(setup.seed, "deltaB", 0, 0)
      choice == RandomBlock(setup.seed, "deltaBChoice", 0, 0)
  IN  /\ Together("deltaB", "deltaBDiff", "deltaB", "sendLsb")
      /\ gb' = [gb EXCEPT !.deltaBKey = key]
      /\ ev' = [ev EXCEPT !.authedDeltaB = key \oplus GfMul(choice, gb.delta)]
      /\ SendG(choice \oplus ev.delta)

(* Mutant: the lowest bit of the key before the fix. *)
DeltaBDiffStale ==
  /\ GarblerStep("deltaBDiff", "recvLsb")
  /\ toG # <<>> /\ toG' = Tail(toG)
  /\ gb' = [gb EXCEPT !.deltaBKey = @ \oplus GfMul(Head(toG), gb.delta)]
  /\ toE' = Append(toE, GetLSB(gb.deltaBKey))

(* The fix of the constructor, then the send of lsbKDeltaB. *)
DeltaBDiff ==
  /\ GarblerStep("deltaBDiff", "recvLsb")
  /\ toG # <<>> /\ toG' = Tail(toG)
  /\ gb' = [gb EXCEPT !.deltaBKey = @ \oplus GfMul(Head(toG), gb.delta)]
  /\ toE' = Append(toE, GetLSB(gb'.deltaBKey))

(* Mutant: the bit is sent twice. *)
SendLsbTwice ==
  /\ EvaluatorStep("sendLsb", "recvLsb")
  /\ toG' = toG \o [i \in 1 .. 2 |-> GetLSB(ev.authedDeltaB)]
  /\ UNCHANGED <<ev, toE>>

SendLsb ==
  /\ EvaluatorStep("sendLsb", "recvLsb")
  /\ SendG(GetLSB(ev.authedDeltaB))
  /\ UNCHANGED ev

(* flip_block_lsb on either side. *)
FlippedKey(key, delta) == key \oplus delta
FlippedBlock(block) == block \oplus One

(* Mutant: the garbler flips when the bits differ. *)
RecvLsbGDiffer ==
  LET flip == GetLSB(gb.deltaBKey) # Head(toG)
      key == IF flip THEN FlippedKey(gb.deltaBKey, gb.delta) ELSE gb.deltaBKey
  IN  /\ GarblerStep("recvLsb", "x")
      /\ ReadG
      /\ gb' = [gb EXCEPT !.deltaBKey = key, !.alpha0 = key]

RecvLsbG ==
  LET flip == GetLSB(gb.deltaBKey) = Head(toG)
      key == IF flip THEN FlippedKey(gb.deltaBKey, gb.delta) ELSE gb.deltaBKey
  IN  /\ GarblerStep("recvLsb", "x")
      /\ ReadG
      /\ gb' = [gb EXCEPT !.deltaBKey = key, !.alpha0 = key]

RecvLsbE ==
  LET flip == GetLSB(ev.authedDeltaB) = Head(toE)
  IN  /\ EvaluatorStep("recvLsb", "x")
      /\ ReadE
      /\ ev' = [ev EXCEPT !.delta = IF flip THEN FlippedBlock(@) ELSE @,
                          !.beta0 = ev.authedDeltaB]

(***************************************************************************)
(* 6a, 6b: random bits x and x * deltaB under deltaA; the evaluator proves *)
(* the product and checks the lowest bits of the garbler's local keys.     *)
(***************************************************************************)
X ==
  LET deltas == Only(gb.delta)
      keys == RandomKeys("x", deltas, SecurityBits)
      bits == RandomBits("x", SecurityBits)
  IN  /\ Together("x", "xDeltaB", "x", "xDeltaB")
      /\ gb' = [gb EXCEPT !.xKeys = keys[0]]
      /\ ev' = [ev EXCEPT !.x = bits, !.xMacs = BitMacs(keys, deltas, bits)[0]]
      /\ Quiet

XDeltaB ==
  LET deltas == Only(gb.delta)
      keys == RandomKeys("xDeltaB", deltas, SecurityBits)
      choices == RandomBlocks("xDeltaBChoices", SecurityBits)
  IN  /\ Together("xDeltaB", "xDeltaBDiff", "xDeltaB", "proofX")
      /\ gb' = [gb EXCEPT !.xDeltaBKeys = keys[0]]
      /\ ev' = [ev EXCEPT !.xDeltaBMacs = BlockMacs(keys, deltas, choices)[0]]
      /\ SendG(BlockDiff(choices, [i \in Batch |-> AndAllBits(ev.x[i], ev.delta)]))

XDeltaBDiff ==
  /\ GarblerStep("xDeltaBDiff", "proofX")
  /\ ReadG
  /\ gb' = [gb EXCEPT !.xDeltaBKeys = FixedBlockKeys(Only(@), Only(gb.delta), Head(toG))[0]]

Challenges(seed) == [i \in Batch |-> Challenge(seed, i)]

(* DVZK::verify and DVZK::prove of bits times one block. *)
ProofX ==
  LET key == RandomBlock(setup.seed, "proofX", 0, 0)
      block == RandomBlock(setup.seed, "proofXBlock", 0, 0)
      seed == RandomBlock(setup.seed, "proofXSeed", 0, 0)
  IN  /\ Together("proofX", "verifyX", "proofX", "proveX")
      /\ gb' = [gb EXCEPT !.proofKey = key, !.chal = Challenges(seed)]
      /\ ev' = [ev EXCEPT !.proofMask =
                  [block |-> block, mac |-> key \oplus GfMul(block, gb.delta)]]
      /\ SendE(seed)

BitsTimes(bits, bitMacs, block, mac, productMacs) ==
  [x |-> [i \in Batch |-> BitBlock(bits[i])], y |-> [i \in Batch |-> block],
   macX |-> bitMacs, macY |-> [i \in Batch |-> mac], macZ |-> productMacs]

KeysTimes(bitKeys, key, productKeys) ==
  [keyX |-> bitKeys, keyY |-> [i \in Batch |-> key], keyZ |-> productKeys]

Proof(statement, seed, mask) ==
  [a0 |-> A0(Batch, Challenges(seed), statement, mask),
   a1 |-> A1(Batch, Challenges(seed), statement, mask)]

ProveX ==
  /\ EvaluatorStep("proveX", "recvXLsbs")
  /\ toE # <<>> /\ toE' = Tail(toE)
  /\ toG' = Append(toG,
       Proof(BitsTimes(ev.x, ev.xMacs, ev.delta, ev.authedDeltaB, ev.xDeltaBMacs),
             Head(toE), ev.proofMask))
  /\ UNCHANGED ev

VerifyX ==
  LET b == B(Batch, gb.chal, KeysTimes(gb.xKeys, gb.deltaBKey, gb.xDeltaBKeys), gb.proofKey,
             gb.delta)
  IN  /\ ReadG
      /\ GarblerStep("verifyX", Unless(Accepts(b, Head(toG), gb.delta), "sendXLsbs"))
      /\ UNCHANGED gb

SendXLsbs ==
  /\ GarblerStep("sendXLsbs", "deltaA")
  /\ SendE(Lsbs(gb.xDeltaBKeys))
  /\ UNCHANGED gb

RecvXLsbs ==
  /\ ReadE
  /\ EvaluatorStep("recvXLsbs",
       Unless(Head(toE) = ExpectedLsbs(ev.xDeltaBMacs, ev.x), "deltaA"))
  /\ UNCHANGED ev

(***************************************************************************)
(* 6c to 6e: the mirror image.  The garbler's key authenticated under the  *)
(* evaluator's, random bits y and y * deltaA under deltaB; the garbler     *)
(* proves, and checks the lowest bits of the evaluator's local keys.       *)
(***************************************************************************)
DeltaA ==
  LET key == RandomBlock(setup.seed, "deltaA", 0, 0)
      choice == RandomBlock(setup.seed, "deltaAChoice", 0, 0)
  IN  /\ Together("deltaA", "y", "deltaA", "deltaADiff")
      /\ gb' = [gb EXCEPT !.authedDeltaA = key \oplus GfMul(choice, ev.delta)]
      /\ ev' = [ev EXCEPT !.deltaAKey = key]
      /\ SendE(choice \oplus gb.delta)

DeltaADiff ==
  /\ EvaluatorStep("deltaADiff", "y")
  /\ ReadE
  /\ ev' = [ev EXCEPT !.deltaAKey = @ \oplus GfMul(Head(toE), ev.delta)]

Y ==
  LET deltas == Only(ev.delta)
      keys == RandomKeys("y", deltas, SecurityBits)
      bits == RandomBits("y", SecurityBits)
  IN  /\ Together("y", "yDeltaA", "y", "yDeltaA")
      /\ gb' = [gb EXCEPT !.y = bits, !.yMacs = BitMacs(keys, deltas, bits)[0]]
      /\ ev' = [ev EXCEPT !.yKeys = keys[0]]
      /\ Quiet

YDeltaA ==
  LET deltas == Only(ev.delta)
      keys == RandomKeys("yDeltaA", deltas, SecurityBits)
      choices == RandomBlocks("yDeltaAChoices", SecurityBits)
  IN  /\ Together("yDeltaA", "proofY", "yDeltaA", "yDeltaADiff")
      /\ gb' = [gb EXCEPT !.yDeltaAMacs = BlockMacs(keys, deltas, choices)[0]]
      /\ ev' = [ev EXCEPT !.yDeltaAKeys = keys[0]]
      /\ SendE(BlockDiff(choices, [i \in Batch |-> AndAllBits(gb.y[i], gb.delta)]))

YDeltaADiff ==
  /\ EvaluatorStep("yDeltaADiff", "proofY")
  /\ ReadE
  /\ ev' = [ev EXCEPT !.yDeltaAKeys = FixedBlockKeys(Only(@), Only(ev.delta), Head(toE))[0]]

ProofY ==
  LET key == RandomBlock(setup.seed, "proofY", 0, 0)
      block == RandomBlock(setup.seed, "proofYBlock", 0, 0)
      seed == RandomBlock(setup.seed, "proofYSeed", 0, 0)
  IN  /\ Together("proofY", "proveY", "proofY", "verifyY")
      /\ ev' = [ev EXCEPT !.proofKey = key, !.chal = Challenges(seed)]
      /\ gb' = [gb EXCEPT !.proofMask =
                  [block |-> block, mac |-> key \oplus GfMul(block, ev.delta)]]
      /\ SendG(seed)

ProveY ==
  /\ GarblerStep("proveY", "recvYLsbs")
  /\ toG # <<>> /\ toG' = Tail(toG)
  /\ toE' = Append(toE,
       Proof(BitsTimes(gb.y, gb.yMacs, gb.delta, gb.authedDeltaA, gb.yDeltaAMacs),
             Head(toG), gb.proofMask))
  /\ UNCHANGED gb

VerifyY ==
  LET b == B(Batch, ev.chal, KeysTimes(ev.yKeys, ev.deltaAKey, ev.yDeltaAKeys), ev.proofKey,
             ev.delta)
  IN  /\ ReadE
      /\ EvaluatorStep("verifyY", Unless(Accepts(b, Head(toE), ev.delta), "sendYLsbs"))
      /\ UNCHANGED ev

SendYLsbs ==
  /\ EvaluatorStep("sendYLsbs", "compare")
  /\ SendG(Lsbs(ev.yDeltaAKeys))
  /\ UNCHANGED ev

RecvYLsbs ==
  /\ ReadG
  /\ GarblerStep("recvYLsbs",
       Unless(Head(toG) = ExpectedLsbs(gb.yDeltaAMacs, gb.y), "compare"))
  /\ UNCHANGED gb

(***************************************************************************)
(* 6f, 6g: both parties call compare_hash_low, which sends the high half   *)
(* of the hash and compares what it receives with the low half, and throw  *)
(* when it returns true.  Hashing is injective here, and no half of a hash *)
(* is the other half.                                                      *)
(***************************************************************************)
Half(half, block) == <<half, block>>

ComparedG == gb.deltaBKey \oplus gb.authedDeltaA

ComparedE == ev.deltaAKey \oplus ev.authedDeltaB

CompareSendG ==
  /\ GarblerStep("compare", "comparing")
  /\ SendE(Half("high", ComparedG))
  /\ UNCHANGED gb

CompareSendE ==
  /\ EvaluatorStep("compare", "comparing")
  /\ SendG(Half("high", ComparedE))
  /\ UNCHANGED ev

CompareRecvG ==
  LET equal == Head(toG) = Half("low", ComparedG)
  IN  /\ ReadG
      /\ GarblerStep("comparing", Unless(~equal, "sampled"))
      /\ gb' = [gb EXCEPT !.equal = equal]

CompareRecvE ==
  LET equal == Head(toE) = Half("low", ComparedE)
  IN  /\ ReadE
      /\ EvaluatorStep("comparing", Unless(~equal, "sampled"))
      /\ ev' = [ev EXCEPT !.equal = equal]

-----------------------------------------------------------------------------
Correlated == U \/ DeltaB \/ X \/ XDeltaB \/ ProofX \/ DeltaA \/ Y \/ YDeltaA \/ ProofY

Garbler ==
  \/ SendULsbs \/ DeltaBDiff \/ RecvLsbG \/ XDeltaBDiff \/ VerifyX \/ SendXLsbs
  \/ ProveY \/ RecvYLsbs \/ CompareSendG \/ CompareRecvG

Evaluator ==
  \/ RecvULsbs \/ SendLsb \/ RecvLsbE \/ ProveX \/ RecvXLsbs \/ DeltaADiff
  \/ YDeltaADiff \/ VerifyY \/ SendYLsbs \/ CompareSendE \/ CompareRecvE

Sampled == gpc = "sampled" /\ epc = "sampled"

Aborted == "abort" \in {gpc, epc}

Next == Correlated \/ Garbler \/ Evaluator \/ ((Sampled \/ Aborted) /\ UNCHANGED vars)

(* Two live processes and their OT: each keeps running. *)
Fairness == WF_vars(Correlated) /\ WF_vars(Garbler) /\ WF_vars(Evaluator)

Spec == Init /\ [][Next]_vars /\ Fairness

-----------------------------------------------------------------------------
(* The global keys and the shares of their product. *)
TypeOK ==
  /\ gb.delta \in Block /\ ev.delta \in Block
  /\ gb.alpha0 \in Block \cup {Unset} /\ ev.beta0 \in Block \cup {Unset}
  /\ Len(toG) <= 2 /\ Len(toE) <= 2

(* What the two constructors leave to preprocessing. *)
GlobalKeys ==
  [deltaA |-> gb.delta, deltaB |-> ev.delta, alpha0 |-> gb.alpha0, beta0 |-> ev.beta0]

(***************************************************************************)
(* From the moment both parties settled the flip, their local key and MAC  *)
(* share the product of the global keys, and its lowest bit is 1: both     *)
(* flip, or neither does.  Preprocess starts from keys of which this holds.*)
(***************************************************************************)
KeysLegal == gb.alpha0 # Unset /\ ev.beta0 # Unset => LegalKeys(GlobalKeys)

(***************************************************************************)
(* Parties that follow the protocol pass the other's checks of the lowest  *)
(* bits and of the products.                                               *)
(***************************************************************************)
NoFalseAlarm == ~Aborted

(* Both constructors return. *)
Termination == <>Sampled

(***************************************************************************)
(* compare_hash_low returns true if the check passes: for parties with the *)
(* same data it does.                                                      *)
(***************************************************************************)
SameDataCompareEqual ==
  Sampled /\ ComparedG = ComparedE => gb.equal /\ ev.equal
=============================================================================
