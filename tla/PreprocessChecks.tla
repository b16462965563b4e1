-------------------------- MODULE PreprocessChecks --------------------------
(***************************************************************************)
(* The consistency checks that end the two preprocess functions: the       *)
(* lambdas check_delta and check_beaver_triple, with the sub-protocols     *)
(* they call (DVZK.hpp, authed_bit.cpp, util_protocols.cpp).               *)
(*                                                                         *)
(* gck and eck hold the objects of the checks.  The program counters gpc   *)
(* and epc of Preprocess continue from "check"; a party that throws is at  *)
(* "abort".  check_same_bit, eqcheck_diff_key and the hash comparisons     *)
(* are called more than once: the field round of a party says for what it  *)
(* is in one of them.                                                      *)
(***************************************************************************)
EXTENDS Preprocess, DVZK

CONSTANTS
  Challenge(_, _),    \* of emp::PRG with a seed, by position
  ByteSize            \* the bits of a byte

VARIABLES gck, eck

allVars == <<vars, gck, eck>>

ASSUME ChallengeAssumption ==
  \A s \in Setups : \A seed \in Block :
    \A k \in AndIndices(s.circuit) \cup Below(CompressParam(EvaluatorWires(s.circuit))) :
      Challenge(seed, k) \in Block

(* The random blocks and the local keys that the checks draw are blocks. *)
ASSUME CheckRandomnessAssumption ==
  \A s \in Setups : \A i \in Below(CompressParam(EvaluatorWires(s.circuit))) :
    \A name \in {"proverG", "proverGBlock", "verifierSeedE", "proverE", "proverEBlock",
                 "verifierSeedG", "dualProof", "dualProofBlock", "dualSeed", "sid3",
                 "sid3Choice", "eq0", "eq0Choices", "eq1", "eq1Choices", "r", "rKey",
                 "dualRKey", "dualRChoice", "tossG", "tossE"} :
      RandomBlock(s.seed, name, 0, i) \in Block

GarblerChecks ==
  {"round", "mask", "seed", "maskKey", "chal", "dualKey", "key3", "eqKeys1", "eqKeys0",
   "rKey", "dualRKey", "toss", "peerCommitment", "y", "beaver1", "beaver2"}

EvaluatorChecks ==
  {"round", "mask", "seed", "maskKey", "chal", "dualMask", "dualSeed", "mac3", "eqMacs1",
   "eqMacs0", "r", "rMac", "dualRMac", "toss", "peerCommitment", "y", "beaver1", "beaver2"}

CheckInit ==
  /\ Init
  /\ gck = Unconstructed(GarblerChecks)
  /\ eck = Unconstructed(EvaluatorChecks)

ands == AndIndices(circuit)
andGate(k) == circuit.gates[AndGateAt(circuit, k)]

RandomSeed(name) == RandomBlock(setup.seed, name, 0, 0)

Challenges(seed, S) == [k \in S |-> Challenge(seed, k)]

(* A party's own step, and a step of both. *)
GarblerCheck(from, to) == GarblerStep(from, to) /\ UNCHANGED <<gb, eck>>
EvaluatorCheck(from, to) == EvaluatorStep(from, to) /\ UNCHANGED <<ev, gck>>
TogetherCheck(gFrom, gTo, eFrom, eTo) == Together(gFrom, gTo, eFrom, eTo) /\ UNCHANGED <<gb, ev>>

-----------------------------------------------------------------------------
(***************************************************************************)
(* The AND gates' products: each party proves that authedAndedMasks are    *)
(* the products of its masks.  Two DVZK::Prover and two DVZK::Verifier.    *)
(***************************************************************************)
MaskStatement(p, anded, andedMacs) ==
  [x |-> [k \in ands |-> BitBlock(p.masks[andGate(k).in0])],
   y |-> [k \in ands |-> BitBlock(p.masks[andGate(k).in1])],
   macX |-> [k \in ands |-> p.macs[andGate(k).in0]],
   macY |-> [k \in ands |-> p.macs[andGate(k).in1]],
   macZ |-> andedMacs]

MaskKeys(p, andedKeys) ==
  [keyX |-> [k \in ands |-> p.keys[andGate(k).in0]],
   keyY |-> [k \in ands |-> p.keys[andGate(k).in1]],
   keyZ |-> andedKeys]

(* The garbler's prover: a random block under deltaB, then the seed. *)
ProverG ==
  LET key == RandomBlock(setup.seed, "proverG", 0, 0)
      block == RandomBlock(setup.seed, "proverGBlock", 0, 0)
      seed == RandomSeed("verifierSeedE")
  IN  /\ TogetherCheck("check", "seed", "check", "proverE")
      /\ gck' = [gck EXCEPT !.mask = [block |-> block, mac |-> key \oplus GfMul(block, deltaB)]]
      /\ eck' = [eck EXCEPT !.maskKey = key, !.chal = Challenges(seed, ands)]
      /\ SendG(seed)

RecvSeedG ==
  /\ GarblerCheck("seed", "proverE")
  /\ ReadG
  /\ gck' = [gck EXCEPT !.seed = Head(toG)]

ProverE ==
  LET key == RandomBlock(setup.seed, "proverE", 0, 0)
      block == RandomBlock(setup.seed, "proverEBlock", 0, 0)
      seed == RandomSeed("verifierSeedG")
  IN  /\ TogetherCheck("proverE", "prove", "proverE", "seed")
      /\ eck' = [eck EXCEPT !.mask = [block |-> block, mac |-> key \oplus GfMul(block, deltaA)]]
      /\ gck' = [gck EXCEPT !.maskKey = key, !.chal = Challenges(seed, ands)]
      /\ SendE(seed)

RecvSeedE ==
  /\ EvaluatorCheck("seed", "verify")
  /\ ReadE
  /\ eck' = [eck EXCEPT !.seed = Head(toE)]

ProofOf(statement, seed, mask) ==
  [a0 |-> A0(ands, Challenges(seed, ands), statement, mask),
   a1 |-> A1(ands, Challenges(seed, ands), statement, mask)]

(* Mutant: the MACs under the first key of sid2, beta0. *)
ProveGFirstKey ==
  /\ GarblerCheck("prove", "verify")
  /\ SendE(ProofOf(MaskStatement(gb.populated, gb.anded, gb.andedMacs[0]), gck.seed, gck.mask))
  /\ UNCHANGED gck

ProveG ==
  /\ GarblerCheck("prove", "verify")
  /\ SendE(ProofOf(MaskStatement(gb.populated, gb.anded, gb.andedMacs[1]), gck.seed, gck.mask))
  /\ UNCHANGED gck

VerifyE ==
  LET b == B(ands, eck.chal, MaskKeys(ev.populated, ev.garblerAndedKeys[1]), eck.maskKey, deltaB)
  IN  /\ ReadE
      /\ EvaluatorCheck("verify", Unless(Accepts(b, Head(toE), deltaB), "prove"))
      /\ UNCHANGED eck

ProveE ==
  /\ EvaluatorCheck("prove", "dualProof")
  /\ SendG(ProofOf(MaskStatement(ev.populated, ev.anded, ev.andedMacs), eck.seed, eck.mask))
  /\ UNCHANGED eck

VerifyG ==
  LET b == B(ands, gck.chal, MaskKeys(gb.populated, gb.evaluatorAndedKeys), gck.maskKey, deltaA)
  IN  /\ ReadG
      /\ GarblerCheck("verify", Unless(Accepts(b, Head(toG), deltaA), "dualProof"))
      /\ UNCHANGED gck

(***************************************************************************)
(* DVZK::prove and DVZK::verify: bStar * deltaB = dualAuthedBStar.  The    *)
(* evaluator's MAC of deltaB is beta0, the garbler's key alpha0.           *)
(***************************************************************************)
DualProof ==
  LET key == RandomBlock(setup.seed, "dualProof", 0, 0)
      block == RandomBlock(setup.seed, "dualProofBlock", 0, 0)
      seed == RandomSeed("dualSeed")
  IN  /\ TogetherCheck("dualProof", "verifyDual", "dualProof", "dualSeed")
      /\ eck' = [eck EXCEPT !.dualMask =
                   [block |-> block, mac |-> key \oplus GfMul(block, deltaA)]]
      /\ gck' = [gck EXCEPT !.dualKey = key, !.chal = Challenges(seed, Below(L))]
      /\ SendE(seed)

ProveDual ==
  LET S == Below(L)
      statement == [x |-> [l \in S |-> BitBlock(ev.bStar[l])], y |-> [l \in S |-> deltaB],
                    macX |-> ev.bStarMacs, macY |-> [l \in S |-> setup.beta0],
                    macZ |-> ev.dualMacs]
      chal == Challenges(Head(toE), S)
  IN  /\ EvaluatorCheck("dualSeed", "sid3")
      /\ toE # <<>>
      /\ toE' = Tail(toE)
      /\ toG' = Append(toG, [a0 |-> A0(S, chal, statement, eck.dualMask),
                             a1 |-> A1(S, chal, statement, eck.dualMask)])
      /\ UNCHANGED eck

VerifyDual ==
  LET S == Below(L)
      keys == [keyX |-> gb.bStarKeys, keyY |-> [l \in S |-> setup.alpha0],
               keyZ |-> gb.dualAuthedBStar]
      b == B(S, gck.chal, keys, gck.dualKey, deltaA)
  IN  /\ ReadG
      /\ GarblerCheck("verifyDual", Unless(Accepts(b, Head(toG), deltaA), "sid3"))
      /\ UNCHANGED gck

-----------------------------------------------------------------------------
(***************************************************************************)
(* sid3 authenticates deltaB once more, under tmpDelta.  Then deltaB has   *)
(* three authentications under tmpDelta; check_same_bit compares the first *)
(* with the second and the second with the third.  The first comes from    *)
(* step 4: values and keys exchanged, a MAC of tmpDelta under a global key *)
(* is a local key of that global key under tmpDelta.                       *)
(***************************************************************************)
BetaKeys == [l \in 0 .. L |-> gb.tmpDeltaMacs[l][0]]

BetaMacs == [l \in 0 .. L |-> ev.tmpDeltaKeys[l][0]]

Sid3 ==
  LET key == RandomBlock(setup.seed, "sid3", 0, 0)
      choice == RandomBlock(setup.seed, "sid3Choice", 0, 0)
  IN  /\ TogetherCheck("sid3", "sid3Diff", "sid3", "compare")
      /\ gck' = [gck EXCEPT !.key3 = key]
      /\ eck' = [eck EXCEPT !.mac3 = key \oplus GfMul(choice, gb.tmpDelta), !.round = "same1"]
      /\ SendG(choice \oplus deltaB)

Sid3Diff ==
  /\ GarblerCheck("sid3Diff", "compare")
  /\ ReadG
  /\ gck' = [gck EXCEPT !.key3 = @ \oplus GfMul(Head(toG), gb.tmpDelta), !.round = "same1"]

(***************************************************************************)
(* compare_hash_high of the garbler and compare_hash_low of the evaluator: *)
(* both hash a block of theirs, send one half of the hash and compare the  *)
(* other half with what they receive.  Hashing is injective here.          *)
(***************************************************************************)
Half(half, block) == <<half, block>>

ComparedG ==
  CASE gck.round = "same1" -> BetaKeys[L] \oplus gb.tmpDeltaMacs5[1][0]
    [] gck.round = "same2" -> gb.tmpDeltaMacs5[1][0] \oplus gck.key3
    [] gck.round = "beaver1" ->
         (InnerProduct(ands, Challenges(gck.toss, ands), gb.sums) \oplus gck.dualRKey)
           \oplus GfMul(gck.y, setup.alpha0)
    [] gck.round = "beaver2" ->
         (InnerProduct(ands, Challenges(gck.toss, ands),
            [k \in ands |-> gb.tripleKeys[k] \oplus gb.evaluatorAndedKeys[k]]) \oplus gck.rKey)
           \oplus GfMul(gck.y, deltaA)

ComparedE ==
  CASE eck.round = "same1" -> BetaMacs[L] \oplus ev.tmpDeltaKeys5[1][0]
    [] eck.round = "same2" -> ev.tmpDeltaKeys5[1][0] \oplus eck.mac3
    [] eck.round = "beaver1" ->
         (InnerProduct(ands, Challenges(eck.toss, ands), ev.sums) \oplus eck.dualRMac)
           \oplus GfMul(eck.y, setup.beta0)
    [] eck.round = "beaver2" ->
         InnerProduct(ands, Challenges(eck.toss, ands),
           [k \in ands |-> ev.tripleMacs[k] \oplus ev.andedMacs[k]]) \oplus eck.rMac

(* What a comparison leads to.  check_same_bit's two results are joined by *)
(* && and a false one makes the caller throw; check_beaver_triple drops    *)
(* its results.                                                            *)
Compared(c, ok) ==
  CASE c.round = "same1" -> [c EXCEPT !.round = "same2"]
    [] c.round = "same2" -> [c EXCEPT !.round = "delta"]
    [] c.round = "beaver1" -> [c EXCEPT !.round = "beaver2", !.beaver1 = ok]
    [] c.round = "beaver2" -> [c EXCEPT !.round = Unset, !.beaver2 = ok]

AfterCompare(c, ok) ==
  CASE c.round = "same1" -> Unless(ok, "compare")
    [] c.round = "same2" -> Unless(ok, "eq0")
    [] c.round = "beaver1" -> "compare"
    [] c.round = "beaver2" -> "done"

CompareSendG ==
  /\ GarblerCheck("compare", "comparing")
  /\ SendE(Half("low", ComparedG))
  /\ UNCHANGED gck

CompareSendE ==
  /\ EvaluatorCheck("compare", "comparing")
  /\ SendG(Half("high", ComparedE))
  /\ UNCHANGED eck

CompareRecvG ==
  LET ok == Head(toG) = Half("high", ComparedG)
  IN  /\ ReadG
      /\ GarblerCheck("comparing", AfterCompare(gck, ok))
      /\ gck' = Compared(gck, ok)

CompareRecvE ==
  LET ok == Head(toE) = Half("low", ComparedE)
  IN  /\ ReadE
      /\ EvaluatorCheck("comparing", AfterCompare(eck, ok))
      /\ eck' = Compared(eck, ok)

-----------------------------------------------------------------------------
(***************************************************************************)
(* eqcheck_diff_key: the same values under two global keys.  Round "delta" *)
(* compares deltaB under deltaA and under tmpDelta; round "bStar" compares *)
(* the MACs of dualAuthedBStar, which become values under the inverse of   *)
(* deltaA, with their authentication under tmpDelta.  The evaluator fixes  *)
(* its MACs of each side under the global key of the other side.           *)
(***************************************************************************)
EqSize == IF eck.round = "delta" THEN 1 ELSE L

(* The evaluator's MACs; inverse_value_and_mac exchanged MACs and values.  *)
EqMacs ==
  IF eck.round = "delta"
  THEN <<[i \in {0} |-> setup.beta0], [i \in {0} |-> eck.mac3]>>
  ELSE <<[l \in Below(L) |-> AndAllBits(ev.bStar[l], deltaB)],
         [l \in Below(L) |-> BetaMacs[l]]>>

(* Mutant: the global key stays, only the local keys are divided. *)
EqGlobalNotInverted == <<deltaA, gb.tmpDelta>>

(* The garbler's global keys and local keys. *)
EqGlobal ==
  IF gck.round = "delta" THEN <<deltaA, gb.tmpDelta>> ELSE <<GfInverse(deltaA), gb.tmpDelta>>

EqKeys ==
  IF gck.round = "delta"
  THEN <<[i \in {0} |-> setup.alpha0], [i \in {0} |-> gck.key3]>>
  ELSE <<[l \in Below(L) |-> GfMul(gb.dualAuthedBStar[l], GfInverse(deltaA))],
         [l \in Below(L) |-> BetaKeys[l]]>>

(* sha256 of the first size bytes of size blocks: an injective function of *)
(* these bits, counted as (block, bit).                                    *)
HashedBits(size) ==
  {ip \in Below(size) \X BlockBits :
     ip[1] * Cardinality(BlockBits) + ip[2] < size * ByteSize}

Digest(size, blocks) == {ip \in HashedBits(size) : ip[2] \in blocks[ip[1]]}

(* authedMacs1, under the global key of the first argument. *)
Eq0 ==
  LET deltas == Only(EqGlobal[1])
      keys == RandomKeys("eq0", deltas, EqSize)
      choices == RandomBlocks("eq0Choices", EqSize)
  IN  /\ TogetherCheck("eq0", "eq0Diff", "eq0", "eq1")
      /\ gck' = [gck EXCEPT !.eqKeys1 = keys[0]]
      /\ eck' = [eck EXCEPT !.eqMacs1 = BlockMacs(keys, deltas, choices)[0]]
      /\ SendG(BlockDiff(choices, EqMacs[2]))

Eq0Diff ==
  /\ GarblerCheck("eq0Diff", "eq1")
  /\ ReadG
  /\ gck' = [gck EXCEPT !.eqKeys1 = FixedBlockKeys(Only(@), Only(EqGlobal[1]), Head(toG))[0]]

Eq1 ==
  LET deltas == Only(EqGlobal[2])
      keys == RandomKeys("eq1", deltas, EqSize)
      choices == RandomBlocks("eq1Choices", EqSize)
  IN  /\ TogetherCheck("eq1", "eq1Diff", "eq1", "digest")
      /\ gck' = [gck EXCEPT !.eqKeys0 = keys[0]]
      /\ eck' = [eck EXCEPT !.eqMacs0 = BlockMacs(keys, deltas, choices)[0]]
      /\ SendG(BlockDiff(choices, EqMacs[1]))

Eq1Diff ==
  /\ GarblerCheck("eq1Diff", "digest")
  /\ ReadG
  /\ gck' = [gck EXCEPT !.eqKeys0 = FixedBlockKeys(Only(@), Only(EqGlobal[2]), Head(toG))[0]]

(* After the first call the second, after it the triples, if there is one. *)
AfterEq(c) == IF c.round = "delta" THEN "eq0" ELSE IF ands = {} THEN "done" ELSE "authedR"

NextEq(c) == [c EXCEPT !.round = IF @ = "delta" THEN "bStar" ELSE "beaver1"]

SendDigest ==
  /\ EvaluatorCheck("digest", AfterEq(eck))
  /\ SendG(Digest(EqSize, [i \in Below(EqSize) |-> eck.eqMacs0[i] \oplus eck.eqMacs1[i]]))
  /\ eck' = NextEq(eck)

RecvDigest ==
  LET size == Cardinality(DOMAIN gck.eqKeys0)
      term(i) == (gck.eqKeys0[i] \oplus gck.eqKeys1[i])
                   \oplus (GfMul(EqKeys[1][i], EqGlobal[2]) \oplus GfMul(EqKeys[2][i], EqGlobal[1]))
      ok == Head(toG) = Digest(size, [i \in Below(size) |-> term(i)])
  IN  /\ ReadG
      /\ GarblerCheck("digest", Unless(ok, AfterEq(gck)))
      /\ gck' = NextEq(gck)

-----------------------------------------------------------------------------
(***************************************************************************)
(* check_beaver_triple: a random r and r * deltaB, a seed both toss, and   *)
(* the evaluator's combination y of its tmpBeaverTripleLsb.                *)
(***************************************************************************)
AuthedR ==
  LET r == RandomBlock(setup.seed, "r", 0, 0)
      key == RandomBlock(setup.seed, "rKey", 0, 0)
  IN  /\ TogetherCheck("authedR", "dualR", "authedR", "dualR")
      /\ gck' = [gck EXCEPT !.rKey = key]
      /\ eck' = [eck EXCEPT !.r = r, !.rMac = key \oplus GfMul(r, deltaA)]
      /\ Quiet

DualR ==
  LET key == RandomBlock(setup.seed, "dualRKey", 0, 0)
      choice == RandomBlock(setup.seed, "dualRChoice", 0, 0)
  IN  /\ TogetherCheck("dualR", "dualRDiff", "dualR", "commit")
      /\ gck' = [gck EXCEPT !.dualRKey = key]
      /\ eck' = [eck EXCEPT !.dualRMac = key \oplus GfMul(choice, deltaA)]
      /\ SendG(choice \oplus GfMul(eck.r, deltaB))

DualRDiff ==
  /\ GarblerCheck("dualRDiff", "commit")
  /\ ReadG
  /\ gck' = [gck EXCEPT !.dualRKey = @ \oplus GfMul(Head(toG), deltaA)]

(* toss_random_block; the commitment is a hash. *)
Commitment(block) == <<"commitment", block>>

CommitG ==
  /\ GarblerCheck("commit", "reveal")
  /\ gck' = [gck EXCEPT !.toss = RandomSeed("tossG")]
  /\ SendE(Commitment(gck'.toss))

CommitE ==
  /\ EvaluatorCheck("commit", "reveal")
  /\ eck' = [eck EXCEPT !.toss = RandomSeed("tossE")]
  /\ SendG(Commitment(eck'.toss))

RevealG ==
  /\ GarblerCheck("reveal", "tossed")
  /\ toG # <<>> /\ toG' = Tail(toG)
  /\ gck' = [gck EXCEPT !.peerCommitment = Head(toG)]
  /\ toE' = Append(toE, gck.toss)

RevealE ==
  /\ EvaluatorCheck("reveal", "tossed")
  /\ toE # <<>> /\ toE' = Tail(toE)
  /\ eck' = [eck EXCEPT !.peerCommitment = Head(toE)]
  /\ toG' = Append(toG, eck.toss)

(* Mutant: the peer's block instead of the XOR. *)
TossedGPeerOnly ==
  /\ ReadG
  /\ GarblerCheck("tossed", Unless(gck.peerCommitment = Commitment(Head(toG)), "recvY"))
  /\ gck' = [gck EXCEPT !.toss = Head(toG)]

TossedG ==
  /\ ReadG
  /\ GarblerCheck("tossed", Unless(gck.peerCommitment = Commitment(Head(toG)), "recvY"))
  /\ gck' = [gck EXCEPT !.toss = @ \oplus Head(toG)]

TossedE ==
  /\ ReadE
  /\ EvaluatorCheck("tossed", Unless(eck.peerCommitment = Commitment(Head(toE)), "sendY"))
  /\ eck' = [eck EXCEPT !.toss = @ \oplus Head(toE)]

(* tmpBeaverTripleLsb: the evaluator's own half of tilde b. *)
CombinedLsb(chal) ==
  XorOver(ands, [k \in ands |-> AndAllBits(GetLSB(ev.sums[k]), chal[k])])

SendY ==
  /\ EvaluatorCheck("sendY", "compare")
  /\ eck' = [eck EXCEPT !.y = eck.r \oplus CombinedLsb(Challenges(eck.toss, ands))]
  /\ SendG(eck'.y)

RecvY ==
  /\ GarblerCheck("recvY", "compare")
  /\ ReadG
  /\ gck' = [gck EXCEPT !.y = Head(toG)]

-----------------------------------------------------------------------------
CorrelatedChecks ==
  \/ ProverG \/ ProverE \/ DualProof \/ Sid3 \/ Eq0 \/ Eq1 \/ AuthedR \/ DualR

GarblerChecking ==
  \/ RecvSeedG \/ ProveG \/ VerifyG \/ VerifyDual \/ Sid3Diff \/ CompareSendG
  \/ CompareRecvG \/ Eq0Diff \/ Eq1Diff \/ RecvDigest \/ DualRDiff \/ CommitG
  \/ RevealG \/ TossedG \/ RecvY

EvaluatorChecking ==
  \/ RecvSeedE \/ VerifyE \/ ProveE \/ ProveDual \/ CompareSendE \/ CompareRecvE
  \/ SendDigest \/ CommitE \/ RevealE \/ TossedE \/ SendY

Preparing == (Correlated \/ Garbler \/ Evaluator) /\ UNCHANGED <<gck, eck>>

Done == gpc = "done" /\ epc = "done"

Aborted == "abort" \in {gpc, epc}

CheckNext ==
  \/ Preparing \/ CorrelatedChecks \/ GarblerChecking \/ EvaluatorChecking
  \/ (Done \/ Aborted) /\ UNCHANGED allVars

CheckFairness ==
  /\ WF_allVars(Preparing) /\ WF_allVars(CorrelatedChecks)
  /\ WF_allVars(GarblerChecking) /\ WF_allVars(EvaluatorChecking)

CheckSpec == CheckInit /\ [][CheckNext]_allVars /\ CheckFairness

-----------------------------------------------------------------------------
(***************************************************************************)
(* Two honest parties: none of the checks that throw fails ("Malicious     *)
(* behavior detected", the DVZK verifiers, check_same_bit, the equality    *)
(* checks and the commitments), however the parties interleave.            *)
(***************************************************************************)
NoFalseAlarm == ~Aborted

(***************************************************************************)
(* Both preprocess functions return, checks included.                      *)
(***************************************************************************)
ChecksEnd == <>Done

(***************************************************************************)
(* toss_random_block, which each party runs with the messages of the other *)
(* in the middle of its own, gives both the same block: the challenges of  *)
(* check_beaver_triple are those of one vector.                            *)
(***************************************************************************)
SameToss ==
  gpc \in {"recvY", "done"} /\ epc \in {"sendY", "compare", "comparing", "done"} =>
    gck.toss = eck.toss

(***************************************************************************)
(* The comparisons of check_beaver_triple succeed for honest parties.      *)
(***************************************************************************)
BeaverComparesEqual ==
  \A ok \in {gck.beaver1, gck.beaver2, eck.beaver1, eck.beaver2} : ok \in {Unset, TRUE}
=============================================================================
