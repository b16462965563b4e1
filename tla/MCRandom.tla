------------------------------ MODULE MCRandom -------------------------------
(***************************************************************************)
(* The randomness of the protocols over correlated OTs, for model          *)
(* checking: fixed functions that mix a seed, the name of the object that  *)
(* uses the randomness and a position.                                     *)
(***************************************************************************)
EXTENDS MCField

Names ==
  <<"matrix", "bStar", "dualBStar", "dualBStarChoices", "aMatrix", "tmpDelta",
    "tmpDeltaChoices", "tmpDeltaValue", "triple", "tmpDelta5", "tmpDelta5Choices",
    "evaluatorAnded", "garblerAnded", "beaverTriple",
    "proverG", "proverGBlock", "verifierSeedE", "proverE", "proverEBlock", "verifierSeedG",
    "dualProof", "dualProofBlock", "dualSeed", "sid3", "sid3Choice", "eq0", "eq0Choices",
    "eq1", "eq1Choices", "r", "rKey", "dualRKey", "dualRChoice", "tossG", "tossE",
    "u", "deltaB", "deltaBChoice", "x", "xDeltaB", "xDeltaBChoices", "proofX", "proofXBlock",
    "proofXSeed", "deltaA", "deltaAChoice", "y", "yDeltaA", "yDeltaAChoices", "proofY",
    "proofYBlock", "proofYSeed">>

NameNumber(name) == CHOOSE n \in DOMAIN Names : Names[n] = name

MCRandomBlock(seed, name, d, i) == Mix(29 * seed + 13 * NameNumber(name) + 5 * d + 17 * i + 3)

MCRandomBit(seed, name, i) ==
  ((seed * seed * 7 + 11 * seed + NameNumber(name) * 19 + i * i * 5 + i * 3) % 31) % 2 = 1

(* Challenges drawn from a seed. *)
MCChallenge(seed, k) == Mix(11 * Num(seed) + 7 * k + 2)
=============================================================================
