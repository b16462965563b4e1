---------------------- MODULE GlobalKeySampling_proofs ----------------------
(***************************************************************************)
(* Proofs about GlobalKeySampling, for every block width, field, random    *)
(* choice and number of bits of statistical security: what the two         *)
(* constructors leave are legal keys, and no check of theirs fails.        *)
(***************************************************************************)
EXTENDS GlobalKeySampling, Common_proofs

(***************************************************************************)
(* The inductive invariant.                                                *)
(***************************************************************************)

(* Where both parties can be, and how many messages are on their way.      *)
Locations ==
  {<<"u", "u", 0, 0>>, <<"sendULsbs", "recvULsbs", 0, 0>>, <<"deltaB", "recvULsbs", 0, 1>>,
   <<"deltaB", "deltaB", 0, 0>>, <<"deltaB", "abort", 0, 0>>}
  \cup
  {<<"deltaBDiff", "sendLsb", 1, 0>>, <<"deltaBDiff", "recvLsb", 2, 0>>,
   <<"recvLsb", "sendLsb", 0, 1>>, <<"recvLsb", "recvLsb", 1, 1>>, <<"x", "recvLsb", 0, 1>>,
   <<"recvLsb", "x", 1, 0>>}
  \cup
  {<<"x", "x", 0, 0>>, <<"xDeltaB", "xDeltaB", 0, 0>>, <<"xDeltaBDiff", "proofX", 1, 0>>,
   <<"proofX", "proofX", 0, 0>>, <<"verifyX", "proveX", 0, 1>>, <<"verifyX", "recvXLsbs", 1, 0>>,
   <<"sendXLsbs", "recvXLsbs", 0, 0>>, <<"abort", "recvXLsbs", 0, 0>>,
   <<"deltaA", "recvXLsbs", 0, 1>>, <<"deltaA", "deltaA", 0, 0>>, <<"deltaA", "abort", 0, 0>>}
  \cup
  {<<"y", "deltaADiff", 0, 1>>, <<"y", "y", 0, 0>>, <<"yDeltaA", "yDeltaA", 0, 0>>,
   <<"proofY", "yDeltaADiff", 0, 1>>, <<"proofY", "proofY", 0, 0>>, <<"proveY", "verifyY", 1, 0>>,
   <<"recvYLsbs", "verifyY", 0, 1>>, <<"recvYLsbs", "sendYLsbs", 0, 0>>,
   <<"recvYLsbs", "abort", 0, 0>>}
  \cup
  {<<"recvYLsbs", "compare", 1, 0>>, <<"recvYLsbs", "comparing", 2, 0>>,
   <<"compare", "compare", 0, 0>>, <<"compare", "comparing", 1, 0>>,
   <<"comparing", "compare", 0, 1>>, <<"comparing", "comparing", 1, 1>>,
   <<"abort", "compare", 0, 0>>, <<"abort", "comparing", 1, 0>>}
  \cup
  {<<g, "comparing", 0, 1>> : g \in {"sampled", "abort"}}
  \cup
  {<<"comparing", e, 1, 0>> : e \in {"sampled", "abort"}}
  \cup
  {<<g, e, 0, 0>> : g \in {"sampled", "abort"}, e \in {"sampled", "abort"}}

Control ==
  \E m, n \in 0 .. 2 :
    Holds(toG, m) /\ Holds(toE, n) /\ <<gpc, epc, m, n>> \in Locations

(* Both parties' objects under their names; the keys. *)
Objects ==
  /\ setup \in Setups
  /\ gb = [name \in GarblerObjects |-> gb[name]]
  /\ ev = [name \in EvaluatorObjects |-> ev[name]]
  /\ gb.delta \in Block /\ GetLSB(gb.delta) /\ ev.delta \in Block

(* Legal keys: shares of a product whose lowest bit is 1. *)
Settled(alpha, beta, deltaA, deltaB) ==
  /\ alpha \in Block /\ beta \in Block /\ deltaB \in Block
  /\ alpha \oplus beta = GfMul(deltaA, deltaB) /\ GetLSB(GfMul(deltaA, deltaB))

(***************************************************************************)
(* How far the keys are: before the evaluator's key is authenticated,      *)
(* while one or the other party has yet to see whether to flip, and after. *)
(***************************************************************************)
BeforeKeys ==
  /\ gpc \in {"u", "sendULsbs", "deltaB"} /\ epc \in {"u", "recvULsbs", "deltaB", "abort"}
  /\ gb.alpha0 = Unset /\ ev.beta0 = Unset

(* What the garbler still has to read is the difference of the evaluator's *)
(* choice and key.                                                         *)
DiffOnItsWay ==
  /\ gpc = "deltaBDiff" /\ epc \in {"sendLsb", "recvLsb"}
  /\ gb.alpha0 = Unset /\ ev.beta0 = Unset
  /\ gb.deltaBKey \in Block /\ toG[1] \in Block
  /\ ev.authedDeltaB = gb.deltaBKey \oplus GfMul(toG[1] \oplus ev.delta, gb.delta)
  /\ epc = "recvLsb" => toG[2] = GetLSB(ev.authedDeltaB)

KeyAuthentic ==
  /\ gpc = "recvLsb" /\ epc \in {"sendLsb", "recvLsb"}
  /\ gb.alpha0 = Unset /\ ev.beta0 = Unset
  /\ gb.deltaBKey \in Block /\ ev.authedDeltaB \in Block
  /\ gb.deltaBKey \oplus ev.authedDeltaB = GfMul(gb.delta, ev.delta)
  /\ toE[1] = GetLSB(gb.deltaBKey)
  /\ epc = "recvLsb" => toG[1] = GetLSB(ev.authedDeltaB)

GarblerFlipped ==
  /\ gpc = "x" /\ epc = "recvLsb" /\ ev.beta0 = Unset
  /\ LET flip == GetLSB(ev.authedDeltaB) = toE[1]
     IN  Settled(gb.alpha0, ev.authedDeltaB, gb.delta,
                 IF flip THEN FlippedBlock(ev.delta) ELSE ev.delta)

EvaluatorFlipped ==
  /\ gpc = "recvLsb" /\ epc = "x" /\ gb.alpha0 = Unset
  /\ LET flip == GetLSB(gb.deltaBKey) = toG[1]
     IN  Settled(IF flip THEN FlippedKey(gb.deltaBKey, gb.delta) ELSE gb.deltaBKey, ev.beta0,
                 gb.delta, ev.delta)

LateGarbler ==
  {"x", "xDeltaB", "xDeltaBDiff", "proofX", "verifyX", "sendXLsbs", "deltaA", "y", "yDeltaA",
   "proofY", "proveY", "recvYLsbs", "compare", "comparing", "sampled", "abort"}

LateEvaluator ==
  {"x", "xDeltaB", "proofX", "proveX", "recvXLsbs", "deltaA", "deltaADiff", "y", "yDeltaA",
   "yDeltaADiff", "proofY", "verifyY", "sendYLsbs", "compare", "comparing", "sampled", "abort"}

BothSettled ==
  /\ gpc \in LateGarbler /\ epc \in LateEvaluator
  /\ Settled(gb.alpha0, ev.beta0, gb.delta, ev.delta)

KeyStage ==
  \/ BeforeKeys \/ DiffOnItsWay \/ KeyAuthentic \/ GarblerFlipped \/ EvaluatorFlipped
  \/ BothSettled

IInv == Objects /\ Control /\ KeyStage

-----------------------------------------------------------------------------
(* The algebra of the flip. *)
LEMMA FlipMovesProduct ==
  ASSUME NEW a \in Block, GetLSB(a), NEW b \in Block
  PROVE  /\ FlippedBlock(b) \in Block
         /\ GfMul(a, FlippedBlock(b)) = GfMul(a, b) \oplus a
         /\ GetLSB(GfMul(a, FlippedBlock(b))) = ~GetLSB(GfMul(a, b))
<1>1. One \in Block
  BY BlockBitsAssumption DEF One, Block
<1>2. GfMul(a, One) = a
  BY <1>1, FieldAssumption, OneAssumption
<1>3. GfMul(a, b \oplus One) = GfMul(a, b) \oplus GfMul(a, One)
  BY <1>1, FieldAssumption
<1>4. GetLSB(GfMul(a, b) \oplus a) = ~GetLSB(GfMul(a, b))
  BY GetLSBXor DEF GetLSB
<1> QED  BY <1>1, <1>2, <1>3, <1>4, BlockType DEF FlippedBlock

(* With the flips that the lowest bits ask for the keys are settled. *)
LEMMA FlipSettles ==
  ASSUME NEW dA \in Block, GetLSB(dA), NEW dB \in Block,
         NEW k \in Block, NEW a \in Block, k \oplus a = GfMul(dA, dB)
  PROVE  LET flip == GetLSB(k) = GetLSB(a)
         IN  Settled(IF flip THEN FlippedKey(k, dA) ELSE k, a, dA,
                     IF flip THEN FlippedBlock(dB) ELSE dB)
<1>1. GetLSB(GfMul(dA, dB)) = (GetLSB(k) # GetLSB(a))
  BY GetLSBXor
<1>2. CASE GetLSB(k) = GetLSB(a)
  <2>1. (k \oplus dA) \oplus a = (k \oplus a) \oplus dA
    BY SMT DEF \oplus
  <2>2. k \oplus dA \in Block
    BY BlockType
  <2>3. /\ FlippedBlock(dB) \in Block
        /\ GfMul(dA, FlippedBlock(dB)) = GfMul(dA, dB) \oplus dA
        /\ GetLSB(GfMul(dA, FlippedBlock(dB))) = ~GetLSB(GfMul(dA, dB))
    BY FlipMovesProduct
  <2>4. Settled(FlippedKey(k, dA), a, dA, FlippedBlock(dB))
    BY <1>1, <1>2, <2>1, <2>2, <2>3 DEF Settled, FlippedKey
  <2> QED  BY <1>2, <2>4
<1>3. CASE GetLSB(k) # GetLSB(a)
  BY <1>1, <1>3 DEF Settled
<1> QED  BY <1>2, <1>3

(* The fix of a key that authenticates the choice. *)
LEMMA FixAuthenticates ==
  ASSUME NEW dA \in Block, NEW dB \in Block, NEW k \in Block, NEW diff \in Block
  PROVE  /\ k \oplus GfMul(diff, dA) \in Block /\ k \oplus GfMul(diff \oplus dB, dA) \in Block
         /\ (k \oplus GfMul(diff, dA)) \oplus (k \oplus GfMul(diff \oplus dB, dA))
              = GfMul(dA, dB)
<1> DEFINE x == GfMul(dA, diff)
           y == GfMul(dA, dB)
<1>1. /\ GfMul(diff \oplus dB, dA) = GfMul(dA, diff \oplus dB) /\ GfMul(diff, dA) = x
      /\ x \in Block /\ y \in Block /\ GfMul(dA, diff \oplus dB) = x \oplus y
  BY FieldAssumption, BlockType
<1> HIDE DEF x, y
<1>2. (k \oplus x) \oplus (k \oplus (x \oplus y)) = y
  BY SMT DEF \oplus
<1> QED  BY <1>1, <1>2, BlockType DEF y

-----------------------------------------------------------------------------
(***************************************************************************)
(* Control: every call finds what the other party sent for it, and what it *)
(* sends is the next thing the other reads.                                *)
(***************************************************************************)
LEMMA Moves ==
  ASSUME NEW m \in 0 .. 2, NEW n \in 0 .. 2, Holds(toG, m), Holds(toE, n)
  PROVE  /\ toG # <<>> /\ toG' = Tail(toG) => m \in {1, 2} /\ Holds(toG', m - 1)
         /\ toE # <<>> /\ toE' = Tail(toE) => n \in {1, 2} /\ Holds(toE', n - 1)
         /\ \A x : toG' = Append(toG, x) /\ m \in {0, 1} => Holds(toG', m + 1)
         /\ \A x : toE' = Append(toE, x) /\ n \in {0, 1} => Holds(toE', n + 1)
         /\ UNCHANGED toG => Holds(toG', m)
         /\ UNCHANGED toE => Holds(toE', n)
<1>1. /\ toG # <<>> => m \in {1, 2} /\ Holds(Tail(toG), m - 1)
      /\ toE # <<>> => n \in {1, 2} /\ Holds(Tail(toE), n - 1)
  BY QueueTail
<1>2. ASSUME NEW x
      PROVE  /\ m \in {0, 1} => Holds(Append(toG, x), m + 1)
             /\ n \in {0, 1} => Holds(Append(toE, x), n + 1)
  BY QueueAppend
<1> QED  BY <1>1, <1>2

LEMMA Reached ==
  ASSUME NEW m \in 0 .. 2, NEW n \in 0 .. 2, Holds(toG', m), Holds(toE', n),
         <<gpc', epc', m, n>> \in Locations
  PROVE  Control'
BY DEF Control

LEMMA CorrelatedControl == Control /\ Correlated => Control'
<1> SUFFICES ASSUME Correlated PROVE Control'
  OBVIOUS
<1>1. toG = <<>> /\ toE = <<>>
  BY DEF Correlated, U, DeltaB, X, XDeltaB, ProofX, DeltaA, Y, YDeltaA, ProofY, Together
<1>2. Holds(toG, 0) /\ Holds(toE, 0) /\ 0 \in 0 .. 2 /\ 1 \in 0 .. 2
  BY <1>1 DEF Holds
<1>3. /\ UNCHANGED toG => Holds(toG', 0)
      /\ UNCHANGED toE => Holds(toE', 0)
      /\ \A x : toG' = Append(toG, x) => Holds(toG', 0 + 1)
      /\ \A x : toE' = Append(toE, x) => Holds(toE', 0 + 1)
  BY <1>2, Moves
<1>4. CASE U \/ X \/ Y
  <2>1. UNCHANGED <<toG, toE>> /\ <<gpc', epc', 0, 0>> \in Locations
    BY <1>4 DEF U, X, Y, Together, Quiet, Locations
  <2> QED  BY <1>2, <1>3, <2>1, Reached
<1>5. CASE DeltaB \/ XDeltaB \/ ProofY
  <2>1. (\E x : toG' = Append(toG, x)) /\ UNCHANGED toE /\ <<gpc', epc', 1, 0>> \in Locations
    BY <1>5 DEF DeltaB, XDeltaB, ProofY, Together, SendG, Locations
  <2> QED  BY <1>2, <1>3, <2>1, Reached
<1>6. CASE ProofX \/ DeltaA \/ YDeltaA
  <2>1. (\E x : toE' = Append(toE, x)) /\ UNCHANGED toG /\ <<gpc', epc', 0, 1>> \in Locations
    BY <1>6 DEF ProofX, DeltaA, YDeltaA, Together, SendE, Locations
  <2> QED  BY <1>2, <1>3, <2>1, Reached
<1> QED  BY <1>4, <1>5, <1>6 DEF Correlated

LEMMA GarblerControl == Control /\ Garbler => Control'
<1> SUFFICES ASSUME Control, Garbler PROVE Control'
  OBVIOUS
<1>1. PICK m \in 0 .. 2, n \in 0 .. 2 :
        Holds(toG, m) /\ Holds(toE, n) /\ <<gpc, epc, m, n>> \in Locations
  BY DEF Control
<1>2. CASE SendULsbs \/ SendXLsbs \/ CompareSendG
  <2>1. /\ (\E x : toE' = Append(toE, x)) /\ UNCHANGED toG
        /\ n = 0 /\ <<gpc', epc', m, 1>> \in Locations
    BY <1>1, <1>2 DEF SendULsbs, SendXLsbs, CompareSendG, GarblerStep, SendE, Locations
  <2>2. Holds(toG', m) /\ Holds(toE', n + 1)
    BY <1>1, <2>1, Moves
  <2>3. Holds(toG', m) /\ Holds(toE', 1) /\ 1 \in 0 .. 2
    BY <2>1, <2>2
  <2> QED  BY <2>1, <2>3, Reached
<1>3. CASE RecvLsbG \/ XDeltaBDiff \/ VerifyX \/ RecvYLsbs \/ CompareRecvG
  <2>1. ReadG
    BY <1>3 DEF RecvLsbG, XDeltaBDiff, VerifyX, RecvYLsbs, CompareRecvG
  <2>2. m \in {1, 2} /\ Holds(toG', m - 1) /\ Holds(toE', n)
    BY <1>1, <2>1, Moves DEF ReadG
  <2>3. <<gpc', epc', m - 1, n>> \in Locations
    BY <1>1, <1>3, <2>2 DEF RecvLsbG, XDeltaBDiff, VerifyX, RecvYLsbs, CompareRecvG, GarblerStep,
       Unless, Locations
  <2> QED  BY <1>1, <2>2, <2>3, Reached
<1>4. CASE DeltaBDiff \/ ProveY
  <2>1. toG # <<>> /\ toG' = Tail(toG) /\ \E x : toE' = Append(toE, x)
    BY <1>4 DEF DeltaBDiff, ProveY
  <2>2. n = 0
    BY <1>1, <1>4 DEF DeltaBDiff, ProveY, GarblerStep, Locations
  <2>3. m \in {1, 2} /\ Holds(toG', m - 1) /\ Holds(toE', n + 1)
    BY <1>1, <2>1, <2>2, Moves
  <2>4. <<gpc', epc', m - 1, n + 1>> \in Locations
    BY <1>1, <1>4, <2>2, <2>3 DEF DeltaBDiff, ProveY, GarblerStep, Locations
  <2> QED  BY <2>2, <2>3, <2>4, Reached
<1> QED  BY <1>2, <1>3, <1>4 DEF Garbler

LEMMA EvaluatorControl == Control /\ Evaluator => Control'
<1> SUFFICES ASSUME Control, Evaluator PROVE Control'
  OBVIOUS
<1>1. PICK m \in 0 .. 2, n \in 0 .. 2 :
        Holds(toG, m) /\ Holds(toE, n) /\ <<gpc, epc, m, n>> \in Locations
  BY DEF Control
<1>2. CASE SendLsb \/ SendYLsbs \/ CompareSendE
  <2>1. /\ (\E x : toG' = Append(toG, x)) /\ UNCHANGED toE
        /\ m \in {0, 1} /\ <<gpc', epc', m + 1, n>> \in Locations
    BY <1>1, <1>2 DEF SendLsb, SendYLsbs, CompareSendE, EvaluatorStep, SendG, Locations
  <2>2. Holds(toG', m + 1) /\ Holds(toE', n)
    BY <1>1, <2>1, Moves
  <2>3. m + 1 \in 0 .. 2
    BY <2>1
  <2> QED  BY <2>1, <2>2, <2>3, Reached
<1>3. CASE \/ RecvULsbs \/ RecvLsbE \/ RecvXLsbs \/ DeltaADiff \/ YDeltaADiff \/ VerifyY
           \/ CompareRecvE
  <2>1. ReadE
    BY <1>3 DEF RecvULsbs, RecvLsbE, RecvXLsbs, DeltaADiff, YDeltaADiff, VerifyY, CompareRecvE
  <2>2. n \in {1, 2} /\ Holds(toG', m) /\ Holds(toE', n - 1)
    BY <1>1, <2>1, Moves DEF ReadE
  <2>3. <<gpc', epc', m, n - 1>> \in Locations
    BY <1>1, <1>3, <2>2 DEF RecvULsbs, RecvLsbE, RecvXLsbs, DeltaADiff, YDeltaADiff, VerifyY,
       CompareRecvE, EvaluatorStep, Unless, Locations
  <2> QED  BY <1>1, <2>2, <2>3, Reached
<1>4. CASE ProveX
  <2>1. toE # <<>> /\ toE' = Tail(toE) /\ \E x : toG' = Append(toG, x)
    BY <1>4 DEF ProveX
  <2>2. m = 0
    BY <1>1, <1>4 DEF ProveX, EvaluatorStep, Locations
  <2>3. n \in {1, 2} /\ Holds(toG', m + 1) /\ Holds(toE', n - 1)
    BY <1>1, <2>1, <2>2, Moves
  <2>4. <<gpc', epc', m + 1, n - 1>> \in Locations
    BY <1>1, <1>4, <2>2, <2>3 DEF ProveX, EvaluatorStep, Locations
  <2> QED  BY <2>2, <2>3, <2>4, Reached
<1> QED  BY <1>2, <1>3, <1>4 DEF Evaluator

-----------------------------------------------------------------------------
(***************************************************************************)
(* The steps that have nothing to do with the keys.                        *)
(***************************************************************************)
EarlyStep == U \/ SendULsbs \/ RecvULsbs

LateTogether == X \/ XDeltaB \/ ProofX \/ DeltaA \/ Y \/ YDeltaA \/ ProofY

LateGarblerStep ==
  \/ XDeltaBDiff \/ VerifyX \/ SendXLsbs \/ ProveY \/ RecvYLsbs \/ CompareSendG \/ CompareRecvG

LateEvaluatorStep ==
  \/ ProveX \/ RecvXLsbs \/ DeltaADiff \/ YDeltaADiff \/ VerifyY \/ SendYLsbs \/ CompareSendE
  \/ CompareRecvE

LateStep == LateTogether \/ LateGarblerStep \/ LateEvaluatorStep

(* Only objects other than the keys and their shares are assigned. *)
OthersAssigned ==
  /\ setup' = setup
  /\ gb' = [name \in GarblerObjects |-> gb'[name]]
  /\ ev' = [name \in EvaluatorObjects |-> ev'[name]]
  /\ gb'.delta = gb.delta /\ gb'.alpha0 = gb.alpha0
  /\ ev'.delta = ev.delta /\ ev'.beta0 = ev.beta0

LEMMA EarlyAssigns == Objects /\ EarlyStep => OthersAssigned
<1> SUFFICES ASSUME Objects, EarlyStep PROVE OthersAssigned
  OBVIOUS
<1>1. CASE U
  BY <1>1 DEF U, Together, OthersAssigned, Objects, GarblerObjects, EvaluatorObjects
<1>2. CASE SendULsbs
  BY <1>2 DEF SendULsbs, GarblerStep, OthersAssigned, Objects
<1>3. CASE RecvULsbs
  BY <1>3 DEF RecvULsbs, EvaluatorStep, OthersAssigned, Objects
<1> QED  BY <1>1, <1>2, <1>3 DEF EarlyStep

LEMMA LateAssigns == Objects /\ LateStep => OthersAssigned
<1> SUFFICES ASSUME Objects, LateStep PROVE OthersAssigned
  OBVIOUS
<1>1. CASE X
  BY <1>1 DEF X, Together, OthersAssigned, Objects, GarblerObjects, EvaluatorObjects
<1>2. CASE XDeltaB
  BY <1>2 DEF XDeltaB, Together, OthersAssigned, Objects, GarblerObjects, EvaluatorObjects
<1>3. CASE ProofX
  BY <1>3 DEF ProofX, Together, OthersAssigned, Objects, GarblerObjects, EvaluatorObjects
<1>4. CASE DeltaA
  BY <1>4 DEF DeltaA, Together, OthersAssigned, Objects, GarblerObjects, EvaluatorObjects
<1>5. CASE Y
  BY <1>5 DEF Y, Together, OthersAssigned, Objects, GarblerObjects, EvaluatorObjects
<1>6. CASE YDeltaA
  BY <1>6 DEF YDeltaA, Together, OthersAssigned, Objects, GarblerObjects, EvaluatorObjects
<1>7. CASE ProofY
  BY <1>7 DEF ProofY, Together, OthersAssigned, Objects, GarblerObjects, EvaluatorObjects
<1>8. CASE XDeltaBDiff \/ CompareRecvG
  BY <1>8 DEF XDeltaBDiff, CompareRecvG, GarblerStep, OthersAssigned, Objects, GarblerObjects
<1>9. CASE VerifyX \/ SendXLsbs \/ ProveY \/ RecvYLsbs \/ CompareSendG
  BY <1>9 DEF VerifyX, SendXLsbs, ProveY, RecvYLsbs, CompareSendG, GarblerStep, OthersAssigned,
     Objects
<1>10. CASE DeltaADiff \/ YDeltaADiff \/ CompareRecvE
  BY <1>10 DEF DeltaADiff, YDeltaADiff, CompareRecvE, EvaluatorStep, OthersAssigned, Objects,
     EvaluatorObjects
<1>11. CASE ProveX \/ RecvXLsbs \/ VerifyY \/ SendYLsbs \/ CompareSendE
  BY <1>11 DEF ProveX, RecvXLsbs, VerifyY, SendYLsbs, CompareSendE, EvaluatorStep,
     OthersAssigned, Objects
<1> QED
  BY <1>1, <1>2, <1>3, <1>4, <1>5, <1>6, <1>7, <1>8, <1>9, <1>10, <1>11
  DEF LateStep, LateTogether, LateGarblerStep, LateEvaluatorStep

LEMMA OthersKeepObjects == Objects /\ OthersAssigned => Objects'
BY DEF Objects, OthersAssigned

LEMMA EarlyKeepsStage == Objects /\ Control /\ KeyStage /\ EarlyStep => KeyStage'
<1> SUFFICES ASSUME Objects, Control, KeyStage, EarlyStep PROVE KeyStage'
  OBVIOUS
<1>1. OthersAssigned
  BY EarlyAssigns
<1>2. gpc = "sendULsbs" \/ epc = "recvULsbs" \/ (gpc = "u" /\ epc = "u")
  BY DEF EarlyStep, U, SendULsbs, RecvULsbs, Together, GarblerStep, EvaluatorStep
<1>3. BeforeKeys
  BY <1>2 DEF KeyStage, BeforeKeys, DiffOnItsWay, KeyAuthentic, GarblerFlipped,
     EvaluatorFlipped, BothSettled, LateGarbler, LateEvaluator
<1>4. /\ gpc' \in {"u", "sendULsbs", "deltaB"}
      /\ epc' \in {"u", "recvULsbs", "deltaB", "abort"}
  BY <1>3 DEF BeforeKeys, EarlyStep, U, SendULsbs, RecvULsbs, Together, GarblerStep,
     EvaluatorStep, Unless
<1> QED  BY <1>1, <1>3, <1>4 DEF KeyStage, BeforeKeys, OthersAssigned

LEMMA LateKeepsStage == Objects /\ KeyStage /\ LateStep => KeyStage'
<1> SUFFICES ASSUME Objects, KeyStage, LateStep PROVE KeyStage'
  OBVIOUS
<1>1. OthersAssigned
  BY LateAssigns
<1>2. CASE LateTogether
  <2>1. /\ gpc \in {"x", "xDeltaB", "proofX", "deltaA", "y", "yDeltaA", "proofY"}
        /\ epc \in {"x", "xDeltaB", "proofX", "deltaA", "y", "yDeltaA", "proofY"}
        /\ gpc' \in LateGarbler /\ epc' \in LateEvaluator
    BY <1>2 DEF LateTogether, X, XDeltaB, ProofX, DeltaA, Y, YDeltaA, ProofY, Together,
       LateGarbler, LateEvaluator
  <2>2. BothSettled
    BY <2>1 DEF KeyStage, BeforeKeys, DiffOnItsWay, KeyAuthentic, GarblerFlipped,
       EvaluatorFlipped
  <2> QED  BY <1>1, <2>1, <2>2 DEF KeyStage, BothSettled, OthersAssigned
<1>3. CASE LateGarblerStep
  <2>1. /\ gpc \in {"xDeltaBDiff", "verifyX", "sendXLsbs", "proveY", "recvYLsbs", "compare",
                    "comparing"}
        /\ gpc' \in LateGarbler /\ epc' = epc
    BY <1>3 DEF LateGarblerStep, XDeltaBDiff, VerifyX, SendXLsbs, ProveY, RecvYLsbs,
       CompareSendG, CompareRecvG, GarblerStep, Unless, LateGarbler
  <2>2. BothSettled
    BY <2>1 DEF KeyStage, BeforeKeys, DiffOnItsWay, KeyAuthentic, GarblerFlipped,
       EvaluatorFlipped
  <2> QED  BY <1>1, <2>1, <2>2 DEF KeyStage, BothSettled, OthersAssigned
<1>4. CASE LateEvaluatorStep
  <2>1. /\ epc \in {"proveX", "recvXLsbs", "deltaADiff", "yDeltaADiff", "verifyY", "sendYLsbs",
                    "compare", "comparing"}
        /\ epc' \in LateEvaluator /\ gpc' = gpc
    BY <1>4 DEF LateEvaluatorStep, ProveX, RecvXLsbs, DeltaADiff, YDeltaADiff, VerifyY,
       SendYLsbs, CompareSendE, CompareRecvE, EvaluatorStep, Unless, LateEvaluator
  <2>2. BothSettled
    BY <2>1 DEF KeyStage, BeforeKeys, DiffOnItsWay, KeyAuthentic, GarblerFlipped,
       EvaluatorFlipped
  <2> QED  BY <1>1, <2>1, <2>2 DEF KeyStage, BothSettled, OthersAssigned
<1> QED  BY <1>2, <1>3, <1>4 DEF LateStep

-----------------------------------------------------------------------------
(***************************************************************************)
(* The steps of the key: the evaluator's key is authenticated, the parties *)
(* send each other a lowest bit and each settles when it has read one.     *)
(***************************************************************************)
LEMMA DeltaBSettles ==
  ASSUME Objects, Control, KeyStage, DeltaB
  PROVE  Objects' /\ KeyStage'
<1> DEFINE key == RandomBlock(setup.seed, "deltaB", 0, 0)
           choice == RandomBlock(setup.seed, "deltaBChoice", 0, 0)
<1>1. key \in Block /\ choice \in Block
  <2>1. 0 \in Batch
    BY SecurityAssumption DEF Batch, Below
  <2> QED  BY <2>1, RandomnessAssumption DEF Objects, RandomNames
<1>2. /\ gpc = "deltaB" /\ epc = "deltaB" /\ gpc' = "deltaBDiff" /\ epc' = "sendLsb"
      /\ setup' = setup /\ toG = <<>> /\ toG' = Append(toG, choice \oplus ev.delta)
      /\ gb' = [gb EXCEPT !.deltaBKey = key]
      /\ ev' = [ev EXCEPT !.authedDeltaB = key \oplus GfMul(choice, gb.delta)]
  BY DEF DeltaB, Together, SendG
<1> HIDE DEF key, choice
<1>3. /\ setup' = setup
      /\ gb' = [name \in GarblerObjects |-> gb'[name]]
      /\ ev' = [name \in EvaluatorObjects |-> ev'[name]]
      /\ gb'.delta = gb.delta /\ gb'.alpha0 = gb.alpha0 /\ gb'.deltaBKey = key
      /\ ev'.delta = ev.delta /\ ev'.beta0 = ev.beta0
      /\ ev'.authedDeltaB = key \oplus GfMul(choice, gb.delta)
  BY <1>2 DEF Objects, GarblerObjects, EvaluatorObjects
<1>4. toG'[1] = choice \oplus ev.delta
  BY <1>2
<1>5. toG'[1] \in Block /\ toG'[1] \oplus ev.delta = choice
  <2>1. (choice \oplus ev.delta) \oplus ev.delta = choice
    BY SMT DEF \oplus
  <2> QED  BY <1>1, <1>4, <2>1, BlockType DEF Objects
<1>6. BeforeKeys
  BY <1>2 DEF KeyStage, BeforeKeys, DiffOnItsWay, KeyAuthentic, GarblerFlipped,
     EvaluatorFlipped, BothSettled, LateGarbler, LateEvaluator
<1>7. DiffOnItsWay'
  BY <1>1, <1>2, <1>3, <1>5, <1>6 DEF DiffOnItsWay, BeforeKeys
<1> QED  BY <1>3, <1>7 DEF Objects, KeyStage

LEMMA DeltaBDiffSettles ==
  ASSUME Objects, Control, KeyStage, DeltaBDiff
  PROVE  Objects' /\ KeyStage'
<1> DEFINE fixed == gb.deltaBKey \oplus GfMul(Head(toG), gb.delta)
<1>1. /\ gpc = "deltaBDiff" /\ gpc' = "recvLsb" /\ epc' = epc /\ setup' = setup /\ ev' = ev
      /\ toG # <<>> /\ toG' = Tail(toG)
      /\ gb' = [gb EXCEPT !.deltaBKey = fixed]
      /\ toE' = Append(toE, GetLSB(gb'.deltaBKey))
  BY DEF DeltaBDiff, GarblerStep
<1>2. DiffOnItsWay
  BY <1>1 DEF KeyStage, BeforeKeys, DiffOnItsWay, KeyAuthentic, GarblerFlipped,
     EvaluatorFlipped, BothSettled, LateGarbler
<1>3. PICK m \in 0 .. 2, n \in 0 .. 2 :
        Holds(toG, m) /\ Holds(toE, n) /\ <<gpc, epc, m, n>> \in Locations
  BY DEF Control
<1>4. n = 0 /\ (epc = "recvLsb" => m = 2)
  BY <1>1, <1>2, <1>3 DEF Locations, DiffOnItsWay
<1>5. Head(toG) = toG[1] /\ (m = 2 => Tail(toG)[1] = toG[2])
  BY <1>1, <1>3, QueueTail
<1>6. toE'[1] = GetLSB(gb'.deltaBKey)
  <2> DEFINE lsb == GetLSB(gb'.deltaBKey)
  <2>1. toE = <<>>
    BY <1>3, <1>4 DEF Holds
  <2> HIDE DEF lsb
  <2>2. Append(<<>>, lsb) = <<lsb>> /\ <<lsb>>[1] = lsb
    OBVIOUS
  <2>3. toE' = Append(<<>>, lsb)
    BY <1>1, <2>1, Zenon DEF lsb
  <2> QED  BY <2>2, <2>3, Zenon DEF lsb
<1>7. fixed \in Block /\ ev.authedDeltaB \in Block
      /\ fixed \oplus ev.authedDeltaB = GfMul(gb.delta, ev.delta)
  <2>1. /\ gb.delta \in Block /\ ev.delta \in Block
        /\ gb.deltaBKey \in Block /\ toG[1] \in Block
        /\ ev.authedDeltaB = gb.deltaBKey \oplus GfMul(toG[1] \oplus ev.delta, gb.delta)
    BY <1>2 DEF DiffOnItsWay, Objects
  <2>2. fixed = gb.deltaBKey \oplus GfMul(toG[1], gb.delta)
    BY <1>5
  <2> HIDE DEF fixed
  <2>3. /\ gb.deltaBKey \oplus GfMul(toG[1], gb.delta) \in Block
        /\ gb.deltaBKey \oplus GfMul(toG[1] \oplus ev.delta, gb.delta) \in Block
    BY <2>1, FixAuthenticates
  <2>4. (gb.deltaBKey \oplus GfMul(toG[1], gb.delta))
          \oplus (gb.deltaBKey \oplus GfMul(toG[1] \oplus ev.delta, gb.delta))
        = GfMul(gb.delta, ev.delta)
    <3>1. \A dA, dB, k, diff \in Block :
            (k \oplus GfMul(diff, dA)) \oplus (k \oplus GfMul(diff \oplus dB, dA)) = GfMul(dA, dB)
      BY FixAuthenticates
    <3> QED  BY <2>1, <3>1
  <2> QED  BY <2>1, <2>2, <2>3, <2>4
<1> HIDE DEF fixed
<1>8. /\ gb' = [name \in GarblerObjects |-> gb'[name]]
      /\ gb'.delta = gb.delta /\ gb'.alpha0 = gb.alpha0 /\ gb'.deltaBKey = fixed
  BY <1>1 DEF Objects, GarblerObjects
<1>9. epc = "recvLsb" => toG'[1] = GetLSB(ev.authedDeltaB)
  BY <1>1, <1>2, <1>4, <1>5 DEF DiffOnItsWay
<1>10. KeyAuthentic'
  BY <1>1, <1>2, <1>6, <1>7, <1>8, <1>9 DEF KeyAuthentic, DiffOnItsWay
<1> QED  BY <1>1, <1>8, <1>10 DEF Objects, KeyStage

LEMMA SendLsbSettles ==
  ASSUME Objects, Control, KeyStage, SendLsb
  PROVE  Objects' /\ KeyStage'
<1>1. /\ epc = "sendLsb" /\ epc' = "recvLsb" /\ gpc' = gpc /\ setup' = setup /\ gb' = gb
      /\ ev' = ev /\ toE' = toE /\ toG' = Append(toG, GetLSB(ev.authedDeltaB))
  BY DEF SendLsb, EvaluatorStep, SendG
<1>2. PICK m \in 0 .. 2, n \in 0 .. 2 :
        Holds(toG, m) /\ Holds(toE, n) /\ <<gpc, epc, m, n>> \in Locations
  BY DEF Control
<1>3. \/ gpc = "deltaBDiff" /\ m = 1 /\ DiffOnItsWay
      \/ gpc = "recvLsb" /\ m = 0 /\ KeyAuthentic
  BY <1>1, <1>2 DEF Locations, KeyStage, BeforeKeys, DiffOnItsWay, KeyAuthentic,
     GarblerFlipped, EvaluatorFlipped, BothSettled, LateEvaluator
<1>4. /\ toG'[m + 1] = GetLSB(ev.authedDeltaB)
      /\ m = 1 => toG'[1] = toG[1]
  <2>1. m \in {0, 1} /\ Holds(toG, m)
    BY <1>2, <1>3
  <2>2. ASSUME NEW x
        PROVE  Append(toG, x)[m + 1] = x /\ (m = 1 => Append(toG, x)[1] = toG[1])
    BY <2>1, QueueAppend, ZenonT(40)
  <2> QED  BY <1>1, <2>2
<1>5. CASE gpc = "deltaBDiff" /\ m = 1 /\ DiffOnItsWay
  <2>1. toG'[1] = toG[1] /\ toG'[2] = GetLSB(ev.authedDeltaB)
    BY <1>4, <1>5
  <2>2. DiffOnItsWay'
    BY <1>1, <1>5, <2>1 DEF DiffOnItsWay
  <2> QED  BY <1>1, <2>2 DEF Objects, KeyStage
<1>6. CASE gpc = "recvLsb" /\ m = 0 /\ KeyAuthentic
  <2>1. toG'[1] = GetLSB(ev.authedDeltaB)
    BY <1>4, <1>6
  <2>2. KeyAuthentic'
    BY <1>1, <1>6, <2>1 DEF KeyAuthentic
  <2> QED  BY <1>1, <2>2 DEF Objects, KeyStage
<1> QED  BY <1>3, <1>5, <1>6

LEMMA RecvLsbGSettles ==
  ASSUME Objects, Control, KeyStage, RecvLsbG
  PROVE  Objects' /\ KeyStage'
<1> DEFINE key == IF GetLSB(gb.deltaBKey) = Head(toG)
                  THEN FlippedKey(gb.deltaBKey, gb.delta) ELSE gb.deltaBKey
<1>1. /\ gpc = "recvLsb" /\ gpc' = "x" /\ epc' = epc /\ setup' = setup /\ ev' = ev
      /\ toG # <<>> /\ toE' = toE
      /\ gb' = [gb EXCEPT !.deltaBKey = key, !.alpha0 = key]
  BY DEF RecvLsbG, GarblerStep, ReadG
<1>2. PICK m \in 0 .. 2, n \in 0 .. 2 :
        Holds(toG, m) /\ Holds(toE, n) /\ <<gpc, epc, m, n>> \in Locations
  BY DEF Control
<1>3. m \in {1, 2} /\ Head(toG) = toG[1]
  BY <1>1, <1>2, QueueTail
<1>4. \/ epc = "recvLsb" /\ KeyAuthentic
      \/ epc = "x" /\ EvaluatorFlipped
  BY <1>1, <1>2, <1>3 DEF Locations, KeyStage, BeforeKeys, DiffOnItsWay, KeyAuthentic,
     GarblerFlipped, EvaluatorFlipped, BothSettled, LateGarbler
<1>5. key = IF GetLSB(gb.deltaBKey) = toG[1]
            THEN FlippedKey(gb.deltaBKey, gb.delta) ELSE gb.deltaBKey
  BY <1>3
<1> HIDE DEF key
<1>6. /\ gb' = [name \in GarblerObjects |-> gb'[name]]
      /\ gb'.delta = gb.delta /\ gb'.alpha0 = key
  BY <1>1 DEF Objects, GarblerObjects
<1>7. CASE epc = "recvLsb" /\ KeyAuthentic
  <2>1. toG[1] = GetLSB(ev.authedDeltaB) /\ toE[1] = GetLSB(gb.deltaBKey)
    BY <1>7 DEF KeyAuthentic
  <2>2. LET flip == GetLSB(gb.deltaBKey) = GetLSB(ev.authedDeltaB)
        IN  Settled(IF flip THEN FlippedKey(gb.deltaBKey, gb.delta) ELSE gb.deltaBKey,
                    ev.authedDeltaB, gb.delta,
                    IF flip THEN FlippedBlock(ev.delta) ELSE ev.delta)
    BY <1>7, FlipSettles DEF KeyAuthentic, Objects
  <2>3. Settled(key, ev.authedDeltaB, gb.delta,
                IF GetLSB(ev.authedDeltaB) = toE[1] THEN FlippedBlock(ev.delta) ELSE ev.delta)
    BY <1>5, <2>1, <2>2
  <2>4. GarblerFlipped'
    BY <1>1, <1>6, <1>7, <2>3 DEF GarblerFlipped, KeyAuthentic
  <2> QED  BY <1>1, <1>6, <2>4 DEF Objects, KeyStage
<1>8. CASE epc = "x" /\ EvaluatorFlipped
  <2>1. BothSettled'
    BY <1>1, <1>5, <1>6, <1>8 DEF BothSettled, EvaluatorFlipped, LateGarbler, LateEvaluator
  <2> QED  BY <1>1, <1>6, <2>1 DEF Objects, KeyStage
<1> QED  BY <1>4, <1>7, <1>8

LEMMA RecvLsbESettles ==
  ASSUME Objects, Control, KeyStage, RecvLsbE
  PROVE  Objects' /\ KeyStage'
<1> DEFINE delta == IF GetLSB(ev.authedDeltaB) = Head(toE) THEN FlippedBlock(ev.delta)
                    ELSE ev.delta
<1>1. /\ epc = "recvLsb" /\ epc' = "x" /\ gpc' = gpc /\ setup' = setup /\ gb' = gb
      /\ toE # <<>> /\ toG' = toG
      /\ ev' = [ev EXCEPT !.delta = delta, !.beta0 = ev.authedDeltaB]
  BY DEF RecvLsbE, EvaluatorStep, ReadE
<1>2. PICK m \in 0 .. 2, n \in 0 .. 2 :
        Holds(toG, m) /\ Holds(toE, n) /\ <<gpc, epc, m, n>> \in Locations
  BY DEF Control
<1>3. n \in {1, 2} /\ Head(toE) = toE[1]
  BY <1>1, <1>2, QueueTail
<1>4. \/ gpc = "recvLsb" /\ KeyAuthentic
      \/ gpc = "x" /\ GarblerFlipped
  BY <1>1, <1>2, <1>3 DEF Locations, KeyStage, BeforeKeys, DiffOnItsWay, KeyAuthentic,
     GarblerFlipped, EvaluatorFlipped, BothSettled, LateEvaluator
<1>5. delta = IF GetLSB(ev.authedDeltaB) = toE[1] THEN FlippedBlock(ev.delta) ELSE ev.delta
  BY <1>3
<1>6. One \in Block
  BY BlockBitsAssumption DEF One, Block
<1>7. delta \in Block
  BY <1>6, BlockType DEF Objects, FlippedBlock
<1> HIDE DEF delta
<1>8. /\ ev' = [name \in EvaluatorObjects |-> ev'[name]]
      /\ ev'.delta = delta /\ ev'.beta0 = ev.authedDeltaB
  BY <1>1 DEF Objects, EvaluatorObjects
<1>9. CASE gpc = "recvLsb" /\ KeyAuthentic
  <2>1. toG[1] = GetLSB(ev.authedDeltaB) /\ toE[1] = GetLSB(gb.deltaBKey)
    <3>1. epc = "recvLsb"
      BY <1>1
    <3> QED  BY <1>9, <3>1 DEF KeyAuthentic
  <2>2. LET flip == GetLSB(gb.deltaBKey) = GetLSB(ev.authedDeltaB)
        IN  Settled(IF flip THEN FlippedKey(gb.deltaBKey, gb.delta) ELSE gb.deltaBKey,
                    ev.authedDeltaB, gb.delta,
                    IF flip THEN FlippedBlock(ev.delta) ELSE ev.delta)
    BY <1>9, FlipSettles DEF KeyAuthentic, Objects
  <2>3. Settled(IF GetLSB(gb.deltaBKey) = toG[1] THEN FlippedKey(gb.deltaBKey, gb.delta)
                ELSE gb.deltaBKey, ev.authedDeltaB, gb.delta, delta)
    BY <1>5, <2>1, <2>2
  <2>4. EvaluatorFlipped'
    BY <1>1, <1>8, <1>9, <2>3 DEF EvaluatorFlipped, KeyAuthentic
  <2> QED  BY <1>1, <1>7, <1>8, <2>4 DEF Objects, KeyStage
<1>10. CASE gpc = "x" /\ GarblerFlipped
  <2>1. BothSettled'
    BY <1>1, <1>5, <1>8, <1>10 DEF BothSettled, GarblerFlipped, LateGarbler, LateEvaluator
  <2> QED  BY <1>1, <1>7, <1>8, <2>1 DEF Objects, KeyStage
<1> QED  BY <1>4, <1>9, <1>10

-----------------------------------------------------------------------------
(* The key with its lowest bit set is a block with lowest bit 1.           *)
LEMMA InitInvariant == Init => IInv
<1> SUFFICES ASSUME Init PROVE IInv
  OBVIOUS
<1>1. One \in Block /\ 0 \in One
  BY BlockBitsAssumption DEF One, Block
<1>2. setup \in Setups /\ setup.sampledA \in Block /\ setup.sampledB \in Block
  BY SecurityAssumption DEF Init
<1>3. setup.sampledA \cup One \in Block /\ GetLSB(setup.sampledA \cup One)
  BY <1>1, <1>2 DEF Block, GetLSB
<1>4. /\ gb = [name \in GarblerObjects |-> gb[name]]
      /\ gb.delta = setup.sampledA \cup One /\ gb.alpha0 = Unset
  BY DEF Init, Unconstructed, GarblerObjects
<1>5. /\ ev = [name \in EvaluatorObjects |-> ev[name]]
      /\ ev.delta = setup.sampledB /\ ev.beta0 = Unset
  BY DEF Init, Unconstructed, EvaluatorObjects
<1>6. Objects
  BY <1>2, <1>3, <1>4, <1>5 DEF Objects
<1>7. Control
  <2>1. Holds(toG, 0) /\ Holds(toE, 0) /\ 0 \in 0 .. 2
    BY DEF Init, Holds
  <2>2. <<gpc, epc, 0, 0>> \in Locations
    BY DEF Init, Locations
  <2> QED  BY <2>1, <2>2 DEF Control
<1>8. BeforeKeys
  BY <1>4, <1>5 DEF Init, BeforeKeys
<1> QED  BY <1>6, <1>7, <1>8 DEF IInv, KeyStage

LEMMA StepInvariant == IInv /\ [Next]_vars => IInv'
<1> SUFFICES ASSUME IInv, [Next]_vars PROVE IInv'
  OBVIOUS
<1>1. Objects /\ Control /\ KeyStage
  BY DEF IInv
<1>2. CASE UNCHANGED vars
  BY <1>1, <1>2 DEF IInv, vars, Objects, Control, KeyStage, BeforeKeys, DiffOnItsWay,
     KeyAuthentic, GarblerFlipped, EvaluatorFlipped, BothSettled, Settled
<1>3. CASE Correlated
  <2>1. DeltaB \/ EarlyStep \/ LateStep
    BY <1>3 DEF Correlated, EarlyStep, LateStep, LateTogether
  <2>2. Objects' /\ KeyStage'
    BY <1>1, <2>1, DeltaBSettles, EarlyAssigns, LateAssigns, OthersKeepObjects,
       EarlyKeepsStage, LateKeepsStage
  <2> QED  BY <1>1, <1>3, <2>2, CorrelatedControl DEF IInv
<1>4. CASE Garbler
  <2>1. DeltaBDiff \/ RecvLsbG \/ EarlyStep \/ LateStep
    BY <1>4 DEF Garbler, EarlyStep, LateStep, LateGarblerStep
  <2>2. Objects' /\ KeyStage'
    BY <1>1, <2>1, DeltaBDiffSettles, RecvLsbGSettles, EarlyAssigns, LateAssigns,
       OthersKeepObjects, EarlyKeepsStage, LateKeepsStage
  <2> QED  BY <1>1, <1>4, <2>2, GarblerControl DEF IInv
<1>5. CASE Evaluator
  <2>1. SendLsb \/ RecvLsbE \/ EarlyStep \/ LateStep
    BY <1>5 DEF Evaluator, EarlyStep, LateStep, LateEvaluatorStep
  <2>2. Objects' /\ KeyStage'
    BY <1>1, <2>1, SendLsbSettles, RecvLsbESettles, EarlyAssigns, LateAssigns,
       OthersKeepObjects, EarlyKeepsStage, LateKeepsStage
  <2> QED  BY <1>1, <1>5, <2>2, EvaluatorControl DEF IInv
<1> QED  BY <1>2, <1>3, <1>4, <1>5 DEF Next

LEMMA Invariance == Spec => []IInv
BY InitInvariant, StepInvariant, PTL DEF Spec

-----------------------------------------------------------------------------
(***************************************************************************)
(* The keys are blocks, the shares are unset or blocks, and no more than   *)
(* two messages are on their way to a party.                               *)
(***************************************************************************)
THEOREM TypeCorrect == Spec => []TypeOK
<1>1. IInv => TypeOK
  <2> SUFFICES ASSUME Objects, Control, KeyStage PROVE TypeOK
    BY DEF IInv
  <2>1. Len(toG) <= 2 /\ Len(toE) <= 2
    BY DEF Control, Holds
  <2>2. gb.alpha0 \in Block \cup {Unset} /\ ev.beta0 \in Block \cup {Unset}
    BY DEF KeyStage, BeforeKeys, DiffOnItsWay, KeyAuthentic, GarblerFlipped, EvaluatorFlipped,
       BothSettled, Settled
  <2> QED  BY <2>1, <2>2 DEF Objects, TypeOK
<1> QED  BY Invariance, <1>1, PTL

(***************************************************************************)
(* Whatever order the parties send and read their lowest bits in, when     *)
(* both have settled the flip what their constructors hold are legal keys: *)
(* the shares add up to the product, whose lowest bit is 1.                *)
(***************************************************************************)
THEOREM KeysAreLegal == Spec => []KeysLegal
<1>1. IInv => KeysLegal
  <2> SUFFICES ASSUME Objects, KeyStage, gb.alpha0 # Unset, ev.beta0 # Unset
               PROVE  LegalKeys(GlobalKeys)
    BY DEF IInv, KeysLegal
  <2>1. BothSettled
    BY DEF KeyStage, BeforeKeys, DiffOnItsWay, KeyAuthentic, GarblerFlipped, EvaluatorFlipped
  <2> QED  BY <2>1 DEF Objects, BothSettled, Settled, LegalKeys, GlobalKeys
<1> QED  BY Invariance, <1>1, PTL

-----------------------------------------------------------------------------
(***************************************************************************)
(* The checks.  Between the call that constructs an object and the check   *)
(* that reads it, values, MACs and keys belong together; what a check      *)
(* reads is what the other party made of its side.                         *)
(***************************************************************************)
BitsHeld(bits, macs, keys, delta) ==
  /\ bits \in [Batch -> BOOLEAN] /\ keys \in [Batch -> Block]
  /\ macs = [i \in Batch |-> keys[i] \oplus AndAllBits(bits[i], delta)]

(* The products of the bits with a block. *)
ProductsHeld(bits, block, macs, keys, delta) ==
  /\ keys \in [Batch -> Block]
  /\ macs = [i \in Batch |-> keys[i] \oplus GfMul(AndAllBits(bits[i], block), delta)]

BlockHeld(block, mac, key, delta) ==
  /\ block \in Block /\ key \in Block
  /\ mac = key \oplus GfMul(block, delta)

ChallengesHeld(chal) == chal \in [Batch -> Block]

(* A proof made with the challenges that the verifier drew. *)
ProofOver(chal, statement, mask) ==
  [a0 |-> A0(Batch, chal, statement, mask), a1 |-> A1(Batch, chal, statement, mask)]

UHeld ==
  epc = "recvULsbs" =>
    /\ BitsHeld(ev.u, ev.uMacs, gb.uKeys, gb.delta)
    /\ gpc = "deltaB" => toE[1] = Lsbs(gb.uKeys)

(* The key that goes into the proof is the one that settled. *)
SettledHeld ==
  /\ gpc \in LateGarbler => gb.deltaBKey = gb.alpha0
  /\ epc \in LateEvaluator => ev.authedDeltaB = ev.beta0

XHeld ==
  epc \in {"xDeltaB", "proofX", "proveX", "recvXLsbs"} =>
    BitsHeld(ev.x, ev.xMacs, gb.xKeys, gb.delta)

(* The keys when the difference on its way has been read. *)
XDeltaBKeys ==
  IF gpc = "xDeltaBDiff"
  THEN FixedBlockKeys(Only(gb.xDeltaBKeys), Only(gb.delta), toG[1])[0]
  ELSE gb.xDeltaBKeys

XProductsHeld ==
  epc \in {"proofX", "proveX", "recvXLsbs"} =>
    ProductsHeld(ev.x, ev.delta, ev.xDeltaBMacs, XDeltaBKeys, gb.delta)

XStatement == BitsTimes(ev.x, ev.xMacs, ev.delta, ev.authedDeltaB, ev.xDeltaBMacs)

XProofHeld ==
  gpc = "verifyX" =>
    /\ BlockHeld(ev.proofMask.block, ev.proofMask.mac, gb.proofKey, gb.delta)
    /\ ChallengesHeld(gb.chal)
    /\ epc = "proveX" => gb.chal = Challenges(toE[1])
    /\ epc = "recvXLsbs" => toG[1] = ProofOver(gb.chal, XStatement, ev.proofMask)

XLsbsHeld == gpc = "deltaA" /\ epc = "recvXLsbs" => toE[1] = Lsbs(gb.xDeltaBKeys)

(* The mirror image. *)
DeltaAKey ==
  IF epc = "deltaADiff" THEN ev.deltaAKey \oplus GfMul(toE[1], ev.delta) ELSE ev.deltaAKey

DeltaAHeld ==
  gpc \in {"y", "yDeltaA", "proofY", "proveY", "recvYLsbs"} =>
    BlockHeld(gb.delta, gb.authedDeltaA, DeltaAKey, ev.delta)

YHeld ==
  gpc \in {"yDeltaA", "proofY", "proveY", "recvYLsbs"} =>
    BitsHeld(gb.y, gb.yMacs, ev.yKeys, ev.delta)

YDeltaAKeys ==
  IF epc = "yDeltaADiff"
  THEN FixedBlockKeys(Only(ev.yDeltaAKeys), Only(ev.delta), toE[1])[0]
  ELSE ev.yDeltaAKeys

YProductsHeld ==
  gpc \in {"proofY", "proveY", "recvYLsbs"} =>
    ProductsHeld(gb.y, gb.delta, gb.yDeltaAMacs, YDeltaAKeys, ev.delta)

YStatement == BitsTimes(gb.y, gb.yMacs, gb.delta, gb.authedDeltaA, gb.yDeltaAMacs)

YProofHeld ==
  epc = "verifyY" =>
    /\ BlockHeld(gb.proofMask.block, gb.proofMask.mac, ev.proofKey, ev.delta)
    /\ ChallengesHeld(ev.chal)
    /\ gpc = "proveY" => ev.chal = Challenges(toG[1])
    /\ gpc = "recvYLsbs" => toE[1] = ProofOver(ev.chal, YStatement, gb.proofMask)

YLsbsHeld ==
  gpc = "recvYLsbs" /\ epc \in {"compare", "comparing"} => toG[1] = Lsbs(ev.yDeltaAKeys)

(* In the comparison both parties send a high half. *)
HalvesHeld ==
  /\ gpc = "recvYLsbs" /\ epc = "comparing" => toG[2][1] = "high"
  /\ gpc \in {"compare", "comparing"} /\ toG # <<>> => toG[1][1] = "high"
  /\ epc \in {"compare", "comparing"} /\ toE # <<>> => toE[1][1] = "high"

XPhase == XHeld /\ XProductsHeld /\ XProofHeld /\ XLsbsHeld

YPhase == DeltaAHeld /\ YHeld /\ YProductsHeld /\ YProofHeld /\ YLsbsHeld

ChecksInv == NoFalseAlarm /\ UHeld /\ SettledHeld /\ XPhase /\ YPhase /\ HalvesHeld

-----------------------------------------------------------------------------
(***************************************************************************)
(* What the calls of the OT give, and what the checks compute of it.       *)
(***************************************************************************)
LEMMA RandomTypes ==
  ASSUME NEW s \in Setups, NEW name \in RandomNames
  PROVE  /\ RandomBlock(s.seed, name, 0, 0) \in Block
         /\ [i \in Batch |-> RandomBit(s.seed, name, i)] \in [Batch -> BOOLEAN]
         /\ [i \in Batch |-> RandomBlock(s.seed, name, 0, i)] \in [Batch -> Block]
<1>1. 0 \in Batch
  BY SecurityAssumption DEF Batch, Below
<1> QED  BY <1>1, RandomnessAssumption

LEMMA RandomVectors ==
  ASSUME Objects, NEW name \in RandomNames, NEW d
  PROVE  /\ RandomBits(name, SecurityBits) \in [Batch -> BOOLEAN]
         /\ RandomKeys(name, Only(d), SecurityBits)[0] \in [Batch -> Block]
         /\ RandomBlocks(name, SecurityBits) \in [Batch -> Block]
         /\ DOMAIN RandomKeys(name, Only(d), SecurityBits) = {0}
<1>1. RandomBits(name, SecurityBits) = [i \in Batch |-> RandomBit(setup.seed, name, i)]
  BY DEF RandomBits, Batch
<1>2. \A x : /\ DOMAIN RandomKeys(name, Only(x), SecurityBits) = {0}
             /\ RandomKeys(name, Only(x), SecurityBits)[0]
                  = [i \in Batch |-> RandomBlock(setup.seed, name, 0, i)]
  BY DEF RandomKeys, Only, Batch
<1>3. setup \in Setups
  BY DEF Objects
<1>4. /\ [i \in Batch |-> RandomBit(setup.seed, name, i)] \in [Batch -> BOOLEAN]
      /\ [i \in Batch |-> RandomBlock(setup.seed, name, 0, i)] \in [Batch -> Block]
  BY <1>3, RandomTypes
<1>5. \A x : RandomKeys(name, Only(x), SecurityBits)[0] \in [Batch -> Block]
  BY <1>2, <1>4
<1> QED  BY <1>1, <1>2, <1>4, <1>5 DEF RandomBlocks

LEMMA BitsGiven ==
  ASSUME NEW keys, keys[0] \in [Batch -> Block], NEW delta, NEW bits \in [Batch -> BOOLEAN]
  PROVE  BitsHeld(bits, BitMacs(keys, Only(delta), bits)[0], keys[0], delta)
BY DEF BitsHeld, BitMacs, ByBits, Only

(* The MACs of the choices are the products' under the fixed keys.         *)
LEMMA ProductsGiven ==
  ASSUME NEW keys, keys[0] \in [Batch -> Block], NEW delta \in Block,
         NEW choices \in [Batch -> Block], NEW bits \in [Batch -> BOOLEAN], NEW block \in Block,
         NEW diff, diff = BlockDiff(choices, [i \in Batch |-> AndAllBits(bits[i], block)]),
         NEW fixed, fixed = FixedBlockKeys(Only(keys[0]), Only(delta), diff)[0],
         NEW macs, macs = BlockMacs(keys, Only(delta), choices)[0]
  PROVE  ProductsHeld(bits, block, macs, fixed, delta)
<1> DEFINE blocks == [i \in Batch |-> AndAllBits(bits[i], block)]
<1>0. blocks \in [Batch -> Block] /\ diff = BlockDiff(choices, blocks)
  BY BlockType
<1> HIDE DEF blocks
<1>1. diff \in [Batch -> Block] /\ \A i \in Batch : diff[i] = choices[i] \oplus blocks[i]
  BY <1>0, BlockType DEF BlockDiff
<1>2. fixed = [i \in DOMAIN diff |-> keys[0][i] \oplus GfMul(diff[i], delta)]
  BY DEF FixedBlockKeys, ByBlocks, Only
<1>3. macs = [i \in Batch |-> keys[0][i] \oplus GfMul(choices[i], delta)]
  BY DEF BlockMacs, ByBlocks, Only
<1>4. fixed \in [Batch -> Block]
      /\ \A i \in Batch : fixed[i] = keys[0][i] \oplus GfMul(diff[i], delta)
  <2>1. DOMAIN diff = Batch
    BY <1>1
  <2>2. \A i \in Batch : keys[0][i] \oplus GfMul(diff[i], delta) \in Block
    BY <1>1, BlockType, FieldAssumption
  <2> QED  BY <1>2, <2>1, <2>2
<1>5. ASSUME NEW i \in Batch
      PROVE  keys[0][i] \oplus GfMul(choices[i], delta) = fixed[i] \oplus GfMul(blocks[i], delta)
  <2> DEFINE k == keys[0][i]
             a == choices[i]
             b == blocks[i]
  <2>1. a \in Block /\ b \in Block /\ fixed[i] = k \oplus GfMul(a \oplus b, delta)
    BY <1>0, <1>1, <1>4
  <2> HIDE DEF k, a, b
  <2>2. GfMul(a \oplus b, delta) = GfMul(a, delta) \oplus GfMul(b, delta)
    BY <2>1, Product
  <2>3. \A p, q : k \oplus p = (k \oplus (p \oplus q)) \oplus q
    BY SMT DEF \oplus
  <2>4. k \oplus GfMul(a, delta) = fixed[i] \oplus GfMul(b, delta)
    BY <2>1, <2>2, <2>3
  <2> QED  BY <2>4 DEF k, a, b
<1>6. macs = [i \in Batch |-> fixed[i] \oplus GfMul(blocks[i], delta)]
  BY <1>3, <1>5
<1> QED  BY <1>4, <1>6 DEF ProductsHeld, blocks

LEMMA TimesBit ==
  ASSUME NEW bit \in BOOLEAN, NEW x \in Block, NEW y \in Block
  PROVE  /\ AndAllBits(bit, x) \in Block /\ BitBlock(bit) \in Block
         /\ GfMul(AndAllBits(bit, x), y) = AndAllBits(bit, GfMul(x, y))
         /\ GfMul(BitBlock(bit), x) = AndAllBits(bit, x)
<1>1. One \in Block /\ ZeroBlock \in Block
  BY BlockType, BlockBitsAssumption DEF One, Block
<1>2. GfMul(One, x) = x
  BY OneAssumption
<1>3. GfMul(ZeroBlock, x) = ZeroBlock /\ GfMul(ZeroBlock, y) = ZeroBlock
  BY <1>1, NoZeroDivisors
<1>4. CASE bit
  BY <1>1, <1>2, <1>4 DEF AndAllBits, BitBlock
<1>5. CASE ~bit
  BY <1>1, <1>3, <1>5 DEF AndAllBits, BitBlock
<1> QED  BY <1>4, <1>5

(* The lowest bits that the code expects are those of the local keys.      *)
LEMMA LowestBits ==
  ASSUME NEW bits \in [Batch -> BOOLEAN], NEW keys \in [Batch -> Block], NEW macs,
         NEW e, GetLSB(e), macs = [i \in Batch |-> keys[i] \oplus AndAllBits(bits[i], e)]
  PROVE  Lsbs(keys) = ExpectedLsbs(macs, bits)
<1>1. ASSUME NEW i \in Batch
      PROVE  GetLSB(keys[i]) = (GetLSB(macs[i]) # bits[i])
  <2>1. bits[i] \in BOOLEAN /\ macs[i] = keys[i] \oplus AndAllBits(bits[i], e)
    OBVIOUS
  <2>2. GetLSB(AndAllBits(bits[i], e)) = bits[i]
    BY <2>1, GetLSBXor
  <2>3. GetLSB(macs[i]) = (GetLSB(keys[i]) # GetLSB(AndAllBits(bits[i], e)))
    BY <2>1, GetLSBXor
  <2>4. GetLSB(keys[i]) \in BOOLEAN
    BY DEF GetLSB
  <2>5. \A p, q \in BOOLEAN : p = ((p # q) # q)
    OBVIOUS
  <2> QED  BY <2>1, <2>2, <2>3, <2>4, <2>5
<1>2. DOMAIN keys = Batch /\ DOMAIN macs = Batch
  OBVIOUS
<1> QED  BY <1>1, <1>2 DEF Lsbs, ExpectedLsbs

LEMMA BitsChecked ==
  ASSUME NEW bits, NEW macs, NEW keys, NEW delta, BitsHeld(bits, macs, keys, delta), GetLSB(delta)
  PROVE  Lsbs(keys) = ExpectedLsbs(macs, bits)
BY LowestBits DEF BitsHeld

LEMMA ProductsChecked ==
  ASSUME NEW bits \in [Batch -> BOOLEAN], NEW block \in Block, NEW macs, NEW keys,
         NEW delta \in Block, ProductsHeld(bits, block, macs, keys, delta),
         GetLSB(GfMul(block, delta))
  PROVE  Lsbs(keys) = ExpectedLsbs(macs, bits)
<1>1. \A i \in Batch : GfMul(AndAllBits(bits[i], block), delta)
                         = AndAllBits(bits[i], GfMul(block, delta))
  BY TimesBit
<1>2. macs = [i \in Batch |-> keys[i] \oplus AndAllBits(bits[i], GfMul(block, delta))]
  BY <1>1 DEF ProductsHeld
<1> QED  BY <1>2, LowestBits DEF ProductsHeld

(* The verifier accepts the proof of an honest prover. *)
LEMMA ProofAccepted ==
  ASSUME NEW bits, NEW bitMacs, NEW bitKeys, NEW block, NEW mac, NEW key, NEW macs, NEW keys,
         NEW mask, NEW maskKey, NEW chal, NEW delta \in Block,
         BitsHeld(bits, bitMacs, bitKeys, delta), BlockHeld(block, mac, key, delta),
         ProductsHeld(bits, block, macs, keys, delta),
         BlockHeld(mask.block, mask.mac, maskKey, delta), ChallengesHeld(chal)
  PROVE  Accepts(B(Batch, chal, KeysTimes(bitKeys, key, keys), maskKey, delta),
                 ProofOver(chal, BitsTimes(bits, bitMacs, block, mac, macs), mask), delta)
<1> DEFINE p == BitsTimes(bits, bitMacs, block, mac, macs)
           v == KeysTimes(bitKeys, key, keys)
           z == [i \in Batch |-> AndAllBits(bits[i], block)]
<1>1. ASSUME NEW i \in Batch
      PROVE  HoldsAt(i, chal, p, z, v, delta) /\ z[i] = GfMul(p.x[i], p.y[i])
  <2>1. /\ p.x[i] = BitBlock(bits[i]) /\ p.y[i] = block /\ z[i] = AndAllBits(bits[i], block)
        /\ p.macX[i] = bitMacs[i] /\ p.macY[i] = mac /\ p.macZ[i] = macs[i]
        /\ v.keyX[i] = bitKeys[i] /\ v.keyY[i] = key /\ v.keyZ[i] = keys[i]
    BY DEF BitsTimes, KeysTimes
  <2>2. /\ bits[i] \in BOOLEAN /\ bitKeys[i] \in Block /\ chal[i] \in Block
        /\ bitMacs[i] = bitKeys[i] \oplus AndAllBits(bits[i], delta)
        /\ block \in Block /\ key \in Block /\ mac = key \oplus GfMul(block, delta)
        /\ keys[i] \in Block
        /\ macs[i] = keys[i] \oplus GfMul(AndAllBits(bits[i], block), delta)
    BY DEF BitsHeld, BlockHeld, ProductsHeld, ChallengesHeld
  <2> HIDE DEF p, v, z
  <2>3. /\ AndAllBits(bits[i], block) \in Block /\ BitBlock(bits[i]) \in Block
        /\ GfMul(BitBlock(bits[i]), delta) = AndAllBits(bits[i], delta)
        /\ GfMul(BitBlock(bits[i]), block) = AndAllBits(bits[i], block)
    BY <2>2, TimesBit
  <2> QED  BY <2>1, <2>2, <2>3 DEF HoldsAt, AuthenticBlock
<1>2. IsFiniteSet(Batch)
  BY SecurityAssumption, FS_Interval DEF Batch, Below
<1>3. /\ maskKey \in Block /\ mask.block \in Block
      /\ AuthenticBlock(mask.block, mask.mac, maskKey, delta)
  BY DEF BlockHeld, AuthenticBlock
<1> HIDE DEF p, v, z
<1>4. Accepts(B(Batch, chal, v, maskKey, delta),
              [a0 |-> A0(Batch, chal, p, mask), a1 |-> A1(Batch, chal, p, mask)], delta)
  BY ONLY delta \in Block, <1>1, <1>2, <1>3, ListAccepted
<1> QED  BY <1>4 DEF ProofOver, p, v

-----------------------------------------------------------------------------
(***************************************************************************)
(* Who waits for whom, and what is first in a queue.                       *)
(***************************************************************************)
LEMMA Partners ==
  ASSUME Control, NoFalseAlarm
  PROVE  /\ gpc = "sendULsbs" => epc = "recvULsbs" /\ toE = <<>>
         /\ epc = "recvULsbs" /\ toE # <<>> => gpc = "deltaB"
         /\ gpc = "xDeltaBDiff" => epc = "proofX"
         /\ epc = "proveX" => gpc = "verifyX" /\ toG = <<>>
         /\ gpc = "verifyX" /\ toG # <<>> => epc = "recvXLsbs"
         /\ gpc = "sendXLsbs" => epc = "recvXLsbs" /\ toE = <<>>
         /\ epc = "recvXLsbs" /\ toE # <<>> => gpc = "deltaA"
         /\ epc = "deltaADiff" => gpc = "y"
         /\ epc = "yDeltaADiff" => gpc = "proofY"
         /\ gpc = "proveY" => epc = "verifyY" /\ toE = <<>>
         /\ epc = "verifyY" /\ toE # <<>> => gpc = "recvYLsbs"
         /\ epc = "sendYLsbs" => gpc = "recvYLsbs" /\ toG = <<>>
         /\ gpc = "recvYLsbs" /\ toG # <<>> => epc \in {"compare", "comparing"}
<1>1. PICK m \in 0 .. 2, n \in 0 .. 2 :
        Holds(toG, m) /\ Holds(toE, n) /\ <<gpc, epc, m, n>> \in Locations
  BY DEF Control
<1>2. (toG = <<>> <=> m = 0) /\ (toE = <<>> <=> n = 0)
  BY <1>1, QueueTail DEF Holds
<1>3. gpc # "abort" /\ epc # "abort"
  BY DEF NoFalseAlarm, Aborted
<1> QED  BY <1>1, <1>2, <1>3 DEF Locations

LEMMA FirstMessage ==
  ASSUME Control
  PROVE  /\ toG # <<>> => Head(toG) = toG[1]
         /\ toE # <<>> => Head(toE) = toE[1]
         /\ \A x : Append(<<>>, x)[1] = x
<1>1. PICK m \in 0 .. 2, n \in 0 .. 2 : Holds(toG, m) /\ Holds(toE, n)
  BY DEF Control
<1>2. ASSUME NEW x PROVE Append(<<>>, x)[1] = x
  <2>1. Append(<<>>, x) = <<x>> /\ <<x>>[1] = x
    OBVIOUS
  <2> QED  BY <2>1
<1> QED  BY <1>1, <1>2, QueueTail

(* From the first step after the flips on, both keys are settled.          *)
LEMMA KeysSettled ==
  ASSUME Objects, KeyStage, SettledHeld,
         gpc \in LateGarbler, epc \in LateEvaluator
  PROVE  /\ BlockHeld(ev.delta, ev.authedDeltaB, gb.deltaBKey, gb.delta)
         /\ GetLSB(GfMul(gb.delta, ev.delta)) /\ GetLSB(GfMul(ev.delta, gb.delta))
<1>1. BothSettled
  BY DEF KeyStage, BeforeKeys, DiffOnItsWay, KeyAuthentic, GarblerFlipped, EvaluatorFlipped,
     LateGarbler, LateEvaluator
<1>2. /\ gb.delta \in Block /\ ev.delta \in Block
      /\ gb.deltaBKey \in Block
      /\ gb.deltaBKey \oplus ev.authedDeltaB = GfMul(gb.delta, ev.delta)
      /\ GetLSB(GfMul(gb.delta, ev.delta))
  BY <1>1 DEF BothSettled, Settled, SettledHeld, Objects
<1>3. GfMul(gb.delta, ev.delta) = GfMul(ev.delta, gb.delta)
  BY <1>2, Product
<1>4. \A a, b, c : a \oplus b = c => b = a \oplus c
  BY SMT DEF \oplus
<1> QED  BY <1>2, <1>3, <1>4 DEF BlockHeld

(* Outside their phases the parts say nothing.                             *)
LEMMA Outside ==
  /\ epc # "recvULsbs" => UHeld
  /\ epc \notin {"xDeltaB", "proofX", "proveX", "recvXLsbs"} /\ gpc # "verifyX" => XPhase
  /\ gpc \notin {"y", "yDeltaA", "proofY", "proveY", "recvYLsbs"} /\ epc # "verifyY" => YPhase
  /\ gpc \notin {"recvYLsbs", "compare", "comparing"} /\ epc \notin {"compare", "comparing"} =>
       HalvesHeld
BY DEF UHeld, XPhase, XHeld, XProductsHeld, XProofHeld, XLsbsHeld, YPhase, DeltaAHeld, YHeld,
   YProductsHeld, YProofHeld, YLsbsHeld, HalvesHeld

LEMMA OutsideNext ==
  /\ epc' # "recvULsbs" => UHeld'
  /\ epc' \notin {"xDeltaB", "proofX", "proveX", "recvXLsbs"} /\ gpc' # "verifyX" => XPhase'
  /\ gpc' \notin {"y", "yDeltaA", "proofY", "proveY", "recvYLsbs"} /\ epc' # "verifyY" => YPhase'
  /\ gpc' \notin {"recvYLsbs", "compare", "comparing"} /\ epc' \notin {"compare", "comparing"} =>
       HalvesHeld'
BY DEF UHeld, XPhase, XHeld, XProductsHeld, XProofHeld, XLsbsHeld, YPhase, DeltaAHeld, YHeld,
   YProductsHeld, YProofHeld, YLsbsHeld, HalvesHeld

(* Steps that leave the keys alone leave them settled.                     *)
LEMMA SettledStays ==
  ASSUME SettledHeld,
         gpc \in LateGarbler \/ gpc' \notin LateGarbler,
         epc \in LateEvaluator \/ epc' \notin LateEvaluator,
         gb'.alpha0 = gb.alpha0, gb'.deltaBKey = gb.deltaBKey,
         ev'.beta0 = ev.beta0, ev'.authedDeltaB = ev.authedDeltaB
  PROVE  SettledHeld'
BY DEF SettledHeld

-----------------------------------------------------------------------------
(***************************************************************************)
(* The checks of the garbler's key, and the steps of the evaluator's.      *)
(***************************************************************************)
LEMMA UChecks == IInv /\ ChecksInv /\ U => ChecksInv'
<1> SUFFICES ASSUME IInv, ChecksInv, U PROVE ChecksInv'
  OBVIOUS
<1> DEFINE keys == RandomKeys("u", Only(gb.delta), SecurityBits)
           bits == RandomBits("u", SecurityBits)
           macs == BitMacs(keys, Only(gb.delta), bits)[0]
<1>1. /\ gpc = "u" /\ epc = "u" /\ gpc' = "sendULsbs" /\ epc' = "recvULsbs"
      /\ gb' = [gb EXCEPT !.uKeys = keys[0]]
      /\ ev' = [ev EXCEPT !.u = bits, !.uMacs = macs]
  BY DEF U, Together
<1>2. keys[0] \in [Batch -> Block] /\ bits \in [Batch -> BOOLEAN]
  BY RandomVectors DEF IInv, RandomNames
<1> HIDE DEF keys, bits
<1>3. BitsHeld(bits, macs, keys[0], gb.delta)
  BY <1>2, BitsGiven
<1> HIDE DEF macs
<1>4. /\ gb'.uKeys = keys[0] /\ gb'.delta = gb.delta
      /\ gb'.alpha0 = gb.alpha0 /\ gb'.deltaBKey = gb.deltaBKey
      /\ ev'.u = bits /\ ev'.uMacs = macs
      /\ ev'.beta0 = ev.beta0 /\ ev'.authedDeltaB = ev.authedDeltaB
  BY <1>1 DEF IInv, Objects, GarblerObjects, EvaluatorObjects
<1>5. UHeld'
  BY <1>1, <1>3, <1>4 DEF UHeld
<1>6. SettledHeld'
  BY <1>1 DEF SettledHeld, LateGarbler, LateEvaluator
<1>7. XPhase' /\ YPhase' /\ HalvesHeld' /\ NoFalseAlarm'
  BY <1>1, OutsideNext DEF NoFalseAlarm, Aborted
<1> QED  BY <1>5, <1>6, <1>7 DEF ChecksInv

LEMMA SendULsbsChecks == IInv /\ ChecksInv /\ SendULsbs => ChecksInv'
<1> SUFFICES ASSUME IInv, ChecksInv, SendULsbs PROVE ChecksInv'
  OBVIOUS
<1>1. /\ gpc = "sendULsbs" /\ gpc' = "deltaB" /\ epc' = epc /\ UNCHANGED <<gb, ev>>
      /\ toE' = Append(toE, Lsbs(gb.uKeys))
  BY DEF SendULsbs, GarblerStep, SendE
<1>2. epc = "recvULsbs" /\ toE = <<>>
  BY <1>1, Partners DEF IInv, ChecksInv
<1>3. toE'[1] = Lsbs(gb.uKeys)
  BY <1>1, <1>2, FirstMessage DEF IInv
<1>4. UHeld'
  BY <1>1, <1>2, <1>3 DEF ChecksInv, UHeld
<1>5. SettledHeld'
  BY <1>1, <1>2 DEF SettledHeld, LateGarbler, LateEvaluator
<1>6. XPhase' /\ YPhase' /\ HalvesHeld' /\ NoFalseAlarm'
  BY <1>1, <1>2, OutsideNext DEF NoFalseAlarm, Aborted
<1> QED  BY <1>4, <1>5, <1>6 DEF ChecksInv

LEMMA RecvULsbsChecks == IInv /\ ChecksInv /\ RecvULsbs => ChecksInv'
<1> SUFFICES ASSUME IInv, ChecksInv, RecvULsbs PROVE ChecksInv'
  OBVIOUS
<1>1. /\ epc = "recvULsbs" /\ gpc' = gpc /\ toE # <<>>
      /\ epc' = Unless(Head(toE) = ExpectedLsbs(ev.uMacs, ev.u), "deltaB")
  BY DEF RecvULsbs, EvaluatorStep, ReadE
<1>2. gpc = "deltaB" /\ Head(toE) = toE[1]
  BY <1>1, Partners, FirstMessage DEF IInv, ChecksInv
<1>3. Head(toE) = ExpectedLsbs(ev.uMacs, ev.u)
  <2>1. BitsHeld(ev.u, ev.uMacs, gb.uKeys, gb.delta) /\ toE[1] = Lsbs(gb.uKeys)
    BY <1>1, <1>2 DEF ChecksInv, UHeld
  <2> QED  BY <1>2, <2>1, BitsChecked DEF IInv, Objects
<1>4. epc' = "deltaB"
  BY <1>1, <1>3 DEF Unless
<1>5. SettledHeld'
  BY <1>1, <1>2, <1>4 DEF SettledHeld, LateGarbler, LateEvaluator
<1>6. UHeld' /\ XPhase' /\ YPhase' /\ HalvesHeld' /\ NoFalseAlarm'
  BY <1>1, <1>2, <1>4, OutsideNext DEF NoFalseAlarm, Aborted
<1> QED  BY <1>5, <1>6 DEF ChecksInv

LEMMA KeyChecks ==
  ASSUME IInv, ChecksInv, DeltaB \/ DeltaBDiff \/ SendLsb \/ RecvLsbG \/ RecvLsbE
  PROVE  ChecksInv'
<1>1. PICK m \in 0 .. 2, n \in 0 .. 2 :
        Holds(toG, m) /\ Holds(toE, n) /\ <<gpc, epc, m, n>> \in Locations
  BY DEF IInv, Control
<1>2. gpc # "abort" /\ epc # "abort"
  BY DEF ChecksInv, NoFalseAlarm, Aborted
<1>3. /\ gpc' \in {"deltaBDiff", "recvLsb", "x"} /\ epc' \in {"sendLsb", "recvLsb", "x"}
  <2>1. CASE DeltaB
    BY <2>1 DEF DeltaB, Together
  <2>2. CASE DeltaBDiff \/ RecvLsbG
    BY <1>1, <1>2, <2>2 DEF DeltaBDiff, RecvLsbG, GarblerStep, Locations
  <2>3. CASE SendLsb \/ RecvLsbE
    BY <1>1, <1>2, <2>3 DEF SendLsb, RecvLsbE, EvaluatorStep, Locations
  <2> QED  BY <2>1, <2>2, <2>3
<1>4. SettledHeld'
  <2>1. CASE DeltaB
    BY <2>1 DEF DeltaB, Together, SettledHeld, LateGarbler, LateEvaluator
  <2>2. CASE DeltaBDiff
    <3>1. gpc' = "recvLsb" /\ ev' = ev /\ epc' = epc
      BY <2>2 DEF DeltaBDiff, GarblerStep
    <3> QED  BY <3>1 DEF ChecksInv, SettledHeld, LateGarbler
  <2>3. CASE SendLsb
    <3>1. epc' = "recvLsb" /\ gb' = gb /\ gpc' = gpc
      BY <2>3 DEF SendLsb, EvaluatorStep
    <3> QED  BY <3>1 DEF ChecksInv, SettledHeld, LateEvaluator
  <2>4. CASE RecvLsbG
    <3>1. ev' = ev /\ epc' = epc /\ gb'.deltaBKey = gb'.alpha0
      BY <2>4 DEF RecvLsbG, GarblerStep, IInv, Objects, GarblerObjects
    <3> QED  BY <3>1 DEF ChecksInv, SettledHeld
  <2>5. CASE RecvLsbE
    <3>1. gb' = gb /\ gpc' = gpc /\ ev'.authedDeltaB = ev'.beta0
      BY <2>5 DEF RecvLsbE, EvaluatorStep, IInv, Objects, EvaluatorObjects
    <3> QED  BY <3>1 DEF ChecksInv, SettledHeld
  <2> QED  BY <2>1, <2>2, <2>3, <2>4, <2>5
<1>5. UHeld' /\ XPhase' /\ YPhase' /\ HalvesHeld' /\ NoFalseAlarm'
  BY <1>3, OutsideNext DEF NoFalseAlarm, Aborted
<1> QED  BY <1>4, <1>5 DEF ChecksInv

-----------------------------------------------------------------------------
(***************************************************************************)
(* The evaluator's proof.                                                  *)
(***************************************************************************)
XGarbler == {"x", "xDeltaB", "xDeltaBDiff", "proofX", "verifyX", "sendXLsbs", "deltaA"}

XEvaluator == {"x", "xDeltaB", "proofX", "proveX", "recvXLsbs", "deltaA"}

(* A step within this phase has only the phase's own parts to establish.   *)
LEMMA XStep ==
  ASSUME ChecksInv, gpc \in XGarbler, epc \in XEvaluator,
         gpc' \in XGarbler, epc' \in XEvaluator,
         gb'.alpha0 = gb.alpha0, gb'.deltaBKey = gb.deltaBKey,
         ev'.beta0 = ev.beta0, ev'.authedDeltaB = ev.authedDeltaB,
         XPhase'
  PROVE  ChecksInv'
<1>1. SettledHeld'
  BY SettledStays DEF ChecksInv, XGarbler, XEvaluator, LateGarbler, LateEvaluator
<1>2. UHeld' /\ YPhase' /\ HalvesHeld' /\ NoFalseAlarm'
  BY OutsideNext DEF NoFalseAlarm, Aborted, XGarbler, XEvaluator
<1> QED  BY <1>1, <1>2 DEF ChecksInv

LEMMA XChecks == IInv /\ ChecksInv /\ X => ChecksInv'
<1> SUFFICES ASSUME IInv, ChecksInv, X PROVE ChecksInv'
  OBVIOUS
<1> DEFINE keys == RandomKeys("x", Only(gb.delta), SecurityBits)
           bits == RandomBits("x", SecurityBits)
           macs == BitMacs(keys, Only(gb.delta), bits)[0]
<1>1. /\ gpc = "x" /\ epc = "x" /\ gpc' = "xDeltaB" /\ epc' = "xDeltaB"
      /\ gb' = [gb EXCEPT !.xKeys = keys[0]]
      /\ ev' = [ev EXCEPT !.x = bits, !.xMacs = macs]
  BY DEF X, Together
<1>2. keys[0] \in [Batch -> Block] /\ bits \in [Batch -> BOOLEAN]
  BY RandomVectors DEF IInv, RandomNames
<1> HIDE DEF keys, bits
<1>3. BitsHeld(bits, macs, keys[0], gb.delta)
  BY <1>2, BitsGiven
<1> HIDE DEF macs
<1>4. /\ gb'.xKeys = keys[0] /\ gb'.delta = gb.delta
      /\ gb'.alpha0 = gb.alpha0 /\ gb'.deltaBKey = gb.deltaBKey
      /\ ev'.x = bits /\ ev'.xMacs = macs
      /\ ev'.beta0 = ev.beta0 /\ ev'.authedDeltaB = ev.authedDeltaB
  BY <1>1 DEF IInv, Objects, GarblerObjects, EvaluatorObjects
<1>5. XPhase'
  BY <1>1, <1>3, <1>4 DEF XPhase, XHeld, XProductsHeld, XProofHeld, XLsbsHeld
<1> QED  BY <1>1, <1>4, <1>5, XStep DEF XGarbler, XEvaluator

LEMMA XDeltaBChecks == IInv /\ ChecksInv /\ XDeltaB => ChecksInv'
<1> SUFFICES ASSUME IInv, ChecksInv, XDeltaB PROVE ChecksInv'
  OBVIOUS
<1> DEFINE keys == RandomKeys("xDeltaB", Only(gb.delta), SecurityBits)
           choices == RandomBlocks("xDeltaBChoices", SecurityBits)
           diff == BlockDiff(choices, [i \in Batch |-> AndAllBits(ev.x[i], ev.delta)])
           macs == BlockMacs(keys, Only(gb.delta), choices)[0]
           fixed == FixedBlockKeys(Only(keys[0]), Only(gb.delta), diff)[0]
<1>1. /\ gpc = "xDeltaB" /\ epc = "xDeltaB" /\ gpc' = "xDeltaBDiff" /\ epc' = "proofX"
      /\ gb' = [gb EXCEPT !.xDeltaBKeys = keys[0]]
      /\ ev' = [ev EXCEPT !.xDeltaBMacs = macs]
      /\ toG = <<>> /\ toG' = Append(toG, diff)
  BY DEF XDeltaB, Together, SendG
<1>2. keys[0] \in [Batch -> Block] /\ choices \in [Batch -> Block]
  BY RandomVectors DEF IInv, RandomNames
<1>3. BitsHeld(ev.x, ev.xMacs, gb.xKeys, gb.delta) /\ gb.delta \in Block /\ ev.delta \in Block
  BY <1>1 DEF ChecksInv, XPhase, XHeld, IInv, Objects
<1>4. ev.x \in [Batch -> BOOLEAN]
  BY <1>3 DEF BitsHeld
<1> HIDE DEF keys, choices
<1>5. /\ diff = BlockDiff(choices, [i \in Batch |-> AndAllBits(ev.x[i], ev.delta)])
      /\ fixed = FixedBlockKeys(Only(keys[0]), Only(gb.delta), diff)[0]
      /\ macs = BlockMacs(keys, Only(gb.delta), choices)[0]
  OBVIOUS
<1> HIDE DEF diff, fixed, macs
<1>6. ProductsHeld(ev.x, ev.delta, macs, fixed, gb.delta)
  BY ONLY <1>2, <1>3, <1>4, <1>5, ProductsGiven
<1>7. toG'[1] = diff
  BY <1>1, FirstMessage DEF IInv
<1>8. /\ gb'.xDeltaBKeys = keys[0] /\ gb'.delta = gb.delta /\ gb'.xKeys = gb.xKeys
      /\ gb'.alpha0 = gb.alpha0 /\ gb'.deltaBKey = gb.deltaBKey
      /\ ev'.xDeltaBMacs = macs /\ ev'.delta = ev.delta /\ ev'.x = ev.x /\ ev'.xMacs = ev.xMacs
      /\ ev'.beta0 = ev.beta0 /\ ev'.authedDeltaB = ev.authedDeltaB
  BY <1>1 DEF IInv, Objects, GarblerObjects, EvaluatorObjects
<1>9. XDeltaBKeys' = fixed
  BY <1>1, <1>5, <1>7, <1>8 DEF XDeltaBKeys
<1>10. XPhase'
  BY <1>1, <1>3, <1>6, <1>8, <1>9 DEF XPhase, XHeld, XProductsHeld, XProofHeld, XLsbsHeld
<1> QED  BY <1>1, <1>8, <1>10, XStep DEF XGarbler, XEvaluator

LEMMA XDeltaBDiffChecks == IInv /\ ChecksInv /\ XDeltaBDiff => ChecksInv'
<1> SUFFICES ASSUME IInv, ChecksInv, XDeltaBDiff PROVE ChecksInv'
  OBVIOUS
<1> DEFINE fixed == FixedBlockKeys(Only(gb.xDeltaBKeys), Only(gb.delta), Head(toG))[0]
<1>1. /\ gpc = "xDeltaBDiff" /\ gpc' = "proofX" /\ epc' = epc /\ ev' = ev /\ toG # <<>>
      /\ gb' = [gb EXCEPT !.xDeltaBKeys = fixed]
  BY DEF XDeltaBDiff, GarblerStep, ReadG
<1>2. epc = "proofX" /\ Head(toG) = toG[1]
  BY <1>1, Partners, FirstMessage DEF IInv, ChecksInv
<1>3. fixed = XDeltaBKeys
  BY <1>1, <1>2 DEF XDeltaBKeys
<1> HIDE DEF fixed
<1>4. /\ gb'.xDeltaBKeys = fixed /\ gb'.delta = gb.delta /\ gb'.xKeys = gb.xKeys
      /\ gb'.alpha0 = gb.alpha0 /\ gb'.deltaBKey = gb.deltaBKey
  BY <1>1 DEF IInv, Objects, GarblerObjects
<1>5. XDeltaBKeys' = fixed
  BY <1>1, <1>4 DEF XDeltaBKeys
<1>6. /\ BitsHeld(ev.x, ev.xMacs, gb.xKeys, gb.delta)
      /\ ProductsHeld(ev.x, ev.delta, ev.xDeltaBMacs, fixed, gb.delta)
  BY <1>1, <1>2, <1>3 DEF ChecksInv, XPhase, XHeld, XProductsHeld
<1>7. XPhase'
  BY <1>1, <1>2, <1>4, <1>5, <1>6 DEF XPhase, XHeld, XProductsHeld, XProofHeld, XLsbsHeld
<1> QED  BY <1>1, <1>2, <1>4, <1>7, XStep DEF XGarbler, XEvaluator

(* Challenges of a seed that is a block.                                   *)
LEMMA ChallengesDrawn ==
  ASSUME NEW seed \in Block
  PROVE  ChallengesHeld(Challenges(seed))
BY RandomnessAssumption DEF ChallengesHeld, Challenges

LEMMA ProofXChecks == IInv /\ ChecksInv /\ ProofX => ChecksInv'
<1> SUFFICES ASSUME IInv, ChecksInv, ProofX PROVE ChecksInv'
  OBVIOUS
<1> DEFINE key == RandomBlock(setup.seed, "proofX", 0, 0)
           block == RandomBlock(setup.seed, "proofXBlock", 0, 0)
           seed == RandomBlock(setup.seed, "proofXSeed", 0, 0)
           mask == [block |-> block, mac |-> key \oplus GfMul(block, gb.delta)]
<1>1. /\ gpc = "proofX" /\ epc = "proofX" /\ gpc' = "verifyX" /\ epc' = "proveX"
      /\ gb' = [gb EXCEPT !.proofKey = key, !.chal = Challenges(seed)]
      /\ ev' = [ev EXCEPT !.proofMask = mask]
      /\ toE = <<>> /\ toE' = Append(toE, seed)
  BY DEF ProofX, Together, SendE
<1>2. key \in Block /\ block \in Block /\ seed \in Block
  BY RandomTypes DEF IInv, Objects, RandomNames
<1> HIDE DEF key, block, seed
<1>3. BlockHeld(mask.block, mask.mac, key, gb.delta)
  BY <1>2 DEF BlockHeld
<1> HIDE DEF mask
<1>4. ChallengesHeld(Challenges(seed))
  BY <1>2, ChallengesDrawn
<1>5. toE'[1] = seed
  BY <1>1, FirstMessage DEF IInv
<1>6. /\ gb'.proofKey = key /\ gb'.chal = Challenges(seed)
      /\ gb'.delta = gb.delta /\ gb'.xKeys = gb.xKeys /\ gb'.xDeltaBKeys = gb.xDeltaBKeys
      /\ gb'.alpha0 = gb.alpha0 /\ gb'.deltaBKey = gb.deltaBKey
      /\ ev'.proofMask = mask /\ ev'.delta = ev.delta /\ ev'.x = ev.x /\ ev'.xMacs = ev.xMacs
      /\ ev'.xDeltaBMacs = ev.xDeltaBMacs
      /\ ev'.beta0 = ev.beta0 /\ ev'.authedDeltaB = ev.authedDeltaB
  BY <1>1 DEF IInv, Objects, GarblerObjects, EvaluatorObjects
<1>7. XDeltaBKeys' = XDeltaBKeys
  BY <1>1, <1>6 DEF XDeltaBKeys
<1>8. /\ BitsHeld(ev.x, ev.xMacs, gb.xKeys, gb.delta)
      /\ ProductsHeld(ev.x, ev.delta, ev.xDeltaBMacs, XDeltaBKeys, gb.delta)
  BY <1>1 DEF ChecksInv, XPhase, XHeld, XProductsHeld
<1>9. XHeld' /\ XProductsHeld' /\ XLsbsHeld'
  BY <1>1, <1>6, <1>7, <1>8 DEF XHeld, XProductsHeld, XLsbsHeld
<1>10. XProofHeld'
  BY <1>1, <1>3, <1>4, <1>5, <1>6 DEF XProofHeld
<1> QED  BY <1>1, <1>6, <1>9, <1>10, XStep DEF XPhase, XGarbler, XEvaluator

LEMMA ProveXChecks == IInv /\ ChecksInv /\ ProveX => ChecksInv'
<1> SUFFICES ASSUME IInv, ChecksInv, ProveX PROVE ChecksInv'
  OBVIOUS
<1>1. /\ epc = "proveX" /\ epc' = "recvXLsbs" /\ gpc' = gpc /\ gb' = gb /\ ev' = ev
      /\ toE # <<>> /\ toG' = Append(toG, Proof(XStatement, Head(toE), ev.proofMask))
  BY DEF ProveX, EvaluatorStep, XStatement
<1>2. gpc = "verifyX" /\ toG = <<>> /\ Head(toE) = toE[1]
  BY <1>1, Partners, FirstMessage DEF IInv, ChecksInv
<1>3. /\ BlockHeld(ev.proofMask.block, ev.proofMask.mac, gb.proofKey, gb.delta)
      /\ ChallengesHeld(gb.chal) /\ gb.chal = Challenges(toE[1])
  BY <1>1, <1>2 DEF ChecksInv, XPhase, XProofHeld
<1>4. toG'[1] = ProofOver(gb.chal, XStatement, ev.proofMask)
  <2>1. Proof(XStatement, Head(toE), ev.proofMask) = ProofOver(gb.chal, XStatement, ev.proofMask)
    BY <1>2, <1>3 DEF Proof, ProofOver
  <2> QED  BY <1>1, <1>2, <2>1, FirstMessage DEF IInv
<1>5. XStatement' = XStatement /\ XDeltaBKeys' = XDeltaBKeys
  BY <1>1, <1>2 DEF XStatement, XDeltaBKeys
<1>6. XProofHeld'
  BY <1>1, <1>3, <1>4, <1>5 DEF XProofHeld
<1>7. XHeld' /\ XProductsHeld' /\ XLsbsHeld'
  BY <1>1, <1>2, <1>5 DEF ChecksInv, XPhase, XHeld, XProductsHeld, XLsbsHeld
<1> QED  BY <1>1, <1>2, <1>6, <1>7, XStep DEF XPhase, XGarbler, XEvaluator

LEMMA VerifyXChecks == IInv /\ ChecksInv /\ VerifyX => ChecksInv'
<1> SUFFICES ASSUME IInv, ChecksInv, VerifyX PROVE ChecksInv'
  OBVIOUS
<1> DEFINE b == B(Batch, gb.chal, KeysTimes(gb.xKeys, gb.deltaBKey, gb.xDeltaBKeys), gb.proofKey,
                  gb.delta)
<1>1. /\ gpc = "verifyX" /\ epc' = epc /\ gb' = gb /\ ev' = ev /\ toG # <<>>
      /\ gpc' = Unless(Accepts(b, Head(toG), gb.delta), "sendXLsbs")
  BY DEF VerifyX, GarblerStep, ReadG
<1>2. epc = "recvXLsbs" /\ Head(toG) = toG[1]
  BY <1>1, Partners, FirstMessage DEF IInv, ChecksInv
<1>3. /\ BitsHeld(ev.x, ev.xMacs, gb.xKeys, gb.delta)
      /\ ProductsHeld(ev.x, ev.delta, ev.xDeltaBMacs, gb.xDeltaBKeys, gb.delta)
      /\ BlockHeld(ev.proofMask.block, ev.proofMask.mac, gb.proofKey, gb.delta)
      /\ ChallengesHeld(gb.chal)
      /\ Head(toG) = ProofOver(gb.chal, XStatement, ev.proofMask)
  BY <1>1, <1>2 DEF ChecksInv, XPhase, XHeld, XProductsHeld, XProofHeld, XDeltaBKeys
<1>4. BlockHeld(ev.delta, ev.authedDeltaB, gb.deltaBKey, gb.delta) /\ gb.delta \in Block
  BY <1>1, <1>2, KeysSettled DEF IInv, ChecksInv, LateGarbler, LateEvaluator, Objects
<1>5. Accepts(b, Head(toG), gb.delta)
  BY <1>3, <1>4, ProofAccepted DEF XStatement
<1>6. gpc' = "sendXLsbs"
  BY <1>1, <1>5 DEF Unless
<1>7. XDeltaBKeys' = gb.xDeltaBKeys
  BY <1>1, <1>6 DEF XDeltaBKeys
<1>8. XPhase'
  BY <1>1, <1>2, <1>3, <1>6, <1>7 DEF XPhase, XHeld, XProductsHeld, XProofHeld, XLsbsHeld
<1> QED  BY <1>1, <1>2, <1>6, <1>8, XStep DEF XGarbler, XEvaluator

LEMMA SendXLsbsChecks == IInv /\ ChecksInv /\ SendXLsbs => ChecksInv'
<1> SUFFICES ASSUME IInv, ChecksInv, SendXLsbs PROVE ChecksInv'
  OBVIOUS
<1>1. /\ gpc = "sendXLsbs" /\ gpc' = "deltaA" /\ epc' = epc /\ gb' = gb /\ ev' = ev
      /\ toE' = Append(toE, Lsbs(gb.xDeltaBKeys))
  BY DEF SendXLsbs, GarblerStep, SendE
<1>2. epc = "recvXLsbs" /\ toE = <<>>
  BY <1>1, Partners DEF IInv, ChecksInv
<1>3. toE'[1] = Lsbs(gb.xDeltaBKeys)
  BY <1>1, <1>2, FirstMessage DEF IInv
<1>4. XDeltaBKeys' = XDeltaBKeys
  BY <1>1 DEF XDeltaBKeys
<1>5. XPhase'
  BY <1>1, <1>2, <1>3, <1>4 DEF ChecksInv, XPhase, XHeld, XProductsHeld, XProofHeld, XLsbsHeld
<1> QED  BY <1>1, <1>2, <1>5, XStep DEF XGarbler, XEvaluator

LEMMA RecvXLsbsChecks == IInv /\ ChecksInv /\ RecvXLsbs => ChecksInv'
<1> SUFFICES ASSUME IInv, ChecksInv, RecvXLsbs PROVE ChecksInv'
  OBVIOUS
<1>1. /\ epc = "recvXLsbs" /\ gpc' = gpc /\ gb' = gb /\ ev' = ev /\ toE # <<>>
      /\ epc' = Unless(Head(toE) = ExpectedLsbs(ev.xDeltaBMacs, ev.x), "deltaA")
  BY DEF RecvXLsbs, EvaluatorStep, ReadE
<1>2. gpc = "deltaA" /\ Head(toE) = toE[1]
  BY <1>1, Partners, FirstMessage DEF IInv, ChecksInv
<1>3. Head(toE) = ExpectedLsbs(ev.xDeltaBMacs, ev.x)
  <2>1. /\ ProductsHeld(ev.x, ev.delta, ev.xDeltaBMacs, gb.xDeltaBKeys, gb.delta)
        /\ ev.x \in [Batch -> BOOLEAN] /\ toE[1] = Lsbs(gb.xDeltaBKeys)
    BY <1>1, <1>2
    DEF ChecksInv, XPhase, XHeld, BitsHeld, XProductsHeld, XDeltaBKeys, XLsbsHeld
  <2>2. GetLSB(GfMul(ev.delta, gb.delta)) /\ ev.delta \in Block /\ gb.delta \in Block
    BY <1>1, <1>2, KeysSettled DEF IInv, ChecksInv, LateGarbler, LateEvaluator, Objects
  <2> QED  BY <1>2, <2>1, <2>2, ProductsChecked
<1>4. epc' = "deltaA"
  BY <1>1, <1>3 DEF Unless
<1>5. XPhase'
  BY <1>1, <1>2, <1>4, OutsideNext
<1> QED  BY <1>1, <1>2, <1>4, <1>5, XStep DEF XGarbler, XEvaluator

-----------------------------------------------------------------------------
(***************************************************************************)
(* The garbler's proof.                                                    *)
(***************************************************************************)
YGarbler == {"deltaA", "y", "yDeltaA", "proofY", "proveY", "recvYLsbs"}

YEvaluator ==
  {"deltaA", "deltaADiff", "y", "yDeltaA", "yDeltaADiff", "proofY", "verifyY", "sendYLsbs"}

LEMMA YStep ==
  ASSUME ChecksInv, gpc \in YGarbler, epc \in YEvaluator,
         gpc' \in YGarbler, epc' \in YEvaluator,
         gb'.alpha0 = gb.alpha0, gb'.deltaBKey = gb.deltaBKey,
         ev'.beta0 = ev.beta0, ev'.authedDeltaB = ev.authedDeltaB,
         YPhase'
  PROVE  ChecksInv'
<1>1. SettledHeld'
  BY SettledStays DEF ChecksInv, YGarbler, YEvaluator, LateGarbler, LateEvaluator
<1>2. UHeld' /\ XPhase' /\ NoFalseAlarm'
  BY OutsideNext DEF NoFalseAlarm, Aborted, YGarbler, YEvaluator
<1>3. HalvesHeld'
  BY DEF HalvesHeld, YGarbler, YEvaluator
<1> QED  BY <1>1, <1>2, <1>3 DEF ChecksInv

(* The MAC of the choice is the value's under the fixed key.               *)
LEMMA BlockGiven ==
  ASSUME NEW key \in Block, NEW choice \in Block, NEW block \in Block, NEW delta \in Block
  PROVE  BlockHeld(block, key \oplus GfMul(choice, delta),
                   key \oplus GfMul(choice \oplus block, delta), delta)
<1>1. GfMul(choice \oplus block, delta) = GfMul(choice, delta) \oplus GfMul(block, delta)
  BY Product
<1>2. key \oplus GfMul(choice \oplus block, delta) \in Block
  BY BlockType, FieldAssumption
<1>3. \A p, q : key \oplus p = (key \oplus (p \oplus q)) \oplus q
  BY SMT DEF \oplus
<1> QED  BY <1>1, <1>2, <1>3 DEF BlockHeld

LEMMA DeltaAChecks == IInv /\ ChecksInv /\ DeltaA => ChecksInv'
<1> SUFFICES ASSUME IInv, ChecksInv, DeltaA PROVE ChecksInv'
  OBVIOUS
<1> DEFINE key == RandomBlock(setup.seed, "deltaA", 0, 0)
           choice == RandomBlock(setup.seed, "deltaAChoice", 0, 0)
           mac == key \oplus GfMul(choice, ev.delta)
           diff == choice \oplus gb.delta
           fixed == key \oplus GfMul(diff, ev.delta)
<1>1. /\ gpc = "deltaA" /\ epc = "deltaA" /\ gpc' = "y" /\ epc' = "deltaADiff"
      /\ gb' = [gb EXCEPT !.authedDeltaA = mac]
      /\ ev' = [ev EXCEPT !.deltaAKey = key]
      /\ toE = <<>> /\ toE' = Append(toE, diff)
  BY DEF DeltaA, Together, SendE
<1>2. key \in Block /\ choice \in Block /\ gb.delta \in Block /\ ev.delta \in Block
  BY RandomTypes DEF IInv, Objects, RandomNames
<1> HIDE DEF key, choice
<1>3. BlockHeld(gb.delta, mac, fixed, ev.delta)
  BY <1>2, BlockGiven
<1> HIDE DEF mac, diff
<1>4. toE'[1] = diff
  BY <1>1, FirstMessage DEF IInv
<1>5. /\ gb'.authedDeltaA = mac /\ gb'.delta = gb.delta
      /\ gb'.alpha0 = gb.alpha0 /\ gb'.deltaBKey = gb.deltaBKey
      /\ ev'.deltaAKey = key /\ ev'.delta = ev.delta
      /\ ev'.beta0 = ev.beta0 /\ ev'.authedDeltaB = ev.authedDeltaB
  BY <1>1 DEF IInv, Objects, GarblerObjects, EvaluatorObjects
<1>6. DeltaAKey' = fixed
  BY <1>1, <1>4, <1>5 DEF DeltaAKey
<1> HIDE DEF fixed
<1>7. YPhase'
  BY <1>1, <1>3, <1>5, <1>6
  DEF YPhase, DeltaAHeld, YHeld, YProductsHeld, YProofHeld, YLsbsHeld
<1> QED  BY <1>1, <1>5, <1>7, YStep DEF YGarbler, YEvaluator

LEMMA DeltaADiffChecks == IInv /\ ChecksInv /\ DeltaADiff => ChecksInv'
<1> SUFFICES ASSUME IInv, ChecksInv, DeltaADiff PROVE ChecksInv'
  OBVIOUS
<1> DEFINE fixed == ev.deltaAKey \oplus GfMul(Head(toE), ev.delta)
<1>1. /\ epc = "deltaADiff" /\ epc' = "y" /\ gpc' = gpc /\ gb' = gb /\ toE # <<>>
      /\ ev' = [ev EXCEPT !.deltaAKey = fixed]
  BY DEF DeltaADiff, EvaluatorStep, ReadE
<1>2. gpc = "y" /\ Head(toE) = toE[1]
  BY <1>1, Partners, FirstMessage DEF IInv, ChecksInv
<1>3. fixed = DeltaAKey
  BY <1>1, <1>2 DEF DeltaAKey
<1> HIDE DEF fixed
<1>4. /\ ev'.deltaAKey = fixed /\ ev'.delta = ev.delta
      /\ ev'.beta0 = ev.beta0 /\ ev'.authedDeltaB = ev.authedDeltaB
  BY <1>1 DEF IInv, Objects, EvaluatorObjects
<1>5. DeltaAKey' = fixed
  BY <1>1, <1>4 DEF DeltaAKey
<1>6. BlockHeld(gb.delta, gb.authedDeltaA, fixed, ev.delta)
  BY <1>1, <1>2, <1>3 DEF ChecksInv, YPhase, DeltaAHeld
<1>7. YPhase'
  BY <1>1, <1>2, <1>4, <1>5, <1>6
  DEF YPhase, DeltaAHeld, YHeld, YProductsHeld, YProofHeld, YLsbsHeld
<1> QED  BY <1>1, <1>2, <1>4, <1>7, YStep DEF YGarbler, YEvaluator

LEMMA YChecks == IInv /\ ChecksInv /\ Y => ChecksInv'
<1> SUFFICES ASSUME IInv, ChecksInv, Y PROVE ChecksInv'
  OBVIOUS
<1> DEFINE keys == RandomKeys("y", Only(ev.delta), SecurityBits)
           bits == RandomBits("y", SecurityBits)
           macs == BitMacs(keys, Only(ev.delta), bits)[0]
<1>1. /\ gpc = "y" /\ epc = "y" /\ gpc' = "yDeltaA" /\ epc' = "yDeltaA"
      /\ gb' = [gb EXCEPT !.y = bits, !.yMacs = macs]
      /\ ev' = [ev EXCEPT !.yKeys = keys[0]]
  BY DEF Y, Together
<1>2. keys[0] \in [Batch -> Block] /\ bits \in [Batch -> BOOLEAN]
  BY RandomVectors DEF IInv, RandomNames
<1> HIDE DEF keys, bits
<1>3. BitsHeld(bits, macs, keys[0], ev.delta)
  BY <1>2, BitsGiven
<1> HIDE DEF macs
<1>4. /\ ev'.yKeys = keys[0] /\ ev'.delta = ev.delta /\ ev'.deltaAKey = ev.deltaAKey
      /\ ev'.beta0 = ev.beta0 /\ ev'.authedDeltaB = ev.authedDeltaB
      /\ gb'.y = bits /\ gb'.yMacs = macs /\ gb'.delta = gb.delta
      /\ gb'.authedDeltaA = gb.authedDeltaA
      /\ gb'.alpha0 = gb.alpha0 /\ gb'.deltaBKey = gb.deltaBKey
  BY <1>1 DEF IInv, Objects, GarblerObjects, EvaluatorObjects
<1>5. BlockHeld(gb.delta, gb.authedDeltaA, ev.deltaAKey, ev.delta) /\ DeltaAKey' = ev.deltaAKey
  BY <1>1, <1>4 DEF ChecksInv, YPhase, DeltaAHeld, DeltaAKey
<1>6. YPhase'
  BY <1>1, <1>3, <1>4, <1>5
  DEF YPhase, DeltaAHeld, YHeld, YProductsHeld, YProofHeld, YLsbsHeld
<1> QED  BY <1>1, <1>4, <1>6, YStep DEF YGarbler, YEvaluator

LEMMA YDeltaAChecks == IInv /\ ChecksInv /\ YDeltaA => ChecksInv'
<1> SUFFICES ASSUME IInv, ChecksInv, YDeltaA PROVE ChecksInv'
  OBVIOUS
<1> DEFINE keys == RandomKeys("yDeltaA", Only(ev.delta), SecurityBits)
           choices == RandomBlocks("yDeltaAChoices", SecurityBits)
           diff == BlockDiff(choices, [i \in Batch |-> AndAllBits(gb.y[i], gb.delta)])
           macs == BlockMacs(keys, Only(ev.delta), choices)[0]
           fixed == FixedBlockKeys(Only(keys[0]), Only(ev.delta), diff)[0]
<1>1. /\ gpc = "yDeltaA" /\ epc = "yDeltaA" /\ gpc' = "proofY" /\ epc' = "yDeltaADiff"
      /\ gb' = [gb EXCEPT !.yDeltaAMacs = macs]
      /\ ev' = [ev EXCEPT !.yDeltaAKeys = keys[0]]
      /\ toE = <<>> /\ toE' = Append(toE, diff)
  BY DEF YDeltaA, Together, SendE
<1>2. keys[0] \in [Batch -> Block] /\ choices \in [Batch -> Block]
  BY RandomVectors DEF IInv, RandomNames
<1>3. /\ BitsHeld(gb.y, gb.yMacs, ev.yKeys, ev.delta) /\ gb.delta \in Block /\ ev.delta \in Block
      /\ BlockHeld(gb.delta, gb.authedDeltaA, ev.deltaAKey, ev.delta)
  BY <1>1 DEF ChecksInv, YPhase, YHeld, DeltaAHeld, DeltaAKey, IInv, Objects
<1>4. gb.y \in [Batch -> BOOLEAN]
  BY <1>3 DEF BitsHeld
<1> HIDE DEF keys, choices
<1>5. /\ diff = BlockDiff(choices, [i \in Batch |-> AndAllBits(gb.y[i], gb.delta)])
      /\ fixed = FixedBlockKeys(Only(keys[0]), Only(ev.delta), diff)[0]
      /\ macs = BlockMacs(keys, Only(ev.delta), choices)[0]
  OBVIOUS
<1> HIDE DEF diff, fixed, macs
<1>6. ProductsHeld(gb.y, gb.delta, macs, fixed, ev.delta)
  BY ONLY <1>2, <1>3, <1>4, <1>5, ProductsGiven
<1>7. toE'[1] = diff
  BY <1>1, FirstMessage DEF IInv
<1>8. /\ ev'.yDeltaAKeys = keys[0] /\ ev'.delta = ev.delta /\ ev'.yKeys = ev.yKeys
      /\ ev'.deltaAKey = ev.deltaAKey
      /\ ev'.beta0 = ev.beta0 /\ ev'.authedDeltaB = ev.authedDeltaB
      /\ gb'.yDeltaAMacs = macs /\ gb'.delta = gb.delta /\ gb'.y = gb.y /\ gb'.yMacs = gb.yMacs
      /\ gb'.authedDeltaA = gb.authedDeltaA
      /\ gb'.alpha0 = gb.alpha0 /\ gb'.deltaBKey = gb.deltaBKey
  BY <1>1 DEF IInv, Objects, GarblerObjects, EvaluatorObjects
<1>9. YDeltaAKeys' = fixed /\ DeltaAKey' = ev.deltaAKey
  BY <1>1, <1>5, <1>7, <1>8 DEF YDeltaAKeys, DeltaAKey
<1>10. YPhase'
  BY <1>1, <1>3, <1>6, <1>8, <1>9
  DEF YPhase, DeltaAHeld, YHeld, YProductsHeld, YProofHeld, YLsbsHeld
<1> QED  BY <1>1, <1>8, <1>10, YStep DEF YGarbler, YEvaluator

LEMMA YDeltaADiffChecks == IInv /\ ChecksInv /\ YDeltaADiff => ChecksInv'
<1> SUFFICES ASSUME IInv, ChecksInv, YDeltaADiff PROVE ChecksInv'
  OBVIOUS
<1> DEFINE fixed == FixedBlockKeys(Only(ev.yDeltaAKeys), Only(ev.delta), Head(toE))[0]
<1>1. /\ epc = "yDeltaADiff" /\ epc' = "proofY" /\ gpc' = gpc /\ gb' = gb /\ toE # <<>>
      /\ ev' = [ev EXCEPT !.yDeltaAKeys = fixed]
  BY DEF YDeltaADiff, EvaluatorStep, ReadE
<1>2. gpc = "proofY" /\ Head(toE) = toE[1]
  BY <1>1, Partners, FirstMessage DEF IInv, ChecksInv
<1>3. fixed = YDeltaAKeys
  BY <1>1, <1>2 DEF YDeltaAKeys
<1> HIDE DEF fixed
<1>4. /\ ev'.yDeltaAKeys = fixed /\ ev'.delta = ev.delta /\ ev'.yKeys = ev.yKeys
      /\ ev'.deltaAKey = ev.deltaAKey
      /\ ev'.beta0 = ev.beta0 /\ ev'.authedDeltaB = ev.authedDeltaB
  BY <1>1 DEF IInv, Objects, EvaluatorObjects
<1>5. YDeltaAKeys' = fixed /\ DeltaAKey' = ev.deltaAKey
  BY <1>1, <1>4 DEF YDeltaAKeys, DeltaAKey
<1>6. /\ BitsHeld(gb.y, gb.yMacs, ev.yKeys, ev.delta)
      /\ BlockHeld(gb.delta, gb.authedDeltaA, ev.deltaAKey, ev.delta)
      /\ ProductsHeld(gb.y, gb.delta, gb.yDeltaAMacs, fixed, ev.delta)
  BY <1>1, <1>2, <1>3 DEF ChecksInv, YPhase, YHeld, DeltaAHeld, DeltaAKey, YProductsHeld
<1>7. YPhase'
  BY <1>1, <1>2, <1>4, <1>5, <1>6
  DEF YPhase, DeltaAHeld, YHeld, YProductsHeld, YProofHeld, YLsbsHeld
<1> QED  BY <1>1, <1>2, <1>4, <1>7, YStep DEF YGarbler, YEvaluator

LEMMA ProofYChecks == IInv /\ ChecksInv /\ ProofY => ChecksInv'
<1> SUFFICES ASSUME IInv, ChecksInv, ProofY PROVE ChecksInv'
  OBVIOUS
<1> DEFINE key == RandomBlock(setup.seed, "proofY", 0, 0)
           block == RandomBlock(setup.seed, "proofYBlock", 0, 0)
           seed == RandomBlock(setup.seed, "proofYSeed", 0, 0)
           mask == [block |-> block, mac |-> key \oplus GfMul(block, ev.delta)]
<1>1. /\ gpc = "proofY" /\ epc = "proofY" /\ gpc' = "proveY" /\ epc' = "verifyY"
      /\ ev' = [ev EXCEPT !.proofKey = key, !.chal = Challenges(seed)]
      /\ gb' = [gb EXCEPT !.proofMask = mask]
      /\ toG = <<>> /\ toG' = Append(toG, seed)
  BY DEF ProofY, Together, SendG
<1>2. key \in Block /\ block \in Block /\ seed \in Block
  BY RandomTypes DEF IInv, Objects, RandomNames
<1> HIDE DEF key, block, seed
<1>3. BlockHeld(mask.block, mask.mac, key, ev.delta)
  BY <1>2 DEF BlockHeld
<1> HIDE DEF mask
<1>4. ChallengesHeld(Challenges(seed))
  BY <1>2, ChallengesDrawn
<1>5. toG'[1] = seed
  BY <1>1, FirstMessage DEF IInv
<1>6. /\ ev'.proofKey = key /\ ev'.chal = Challenges(seed)
      /\ ev'.delta = ev.delta /\ ev'.yKeys = ev.yKeys /\ ev'.yDeltaAKeys = ev.yDeltaAKeys
      /\ ev'.deltaAKey = ev.deltaAKey
      /\ ev'.beta0 = ev.beta0 /\ ev'.authedDeltaB = ev.authedDeltaB
      /\ gb'.proofMask = mask /\ gb'.delta = gb.delta /\ gb'.y = gb.y /\ gb'.yMacs = gb.yMacs
      /\ gb'.yDeltaAMacs = gb.yDeltaAMacs /\ gb'.authedDeltaA = gb.authedDeltaA
      /\ gb'.alpha0 = gb.alpha0 /\ gb'.deltaBKey = gb.deltaBKey
  BY <1>1 DEF IInv, Objects, GarblerObjects, EvaluatorObjects
<1>7. YDeltaAKeys' = YDeltaAKeys /\ DeltaAKey' = DeltaAKey
  BY <1>1, <1>6 DEF YDeltaAKeys, DeltaAKey
<1>8. /\ BitsHeld(gb.y, gb.yMacs, ev.yKeys, ev.delta)
      /\ BlockHeld(gb.delta, gb.authedDeltaA, DeltaAKey, ev.delta)
      /\ ProductsHeld(gb.y, gb.delta, gb.yDeltaAMacs, YDeltaAKeys, ev.delta)
  BY <1>1 DEF ChecksInv, YPhase, YHeld, DeltaAHeld, YProductsHeld
<1>9. DeltaAHeld' /\ YHeld' /\ YProductsHeld' /\ YLsbsHeld'
  BY <1>1, <1>6, <1>7, <1>8 DEF DeltaAHeld, YHeld, YProductsHeld, YLsbsHeld
<1>10. YProofHeld'
  BY <1>1, <1>3, <1>4, <1>5, <1>6 DEF YProofHeld
<1> QED  BY <1>1, <1>6, <1>9, <1>10, YStep DEF YPhase, YGarbler, YEvaluator

LEMMA ProveYChecks == IInv /\ ChecksInv /\ ProveY => ChecksInv'
<1> SUFFICES ASSUME IInv, ChecksInv, ProveY PROVE ChecksInv'
  OBVIOUS
<1>1. /\ gpc = "proveY" /\ gpc' = "recvYLsbs" /\ epc' = epc /\ gb' = gb /\ ev' = ev
      /\ toG # <<>> /\ toE' = Append(toE, Proof(YStatement, Head(toG), gb.proofMask))
  BY DEF ProveY, GarblerStep, YStatement
<1>2. epc = "verifyY" /\ toE = <<>> /\ Head(toG) = toG[1]
  BY <1>1, Partners, FirstMessage DEF IInv, ChecksInv
<1>3. /\ BlockHeld(gb.proofMask.block, gb.proofMask.mac, ev.proofKey, ev.delta)
      /\ ChallengesHeld(ev.chal) /\ ev.chal = Challenges(toG[1])
  BY <1>1, <1>2 DEF ChecksInv, YPhase, YProofHeld
<1>4. toE'[1] = ProofOver(ev.chal, YStatement, gb.proofMask)
  <2>1. Proof(YStatement, Head(toG), gb.proofMask) = ProofOver(ev.chal, YStatement, gb.proofMask)
    BY <1>2, <1>3 DEF Proof, ProofOver
  <2> QED  BY <1>1, <1>2, <2>1, FirstMessage DEF IInv
<1>5. YStatement' = YStatement /\ YDeltaAKeys' = YDeltaAKeys /\ DeltaAKey' = DeltaAKey
  BY <1>1, <1>2 DEF YStatement, YDeltaAKeys, DeltaAKey
<1>6. YProofHeld'
  BY <1>1, <1>3, <1>4, <1>5 DEF YProofHeld
<1>7. DeltaAHeld' /\ YHeld' /\ YProductsHeld' /\ YLsbsHeld'
  BY <1>1, <1>2, <1>5 DEF ChecksInv, YPhase, DeltaAHeld, YHeld, YProductsHeld, YLsbsHeld
<1> QED  BY <1>1, <1>2, <1>6, <1>7, YStep DEF YPhase, YGarbler, YEvaluator

LEMMA VerifyYChecks == IInv /\ ChecksInv /\ VerifyY => ChecksInv'
<1> SUFFICES ASSUME IInv, ChecksInv, VerifyY PROVE ChecksInv'
  OBVIOUS
<1> DEFINE b == B(Batch, ev.chal, KeysTimes(ev.yKeys, ev.deltaAKey, ev.yDeltaAKeys), ev.proofKey,
                  ev.delta)
<1>1. /\ epc = "verifyY" /\ gpc' = gpc /\ gb' = gb /\ ev' = ev /\ toE # <<>>
      /\ epc' = Unless(Accepts(b, Head(toE), ev.delta), "sendYLsbs")
  BY DEF VerifyY, EvaluatorStep, ReadE
<1>2. gpc = "recvYLsbs" /\ Head(toE) = toE[1]
  BY <1>1, Partners, FirstMessage DEF IInv, ChecksInv
<1>3. /\ BitsHeld(gb.y, gb.yMacs, ev.yKeys, ev.delta)
      /\ BlockHeld(gb.delta, gb.authedDeltaA, ev.deltaAKey, ev.delta)
      /\ ProductsHeld(gb.y, gb.delta, gb.yDeltaAMacs, ev.yDeltaAKeys, ev.delta)
      /\ BlockHeld(gb.proofMask.block, gb.proofMask.mac, ev.proofKey, ev.delta)
      /\ ChallengesHeld(ev.chal)
      /\ Head(toE) = ProofOver(ev.chal, YStatement, gb.proofMask)
  BY <1>1, <1>2 DEF ChecksInv, YPhase, YHeld, YProductsHeld, YProofHeld, YDeltaAKeys,
     DeltaAHeld, DeltaAKey
<1>4. ev.delta \in Block
  BY DEF IInv, Objects
<1>5. Accepts(b, Head(toE), ev.delta)
  BY <1>3, <1>4, ProofAccepted DEF YStatement
<1>6. epc' = "sendYLsbs"
  BY <1>1, <1>5 DEF Unless
<1>7. YDeltaAKeys' = ev.yDeltaAKeys /\ DeltaAKey' = ev.deltaAKey
  BY <1>1, <1>6 DEF YDeltaAKeys, DeltaAKey
<1>8. YPhase'
  BY <1>1, <1>2, <1>3, <1>6, <1>7
  DEF YPhase, DeltaAHeld, YHeld, YProductsHeld, YProofHeld, YLsbsHeld
<1> QED  BY <1>1, <1>2, <1>6, <1>8, YStep DEF YGarbler, YEvaluator

-----------------------------------------------------------------------------
(***************************************************************************)
(* The lowest bits of the evaluator's keys, and the comparison, which the  *)
(* evaluator begins while the garbler may still be checking them.          *)
(***************************************************************************)
EndGarbler == {"recvYLsbs", "compare", "comparing", "sampled"}

EndEvaluator == {"compare", "comparing", "sampled"}

LEMMA EndStep ==
  ASSUME ChecksInv, gpc \in EndGarbler, epc \in EndEvaluator \cup {"sendYLsbs"},
         gpc' \in EndGarbler, epc' \in EndEvaluator,
         gb'.alpha0 = gb.alpha0, gb'.deltaBKey = gb.deltaBKey,
         ev'.beta0 = ev.beta0, ev'.authedDeltaB = ev.authedDeltaB,
         YPhase', HalvesHeld'
  PROVE  ChecksInv'
<1>1. SettledHeld'
  BY SettledStays DEF ChecksInv, EndGarbler, EndEvaluator, LateGarbler, LateEvaluator
<1>2. UHeld' /\ XPhase' /\ NoFalseAlarm'
  BY OutsideNext DEF NoFalseAlarm, Aborted, EndGarbler, EndEvaluator
<1> QED  BY <1>1, <1>2 DEF ChecksInv

(* Who is where, and what is on its way, at the end.                       *)
LEMMA EndPartners ==
  ASSUME Control, NoFalseAlarm
  PROVE  /\ epc = "sendYLsbs" => gpc = "recvYLsbs" /\ toG = <<>> /\ toE = <<>>
         /\ epc \in EndEvaluator => gpc \in EndGarbler
         /\ gpc \in {"compare", "comparing", "sampled"} => epc \in EndEvaluator
         /\ gpc = "recvYLsbs" /\ epc \in EndEvaluator => toE = <<>>
         /\ gpc = "recvYLsbs" /\ epc \in EndEvaluator =>
              IF epc = "compare" THEN Holds(toG, 1) ELSE Holds(toG, 2) /\ epc = "comparing"
         /\ gpc = "compare" => toE = <<>>
         /\ gpc # "recvYLsbs" /\ epc = "compare" => toG = <<>>
<1>1. PICK m \in 0 .. 2, n \in 0 .. 2 :
        Holds(toG, m) /\ Holds(toE, n) /\ <<gpc, epc, m, n>> \in Locations
  BY DEF Control
<1>2. (toG = <<>> <=> m = 0) /\ (toE = <<>> <=> n = 0)
  BY <1>1, QueueTail DEF Holds
<1>3. gpc # "abort" /\ epc # "abort"
  BY DEF NoFalseAlarm, Aborted
<1>4. epc \in EndEvaluator /\ gpc = "recvYLsbs" =>
        IF epc = "compare" THEN m = 1 ELSE m = 2 /\ epc = "comparing"
  BY <1>1, <1>3 DEF Locations, EndEvaluator
<1>5. gpc = "recvYLsbs" /\ epc \in EndEvaluator =>
        IF epc = "compare" THEN Holds(toG, 1) ELSE Holds(toG, 2) /\ epc = "comparing"
  BY <1>1, <1>4
<1>6. /\ epc = "sendYLsbs" => gpc = "recvYLsbs" /\ m = 0 /\ n = 0
      /\ epc \in EndEvaluator => gpc \in EndGarbler
      /\ gpc \in {"compare", "comparing", "sampled"} => epc \in EndEvaluator
      /\ gpc = "recvYLsbs" /\ epc \in EndEvaluator => n = 0
      /\ gpc = "compare" => n = 0
      /\ gpc # "recvYLsbs" /\ epc = "compare" => m = 0
  BY <1>1, <1>3 DEF Locations, EndEvaluator, EndGarbler
<1> QED  BY <1>2, <1>5, <1>6

(* While the garbler waits for the lowest bits its objects stay.           *)
LEMMA YStays ==
  ASSUME YPhase, gpc = "recvYLsbs", epc \in {"sendYLsbs", "compare", "comparing"},
         epc' \in {"compare", "comparing"}, UNCHANGED <<gpc, gb, ev>>,
         toG'[1] = Lsbs(ev.yDeltaAKeys)
  PROVE  YPhase'
<1>1. DeltaAKey' = DeltaAKey /\ YDeltaAKeys' = YDeltaAKeys
  BY DEF DeltaAKey, YDeltaAKeys
<1> QED  BY <1>1 DEF YPhase, DeltaAHeld, YHeld, YProductsHeld, YProofHeld, YLsbsHeld

LEMMA SendYLsbsChecks == IInv /\ ChecksInv /\ SendYLsbs => ChecksInv'
<1> SUFFICES ASSUME IInv, ChecksInv, SendYLsbs PROVE ChecksInv'
  OBVIOUS
<1>1. /\ epc = "sendYLsbs" /\ epc' = "compare" /\ gpc' = gpc /\ gb' = gb /\ ev' = ev
      /\ toG' = Append(toG, Lsbs(ev.yDeltaAKeys)) /\ toE' = toE
  BY DEF SendYLsbs, EvaluatorStep, SendG
<1>2. gpc = "recvYLsbs" /\ toG = <<>> /\ toE = <<>>
  BY <1>1, EndPartners DEF IInv, ChecksInv
<1>3. toG'[1] = Lsbs(ev.yDeltaAKeys)
  BY <1>1, <1>2, FirstMessage DEF IInv
<1>4. YPhase'
  BY <1>1, <1>2, <1>3, YStays DEF ChecksInv
<1>5. HalvesHeld'
  BY <1>1, <1>2 DEF HalvesHeld
<1> QED  BY <1>1, <1>2, <1>4, <1>5, EndStep DEF EndGarbler, EndEvaluator

LEMMA RecvYLsbsChecks == IInv /\ ChecksInv /\ RecvYLsbs => ChecksInv'
<1> SUFFICES ASSUME IInv, ChecksInv, RecvYLsbs PROVE ChecksInv'
  OBVIOUS
<1>1. /\ gpc = "recvYLsbs" /\ epc' = epc /\ gb' = gb /\ ev' = ev
      /\ toG # <<>> /\ toG' = Tail(toG) /\ toE' = toE
      /\ gpc' = Unless(Head(toG) = ExpectedLsbs(gb.yDeltaAMacs, gb.y), "compare")
  BY DEF RecvYLsbs, GarblerStep, ReadG
<1>2. epc \in {"compare", "comparing"} /\ Head(toG) = toG[1]
  BY <1>1, Partners, FirstMessage DEF IInv, ChecksInv
<1>3. Head(toG) = ExpectedLsbs(gb.yDeltaAMacs, gb.y)
  <2>1. /\ ProductsHeld(gb.y, gb.delta, gb.yDeltaAMacs, ev.yDeltaAKeys, ev.delta)
        /\ gb.y \in [Batch -> BOOLEAN] /\ toG[1] = Lsbs(ev.yDeltaAKeys)
    BY <1>1, <1>2
    DEF ChecksInv, YPhase, YHeld, BitsHeld, YProductsHeld, YDeltaAKeys, YLsbsHeld
  <2>2. GetLSB(GfMul(gb.delta, ev.delta)) /\ ev.delta \in Block /\ gb.delta \in Block
    BY <1>1, <1>2, KeysSettled DEF IInv, ChecksInv, LateGarbler, LateEvaluator, Objects
  <2> QED  BY <1>2, <2>1, <2>2, ProductsChecked
<1>4. gpc' = "compare"
  BY <1>1, <1>3 DEF Unless
<1>5. YPhase'
  BY <1>1, <1>2, <1>4, OutsideNext
<1>6. /\ toE = <<>>
      /\ IF epc = "compare" THEN Holds(toG, 1) ELSE Holds(toG, 2) /\ epc = "comparing"
  BY <1>1, <1>2, EndPartners DEF IInv, ChecksInv, EndEvaluator
<1>7. /\ epc = "compare" => toG' = <<>>
      /\ epc = "comparing" => toG'[1] = toG[2]
  <2>1. CASE Holds(toG, 1) /\ epc = "compare"
    BY <1>1, <2>1, QueueTail DEF Holds
  <2>2. CASE Holds(toG, 2) /\ epc = "comparing"
    <3>1. Tail(toG)[1] = toG[2]
      <4>1. \A n \in 0 .. 2 : Holds(toG, n) => (n = 2 => Tail(toG)[1] = toG[2])
        BY <1>1, QueueTail
      <4>2. 2 \in 0 .. 2
        OBVIOUS
      <4> QED  BY <2>2, <4>1, <4>2, Zenon
    <3> QED  BY <1>1, <2>2, <3>1, Zenon
  <2> QED  BY <1>2, <1>6, <2>1, <2>2
<1>8. HalvesHeld'
  BY <1>1, <1>2, <1>4, <1>6, <1>7 DEF HalvesHeld, ChecksInv
<1> QED  BY <1>1, <1>2, <1>4, <1>5, <1>8, EndStep DEF EndGarbler, EndEvaluator

LEMMA CompareSendGChecks == IInv /\ ChecksInv /\ CompareSendG => ChecksInv'
<1> SUFFICES ASSUME IInv, ChecksInv, CompareSendG PROVE ChecksInv'
  OBVIOUS
<1>1. /\ gpc = "compare" /\ gpc' = "comparing" /\ epc' = epc /\ gb' = gb /\ ev' = ev
      /\ toE' = Append(toE, Half("high", ComparedG)) /\ toG' = toG
  BY DEF CompareSendG, GarblerStep, SendE
<1>2. epc \in EndEvaluator /\ toE = <<>>
  BY <1>1, EndPartners DEF IInv, ChecksInv
<1>3. toE'[1] = Half("high", ComparedG)
  BY <1>1, <1>2, FirstMessage DEF IInv
<1>4. toE'[1][1] = "high"
  BY <1>3 DEF Half
<1>5. YPhase'
  BY <1>1, <1>2, OutsideNext DEF EndEvaluator
<1>6. HalvesHeld'
  BY <1>1, <1>4 DEF HalvesHeld, ChecksInv
<1> QED  BY <1>1, <1>2, <1>5, <1>6, EndStep DEF EndGarbler, EndEvaluator

LEMMA CompareSendEChecks == IInv /\ ChecksInv /\ CompareSendE => ChecksInv'
<1> SUFFICES ASSUME IInv, ChecksInv, CompareSendE PROVE ChecksInv'
  OBVIOUS
<1>1. /\ epc = "compare" /\ epc' = "comparing" /\ gpc' = gpc /\ gb' = gb /\ ev' = ev
      /\ toG' = Append(toG, Half("high", ComparedE)) /\ toE' = toE
  BY DEF CompareSendE, EvaluatorStep, SendG
<1>2. gpc \in EndGarbler
  BY <1>1, EndPartners DEF IInv, ChecksInv, EndEvaluator
<1> DEFINE half == Half("high", ComparedE)
<1>3. half[1] = "high"
  BY DEF Half
<1> HIDE DEF half
<1>4. CASE gpc = "recvYLsbs"
  <2>1. Holds(toG, 1) /\ toE = <<>>
    BY <1>1, <1>4, EndPartners DEF IInv, ChecksInv, EndEvaluator
  <2>2. toG'[2] = half /\ toG'[1] = toG[1]
    BY <1>1, <2>1, QueueAppend DEF half
  <2>3. toG # <<>> /\ toG[1] = Lsbs(ev.yDeltaAKeys)
    BY <1>1, <1>4, <2>1 DEF ChecksInv, YPhase, YLsbsHeld, Holds
  <2>4. YPhase'
    BY <1>1, <1>4, <2>2, <2>3, YStays DEF ChecksInv
  <2>5. HalvesHeld'
    BY <1>1, <1>3, <1>4, <2>1, <2>2 DEF HalvesHeld, ChecksInv
  <2> QED  BY <1>1, <1>2, <2>4, <2>5, EndStep DEF EndGarbler, EndEvaluator
<1>5. CASE gpc # "recvYLsbs"
  <2>1. toG = <<>>
    BY <1>1, <1>5, EndPartners DEF IInv, ChecksInv
  <2>2. toG'[1] = half
    BY <1>1, <2>1, FirstMessage DEF IInv, half
  <2>3. YPhase'
    BY <1>1, <1>2, <1>5, OutsideNext DEF EndGarbler
  <2>4. HalvesHeld'
    BY <1>1, <1>3, <1>5, <2>2 DEF HalvesHeld, ChecksInv
  <2> QED  BY <1>1, <1>2, <2>3, <2>4, EndStep DEF EndGarbler, EndEvaluator
<1> QED  BY <1>4, <1>5

(* The half that arrives is not the half it is compared with.              *)
LEMMA CompareRecvGChecks == IInv /\ ChecksInv /\ CompareRecvG => ChecksInv'
<1> SUFFICES ASSUME IInv, ChecksInv, CompareRecvG PROVE ChecksInv'
  OBVIOUS
<1> DEFINE equal == Head(toG) = Half("low", ComparedG)
<1>1. /\ gpc = "comparing" /\ gpc' = Unless(~equal, "sampled") /\ epc' = epc /\ ev' = ev
      /\ gb' = [gb EXCEPT !.equal = equal] /\ toG # <<>> /\ toE' = toE
  BY DEF CompareRecvG, GarblerStep, ReadG
<1>2. epc \in EndEvaluator
  BY <1>1, EndPartners DEF IInv, ChecksInv
<1>3. Head(toG)[1] = "high"
  BY <1>1, FirstMessage DEF IInv, ChecksInv, HalvesHeld
<1>4. ~equal
  BY <1>3 DEF Half
<1> HIDE DEF equal
<1>5. gpc' = "sampled"
  BY <1>1, <1>4 DEF Unless
<1>6. gb'.alpha0 = gb.alpha0 /\ gb'.deltaBKey = gb.deltaBKey
  BY <1>1 DEF IInv, Objects, GarblerObjects
<1>7. YPhase' /\ HalvesHeld'
  BY <1>1, <1>2, <1>5, OutsideNext DEF EndEvaluator, HalvesHeld, ChecksInv
<1> QED  BY <1>1, <1>2, <1>5, <1>6, <1>7, EndStep DEF EndGarbler, EndEvaluator

LEMMA CompareRecvEChecks == IInv /\ ChecksInv /\ CompareRecvE => ChecksInv'
<1> SUFFICES ASSUME IInv, ChecksInv, CompareRecvE PROVE ChecksInv'
  OBVIOUS
<1> DEFINE equal == Head(toE) = Half("low", ComparedE)
<1>1. /\ epc = "comparing" /\ epc' = Unless(~equal, "sampled") /\ gpc' = gpc /\ gb' = gb
      /\ ev' = [ev EXCEPT !.equal = equal] /\ toE # <<>> /\ toG' = toG
  BY DEF CompareRecvE, EvaluatorStep, ReadE
<1>2. gpc \in EndGarbler /\ gpc # "recvYLsbs"
  BY <1>1, EndPartners DEF IInv, ChecksInv, EndEvaluator
<1>3. Head(toE)[1] = "high"
  BY <1>1, FirstMessage DEF IInv, ChecksInv, HalvesHeld
<1>4. ~equal
  BY <1>3 DEF Half
<1> HIDE DEF equal
<1>5. epc' = "sampled"
  BY <1>1, <1>4 DEF Unless
<1>6. ev'.beta0 = ev.beta0 /\ ev'.authedDeltaB = ev.authedDeltaB
  BY <1>1 DEF IInv, Objects, EvaluatorObjects
<1>7. YPhase' /\ HalvesHeld'
  BY <1>1, <1>2, <1>5, OutsideNext DEF EndGarbler, HalvesHeld, ChecksInv
<1> QED  BY <1>1, <1>2, <1>5, <1>6, <1>7, EndStep DEF EndGarbler, EndEvaluator

-----------------------------------------------------------------------------
LEMMA InitChecks == Init => ChecksInv
<1> SUFFICES ASSUME Init PROVE ChecksInv
  OBVIOUS
<1>1. gpc = "u" /\ epc = "u"
  BY DEF Init
<1> QED  BY <1>1, Outside DEF ChecksInv, NoFalseAlarm, Aborted, SettledHeld, LateGarbler,
   LateEvaluator

LEMMA StepChecks == IInv /\ ChecksInv /\ [Next]_vars => ChecksInv'
<1> SUFFICES ASSUME IInv, ChecksInv, [Next]_vars PROVE ChecksInv'
  OBVIOUS
<1>1. CASE Correlated
  BY <1>1, UChecks, KeyChecks, XChecks, XDeltaBChecks, ProofXChecks, DeltaAChecks, YChecks,
     YDeltaAChecks, ProofYChecks DEF Correlated
<1>2. CASE Garbler
  BY <1>2, SendULsbsChecks, KeyChecks, XDeltaBDiffChecks, VerifyXChecks, SendXLsbsChecks,
     ProveYChecks, RecvYLsbsChecks, CompareSendGChecks, CompareRecvGChecks DEF Garbler
<1>3. CASE Evaluator
  BY <1>3, RecvULsbsChecks, KeyChecks, ProveXChecks, RecvXLsbsChecks, DeltaADiffChecks,
     YDeltaADiffChecks, VerifyYChecks, SendYLsbsChecks, CompareSendEChecks, CompareRecvEChecks
  DEF Evaluator
<1>4. CASE UNCHANGED vars
  BY <1>4 DEF vars, ChecksInv, NoFalseAlarm, Aborted, UHeld, SettledHeld, XPhase, XHeld,
     XProductsHeld, XDeltaBKeys, XProofHeld, XStatement, XLsbsHeld, YPhase, DeltaAHeld, DeltaAKey,
     YHeld, YProductsHeld, YDeltaAKeys, YProofHeld, YStatement, YLsbsHeld, HalvesHeld
<1> QED  BY <1>1, <1>2, <1>3, <1>4 DEF Next

(***************************************************************************)
(* NoFalseAlarm: between two parties that follow the protocol no check of  *)
(* the constructors fails, of lowest bits or of products, for every setup  *)
(* and randomness.  The last one, compare_hash_low with the wrong sign, is *)
(* passed since a high half arrives that it compares with a low half.      *)
(***************************************************************************)
THEOREM NoAlarm == Spec => []NoFalseAlarm
<1>1. Spec => [](IInv /\ ChecksInv)
  <2>1. Init => IInv /\ ChecksInv
    BY InitInvariant, InitChecks
  <2>2. IInv /\ ChecksInv /\ [Next]_vars => (IInv /\ ChecksInv)'
    BY StepInvariant, StepChecks
  <2> QED  BY <2>1, <2>2, PTL DEF Spec
<1>2. IInv /\ ChecksInv => NoFalseAlarm
  BY DEF ChecksInv
<1> QED  BY <1>1, <1>2, PTL
=============================================================================
