------------------------------ MODULE Parties -------------------------------
(***************************************************************************)
(* Two parties that run a protocol over correlated OTs: the frame of       *)
(* Preprocess and GlobalKeySampling.                                       *)
(*                                                                         *)
(* gpc and epc name the object the party is about to construct; gb and ev  *)
(* are the parties' local objects, under the names they have in the code.  *)
(* A construction that runs an OT is one step of both parties: each side   *)
(* of IKNP waits for the other inside the call.  It needs both streams     *)
(* drained, for the OT's own messages travel in the same streams.  The     *)
(* messages in between go through the queues toG and toE.                  *)
(***************************************************************************)
EXTENDS AuthedBits, Sequences

CONSTANTS
  Setups,                 \* what an execution starts from
  RandomBit(_, _, _),     \* of a seed, a name and a position
  RandomBlock(_, _, _, _),\* of a seed, a name, a global key and a position
  Unset                   \* an object that is not constructed yet

VARIABLES setup, gpc, epc, gb, ev, toG, toE

vars == <<setup, gpc, epc, gb, ev, toG, toE>>

Below(n) == 0 .. (n - 1)

Unconstructed(names) == [n \in names |-> Unset]

-----------------------------------------------------------------------------
(* Randomness of the call that constructs the named object.                *)
RandomBits(name, len) == [i \in Below(len) |-> RandomBit(setup.seed, name, i)]

RandomKeys(name, deltas, len) ==
  [d \in DOMAIN deltas |-> [i \in Below(len) |-> RandomBlock(setup.seed, name, d, i)]]

RandomBlocks(name, len) == RandomKeys(name, Only(ZeroBlock), len)[0]

GarblerStep(from, to) == gpc = from /\ gpc' = to /\ UNCHANGED <<setup, epc, ev>>

EvaluatorStep(from, to) == epc = from /\ epc' = to /\ UNCHANGED <<setup, gpc, gb>>

Together(gFrom, gTo, eFrom, eTo) ==
  /\ gpc = gFrom /\ epc = eFrom
  /\ toG = <<>> /\ toE = <<>>
  /\ gpc' = gTo /\ epc' = eTo
  /\ UNCHANGED setup

(* Reading what the peer sent. *)
ReadG == toG # <<>> /\ toG' = Tail(toG) /\ UNCHANGED toE

ReadE == toE # <<>> /\ toE' = Tail(toE) /\ UNCHANGED toG

SendG(m) == toG' = Append(toG, m) /\ UNCHANGED toE

SendE(m) == toE' = Append(toE, m) /\ UNCHANGED toG

Quiet == UNCHANGED <<toG, toE>>

Drained == toG = <<>> /\ toE = <<>>

(* throw std::runtime_error, or go on. *)
Unless(ok, to) == IF ok THEN to ELSE "abort"

(* What global key sampling leaves: the keys' product is shared, and the   *)
(* lowest bit of the garbler's key and of the product is 1.                *)
LegalKeys(s) ==
  /\ {s.deltaA, s.deltaB, s.alpha0, s.beta0} \subseteq Block
  /\ s.alpha0 \oplus s.beta0 = GfMul(s.deltaA, s.deltaB)
  /\ GetLSB(s.deltaA) /\ GetLSB(GfMul(s.deltaA, s.deltaB))
=============================================================================
