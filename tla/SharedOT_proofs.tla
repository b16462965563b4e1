--------------------------- MODULE SharedOT_proofs ---------------------------
(***************************************************************************)
(* The OT instances of the two parties are in step, for every number of    *)
(* addresses, connections, rounds and deaths.                              *)
(*                                                                         *)
(* PartyInv is what holds of one party, whatever the other does: how its   *)
(* place in its program and its instances belong together.  Pair is what   *)
(* holds between the two: the five ways in which their places, their       *)
(* messages and the counts of their instances can stand to each other.     *)
(* For each there is a lemma about every step: PartyStep, OthersStep and   *)
(* PartyConnect; ReusePair, CreatePair, AskPair, AnswerPair, AnsweredPair  *)
(* and, for whoever throws or dies, PairStops.                             *)
(***************************************************************************)
EXTENDS SharedOT, SequenceTheorems, TLAPS

CallSet == [call : {"make", "use"}, side : Sides]

(* The calls of a round: those of the side that is made first, and where   *)
(* the constructors stand.                                                 *)
First(p) == IF p = GARBLER THEN SEND ELSE RECV
Second(p) == Other(First(p))
OfFirst == {1, 2, 4, 6, 11, 13} \cup 16 .. 26
Makes == {1, 3, 7, 9, 14, 17, 19, 21, 23, 25}

LEMMA TwoParties ==
  /\ \A p \in Parties : /\ Peer(p) \in Parties /\ Peer(p) # p /\ Peer(Peer(p)) = p
                        /\ \A r \in Parties : r # p => r = Peer(p)
  /\ GARBLER \in Parties /\ EVALUATOR \in Parties /\ GARBLER # EVALUATOR
BY DEF Parties, Peer, GARBLER, EVALUATOR

LEMMA TwoSides ==
  /\ SEND # RECV /\ Sides = {SEND, RECV}
  /\ Other(SEND) = RECV /\ Other(RECV) = SEND
  /\ \A p \in Parties : /\ First(p) \in Sides /\ Second(p) \in Sides /\ First(p) # Second(p)
                        /\ First(Peer(p)) = Second(p) /\ Second(Peer(p)) = First(p)
                        /\ First(p) = Other(Second(p)) /\ Second(p) = Other(First(p))
BY DEF Sides, SEND, RECV, Other, First, Second, Parties, Peer, GARBLER, EVALUATOR

(* Concatenations by index. *)
LEMMA Joined ==
  ASSUME NEW S, NEW s \in Seq(S), NEW t \in Seq(S), NEW u \in Seq(S)
  PROVE  /\ s \o t \o u \in Seq(S)
         /\ Len(s \o t \o u) = Len(s) + Len(t) + Len(u)
         /\ \A i \in 1 .. Len(s) : (s \o t \o u)[i] = s[i]
         /\ \A i \in 1 .. Len(t) : (s \o t \o u)[Len(s) + i] = t[i]
         /\ \A i \in 1 .. Len(u) : (s \o t \o u)[Len(s) + Len(t) + i] = u[i]
BY ConcatProperties

(* The programs by index: 26 calls, which of them make, of which side. *)
LEMMA ProgramCalls ==
  ASSUME NEW p \in Parties
  PROVE  /\ Program(p) \in Seq(CallSet) /\ Len(Program(p)) = 26
         /\ \A i \in 1 .. 26 :
              /\ Program(p)[i].call = (IF i \in Makes THEN "make" ELSE "use")
              /\ Program(p)[i].side = (IF i \in OfFirst THEN First(p) ELSE Second(p))
<1>1. CASE p = GARBLER
  <2>1. /\ GarblerKeys \in Seq(CallSet) /\ Len(GarblerKeys) = 5
        /\ GarblerKeys[1] = Make(SEND)
        /\ GarblerKeys[2] = Use(SEND)
        /\ GarblerKeys[3] = Make(RECV)
        /\ GarblerKeys[4] = Use(SEND)
        /\ GarblerKeys[5] = Use(RECV)
    BY DEF GarblerKeys, CallSet, Make, Use, Sides
  <2>2. /\ GarblerSteps \in Seq(CallSet) /\ Len(GarblerSteps) = 13
        /\ GarblerSteps[1] = Use(SEND)
        /\ GarblerSteps[2] = Make(RECV)
        /\ GarblerSteps[3] = Use(RECV)
        /\ GarblerSteps[4] = Make(RECV)
        /\ GarblerSteps[5] = Use(RECV)
        /\ GarblerSteps[6] = Use(SEND)
        /\ GarblerSteps[7] = Use(RECV)
        /\ GarblerSteps[8] = Use(SEND)
        /\ GarblerSteps[9] = Make(RECV)
        /\ GarblerSteps[10] = Use(RECV)
        /\ GarblerSteps[11] = Use(SEND)
        /\ GarblerSteps[12] = Make(SEND)
        /\ GarblerSteps[13] = Use(SEND)
    BY DEF GarblerSteps, CallSet, Make, Use, Sides
  <2>3. /\ GarblerEnd \in Seq(CallSet) /\ Len(GarblerEnd) = 8
        /\ GarblerEnd[1] = Make(SEND)
        /\ GarblerEnd[2] = Use(SEND)
        /\ GarblerEnd[3] = Make(SEND)
        /\ GarblerEnd[4] = Use(SEND)
        /\ GarblerEnd[5] = Make(SEND)
        /\ GarblerEnd[6] = Use(SEND)
        /\ GarblerEnd[7] = Make(SEND)
        /\ GarblerEnd[8] = Use(SEND)
    BY DEF GarblerEnd, CallSet, Make, Use, Sides
  <2>4. Program(p) = GarblerKeys \o GarblerSteps \o GarblerEnd
    BY <1>1 DEF Program, Parties, GARBLER, EVALUATOR
  <2>5. /\ Program(p) \in Seq(CallSet) /\ Len(Program(p)) = 26
        /\ \A i \in 1 .. 5 : Program(p)[i] = GarblerKeys[i]
        /\ \A i \in 1 .. 13 : Program(p)[5 + i] = GarblerSteps[i]
        /\ \A i \in 1 .. 8 : Program(p)[18 + i] = GarblerEnd[i]
    <3>1. GarblerKeys \in Seq(CallSet) /\ GarblerSteps \in Seq(CallSet) /\ GarblerEnd \in Seq(CallSet)
      BY <2>1, <2>2, <2>3
    <3> DEFINE J(r, t, u) ==
                 /\ (r \o t \o u) \in Seq(CallSet)
                 /\ Len(r \o t \o u) = Len(r) + Len(t) + Len(u)
                 /\ \A i \in 1 .. Len(r) : (r \o t \o u)[i] = r[i]
                 /\ \A i \in 1 .. Len(t) : (r \o t \o u)[Len(r) + i] = t[i]
                 /\ \A i \in 1 .. Len(u) : (r \o t \o u)[Len(r) + Len(t) + i] = u[i]
    <3>2. J(GarblerKeys, GarblerSteps, GarblerEnd)
      <4>1. \A r, t, u \in Seq(CallSet) : J(r, t, u)
        BY Joined, SMTT(30)
      <4> HIDE DEF J
      <4> QED  BY <3>1, <4>1
    <3>4. /\ Program(p) \in Seq(CallSet)
          /\ Len(Program(p)) = Len(GarblerKeys) + Len(GarblerSteps) + Len(GarblerEnd)
          /\ \A i \in 1 .. Len(GarblerKeys) : Program(p)[i] = GarblerKeys[i]
          /\ \A i \in 1 .. Len(GarblerSteps) : Program(p)[Len(GarblerKeys) + i] = GarblerSteps[i]
          /\ \A i \in 1 .. Len(GarblerEnd) : Program(p)[Len(GarblerKeys) + Len(GarblerSteps) + i] = GarblerEnd[i]
      BY <2>4, <3>2, Zenon
    <3>3. Len(GarblerKeys) = 5 /\ Len(GarblerSteps) = 13 /\ Len(GarblerEnd) = 8
      BY <2>1, <2>2, <2>3
    <3> QED
      BY <3>3, <3>4
  <2>6. /\ Program(p)[1] = Make(SEND)
        /\ Program(p)[2] = Use(SEND)
        /\ Program(p)[3] = Make(RECV)
        /\ Program(p)[4] = Use(SEND)
        /\ Program(p)[5] = Use(RECV)
    BY <2>1, <2>5
  <2>7. /\ Program(p)[5 + 1] = Use(SEND)
        /\ Program(p)[5 + 2] = Make(RECV)
        /\ Program(p)[5 + 3] = Use(RECV)
        /\ Program(p)[5 + 4] = Make(RECV)
        /\ Program(p)[5 + 5] = Use(RECV)
        /\ Program(p)[5 + 6] = Use(SEND)
        /\ Program(p)[5 + 7] = Use(RECV)
        /\ Program(p)[5 + 8] = Use(SEND)
        /\ Program(p)[5 + 9] = Make(RECV)
        /\ Program(p)[5 + 10] = Use(RECV)
        /\ Program(p)[5 + 11] = Use(SEND)
        /\ Program(p)[5 + 12] = Make(SEND)
        /\ Program(p)[5 + 13] = Use(SEND)
    BY <2>2, <2>5
  <2>8. /\ Program(p)[18 + 1] = Make(SEND)
        /\ Program(p)[18 + 2] = Use(SEND)
        /\ Program(p)[18 + 3] = Make(SEND)
        /\ Program(p)[18 + 4] = Use(SEND)
        /\ Program(p)[18 + 5] = Make(SEND)
        /\ Program(p)[18 + 6] = Use(SEND)
        /\ Program(p)[18 + 7] = Make(SEND)
        /\ Program(p)[18 + 8] = Use(SEND)
    BY <2>3, <2>5
  <2>9. First(p) = SEND /\ Second(p) = RECV
    BY <1>1 DEF First, Second, Other, SEND, RECV, GARBLER, EVALUATOR
  <2>10. ASSUME NEW i \in 1 .. 26
         PROVE  Program(p)[i] = [call |-> IF i \in Makes THEN "make" ELSE "use",
                                 side |-> IF i \in OfFirst THEN First(p) ELSE Second(p)]
    <3>1. CASE i \in 1 .. 5
      BY <2>6, <2>9, <3>1 DEF Makes, OfFirst, Make, Use
    <3>2. CASE i \in 6 .. 18
      BY <2>7, <2>9, <3>2 DEF Makes, OfFirst, Make, Use
    <3>3. CASE i \in 19 .. 26
      BY <2>8, <2>9, <3>3 DEF Makes, OfFirst, Make, Use
    <3> QED
      BY <3>1, <3>2, <3>3
  <2> QED
    BY <2>5, <2>10, SMTT(30)
<1>2. CASE p = EVALUATOR
  <2>1. /\ EvaluatorKeys \in Seq(CallSet) /\ Len(EvaluatorKeys) = 5
        /\ EvaluatorKeys[1] = Make(RECV)
        /\ EvaluatorKeys[2] = Use(RECV)
        /\ EvaluatorKeys[3] = Make(SEND)
        /\ EvaluatorKeys[4] = Use(RECV)
        /\ EvaluatorKeys[5] = Use(SEND)
    BY DEF EvaluatorKeys, CallSet, Make, Use, Sides
  <2>2. /\ EvaluatorSteps \in Seq(CallSet) /\ Len(EvaluatorSteps) = 13
        /\ EvaluatorSteps[1] = Use(RECV)
        /\ EvaluatorSteps[2] = Make(SEND)
        /\ EvaluatorSteps[3] = Use(SEND)
        /\ EvaluatorSteps[4] = Make(SEND)
        /\ EvaluatorSteps[5] = Use(SEND)
        /\ EvaluatorSteps[6] = Use(RECV)
        /\ EvaluatorSteps[7] = Use(SEND)
        /\ EvaluatorSteps[8] = Use(RECV)
        /\ EvaluatorSteps[9] = Make(SEND)
        /\ EvaluatorSteps[10] = Use(SEND)
        /\ EvaluatorSteps[11] = Use(RECV)
        /\ EvaluatorSteps[12] = Make(RECV)
        /\ EvaluatorSteps[13] = Use(RECV)
    BY DEF EvaluatorSteps, CallSet, Make, Use, Sides
  <2>3. /\ EvaluatorEnd \in Seq(CallSet) /\ Len(EvaluatorEnd) = 8
        /\ EvaluatorEnd[1] = Make(RECV)
        /\ EvaluatorEnd[2] = Use(RECV)
        /\ EvaluatorEnd[3] = Make(RECV)
        /\ EvaluatorEnd[4] = Use(RECV)
        /\ EvaluatorEnd[5] = Make(RECV)
        /\ EvaluatorEnd[6] = Use(RECV)
        /\ EvaluatorEnd[7] = Make(RECV)
        /\ EvaluatorEnd[8] = Use(RECV)
    BY DEF EvaluatorEnd, CallSet, Make, Use, Sides
  <2>4. Program(p) = EvaluatorKeys \o EvaluatorSteps \o EvaluatorEnd
    BY <1>2 DEF Program, Parties, GARBLER, EVALUATOR
  <2>5. /\ Program(p) \in Seq(CallSet) /\ Len(Program(p)) = 26
        /\ \A i \in 1 .. 5 : Program(p)[i] = EvaluatorKeys[i]
        /\ \A i \in 1 .. 13 : Program(p)[5 + i] = EvaluatorSteps[i]
        /\ \A i \in 1 .. 8 : Program(p)[18 + i] = EvaluatorEnd[i]
    <3>1. EvaluatorKeys \in Seq(CallSet) /\ EvaluatorSteps \in Seq(CallSet) /\ EvaluatorEnd \in Seq(CallSet)
      BY <2>1, <2>2, <2>3
    <3> DEFINE J(r, t, u) ==
                 /\ (r \o t \o u) \in Seq(CallSet)
                 /\ Len(r \o t \o u) = Len(r) + Len(t) + Len(u)
                 /\ \A i \in 1 .. Len(r) : (r \o t \o u)[i] = r[i]
                 /\ \A i \in 1 .. Len(t) : (r \o t \o u)[Len(r) + i] = t[i]
                 /\ \A i \in 1 .. Len(u) : (r \o t \o u)[Len(r) + Len(t) + i] = u[i]
    <3>2. J(EvaluatorKeys, EvaluatorSteps, EvaluatorEnd)
      <4>1. \A r, t, u \in Seq(CallSet) : J(r, t, u)
        BY Joined, SMTT(30)
      <4> HIDE DEF J
      <4> QED  BY <3>1, <4>1
    <3>4. /\ Program(p) \in Seq(CallSet)
          /\ Len(Program(p)) = Len(EvaluatorKeys) + Len(EvaluatorSteps) + Len(EvaluatorEnd)
          /\ \A i \in 1 .. Len(EvaluatorKeys) : Program(p)[i] = EvaluatorKeys[i]
          /\ \A i \in 1 .. Len(EvaluatorSteps) : Program(p)[Len(EvaluatorKeys) + i] = EvaluatorSteps[i]
          /\ \A i \in 1 .. Len(EvaluatorEnd) : Program(p)[Len(EvaluatorKeys) + Len(EvaluatorSteps) + i] = EvaluatorEnd[i]
      BY <2>4, <3>2, Zenon
    <3>3. Len(EvaluatorKeys) = 5 /\ Len(EvaluatorSteps) = 13 /\ Len(EvaluatorEnd) = 8
      BY <2>1, <2>2, <2>3
    <3> QED
      BY <3>3, <3>4
  <2>6. /\ Program(p)[1] = Make(RECV)
        /\ Program(p)[2] = Use(RECV)
        /\ Program(p)[3] = Make(SEND)
        /\ Program(p)[4] = Use(RECV)
        /\ Program(p)[5] = Use(SEND)
    BY <2>1, <2>5
  <2>7. /\ Program(p)[5 + 1] = Use(RECV)
        /\ Program(p)[5 + 2] = Make(SEND)
        /\ Program(p)[5 + 3] = Use(SEND)
        /\ Program(p)[5 + 4] = Make(SEND)
        /\ Program(p)[5 + 5] = Use(SEND)
        /\ Program(p)[5 + 6] = Use(RECV)
        /\ Program(p)[5 + 7] = Use(SEND)
        /\ Program(p)[5 + 8] = Use(RECV)
        /\ Program(p)[5 + 9] = Make(SEND)
        /\ Program(p)[5 + 10] = Use(SEND)
        /\ Program(p)[5 + 11] = Use(RECV)
        /\ Program(p)[5 + 12] = Make(RECV)
        /\ Program(p)[5 + 13] = Use(RECV)
    BY <2>2, <2>5
  <2>8. /\ Program(p)[18 + 1] = Make(RECV)
        /\ Program(p)[18 + 2] = Use(RECV)
        /\ Program(p)[18 + 3] = Make(RECV)
        /\ Program(p)[18 + 4] = Use(RECV)
        /\ Program(p)[18 + 5] = Make(RECV)
        /\ Program(p)[18 + 6] = Use(RECV)
        /\ Program(p)[18 + 7] = Make(RECV)
        /\ Program(p)[18 + 8] = Use(RECV)
    BY <2>3, <2>5
  <2>9. First(p) = RECV /\ Second(p) = SEND
    BY <1>2 DEF First, Second, Other, SEND, RECV, GARBLER, EVALUATOR
  <2>10. ASSUME NEW i \in 1 .. 26
         PROVE  Program(p)[i] = [call |-> IF i \in Makes THEN "make" ELSE "use",
                                 side |-> IF i \in OfFirst THEN First(p) ELSE Second(p)]
    <3>1. CASE i \in 1 .. 5
      BY <2>6, <2>9, <3>1 DEF Makes, OfFirst, Make, Use
    <3>2. CASE i \in 6 .. 18
      BY <2>7, <2>9, <3>2 DEF Makes, OfFirst, Make, Use
    <3>3. CASE i \in 19 .. 26
      BY <2>8, <2>9, <3>3 DEF Makes, OfFirst, Make, Use
    <3> QED
      BY <3>1, <3>2, <3>3
  <2> QED
    BY <2>5, <2>10, SMTT(30)
<1> QED
  BY <1>1, <1>2 DEF Parties

LEMMA ProgramLength == Length = 26
BY ProgramCalls, TwoParties DEF Length

-----------------------------------------------------------------------------
(* Types.                                                                  *)
OT == [io : Addresses, session : Nat, count : Nat]
Tags == [call : {"make", "use"}, session : Nat, count : Nat]

Storages == [Parties -> [Sides -> [Slots -> OT \cup {None}]]]

TypeOK ==
  /\ oneProcess \in BOOLEAN /\ instances \in {1, 2} /\ (oneProcess => instances = 2)
  /\ storage \in Storages
  /\ status \in [Parties -> {"away", "running", "done", "threw", "died"}]
  /\ io \in [Parties -> Addresses \cup {None}]
  /\ \A p \in Parties : Running(p) => io[p] \in Addresses
  /\ pc \in [Parties -> 1 .. 27] /\ round \in [Parties -> Nat \ {0}]
  /\ phase \in [Parties -> {"enter", "talk", "reply"}]
  /\ inbox \in [Parties -> Seq(Tags)]
  /\ session \in Nat /\ rounds \in Nat /\ undisturbed \in BOOLEAN /\ deaths \in Nat

LEMMA NoneIsNone == None \notin OT
BY NoneAssumption DEF OT

(* A slot holds an instance or none. *)
LEMMA InstanceType ==
  ASSUME TypeOK, NEW p \in Parties, NEW side \in Sides
  PROVE  /\ Process(p) \in Parties /\ Slot(p) \in Slots
         /\ Instance(p, side) \in OT \cup {None}
         /\ Instance(p, side) # None => /\ Instance(p, side).io \in Addresses
                                        /\ Instance(p, side).session \in Nat
                                        /\ Instance(p, side).count \in Nat
<1>1. Process(p) \in Parties /\ Slot(p) \in Slots
  BY TwoParties DEF Process, Slot, Slots
<1>2. storage[Process(p)][side][Slot(p)] \in OT \cup {None}
  BY <1>1 DEF TypeOK, Storages
<1> QED
  BY <1>1, <1>2 DEF Instance, OT

(* Two parties never share an instance. *)
LEMMA CellsDiffer ==
  ASSUME TypeOK, NEW p \in Parties, NEW r \in Parties, p # r
  PROVE  Process(p) # Process(r) \/ Slot(p) # Slot(r)
BY TwoParties DEF TypeOK, Process, Slot

(* An assignment to a slot changes that instance and no other. *)
LEMMA InstanceSet ==
  ASSUME TypeOK, NEW p \in Parties, NEW side \in Sides, NEW ot \in OT,
         SetInstance(p, side, ot), UNCHANGED build
  PROVE  /\ storage' \in Storages
         /\ Instance(p, side)' = ot
         /\ \A r \in Parties, s \in Sides :
              r # p \/ s # side => Instance(r, s)' = Instance(r, s)
<1>1. /\ Process(p) \in Parties /\ Slot(p) \in Slots
      /\ storage \in [Parties -> [Sides -> [Slots -> OT \cup {None}]]]
  BY InstanceType DEF TypeOK, Storages
<1>2. storage' = [storage EXCEPT ![Process(p)][side][Slot(p)] = ot]
  BY DEF SetInstance
<1>3. storage' \in Storages
  BY <1>1, <1>2 DEF Storages
<1>4. \A r \in Parties : Process(r)' = Process(r) /\ Slot(r)' = Slot(r)
  BY DEF Process, Slot, build
<1>5. Instance(p, side)' = ot
  BY <1>1, <1>2, <1>4 DEF Instance
<1>6. ASSUME NEW r \in Parties, NEW s \in Sides, r # p \/ s # side
      PROVE  Instance(r, s)' = Instance(r, s)
  <2>1. Process(r) \in Parties /\ Slot(r) \in Slots
    BY InstanceType
  <2>2. Process(r) # Process(p) \/ s # side \/ Slot(r) # Slot(p)
    BY <1>6, CellsDiffer
  <2>3. storage'[Process(r)][s][Slot(r)] = storage[Process(r)][s][Slot(r)]
    BY <1>1, <1>2, <2>1, <2>2
  <2> QED
    BY <1>4, <2>3 DEF Instance
<1> QED
  BY <1>3, <1>5, <1>6

LEMMA InstanceKept ==
  ASSUME UNCHANGED <<build, storage>>
  PROVE  \A r \in Parties, s \in Sides : Instance(r, s)' = Instance(r, s)
BY DEF Instance, Process, Slot, build

(* A process dies with the instances of its parties. *)
LEMMA InstanceLost ==
  ASSUME TypeOK, NEW proc \in Processes, Die(proc)
  PROVE  /\ storage' \in Storages
         /\ \A r \in Parties, s \in Sides :
              Instance(r, s)' = IF Process(r) = proc THEN None ELSE Instance(r, s)
         /\ \A r \in Parties : status'[r] = IF Process(r) = proc THEN "died" ELSE status[r]
<1>1. /\ proc \in Parties
      /\ \A r \in Parties : Process(r) \in Parties /\ Slot(r) \in Slots
      /\ storage \in [Parties -> [Sides -> [Slots -> OT \cup {None}]]]
      /\ storage' = [storage EXCEPT ![proc] = NoInstances]
  BY TwoParties DEF Process, Slot, Slots, TypeOK, Storages, Die, Processes
<1>2. NoInstances \in [Sides -> [Slots -> OT \cup {None}]]
  BY DEF NoInstances
<1>3. storage' \in Storages
  BY <1>1, <1>2 DEF Storages
<1>4. \A r \in Parties : Process(r)' = Process(r) /\ Slot(r)' = Slot(r)
  BY DEF Process, Slot, build, Die
<1>5. ASSUME NEW r \in Parties, NEW s \in Sides
      PROVE  Instance(r, s)' = IF Process(r) = proc THEN None ELSE Instance(r, s)
  <2>1. Process(r) \in Parties /\ Slot(r) \in Slots
    BY <1>1
  <2>2. storage'[Process(r)] = IF Process(r) = proc THEN NoInstances ELSE storage[Process(r)]
    BY <1>1, <2>1
  <2>3. NoInstances[s][Slot(r)] = None
    BY <2>1 DEF NoInstances
  <2> QED
    BY <1>4, <2>2, <2>3 DEF Instance
<1> QED
  BY <1>3, <1>5 DEF Die

-----------------------------------------------------------------------------
(* What holds of one party: where it is in its round, and its instances.   *)
Dead(p) == status[p] = "died"

MakeAt(p, side) == IF side = First(p) THEN 1 ELSE 3

(* The constructor that makes the instance of a side lies behind.          *)
Past(p, side) ==
  \/ round[p] > 1 \/ pc[p] > MakeAt(p, side)
  \/ pc[p] = MakeAt(p, side) /\ phase[p] # "enter"

Course(p) ==
  /\ Running(p) => pc[p] <= 26
  /\ status[p] = "done" => pc[p] = 27 /\ round[p] = rounds
  /\ session > 0 => round[p] <= rounds /\ status[p] # "away"
  /\ session = 0 => ~Running(p)

(* Setups are made by the first two constructors of the first round.       *)
Phases(p) ==
  phase[p] # "enter" =>
    /\ pc[p] <= 26
    /\ phase[p] = "talk" => Call(p).call = "make"
    /\ phase[p] = "reply" => Call(p).side = RECV
    /\ Call(p).call = "make" =>
         /\ round[p] = 1 /\ pc[p] \in {1, 3}
         /\ ~Dead(p) => Instance(p, Call(p).side).session = session

(* A constructor leaves an instance of this NetIO's address.               *)
Made(p) ==
  \A s \in Sides :
    ~Dead(p) /\ Past(p, s) =>
      Instance(p, s) # None /\ (Running(p) => Instance(p, s).io = io[p])

NotBefore(p) ==
  \A s \in Sides :
    Instance(p, s) # None =>
      /\ Instance(p, s).session <= session
      /\ Instance(p, s).session = session => Past(p, s) /\ ~Dead(p)

(* The instance of the second side was made after that of the first.       *)
Order(p) ==
  Instance(p, Second(p)) # None =>
    /\ Instance(p, First(p)) # None
    /\ Instance(p, First(p)).session <= Instance(p, Second(p)).session

Counts(p) ==
  \A s \in Sides :
    Instance(p, s) # None /\ Instance(p, s).session = session =>
      (Instance(p, s).count = 0 <=> phase[p] = "talk" /\ Call(p).side = s)

PartyInv(p) ==
  Course(p) /\ Phases(p) /\ Made(p) /\ NotBefore(p) /\ Order(p) /\ Counts(p)

(* The call of a party that is in its program. *)
LEMMA CallIs ==
  ASSUME TypeOK, NEW p \in Parties, pc[p] <= 26
  PROVE  /\ pc[p] \in 1 .. 26
         /\ Call(p).side \in Sides /\ Call(p).call \in {"make", "use"}
         /\ Call(p).call = (IF pc[p] \in Makes THEN "make" ELSE "use")
         /\ Call(p).side = (IF pc[p] \in OfFirst THEN First(p) ELSE Second(p))
<1>1. pc[p] \in 1 .. 26
  BY SMTT(30) DEF TypeOK
<1>2. /\ Call(p).call = (IF pc[p] \in Makes THEN "make" ELSE "use")
      /\ Call(p).side = (IF pc[p] \in OfFirst THEN First(p) ELSE Second(p))
  BY <1>1, ProgramCalls DEF Call
<1> QED
  BY <1>1, <1>2, TwoSides

(* A use, and a constructor that has begun to talk, come after the make.   *)
LEMMA PastCall ==
  ASSUME TypeOK, NEW p \in Parties, PartyInv(p), pc[p] <= 26,
         Call(p).call = "use" \/ phase[p] # "enter"
  PROVE  Past(p, Call(p).side)
<1>1. /\ pc[p] \in 1 .. 26
      /\ Call(p).call = (IF pc[p] \in Makes THEN "make" ELSE "use")
      /\ Call(p).side = (IF pc[p] \in OfFirst THEN First(p) ELSE Second(p))
  BY CallIs
<1>2. First(p) # Second(p)
  BY TwoSides
<1>3. CASE Call(p).call = "use"
  BY <1>1, <1>2, <1>3 DEF Past, MakeAt, Makes, OfFirst
<1>4. CASE Call(p).call = "make" /\ phase[p] # "enter"
  <2>1. pc[p] \in {1, 3}
    BY <1>4 DEF PartyInv, Phases
  <2> QED
    BY <1>1, <1>2, <1>4, <2>1 DEF Past, MakeAt, OfFirst
<1> QED
  BY <1>1, <1>3, <1>4

(* Whoever talks has an instance of the address of its NetIO. *)
LEMMA Talking ==
  ASSUME TypeOK, NEW p \in Parties, PartyInv(p), Running(p),
         Talks(p) \/ phase[p] = "reply"
  PROVE  /\ pc[p] \in 1 .. 26 /\ Call(p).side \in Sides
         /\ Past(p, Call(p).side)
         /\ Current(p) # None /\ Current(p) \in OT /\ Current(p).io = io[p]
         /\ Tag(p) \in Tags /\ NextTag(p) \in Tags
         /\ NextTag(p) = [call |-> Call(p).call, session |-> Current(p).session,
                          count |-> Current(p).count + 1]
         /\ phase[p] = "talk" => Call(p).call = "make"
         /\ phase[p] = "enter" => Call(p).call = "use"
<1>1. pc[p] <= 26 /\ ~Dead(p) /\ phase[p] \in {"enter", "talk", "reply"}
  BY DEF PartyInv, Course, Running, Dead, TypeOK
<1>2. /\ pc[p] \in 1 .. 26 /\ Call(p).side \in Sides /\ Call(p).call \in {"make", "use"}
  BY <1>1, CallIs
<1>3. /\ phase[p] = "talk" => Call(p).call = "make"
      /\ phase[p] = "enter" => Call(p).call = "use"
  BY DEF PartyInv, Phases, Talks
<1>4. Past(p, Call(p).side)
  BY <1>1, <1>3, PastCall
<1>5. Current(p) # None /\ Current(p).io = io[p]
  BY <1>1, <1>2, <1>4 DEF Current, PartyInv, Made
<1>6. Current(p) \in OT
  BY <1>2, <1>5, InstanceType DEF Current
<1>7. Current(p).session \in Nat /\ Current(p).count \in Nat
  BY <1>6 DEF OT
<1>8. /\ Tag(p) = [call |-> Call(p).call, session |-> Current(p).session,
                   count |-> Current(p).count]
      /\ NextTag(p) = [call |-> Call(p).call, session |-> Current(p).session,
                       count |-> Current(p).count + 1]
  BY DEF Tag, NextTag
<1> QED
  BY <1>2, <1>3, <1>4, <1>5, <1>6, <1>7, <1>8 DEF Tags

(* Where a party is after its call.                                        *)
LEMMA Returns ==
  ASSUME TypeOK, NEW p \in Parties, Course(p), Running(p), Return(p)
  PROVE  /\ \/ /\ pc[p] < 26 /\ pc'[p] = pc[p] + 1 /\ round'[p] = round[p]
               /\ status' = status /\ io' = io
            \/ /\ pc[p] = 26 /\ round[p] < rounds /\ pc'[p] = 1 /\ round'[p] = round[p] + 1
               /\ status' = status /\ io' = io
            \/ /\ pc[p] = 26 /\ round[p] = rounds /\ pc'[p] = 27 /\ round'[p] = round[p]
               /\ status'[p] = "done" /\ io'[p] = None
         /\ phase'[p] = "enter"
         /\ \A r \in Parties : r # p => /\ pc'[r] = pc[r] /\ round'[r] = round[r]
                                        /\ phase'[r] = phase[r] /\ status'[r] = status[r]
                                        /\ io'[r] = io[r]
         /\ pc' \in [Parties -> 1 .. 27] /\ round' \in [Parties -> Nat \ {0}]
         /\ phase' \in [Parties -> {"enter", "talk", "reply"}]
         /\ status' \in [Parties -> {"away", "running", "done", "threw", "died"}]
         /\ io' \in [Parties -> Addresses \cup {None}]
<1> DEFINE leaves == pc[p] = 26 /\ round[p] = rounds
           again == pc[p] = 26 /\ ~leaves
<1>1. /\ pc \in [Parties -> 1 .. 27] /\ round \in [Parties -> Nat \ {0}] /\ rounds \in Nat
      /\ phase \in [Parties -> {"enter", "talk", "reply"}]
      /\ status \in [Parties -> {"away", "running", "done", "threw", "died"}]
      /\ io \in [Parties -> Addresses \cup {None}]
      /\ pc[p] \in 1 .. 26 /\ round[p] \in Nat \ {0} /\ session \in Nat
  BY DEF TypeOK, Course
<1>2. round[p] <= rounds
  BY <1>1 DEF Course
<1>3. /\ pc' = [pc EXCEPT ![p] = IF again THEN 1 ELSE @ + 1]
      /\ round' = [round EXCEPT ![p] = IF again THEN @ + 1 ELSE @]
      /\ status' = [status EXCEPT ![p] = IF leaves THEN "done" ELSE @]
      /\ io' = [io EXCEPT ![p] = IF leaves THEN None ELSE @]
      /\ phase' = [phase EXCEPT ![p] = "enter"]
  BY ProgramLength DEF Return
<1>4. CASE pc[p] < 26
  <2>1. ~leaves /\ ~again
    BY <1>1, <1>4
  <2> QED
    BY <1>1, <1>3, <1>4, <2>1
<1>5. CASE pc[p] = 26 /\ round[p] < rounds
  <2>1. ~leaves /\ again
    BY <1>1, <1>5
  <2> QED
    BY <1>1, <1>3, <1>5, <2>1
<1>6. CASE pc[p] = 26 /\ round[p] = rounds
  <2>1. leaves /\ ~again
    BY <1>6
  <2> QED
    BY <1>1, <1>3, <1>6, <2>1
<1> QED
  BY <1>1, <1>2, <1>4, <1>5, <1>6

-----------------------------------------------------------------------------
(* Every step keeps the types.                                             *)
LEMMA Thrown ==
  ASSUME TypeOK, NEW p \in Parties, Throw(p)
  PROVE  /\ TypeOK' /\ status'[p] = "threw" /\ io'[p] = None
         /\ \A r \in Parties : r # p => status'[r] = status[r] /\ io'[r] = io[r]
<1>1. /\ status' = [status EXCEPT ![p] = "threw"] /\ io' = [io EXCEPT ![p] = None]
      /\ UNCHANGED <<build, storage, pc, phase, round, inbox, meeting>>
  BY DEF Throw
<1>2. /\ status'[p] = "threw" /\ io'[p] = None
      /\ \A r \in Parties : r # p => status'[r] = status[r] /\ io'[r] = io[r]
      /\ status' \in [Parties -> {"away", "running", "done", "threw", "died"}]
      /\ io' \in [Parties -> Addresses \cup {None}]
  BY <1>1 DEF TypeOK
<1>3. \A r \in Parties : Running(r)' => io'[r] \in Addresses
  BY <1>2 DEF TypeOK, Running
<1> QED
  BY <1>1, <1>2, <1>3 DEF TypeOK, build, meeting, Storages, Slots, Tags, OT

LEMMA StepType ==
  ASSUME TypeOK, NEW p \in Parties, PartyInv(p), Step(p)
  PROVE  TypeOK'
<1> USE DEF build, meeting
<1> DEFINE q == Peer(p)
<1>1. q \in Parties /\ q # p
  BY TwoParties
<1>2. CASE Refuse(p) \/ Misread(p) \/ PeerGone(p)
  BY <1>2, Thrown DEF Refuse, Misread, PeerGone
<1>3. ASSUME Return(p), Running(p), UNCHANGED <<build, meeting>>, storage' \in Storages,
             inbox' \in [Parties -> Seq(Tags)]
      PROVE  TypeOK'
  <2>1. /\ pc' \in [Parties -> 1 .. 27] /\ round' \in [Parties -> Nat \ {0}]
        /\ phase' \in [Parties -> {"enter", "talk", "reply"}]
        /\ status' \in [Parties -> {"away", "running", "done", "threw", "died"}]
        /\ io' \in [Parties -> Addresses \cup {None}]
        /\ status'[p] = "running" => io'[p] = io[p]
        /\ \A r \in Parties : r # p => status'[r] = status[r] /\ io'[r] = io[r]
    BY <1>3, Returns DEF PartyInv
  <2>2. \A r \in Parties : Running(r)' => io'[r] \in Addresses
    BY <2>1, <1>3 DEF TypeOK, Running
  <2> QED
    BY <1>3, <2>1, <2>2 DEF TypeOK, Storages, OT, Slots, Tags
<1>4. CASE Reuse(p)
  <2>1. storage' \in Storages /\ inbox' \in [Parties -> Seq(Tags)]
    BY <1>4 DEF Reuse, TypeOK, Storages, OT, Slots, Tags
  <2> QED
    BY <1>3, <1>4, <2>1 DEF Reuse
<1>5. ASSUME UNCHANGED <<build, status, io, pc, round, meeting>>, storage' \in Storages,
             inbox' \in [Parties -> Seq(Tags)],
             phase' = [phase EXCEPT ![p] = "talk"] \/ phase' = [phase EXCEPT ![p] = "reply"]
      PROVE  TypeOK'
  <2>1. phase' \in [Parties -> {"enter", "talk", "reply"}]
    BY <1>5 DEF TypeOK
  <2>2. \A r \in Parties : Running(r)' => io'[r] \in Addresses
    BY <1>5 DEF TypeOK, Running
  <2> QED
    BY <1>5, <2>1, <2>2 DEF TypeOK, Storages, OT, Slots, Tags
<1>6. CASE Create(p)
  <2>1. pc[p] <= 26 /\ io[p] \in Addresses /\ session \in Nat
    BY <1>6 DEF Create, PartyInv, Course, TypeOK
  <2>2. Call(p).side \in Sides
    BY <2>1, CallIs
  <2>3. [io |-> io[p], session |-> session, count |-> 0] \in OT
    BY <2>1 DEF OT
  <2>4. storage' \in Storages
    BY <1>6, <2>2, <2>3, InstanceSet DEF Create
  <2>5. inbox' \in [Parties -> Seq(Tags)]
    BY <1>6 DEF Create, TypeOK, Tags
  <2> QED
    BY <1>5, <1>6, <2>4, <2>5 DEF Create
<1>7. ASSUME Running(p), Talks(p), Advanced(p), UNCHANGED build
      PROVE  storage' \in Storages
  <2>1. Call(p).side \in Sides /\ Current(p) \in OT
    BY <1>7, Talking
  <2>2. [Current(p) EXCEPT !.count = @ + 1] \in OT
    BY <2>1 DEF OT
  <2> QED
    BY <1>7, <2>1, <2>2, InstanceSet DEF Advanced
<1>8. CASE Ask(p)
  <2>1. Running(p) /\ Talks(p)
    BY <1>8 DEF Ask, Talks
  <2>2. storage' \in Storages
    BY <1>7, <1>8, <2>1 DEF Ask
  <2>3. Tag(p) \in Tags
    BY <2>1, Talking
  <2>4. inbox' \in [Parties -> Seq(Tags)]
    BY <1>1, <1>8, <2>3 DEF Ask, TypeOK
  <2> QED
    BY <1>5, <1>8, <2>2, <2>4 DEF Ask
<1>9. CASE Answer(p)
  <2>1. Running(p) /\ Talks(p)
    BY <1>9 DEF Answer, Talks
  <2>2. storage' \in Storages
    BY <1>7, <1>9, <2>1 DEF Answer
  <2>3. NextTag(p) \in Tags
    BY <2>1, Talking
  <2>4. inbox' \in [Parties -> Seq(Tags)]
    <3>1. Tail(inbox[p]) \in Seq(Tags) /\ Append(inbox[q], NextTag(p)) \in Seq(Tags)
      BY <1>1, <1>9, <2>3 DEF Answer, TypeOK
    <3>2. inbox' = [inbox EXCEPT ![p] = Tail(@), ![q] = Append(@, NextTag(p))]
      BY <1>9 DEF Answer
    <3> QED
      BY <1>1, <3>1, <3>2 DEF TypeOK
  <2> QED
    BY <1>3, <1>9, <2>1, <2>2, <2>4 DEF Answer
<1>10. CASE Answered(p)
  <2>1. storage' \in Storages
    BY <1>10 DEF Answered, TypeOK, Storages, OT, Slots
  <2>2. Tail(inbox[p]) \in Seq(Tags)
    BY <1>10 DEF Answered, TypeOK
  <2>3. inbox' \in [Parties -> Seq(Tags)]
    BY <1>10, <2>2 DEF Answered, TypeOK
  <2> QED
    BY <1>3, <1>10, <2>1, <2>3 DEF Answered
<1> QED
  BY <1>2, <1>4, <1>6, <1>8, <1>9, <1>10 DEF Step

LEMMA ConnectType ==
  ASSUME TypeOK, Connect
  PROVE  TypeOK'
<1>1. /\ io' \in [Parties -> Addresses]
      /\ status' = [p \in Parties |-> "running"]
      /\ pc' = [p \in Parties |-> 1] /\ round' = [p \in Parties |-> 1]
      /\ phase' = [p \in Parties |-> "enter"] /\ inbox' = [p \in Parties |-> <<>>]
      /\ session' = session + 1 /\ rounds' \in 1 .. Rounds
      /\ undisturbed' \in BOOLEAN
      /\ UNCHANGED <<build, storage, deaths>>
  BY DEF Connect
<1>2. /\ io' \in [Parties -> Addresses \cup {None}]
      /\ \A p \in Parties : io'[p] \in Addresses
      /\ status' \in [Parties -> {"away", "running", "done", "threw", "died"}]
      /\ pc' \in [Parties -> 1 .. 27] /\ round' \in [Parties -> Nat \ {0}]
      /\ phase' \in [Parties -> {"enter", "talk", "reply"}]
      /\ inbox' \in [Parties -> Seq(Tags)]
  BY <1>1
<1>3. session' \in Nat /\ rounds' \in Nat
  BY <1>1, BoundsAssumption DEF TypeOK
<1> QED
  BY <1>1, <1>2, <1>3 DEF TypeOK, build, Storages, OT, Slots, Tags

LEMMA DieType ==
  ASSUME TypeOK, NEW proc \in Processes, Die(proc)
  PROVE  TypeOK'
<1>1. /\ status' = [p \in Parties |-> IF Process(p) = proc THEN "died" ELSE status[p]]
      /\ io' = [p \in Parties |-> IF Process(p) = proc THEN None ELSE io[p]]
      /\ deaths' = deaths + 1 /\ undisturbed' = FALSE
      /\ UNCHANGED <<build, pc, phase, round, inbox, session, rounds>>
  BY DEF Die
<1>2. storage' \in Storages
  BY InstanceLost
<1>3. /\ status' \in [Parties -> {"away", "running", "done", "threw", "died"}]
      /\ io' \in [Parties -> Addresses \cup {None}]
  BY <1>1 DEF TypeOK
<1>4. \A p \in Parties : Running(p)' => io'[p] \in Addresses
  BY <1>1 DEF TypeOK, Running
<1>5. /\ deaths' \in Nat
      /\ undisturbed' \in BOOLEAN
  <2>1. deaths' \in Nat
    BY <1>1 DEF TypeOK
  <2>2. undisturbed' \in BOOLEAN
    BY <1>1, Zenon
  <2> QED
    BY <2>1, <2>2
<1>6. /\ oneProcess' = oneProcess /\ instances' = instances /\ pc' = pc /\ round' = round
      /\ phase' = phase /\ inbox' = inbox /\ session' = session /\ rounds' = rounds
  BY <1>1 DEF build
<1> QED
  BY <1>2, <1>3, <1>4, <1>5, <1>6 DEF TypeOK

-----------------------------------------------------------------------------
(* Every step keeps what holds of each party.                              *)

(* A party of which nothing changes. *)
LEMMA Unmoved ==
  ASSUME TypeOK, NEW r \in Parties, PartyInv(r),
         session' = session, rounds' = rounds,
         status'[r] = status[r], io'[r] = io[r], pc'[r] = pc[r], phase'[r] = phase[r],
         round'[r] = round[r], \A s \in Sides : Instance(r, s)' = Instance(r, s)
  PROVE  PartyInv(r)'
<1>1. Call(r)' = Call(r) /\ First(r)' = First(r) /\ Second(r)' = Second(r)
      /\ First(r) \in Sides /\ Second(r) \in Sides
      /\ Running(r)' = Running(r) /\ Dead(r)' = Dead(r)
  BY TwoSides DEF Call, First, Second, Running, Dead
<1>2. \A s \in Sides : Past(r, s)' = Past(r, s)
  BY DEF Past, MakeAt
<1>3. Course(r)' /\ Made(r)' /\ NotBefore(r)' /\ Order(r)' /\ Counts(r)'
  BY <1>1, <1>2 DEF PartyInv, Course, Made, NotBefore, Order, Counts
<1>4. Phases(r)'
  <2>1. phase[r] # "enter" => Call(r).side \in Sides
    BY CallIs DEF PartyInv, Phases
  <2> QED
    BY <1>1, <2>1 DEF PartyInv, Phases
<1> QED
  BY <1>3, <1>4 DEF PartyInv

(* A party that stops keeps its instances. *)
LEMMA Stopped ==
  ASSUME TypeOK, NEW p \in Parties, PartyInv(p), Running(p), Throw(p)
  PROVE  PartyInv(p)'
<1>1. /\ status'[p] = "threw"
      /\ UNCHANGED <<build, storage, pc, phase, round, inbox, meeting>>
  BY Thrown DEF Throw
<1>2. \A s \in Sides : Instance(p, s)' = Instance(p, s)
  BY <1>1, InstanceKept
<1>3. /\ Call(p)' = Call(p) /\ First(p)' = First(p) /\ Second(p)' = Second(p)
      /\ First(p) \in Sides /\ Second(p) \in Sides
      /\ ~Running(p)' /\ Dead(p)' = Dead(p) /\ ~Dead(p) /\ session > 0
  BY <1>1, TwoSides DEF Call, First, Second, Running, Dead, PartyInv, Course, TypeOK
<1>4. \A s \in Sides : Past(p, s)' = Past(p, s)
  BY <1>1 DEF Past, MakeAt
<1>5. Course(p)'
  BY <1>1, <1>3 DEF PartyInv, Course, meeting
<1>6. Made(p)' /\ NotBefore(p)' /\ Order(p)' /\ Counts(p)'
  BY <1>1, <1>2, <1>3, <1>4 DEF PartyInv, Made, NotBefore, Order, Counts, meeting
<1>7. Phases(p)'
  <2>1. phase[p] # "enter" => Call(p).side \in Sides
    BY CallIs DEF PartyInv, Phases
  <2> QED
    BY <1>1, <1>2, <1>3, <2>1 DEF PartyInv, Phases, meeting
<1> QED
  BY <1>5, <1>6, <1>7 DEF PartyInv

(* A party that returns from a call it has passed. *)
LEMMA Goes ==
  ASSUME TypeOK, NEW p \in Parties, PartyInv(p), Running(p), Return(p),
         session' = session, rounds' = rounds,
         \A s \in Sides : /\ Instance(p, s)' = None <=> Instance(p, s) = None
                          /\ Instance(p, s) # None =>
                               /\ Instance(p, s)'.io = Instance(p, s).io
                               /\ Instance(p, s)'.session = Instance(p, s).session
                               /\ Instance(p, s).session = session => Instance(p, s)'.count # 0,
         Instance(p, Call(p).side) # None, Instance(p, Call(p).side).io = io[p]
  PROVE  PartyInv(p)'
<1>1. /\ \/ /\ pc[p] < 26 /\ pc'[p] = pc[p] + 1 /\ round'[p] = round[p]
            /\ status' = status /\ io' = io
         \/ /\ pc[p] = 26 /\ round[p] < rounds /\ pc'[p] = 1 /\ round'[p] = round[p] + 1
            /\ status' = status /\ io' = io
         \/ /\ pc[p] = 26 /\ round[p] = rounds /\ pc'[p] = 27 /\ round'[p] = round[p]
            /\ status'[p] = "done" /\ io'[p] = None
      /\ phase'[p] = "enter"
  BY Returns DEF PartyInv
<1>2. /\ pc[p] \in 1 .. 26 /\ round[p] \in Nat \ {0} /\ rounds \in Nat /\ session \in Nat
      /\ ~Dead(p) /\ ~Dead(p)' /\ session > 0 /\ round[p] <= rounds
      /\ Running(p)' => status' = status /\ io' = io
  BY <1>1 DEF TypeOK, PartyInv, Course, Running, Dead
<1>3. /\ First(p)' = First(p) /\ Second(p)' = Second(p)
      /\ First(p) \in Sides /\ Second(p) \in Sides /\ First(p) # Second(p)
      /\ Sides = {First(p), Second(p)}
  BY TwoSides DEF First, Second, Other
<1>4. Course(p)'
  BY <1>1, <1>2 DEF Course, Running
<1>5. \A s \in Sides : Past(p, s) => Past(p, s)'
  BY <1>1, <1>2 DEF Past, MakeAt
<1>6. \A s \in Sides : Past(p, s)' => Past(p, s) \/ s = Call(p).side
  <2>1. Call(p).side = (IF pc[p] \in OfFirst THEN First(p) ELSE Second(p))
    BY <1>2, CallIs
  <2>2. \A s \in Sides : MakeAt(p, s)' = MakeAt(p, s) /\ MakeAt(p, s) \in {1, 3}
    BY <1>3 DEF MakeAt
  <2>3. CASE round[p] > 1
    BY <2>3 DEF Past
  <2>4. CASE pc[p] > 3
    BY <1>2, <2>2, <2>4 DEF Past
  <2>5. CASE round[p] = 1 /\ pc[p] \in 1 .. 3
    <3>1. pc'[p] = pc[p] + 1 /\ round'[p] = 1
      BY <1>1, <2>5
    <3>2. Call(p).side = IF pc[p] = 3 THEN Second(p) ELSE First(p)
      BY <2>1, <2>5 DEF OfFirst
    <3>3. \A s \in Sides : Past(p, s)' <=> pc[p] + 1 > MakeAt(p, s)
      BY <1>1, <2>2, <3>1 DEF Past
    <3>4. MakeAt(p, First(p)) = 1 /\ MakeAt(p, Second(p)) = 3
      BY <1>3 DEF MakeAt
    <3>5. pc[p] \in {2, 3} => Past(p, First(p))
      BY <3>4 DEF Past
    <3> QED
      BY <1>3, <2>5, <3>2, <3>3, <3>4, <3>5
  <2> QED
    BY <1>2, <2>3, <2>4, <2>5
<1>7. Made(p)'
  BY <1>2, <1>6 DEF PartyInv, Made
<1>8. NotBefore(p)'
  BY <1>2, <1>5 DEF PartyInv, NotBefore
<1>9. Order(p)'
  BY <1>3 DEF PartyInv, Order
<1>10. Counts(p)'
  BY <1>1 DEF Counts
<1>11. Phases(p)'
  BY <1>1 DEF Phases
<1> QED
  BY <1>4, <1>7, <1>8, <1>9, <1>10, <1>11 DEF PartyInv

(* A message of an exchange, and nothing else, is counted. *)
LEMMA Advances ==
  ASSUME TypeOK, NEW p \in Parties, PartyInv(p), Running(p), Talks(p), Advanced(p),
         UNCHANGED build, NEW side \in Sides, side = Call(p).side
  PROVE  /\ Instance(p, side) # None /\ Instance(p, side).io = io[p] /\ Past(p, side)
         /\ Instance(p, side) = Current(p)
         /\ Instance(p, side)' # None
         /\ Instance(p, side)'.io = Instance(p, side).io
         /\ Instance(p, side)'.session = Instance(p, side).session
         /\ Instance(p, side)'.count = Instance(p, side).count + 1
         /\ Instance(p, side)'.count # 0
         /\ \A r \in Parties, s \in Sides :
              r # p \/ s # side => Instance(r, s)' = Instance(r, s)
<1> DEFINE ot == Instance(p, side)
           next == [ot EXCEPT !.count = @ + 1]
<1>1. ot \in OT /\ ot # None /\ ot.io = io[p] /\ Past(p, side) /\ ot = Current(p)
  BY Talking DEF Current
<1>2. /\ next \in OT /\ next # None /\ next.io = ot.io /\ next.session = ot.session
      /\ next.count = ot.count + 1 /\ next.count # 0
  BY <1>1, NoneIsNone DEF OT
<1>3. SetInstance(p, side, next)
  BY DEF Advanced, Current
<1>4. /\ Instance(p, side)' = next
      /\ \A r \in Parties, s \in Sides :
           r # p \/ s # side => Instance(r, s)' = Instance(r, s)
  <2> HIDE DEF next
  <2> QED
    BY <1>2, <1>3, InstanceSet
<1> HIDE DEF next
<1> QED
  BY <1>1, <1>2, <1>4

(* A step of a party keeps what holds of it. *)
LEMMA PartyStep ==
  ASSUME TypeOK, NEW p \in Parties, PartyInv(p), Step(p)
  PROVE  PartyInv(p)'
<1>1. Running(p) /\ pc[p] <= 26 /\ pc[p] \in 1 .. 26 /\ ~Dead(p) /\ round[p] \in Nat \ {0}
      /\ session \in Nat
  BY DEF Step, Refuse, Reuse, Create, Ask, Answer, Answered, Misread, PeerGone, Awaits, Talks,
         Running, Dead, PartyInv, Course, TypeOK
<1>2. /\ Call(p).call = (IF pc[p] \in Makes THEN "make" ELSE "use")
      /\ Call(p).side = (IF pc[p] \in OfFirst THEN First(p) ELSE Second(p))
      /\ Call(p).side \in Sides
  BY <1>1, CallIs
<1>3. /\ First(p)' = First(p) /\ Second(p)' = Second(p)
      /\ First(p) \in Sides /\ Second(p) \in Sides /\ First(p) # Second(p)
      /\ Sides = {First(p), Second(p)}
  BY TwoSides DEF First, Second, Other
<1>4. CASE Refuse(p) \/ Misread(p) \/ PeerGone(p)
  BY <1>1, <1>4, Stopped DEF Refuse, Misread, PeerGone
<1>5. CASE Reuse(p)
  <2>1. /\ Return(p) /\ phase[p] = "enter" /\ session' = session /\ rounds' = rounds
        /\ Instance(p, Call(p).side) # None /\ Instance(p, Call(p).side).io = io[p]
    BY <1>5 DEF Reuse, Refused, Current, meeting
  <2>2. \A s \in Sides : Instance(p, s)' = Instance(p, s)
    BY <1>5, InstanceKept DEF Reuse
  <2>3. \A s \in Sides : Instance(p, s) # None /\ Instance(p, s).session = session =>
                           Instance(p, s).count # 0
    BY <2>1 DEF PartyInv, Counts
  <2> QED
    BY <1>1, <2>1, <2>2, <2>3, Goes
<1>6. ASSUME Create(p), NEW side \in Sides, side = Call(p).side
      PROVE  PartyInv(p)'
  <2> DEFINE new == [io |-> io[p], session |-> session, count |-> 0]
  <2>1. /\ phase[p] = "enter" /\ Call(p).call = "make" /\ Instance(p, side) = None
        /\ SetInstance(p, side, new) /\ phase' = [phase EXCEPT ![p] = "talk"]
        /\ UNCHANGED <<build, status, io, pc, round, inbox, meeting>>
    BY <1>6 DEF Create, Current
  <2>2. new \in OT
    BY <1>1 DEF TypeOK, OT
  <2>3. /\ Instance(p, side)' = new
        /\ \A s \in Sides : s # side => Instance(p, s)' = Instance(p, s)
    BY <1>2, <2>1, <2>2, InstanceSet
  <2>4. new # None /\ new.io = io[p] /\ new.session = session /\ new.count = 0
    BY <2>2, NoneIsNone
  <2>5. ~Past(p, side)
    BY <1>1, <1>6, <2>1 DEF PartyInv, Made
  <2>6. round[p] = 1 /\ pc[p] = MakeAt(p, side) /\ pc[p] \in {1, 3}
    <3>1. round[p] = 1 /\ pc[p] <= 3 /\ pc[p] <= MakeAt(p, side)
      BY <1>1, <2>5 DEF Past, MakeAt
    <3>2. pc[p] \in {1, 3}
      BY <1>1, <1>2, <2>1, <3>1 DEF Makes
    <3> QED
      BY <1>2, <1>3, <1>6, <3>1, <3>2 DEF MakeAt, OfFirst
  <2>7. /\ phase'[p] = "talk" /\ pc'[p] = pc[p] /\ round'[p] = round[p] /\ status'[p] = status[p]
        /\ io'[p] = io[p] /\ session' = session /\ rounds' = rounds
        /\ Call(p)' = Call(p) /\ Running(p)' = Running(p) /\ Dead(p)' = Dead(p)
    BY <2>1 DEF TypeOK, Call, Running, Dead, meeting
  <2>8. /\ \A s \in Sides : s # side => Past(p, s)' = Past(p, s)
        /\ Past(p, side)'
    <3>1. \A s \in Sides : MakeAt(p, s)' = MakeAt(p, s)
      BY <1>3 DEF MakeAt
    <3>2. \A s \in Sides : s # side => MakeAt(p, s) # pc[p]
      BY <1>2, <1>3, <1>6, <2>6 DEF MakeAt
    <3> QED
      BY <1>2, <2>6, <2>7, <3>1, <3>2 DEF Past
  <2>9. Course(p)'
    BY <2>7 DEF PartyInv, Course
  <2>10. Phases(p)'
    BY <1>1, <1>6, <2>1, <2>3, <2>4, <2>6, <2>7 DEF Phases
  <2>11. Made(p)'
    BY <2>3, <2>4, <2>7, <2>8 DEF PartyInv, Made
  <2>12. NotBefore(p)'
    BY <1>1, <2>3, <2>4, <2>7, <2>8 DEF PartyInv, NotBefore
  <2>13. Order(p)'
    <3>1. CASE side = First(p)
      <4>1. Instance(p, Second(p))' = Instance(p, Second(p))
        BY <1>3, <2>3, <3>1
      <4>2. Instance(p, Second(p)) = None
        BY <2>1, <3>1 DEF PartyInv, Order
      <4> QED
        BY <1>3, <4>1, <4>2 DEF Order
    <3>2. CASE side = Second(p)
      <4>1. Past(p, First(p))
        BY <1>3, <2>6, <3>2 DEF Past, MakeAt
      <4>2. Instance(p, First(p)) # None /\ Instance(p, First(p)).session <= session
        BY <1>1, <1>3, <4>1 DEF PartyInv, Made, NotBefore
      <4>3. Instance(p, First(p))' = Instance(p, First(p))
        BY <1>3, <2>3, <3>2
      <4> QED
        BY <1>3, <2>3, <2>4, <3>2, <4>2, <4>3 DEF Order
    <3> QED
      BY <1>3, <1>6, <3>1, <3>2
  <2>14. Counts(p)'
    BY <1>6, <2>1, <2>3, <2>4, <2>7 DEF PartyInv, Counts
  <2> QED
    BY <2>9, <2>10, <2>11, <2>12, <2>13, <2>14 DEF PartyInv
<1>7. ASSUME NEW side \in Sides, side = Call(p).side, Ask(p)
      PROVE  PartyInv(p)'
  <2>1. /\ Talks(p) /\ Advanced(p) /\ side = RECV
        /\ phase' = [phase EXCEPT ![p] = "reply"]
        /\ UNCHANGED <<build, status, io, pc, round, meeting>>
    BY <1>7 DEF Ask
  <2>2. /\ Instance(p, side) # None /\ Instance(p, side).io = io[p] /\ Past(p, side)
        /\ Instance(p, side)' # None
        /\ Instance(p, side)'.io = Instance(p, side).io
        /\ Instance(p, side)'.session = Instance(p, side).session
        /\ Instance(p, side)'.count # 0
        /\ \A s \in Sides : s # side => Instance(p, s)' = Instance(p, s)
    BY <1>1, <1>7, <2>1, Advances
  <2>3. /\ phase'[p] = "reply" /\ pc'[p] = pc[p] /\ round'[p] = round[p] /\ status'[p] = status[p]
        /\ io'[p] = io[p] /\ session' = session /\ rounds' = rounds
        /\ Call(p)' = Call(p) /\ Running(p)' = Running(p) /\ Dead(p)' = Dead(p)
    BY <2>1 DEF TypeOK, Call, Running, Dead, meeting
  <2>4. /\ \A s \in Sides : s # side => (Past(p, s)' => Past(p, s))
        /\ \A s \in Sides : Past(p, s) => Past(p, s)'
    <3>1. \A s \in Sides : MakeAt(p, s)' = MakeAt(p, s)
      BY <1>3 DEF MakeAt
    <3>2. CASE Call(p).call = "make"
      <4>1. phase[p] = "talk"
        BY <2>1, <3>2 DEF Talks
      <4> QED
        BY <2>3, <3>1, <4>1 DEF Past
    <3>3. CASE Call(p).call = "use"
      <4>1. \A s \in Sides : MakeAt(p, s) # pc[p]
        BY <1>2, <3>3 DEF MakeAt, Makes
      <4> QED
        BY <2>3, <3>1, <4>1 DEF Past
    <3> QED
      BY <1>2, <3>2, <3>3
  <2>5. Course(p)'
    BY <2>3 DEF PartyInv, Course
  <2>6. Phases(p)'
    <3>1. Call(p).call = "make" => phase[p] = "talk"
      BY <1>1, <2>1, Talking DEF Talks
    <3>2. Call(p).call = "make" =>
            round[p] = 1 /\ pc[p] \in {1, 3} /\ Instance(p, side).session = session
      BY <1>1, <1>7, <3>1 DEF PartyInv, Phases
    <3>3. Call(p)'.side = side
      BY <1>7, <2>3
    <3> QED
      BY <1>1, <1>7, <2>1, <2>2, <2>3, <3>2, <3>3 DEF Phases
  <2>7. Made(p)'
    BY <1>1, <2>2, <2>3, <2>4 DEF PartyInv, Made
  <2>8. NotBefore(p)'
    BY <1>1, <2>2, <2>3, <2>4 DEF PartyInv, NotBefore
  <2>9. Order(p)'
    BY <1>3, <2>2 DEF PartyInv, Order
  <2>10. Counts(p)'
    <3>1. ASSUME NEW s \in Sides, s # side
          PROVE  ~(phase[p] = "talk" /\ Call(p).side = s)
      BY <1>7, <3>1
    <3> QED
      BY <1>7, <2>2, <2>3, <3>1 DEF PartyInv, Counts
  <2> QED
    BY <2>5, <2>6, <2>7, <2>8, <2>9, <2>10 DEF PartyInv
<1>8. ASSUME NEW side \in Sides, side = Call(p).side, Answer(p)
      PROVE  PartyInv(p)'
  <2>1. Talks(p) /\ Advanced(p) /\ Return(p) /\ UNCHANGED <<build, meeting>>
    BY <1>8 DEF Answer
  <2>2. /\ Instance(p, side) # None /\ Instance(p, side).io = io[p]
        /\ Instance(p, side)' # None
        /\ Instance(p, side)'.io = Instance(p, side).io
        /\ Instance(p, side)'.session = Instance(p, side).session
        /\ Instance(p, side)'.count # 0
        /\ \A s \in Sides : s # side => Instance(p, s)' = Instance(p, s)
    BY <1>1, <1>8, <2>1, Advances
  <2>3. \A s \in Sides : s # side /\ Instance(p, s) # None /\ Instance(p, s).session = session =>
                           Instance(p, s).count # 0
    BY <1>8 DEF PartyInv, Counts
  <2>4. session' = session /\ rounds' = rounds
    BY <2>1 DEF meeting
  <2> QED
    BY <1>1, <1>8, <2>1, <2>2, <2>3, <2>4, Goes
<1>9. CASE Answered(p)
  <2>1. /\ phase[p] = "reply" /\ Return(p) /\ session' = session /\ rounds' = rounds
        /\ UNCHANGED <<build, storage>>
    BY <1>9 DEF Answered, meeting
  <2>2. \A s \in Sides : Instance(p, s)' = Instance(p, s)
    BY <2>1, InstanceKept
  <2>3. \A s \in Sides : Instance(p, s) # None /\ Instance(p, s).session = session =>
                           Instance(p, s).count # 0
    BY <2>1 DEF PartyInv, Counts
  <2>4. Instance(p, Call(p).side) # None /\ Instance(p, Call(p).side).io = io[p]
    BY <1>1, <2>1, Talking DEF Current
  <2> QED
    BY <1>1, <2>1, <2>2, <2>3, <2>4, Goes
<1> QED
  BY <1>2, <1>4, <1>5, <1>6, <1>7, <1>8, <1>9 DEF Step

(* A step of one party leaves the other where it is. *)
LEMMA OthersStep ==
  ASSUME TypeOK, NEW p \in Parties, PartyInv(p), Step(p)
  PROVE  LET q == Peer(p)
         IN  /\ session' = session /\ rounds' = rounds /\ undisturbed' = undisturbed
             /\ UNCHANGED build
             /\ status'[q] = status[q] /\ io'[q] = io[q] /\ pc'[q] = pc[q]
             /\ phase'[q] = phase[q] /\ round'[q] = round[q]
             /\ \A s \in Sides : Instance(q, s)' = Instance(q, s)
<1> DEFINE q == Peer(p)
<1>1. q \in Parties /\ q # p
  BY TwoParties
<1>2. Running(p) /\ pc[p] <= 26
  BY DEF Step, Refuse, Reuse, Create, Ask, Answer, Answered, Misread, PeerGone, Awaits, Talks,
         PartyInv, Course
<1>3. Call(p).side \in Sides
  BY <1>2, CallIs
<1>4. session' = session /\ rounds' = rounds /\ undisturbed' = undisturbed /\ UNCHANGED build
  BY DEF Step, Refuse, Reuse, Create, Ask, Answer, Answered, Misread, PeerGone, Throw, meeting
<1>5. CASE Refuse(p) \/ Misread(p) \/ PeerGone(p)
  <2>1. Throw(p)
    BY <1>5 DEF Refuse, Misread, PeerGone
  <2>2. status'[q] = status[q] /\ io'[q] = io[q]
    BY <1>1, <2>1, Thrown
  <2>3. UNCHANGED <<build, storage, pc, phase, round>>
    BY <2>1 DEF Throw
  <2> QED
    BY <1>1, <1>4, <2>2, <2>3, InstanceKept
<1>6. ASSUME Return(p)
      PROVE  /\ status'[q] = status[q] /\ io'[q] = io[q] /\ pc'[q] = pc[q]
             /\ phase'[q] = phase[q] /\ round'[q] = round[q]
  BY <1>1, <1>2, <1>6, Returns DEF PartyInv
<1>7. CASE Reuse(p) \/ Answered(p)
  <2>1. Return(p) /\ UNCHANGED <<build, storage>>
    BY <1>4, <1>7 DEF Reuse, Answered
  <2> QED
    BY <1>1, <1>4, <1>6, <2>1, InstanceKept
<1>8. ASSUME NEW side \in Sides, side = Call(p).side, Create(p)
      PROVE  \A s \in Sides : Instance(q, s)' = Instance(q, s)
  <2> DEFINE new == [io |-> io[p], session |-> session, count |-> 0]
  <2>1. new \in OT
    BY <1>2 DEF OT, TypeOK
  <2>2. SetInstance(p, side, new)
    BY <1>8 DEF Create
  <2> HIDE DEF new
  <2> QED
    BY <1>1, <1>4, <2>1, <2>2, InstanceSet
<1>9. ASSUME NEW side \in Sides, side = Call(p).side, Ask(p) \/ Answer(p)
      PROVE  \A s \in Sides : Instance(q, s)' = Instance(q, s)
  <2>1. Talks(p) /\ Advanced(p)
    BY <1>9 DEF Ask, Answer
  <2> QED
    BY <1>1, <1>2, <1>4, <1>9, <2>1, Advances
<1>10. CASE Create(p) \/ Ask(p)
  <2>1. /\ status'[q] = status[q] /\ io'[q] = io[q] /\ pc'[q] = pc[q]
        /\ phase'[q] = phase[q] /\ round'[q] = round[q]
    BY <1>1, <1>10 DEF Create, Ask, TypeOK
  <2> QED
    BY <1>3, <1>4, <1>8, <1>9, <1>10, <2>1
<1>11. CASE Answer(p)
  <2>1. Return(p)
    BY <1>11 DEF Answer
  <2> QED
    BY <1>3, <1>4, <1>6, <1>9, <1>11, <2>1
<1> QED
  BY <1>5, <1>7, <1>10, <1>11 DEF Step

(* So does a new connection: what is left is of an earlier one. *)
LEMMA PartyConnect ==
  ASSUME TypeOK, NEW p \in Parties, PartyInv(p), Connect
  PROVE  PartyInv(p)'
<1>1. /\ session \in Nat /\ session' = session + 1 /\ rounds' \in 1 .. Rounds
      /\ status'[p] = "running" /\ pc'[p] = 1 /\ round'[p] = 1 /\ phase'[p] = "enter"
      /\ UNCHANGED <<build, storage>>
  BY DEF Connect, TypeOK
<1>2. \A s \in Sides : Instance(p, s)' = Instance(p, s)
  BY <1>1, InstanceKept
<1>3. /\ First(p)' = First(p) /\ Second(p)' = Second(p)
      /\ First(p) \in Sides /\ Second(p) \in Sides /\ First(p) # Second(p)
  BY TwoSides DEF First, Second, Other
<1>4. \A s \in Sides : ~Past(p, s)'
  BY <1>1 DEF Past, MakeAt
<1>5. \A s \in Sides : Instance(p, s) # None =>
          Instance(p, s).session <= session /\ Instance(p, s).session \in Nat
  BY InstanceType DEF PartyInv, NotBefore
<1>6. Course(p)' /\ Phases(p)'
  BY <1>1, BoundsAssumption DEF Course, Phases, Running
<1>7. Made(p)' /\ NotBefore(p)' /\ Order(p)' /\ Counts(p)'
  BY <1>1, <1>2, <1>3, <1>4, <1>5 DEF PartyInv, Made, NotBefore, Order, Counts
<1> QED
  BY <1>6, <1>7 DEF PartyInv

(* So does a death: it takes the instances of its process. *)
LEMMA PartyDie ==
  ASSUME TypeOK, NEW p \in Parties, PartyInv(p), NEW proc \in Processes, Die(proc)
  PROVE  PartyInv(p)'
<1>1. /\ session' = session /\ rounds' = rounds /\ pc'[p] = pc[p] /\ phase'[p] = phase[p]
      /\ round'[p] = round[p]
      /\ status'[p] = IF Process(p) = proc THEN "died" ELSE status[p]
      /\ io'[p] = IF Process(p) = proc THEN None ELSE io[p]
  BY DEF Die
<1>2. \A s \in Sides : Instance(p, s)' = IF Process(p) = proc THEN None ELSE Instance(p, s)
  BY InstanceLost
<1>3. CASE Process(p) # proc
  BY <1>1, <1>2, <1>3, Unmoved
<1>4. CASE Process(p) = proc
  <2>1. /\ status'[p] = "died" /\ Dead(p)' /\ ~Running(p)' /\ Call(p)' = Call(p)
        /\ \A s \in Sides : Instance(p, s)' = None
        /\ First(p) \in Sides /\ Second(p) \in Sides
        /\ First(p)' = First(p) /\ Second(p)' = Second(p)
    BY <1>1, <1>2, <1>4, TwoSides DEF Dead, Running, Call, First, Second
  <2>2. Course(p)'
    BY <1>1, <2>1 DEF PartyInv, Course
  <2>3. Phases(p)'
    BY <1>1, <2>1 DEF PartyInv, Phases
  <2>4. Made(p)' /\ NotBefore(p)' /\ Order(p)' /\ Counts(p)'
    BY <2>1 DEF Made, NotBefore, Order, Counts
  <2> QED
    BY <2>2, <2>3, <2>4 DEF PartyInv
<1> QED
  BY <1>3, <1>4

PartiesInv == \A p \in Parties : PartyInv(p)

LEMMA PartiesNext ==
  ASSUME TypeOK, PartiesInv, [Next]_vars
  PROVE  TypeOK' /\ PartiesInv'
<1>1. \A p \in Parties : PartyInv(p)
  BY DEF PartiesInv
<1>2. CASE Connect
  BY <1>1, <1>2, ConnectType, PartyConnect DEF PartiesInv
<1>3. ASSUME NEW p \in Parties, Step(p)
      PROVE  TypeOK' /\ PartiesInv'
  <2>1. TypeOK' /\ PartyInv(p)'
    BY <1>1, <1>3, StepType, PartyStep
  <2>2. ASSUME NEW q \in Parties, q # p
        PROVE  PartyInv(q)'
    <3>1. q = Peer(p)
      BY <2>2, TwoParties
    <3> QED
      BY <1>1, <1>3, <3>1, OthersStep, Unmoved
  <2> QED
    BY <2>1, <2>2 DEF PartiesInv
<1>4. ASSUME NEW proc \in Processes, Die(proc)
      PROVE  TypeOK' /\ PartiesInv'
  BY <1>1, <1>4, DieType, PartyDie DEF PartiesInv
<1>5. CASE UNCHANGED vars
  <2>1. TypeOK'
    BY <1>5 DEF vars, TypeOK, Running, Storages, OT, Slots, Tags
  <2>2. \A s \in Sides, r \in Parties : Instance(r, s)' = Instance(r, s)
    BY <1>5, InstanceKept DEF vars, build
  <2>3. ASSUME NEW r \in Parties
        PROVE  PartyInv(r)'
    BY <1>1, <1>5, <2>2, Unmoved DEF vars
  <2> QED
    BY <2>1, <2>3 DEF PartiesInv
<1> QED
  BY <1>2, <1>3, <1>4, <1>5 DEF Next

LEMMA PartiesInit ==
  ASSUME Init
  PROVE  TypeOK /\ PartiesInv
<1>1. TypeOK
  <2>1. NoInstances \in [Sides -> [Slots -> OT \cup {None}]]
    BY DEF NoInstances
  <2>2. storage \in Storages
    BY <2>1 DEF Init, Storages
  <2>3. /\ status \in [Parties -> {"away", "running", "done", "threw", "died"}]
        /\ io \in [Parties -> Addresses \cup {None}]
        /\ pc \in [Parties -> 1 .. 27] /\ round \in [Parties -> Nat \ {0}]
        /\ phase \in [Parties -> {"enter", "talk", "reply"}]
        /\ inbox \in [Parties -> Seq(Tags)]
        /\ \A p \in Parties : status[p] = "away"
    BY DEF Init
  <2>4. /\ session \in Nat /\ rounds \in Nat /\ deaths \in Nat
        /\ oneProcess \in BOOLEAN /\ instances \in {1, 2} /\ (oneProcess => instances = 2)
    BY DEF Init
  <2>5. undisturbed \in BOOLEAN
    <3>1. undisturbed = FALSE
      BY DEF Init
    <3> QED
      BY <3>1, Zenon
  <2> QED
    BY <2>2, <2>3, <2>4, <2>5 DEF TypeOK, Running
<1>2. ASSUME NEW p \in Parties
      PROVE  PartyInv(p)
  <2>1. /\ status[p] = "away" /\ pc[p] = 1 /\ round[p] = 1 /\ phase[p] = "enter"
        /\ session = 0 /\ rounds = 0
    BY <1>2 DEF Init
  <2>2. Process(p) \in Parties /\ Slot(p) \in Slots
    BY <1>1, <1>2, TwoSides, InstanceType
  <2>3. \A s \in Sides : Instance(p, s) = None
    BY <2>2 DEF Init, Instance, NoInstances
  <2>4. Course(p) /\ Phases(p)
    BY <2>1 DEF Course, Phases, Running
  <2>5. \A s \in Sides : ~Past(p, s)
    BY <2>1 DEF Past, MakeAt
  <2>6. Made(p) /\ NotBefore(p) /\ Order(p) /\ Counts(p)
    BY <2>3, <2>5, TwoSides DEF Made, NotBefore, Order, Counts
  <2> QED
    BY <2>4, <2>6 DEF PartyInv
<1> QED
  BY <1>1, <1>2 DEF PartiesInv

-----------------------------------------------------------------------------
(* How the two parties stand to each other.  A constructor and the use     *)
(* after it form a block, of one side, but for the one that stands at 3    *)
(* and is a block of its own; a party that finds an instance passes over   *)
(* the constructor, its peer need not.                                     *)
BlockOf ==
  <<1, 1, 2, 3, 4, 5, 6, 6, 7, 7, 8, 9, 10, 11, 11, 12, 13, 13, 14, 14, 15, 15, 16, 16, 17, 17, 18>>
Place(turn, block) == 17 * (turn - 1) + block
Position(p) == Place(round[p], BlockOf[pc[p]])

(* What an instance is, or will be once it is made, counted by.            *)
SessionOf(p, side) == IF Instance(p, side) = None THEN session ELSE Instance(p, side).session
CountOf(p, side) == IF Instance(p, side) = None THEN 0 ELSE Instance(p, side).count

(* p has asked and there is no answer yet.                                 *)
Unanswered(p) == phase[p] = "reply" /\ inbox[p] = <<>>

SameCount(p, q) ==
  /\ ~Dead(p) /\ ~Dead(q) /\ SessionOf(p, SEND) = session /\ SessionOf(q, RECV) = session
  => CountOf(q, RECV) = CountOf(p, SEND) + (IF Unanswered(q) THEN 1 ELSE 0)

(* m is what p asks q.                                                     *)
Asks(p, q, m) ==
  /\ m.call = Call(p).call
  /\ m.call = "make" => m.session = session
  /\ m.session = session => (m.call = "make" <=> m.count = 0)
  /\ ~Dead(p) => /\ Instance(p, RECV) # None /\ m.session = Instance(p, RECV).session
                 /\ Running(p) => Instance(p, RECV).io = io[p]
  /\ ~Dead(q) /\ m.session = session /\ SessionOf(q, SEND) = session =>
       m.count = CountOf(q, SEND)

(* m is q's answer to p.                                                   *)
Answers(q, p, m) ==
  /\ m.call = Call(p).call
  /\ ~Dead(q) => /\ Instance(q, SEND) # None /\ m.session = Instance(q, SEND).session
                 /\ Running(q) => Instance(q, SEND).io = io[q]
  /\ ~Dead(p) /\ m.session = session /\ SessionOf(p, RECV) = session =>
       m.count = CountOf(p, RECV)

(* q has passed over the constructor at 3, and p, before it, will.         *)
Skips(p, q) ==
  /\ round[p] = round[q] /\ pc[p] = 3 /\ pc[q] = 4 /\ phase[p] = "enter"
  /\ ~Dead(p) => Instance(p, Second(p)) # None

Level(p, q) == Position(p) = Position(q) \/ Skips(p, q) \/ Skips(q, p)

(* q has passed over it while p waits for the answer to its call before.   *)
Passed(p, q) ==
  /\ round[p] = round[q] /\ pc[p] = 2 /\ pc[q] = 4
  /\ ~Dead(q) /\ round[q] = 1 => Instance(q, Second(q)).session # session

NextTo(p, q) ==
  \/ Position(q) = Position(p) + 1 /\ (Call(p).call = "use" \/ pc[p] = 3)
  \/ Passed(p, q)

Behind(p, q) == NextTo(p, q) \/ (pc[p] = 1 /\ pc[q] = 2 /\ round[p] = round[q])

Quiet(p, q) ==
  /\ phase[p] # "reply" /\ phase[q] # "reply" /\ inbox[p] = <<>> /\ inbox[q] = <<>>
  /\ Level(p, q)

Asked(p, q) ==
  /\ phase[p] = "reply" /\ phase[q] # "reply" /\ inbox[p] = <<>> /\ Level(p, q)
  /\ \E m \in Tags : inbox[q] = <<m>> /\ Asks(p, q, m)

Replied(p, q) ==
  /\ phase[p] = "reply" /\ phase[q] # "reply" /\ inbox[q] = <<>> /\ Behind(p, q)
  /\ \E m \in Tags : inbox[p] = <<m>> /\ Answers(q, p, m)

(* q has answered and asks in its next call.                               *)
AskedBack(p, q) ==
  /\ phase[p] = "reply" /\ phase[q] = "reply" /\ inbox[q] = <<>> /\ NextTo(p, q)
  /\ \E m, n \in Tags :
       /\ inbox[p] = <<m, n>> /\ Answers(q, p, m) /\ Asks(q, p, n)
       /\ pc[p] = 2 /\ pc[q] = 4 /\ round[q] = 1 => n.session # session

(* p makes the second instance, which q has of an earlier connection: they *)
(* are at different calls and neither reads what the other sends.          *)
Apart(p, q) ==
  /\ round[p] = 1 /\ round[q] = 1 /\ pc[p] = 3 /\ pc[q] = 4
  /\ ~Dead(p) => SessionOf(p, Second(p)) = session
  /\ ~Dead(q) => \A s \in Sides : Instance(q, s) # None /\ Instance(q, s).session # session
  /\ \/ inbox[p] = <<>>
     \/ phase[q] = "reply" /\ \E m \in Tags : inbox[p] = <<m>> /\ m.session # session
  /\ \/ inbox[q] = <<>>
     \/ phase[p] = "reply" /\ \E m \in Tags : inbox[q] = <<m>> /\ m.session = session

Stand(p, q) ==
  Quiet(p, q) \/ Asked(p, q) \/ Replied(p, q) \/ AskedBack(p, q) \/ Apart(p, q)

Pair(p, q) == (Stand(p, q) \/ Stand(q, p)) /\ SameCount(p, q) /\ SameCount(q, p)

PairInv == Pair(GARBLER, EVALUATOR)

LEMMA PairSymmetric ==
  ASSUME NEW p \in Parties
  PROVE  PairInv <=> Pair(p, Peer(p))
BY DEF PairInv, Pair, Parties, Peer, GARBLER, EVALUATOR

LEMMA Blocks ==
  /\ \A i \in 1 .. 27 : BlockOf[i] \in 1 .. 18
  /\ \A i \in 1 .. 26 : /\ BlockOf[i] <= 17
                        /\ BlockOf[i + 1] = BlockOf[i] + (IF i \in Makes /\ i # 3 THEN 0 ELSE 1)
  /\ BlockOf[1] = 1 /\ BlockOf[2] = 1 /\ BlockOf[3] = 2 /\ BlockOf[4] = 3
  /\ BlockOf[26] = 17 /\ BlockOf[27] = 18
  /\ \A i \in 1 .. 27 : /\ BlockOf[i] = 1 => i \in {1, 2}
                        /\ BlockOf[i] = 2 => i = 3
                        /\ BlockOf[i] = 3 => i = 4
BY DEF BlockOf, Makes

LEMMA BlockSides ==
  \A i, j \in 1 .. 26 : BlockOf[i] = BlockOf[j] => (i \in OfFirst <=> j \in OfFirst)
BY DEF BlockOf, OfFirst

LEMMA PositionType ==
  ASSUME TypeOK, NEW p \in Parties
  PROVE  /\ pc[p] \in 1 .. 27 /\ round[p] \in Nat \ {0} /\ BlockOf[pc[p]] \in 1 .. 18
         /\ pc[p] <= 26 => BlockOf[pc[p]] \in 1 .. 17
         /\ Position(p) = 17 * (round[p] - 1) + BlockOf[pc[p]]
         /\ Position(p) \in Nat
<1>1. pc[p] \in 1 .. 27 /\ round[p] \in Nat \ {0}
  BY DEF TypeOK
<1>2. BlockOf[pc[p]] \in 1 .. 18 /\ (pc[p] <= 26 => BlockOf[pc[p]] \in 1 .. 17)
  BY <1>1, Blocks
<1> QED
  BY <1>1, <1>2 DEF Position, Place

(* Rounds and blocks can be told from a position. *)
LEMMA Digits ==
  ASSUME NEW a \in Nat, NEW b \in Nat, NEW i \in 1 .. 17, NEW j \in 1 .. 17,
         Place(a, i) = Place(b, j)
  PROVE  a = b /\ i = j
<1>0. 17 * (a - 1) + i = 17 * (b - 1) + j
  BY DEF Place
<1>1. ~(a < b)
  <2>1. a < b => a - 1 + 1 <= b - 1
    OBVIOUS
  <2> QED
    BY <1>0, <2>1
<1>2. ~(b < a)
  <2>1. b < a => b - 1 + 1 <= a - 1
    OBVIOUS
  <2> QED
    BY <1>0, <2>1
<1> QED
  BY <1>0, <1>1, <1>2

(* At the same block, the two ends are a sender and a receiver. *)
LEMMA Mirror ==
  ASSUME TypeOK, NEW p \in Parties, NEW q \in Parties, q = Peer(p),
         Position(p) = Position(q), pc[p] <= 26, pc[q] <= 26
  PROVE  /\ round[p] = round[q] /\ BlockOf[pc[p]] = BlockOf[pc[q]]
         /\ Call(q).side # Call(p).side
<1>1. /\ round[p] \in Nat /\ round[q] \in Nat
      /\ BlockOf[pc[p]] \in 1 .. 17 /\ BlockOf[pc[q]] \in 1 .. 17
      /\ Position(p) = 17 * (round[p] - 1) + BlockOf[pc[p]]
      /\ Position(q) = 17 * (round[q] - 1) + BlockOf[pc[q]]
      /\ pc[p] \in 1 .. 26 /\ pc[q] \in 1 .. 26
  BY PositionType, CallIs
<1>2. round[p] = round[q] /\ BlockOf[pc[p]] = BlockOf[pc[q]]
  <2>1. Place(round[p], BlockOf[pc[p]]) = Place(round[q], BlockOf[pc[q]])
    BY DEF Position
  <2>2. /\ round[p] \in Nat /\ round[q] \in Nat
        /\ BlockOf[pc[p]] \in 1 .. 17 /\ BlockOf[pc[q]] \in 1 .. 17
    BY <1>1
  <2>3. \A a, b \in Nat : \A i, j \in 1 .. 17 : Place(a, i) = Place(b, j) => a = b /\ i = j
    BY Digits
  <2> QED
    BY <2>1, <2>2, <2>3
<1>3. pc[p] \in OfFirst <=> pc[q] \in OfFirst
  BY <1>1, <1>2, BlockSides
<1> QED
  BY <1>2, <1>3, CallIs, TwoSides

(* Around the constructor at 3. *)
LEMMA AtThree ==
  ASSUME TypeOK, NEW p \in Parties, NEW q \in Parties
  PROVE  /\ Position(p) = Position(q) /\ pc[q] = 3 => pc[p] = 3 /\ round[p] = round[q]
         /\ Position(q) = Position(p) + 1 /\ pc[q] = 3 /\ pc[p] <= 26 =>
              pc[p] \in {1, 2} /\ round[p] = round[q]
         /\ round[p] = round[q] /\ pc[p] = 3 /\ pc[q] = 4 => Position(q) = Position(p) + 1
         /\ round[p] = round[q] /\ pc[p] = 1 /\ pc[q] = 2 => Position(q) = Position(p)
         /\ ~(Position(q) = Position(p) + 1 /\ pc[p] = 2 /\ pc[q] = 4)
<1>1. /\ round[p] \in Nat /\ round[q] \in Nat /\ pc[p] \in 1 .. 27 /\ pc[q] \in 1 .. 27
      /\ BlockOf[pc[p]] \in 1 .. 18 /\ BlockOf[pc[q]] \in 1 .. 18
      /\ Position(p) = 17 * (round[p] - 1) + BlockOf[pc[p]]
      /\ Position(q) = 17 * (round[q] - 1) + BlockOf[pc[q]]
  BY PositionType
<1>2. ASSUME Position(p) = Position(q), pc[q] = 3
      PROVE  pc[p] = 3 /\ round[p] = round[q]
  <2>1. BlockOf[pc[q]] = 2
    BY <1>2, Blocks
  <2>2. round[p] = round[q] /\ BlockOf[pc[p]] = 2
    BY <1>1, <1>2, <2>1
  <2> QED
    BY <1>1, <2>2, Blocks
<1>3. ASSUME Position(q) = Position(p) + 1, pc[q] = 3, pc[p] <= 26
      PROVE  pc[p] \in {1, 2} /\ round[p] = round[q]
  <2>1. BlockOf[pc[q]] = 2
    BY <1>3, Blocks
  <2>2. BlockOf[pc[p]] \in 1 .. 17
    BY <1>3, PositionType
  <2>3. Place(round[p], BlockOf[pc[p]]) = Place(round[q], 1)
    BY <1>1, <1>3, <2>1 DEF Place
  <2>4. round[p] = round[q] /\ BlockOf[pc[p]] = 1
    BY <1>1, <2>2, <2>3, Digits
  <2> QED
    BY <1>1, <2>4, Blocks
<1>4. ASSUME round[p] = round[q], pc[p] = 3, pc[q] = 4
      PROVE  Position(q) = Position(p) + 1
  BY <1>1, <1>4, Blocks
<1>5. ASSUME round[p] = round[q], pc[p] = 1, pc[q] = 2
      PROVE  Position(q) = Position(p)
  BY <1>1, <1>5, Blocks
<1>6. ASSUME Position(q) = Position(p) + 1, pc[p] = 2, pc[q] = 4
      PROVE  FALSE
  BY <1>1, <1>6, Blocks
<1> QED
  BY <1>2, <1>3, <1>4, <1>5, <1>6

(* The block that a return leads to. *)
LEMMA Moves ==
  ASSUME TypeOK, NEW p \in Parties, PartyInv(p), Running(p), Return(p)
  PROVE  Position(p)' = Position(p) + (IF Call(p).call = "make" /\ pc[p] # 3 THEN 0 ELSE 1)
<1>1. /\ \/ /\ pc[p] < 26 /\ pc'[p] = pc[p] + 1 /\ round'[p] = round[p]
         \/ /\ pc[p] = 26 /\ round[p] < rounds /\ pc'[p] = 1 /\ round'[p] = round[p] + 1
         \/ /\ pc[p] = 26 /\ round[p] = rounds /\ pc'[p] = 27 /\ round'[p] = round[p]
  BY Returns DEF PartyInv
<1>2. /\ pc[p] \in 1 .. 26 /\ round[p] \in Nat
      /\ Position(p) = 17 * (round[p] - 1) + BlockOf[pc[p]] /\ BlockOf[pc[p]] \in Nat
      /\ Position(p)' = 17 * (round'[p] - 1) + BlockOf[pc'[p]]
  <2>1. pc[p] \in 1 .. 26 /\ round[p] \in Nat
    BY DEF TypeOK, PartyInv, Course
  <2>2. BlockOf[pc[p]] \in Nat
    BY <2>1, PositionType
  <2>3. BlockOf' = BlockOf
    BY DEF BlockOf
  <2> QED
    BY <2>1, <2>2, <2>3 DEF Position, Place
<1>3. Call(p).call = IF pc[p] \in Makes THEN "make" ELSE "use"
  BY <1>2, CallIs
<1>4. BlockOf[pc[p] + 1] = BlockOf[pc[p]] + (IF pc[p] \in Makes /\ pc[p] # 3 THEN 0 ELSE 1)
  BY <1>2, Blocks
<1>5. CASE pc[p] < 26
  BY <1>1, <1>2, <1>3, <1>4, <1>5
<1>6. CASE pc[p] = 26
  <2>1. 26 \notin Makes
    BY DEF Makes
  <2>2. BlockOf[26] = 17 /\ BlockOf[27] = 18 /\ BlockOf[1] = 1
    BY Blocks
  <2> QED
    BY <1>1, <1>2, <1>3, <1>6, <2>1, <2>2
<1> QED
  BY <1>2, <1>5, <1>6

(* A question stays one while its two ends stay as they are. *)
LEMMA AsksKept ==
  ASSUME NEW p \in Parties, NEW q \in Parties, NEW m, Asks(p, q, m),
         session' = session, pc'[p] = pc[p],
         Dead(p) => Dead(p)', Dead(q) => Dead(q)',
         ~Dead(p)' /\ Instance(p, RECV) # None => Instance(p, RECV)' = Instance(p, RECV),
         ~Dead(q)' => /\ SessionOf(q, SEND)' = SessionOf(q, SEND)
                      /\ CountOf(q, SEND)' = CountOf(q, SEND),
         Running(p)' => Running(p) /\ io'[p] = io[p]
  PROVE  Asks(p, q, m)'
<1>1. Call(p)' = Call(p)
  BY DEF Call
<1> QED
  BY <1>1 DEF Asks

(* So does an answer. *)
LEMMA AnswersKept ==
  ASSUME NEW p \in Parties, NEW q \in Parties, NEW m, Answers(q, p, m),
         session' = session, pc'[p] = pc[p],
         Dead(p) => Dead(p)', Dead(q) => Dead(q)',
         ~Dead(q)' /\ Instance(q, SEND) # None => Instance(q, SEND)' = Instance(q, SEND),
         ~Dead(p)' => /\ SessionOf(p, RECV)' = SessionOf(p, RECV)
                      /\ CountOf(p, RECV)' = CountOf(p, RECV),
         Running(q)' => Running(q) /\ io'[q] = io[q]
  PROVE  Answers(q, p, m)'
<1>1. Call(p)' = Call(p)
  BY DEF Call
<1> QED
  BY <1>1 DEF Answers

(* A party that throws or dies changes nothing between the two but that it *)
(* has instances no more.                                                  *)
LEMMA PairStops ==
  ASSUME TypeOK, NEW p \in Parties, NEW q \in Parties, session' = session,
         UNCHANGED <<pc, phase, round, inbox>>,
         \A r \in Parties :
           /\ Dead(r) => Dead(r)'
           /\ ~Dead(r)' => \A s \in Sides : Instance(r, s)' = Instance(r, s)
           /\ Running(r)' => Running(r) /\ io'[r] = io[r]
  PROVE  /\ Stand(p, q) => Stand(p, q)'
         /\ SameCount(p, q) => SameCount(p, q)'
<1>1. \A r \in Parties : /\ First(r)' = First(r) /\ Second(r)' = Second(r) /\ Call(r)' = Call(r)
                         /\ Second(r) \in Sides /\ Position(r)' = Position(r)
  BY TwoSides DEF First, Second, Call, Position, BlockOf
<1>2. SEND \in Sides /\ RECV \in Sides
  BY TwoSides
<1>3. \A r \in Parties : ~Dead(r)' => \A s \in Sides : /\ SessionOf(r, s)' = SessionOf(r, s)
                                                       /\ CountOf(r, s)' = CountOf(r, s)
  BY DEF SessionOf, CountOf
<1>4. SameCount(p, q) => SameCount(p, q)'
  BY <1>2, <1>3 DEF SameCount, Unanswered
<1>5. ASSUME NEW a \in Parties, NEW b \in Parties, NEW m
      PROVE  /\ Asks(a, b, m) => Asks(a, b, m)'
             /\ Answers(a, b, m) => Answers(a, b, m)'
  BY <1>2, <1>3, AsksKept, AnswersKept
<1>6. \A a, b \in Parties : Skips(a, b) => Skips(a, b)'
  BY <1>1 DEF Skips
<1>7. \A a, b \in Parties : Passed(a, b) => Passed(a, b)'
  BY <1>1 DEF Passed
<1>8. \A a, b \in Parties : Level(a, b) => Level(a, b)'
  BY <1>1, <1>6 DEF Level
<1>9. \A a, b \in Parties : NextTo(a, b) => NextTo(a, b)'
  BY <1>1, <1>7 DEF NextTo
<1>10. \A a, b \in Parties : Behind(a, b) => Behind(a, b)'
  BY <1>9 DEF Behind
<1>11. Quiet(p, q) => Quiet(p, q)'
  BY <1>8 DEF Quiet
<1>12. Asked(p, q) => Asked(p, q)'
  BY <1>5, <1>8 DEF Asked
<1>13. Replied(p, q) => Replied(p, q)'
  BY <1>5, <1>10 DEF Replied
<1>14. AskedBack(p, q) => AskedBack(p, q)'
  BY <1>5, <1>9 DEF AskedBack
<1>15. Apart(p, q) => Apart(p, q)'
  BY <1>1, <1>3 DEF Apart
<1> QED
  BY <1>4, <1>11, <1>12, <1>13, <1>14, <1>15 DEF Stand

(* Where the parties are apart no counts are compared. *)
LEMMA ApartCounts ==
  ASSUME NEW p \in Parties, NEW q \in Parties, Apart(p, q)'
  PROVE  SameCount(p, q)' /\ SameCount(q, p)'
<1>1. ~Dead(q)' => SessionOf(q, SEND)' # session' /\ SessionOf(q, RECV)' # session'
  BY TwoSides DEF Apart, SessionOf
<1> QED
  BY <1>1 DEF SameCount

LEMMA QuietEither == \A p, q : Quiet(p, q) <=> Quiet(q, p)
BY DEF Quiet, Level

(* A recycled second instance comes with a recycled first. *)
LEMMA BothOld ==
  ASSUME TypeOK, NEW p \in Parties, PartyInv(p), Instance(p, Second(p)) # None,
         Instance(p, Second(p)).session # session
  PROVE  \A s \in Sides : Instance(p, s) # None /\ Instance(p, s).session # session
<1>1. /\ First(p) \in Sides /\ Second(p) \in Sides /\ Sides = {First(p), Second(p)}
  BY TwoSides DEF Other
<1>2. /\ Instance(p, First(p)) # None
      /\ Instance(p, First(p)).session <= Instance(p, Second(p)).session
  BY DEF PartyInv, Order
<1>3. /\ Instance(p, First(p)).session \in Nat /\ Instance(p, Second(p)).session \in Nat
      /\ session \in Nat
  BY <1>1, <1>2, InstanceType DEF TypeOK
<1>4. Instance(p, Second(p)).session <= session
  BY <1>1 DEF PartyInv, NotBefore
<1> QED
  BY <1>1, <1>2, <1>3, <1>4

(* At the constructor at 3: whoever begins to talk there makes an instance. *)
LEMMA AtTheThird ==
  ASSUME TypeOK, NEW p \in Parties, PartyInv(p), pc[p] = 3
  PROVE  /\ Call(p).call = "make" /\ Call(p).side = Second(p)
         /\ phase[p] # "enter" => round[p] = 1 /\ (~Dead(p) => SessionOf(p, Second(p)) = session)
         /\ ~Dead(p) /\ Instance(p, Second(p)) = None => round[p] = 1
<1>1. Call(p).call = "make" /\ Call(p).side = Second(p)
  BY CallIs DEF Makes, OfFirst
<1>2. phase[p] # "enter" => round[p] = 1 /\ (~Dead(p) => SessionOf(p, Second(p)) = session)
  BY <1>1 DEF PartyInv, Phases, SessionOf
<1>3. ASSUME ~Dead(p), Instance(p, Second(p)) = None
      PROVE  round[p] = 1
  <2>1. ~Past(p, Second(p))
    BY <1>3, TwoSides DEF PartyInv, Made
  <2>2. ~(round[p] > 1)
    BY <2>1 DEF Past
  <2> QED
    BY <2>2 DEF TypeOK
<1> QED
  BY <1>1, <1>2, <1>3

-----------------------------------------------------------------------------
(* Each call of one party keeps how the two stand to each other.           *)
LEMMA AppendSecond ==
  ASSUME NEW S, NEW a \in S, NEW b \in S
  PROVE  Append(<<a>>, b) = <<a, b>>
<1> DEFINE q == Append(<<a>>, b)
<1>1. /\ <<a>> \in Seq(S) /\ Len(<<a>>) = 1 /\ <<a>>[1] = a
      /\ <<a, b>> \in Seq(S) /\ Len(<<a, b>>) = 2 /\ <<a, b>>[1] = a /\ <<a, b>>[2] = b
  OBVIOUS
<1>2. /\ q \in Seq(S) /\ Len(q) = Len(<<a>>) + 1 /\ q[Len(<<a>>) + 1] = b
      /\ \A i \in 1 .. Len(<<a>>) : q[i] = <<a>>[i]
  BY <1>1, AppendProperties
<1> HIDE DEF q
<1>3. Len(q) = 2 /\ q[1] = a /\ q[2] = b
  BY <1>1, <1>2
<1>4. \A i \in 1 .. Len(q) : i = 1 \/ i = 2
  BY <1>3
<1>5. q = <<a, b>>
  BY <1>1, <1>2, <1>3, <1>4, SeqEqual
<1> QED
  BY <1>5 DEF q

LEMMA CountType ==
  ASSUME TypeOK, NEW p \in Parties, NEW s \in Sides
  PROVE  CountOf(p, s) \in Nat
BY InstanceType DEF CountOf

LEMMA Values ==
  ASSUME session' = session, NEW p \in Parties, NEW s \in Sides,
         Instance(p, s)' = Instance(p, s)
  PROVE  SessionOf(p, s)' = SessionOf(p, s) /\ CountOf(p, s)' = CountOf(p, s)
BY DEF SessionOf, CountOf

LEMMA Bystander ==
  ASSUME TypeOK, NEW p \in Parties, NEW q \in Parties, q = Peer(p), PartyInv(p), Step(p)
  PROVE  /\ session' = session
         /\ status'[q] = status[q] /\ io'[q] = io[q] /\ pc'[q] = pc[q]
         /\ phase'[q] = phase[q] /\ round'[q] = round[q]
         /\ \A s \in Sides : /\ Instance(q, s)' = Instance(q, s)
                             /\ SessionOf(q, s)' = SessionOf(q, s)
                             /\ CountOf(q, s)' = CountOf(q, s)
         /\ Call(q)' = Call(q) /\ Position(q)' = Position(q) /\ Second(q)' = Second(q)
         /\ Running(q)' = Running(q) /\ Dead(q)' = Dead(q)
<1>1. /\ session' = session
      /\ status'[q] = status[q] /\ io'[q] = io[q] /\ pc'[q] = pc[q]
      /\ phase'[q] = phase[q] /\ round'[q] = round[q]
      /\ \A s \in Sides : Instance(q, s)' = Instance(q, s)
  BY OthersStep
<1>2. \A s \in Sides : SessionOf(q, s)' = SessionOf(q, s) /\ CountOf(q, s)' = CountOf(q, s)
  BY <1>1, Values
<1>3. /\ Call(q)' = Call(q) /\ Position(q)' = Position(q) /\ Second(q)' = Second(q)
      /\ Running(q)' = Running(q) /\ Dead(q)' = Dead(q)
  BY <1>1 DEF Call, Position, BlockOf, Second, First, Running, Dead
<1> QED
  BY <1>1, <1>2, <1>3

(* A constructor that finds its instance sends nothing. *)
LEMMA ReusePair ==
  ASSUME TypeOK, PartiesInv, NEW p \in Parties, NEW q \in Parties, q = Peer(p), Reuse(p),
         Pair(p, q)
  PROVE  Pair(p, q)'
<1>1. PartyInv(p) /\ PartyInv(q) /\ p # q /\ p = Peer(q)
  BY TwoParties DEF PartiesInv
<1>2. /\ session' = session
      /\ status'[q] = status[q] /\ io'[q] = io[q] /\ pc'[q] = pc[q]
      /\ phase'[q] = phase[q] /\ round'[q] = round[q]
      /\ \A s \in Sides : /\ Instance(q, s)' = Instance(q, s)
                          /\ SessionOf(q, s)' = SessionOf(q, s)
                          /\ CountOf(q, s)' = CountOf(q, s)
      /\ Call(q)' = Call(q) /\ Position(q)' = Position(q) /\ Second(q)' = Second(q)
      /\ Running(q)' = Running(q) /\ Dead(q)' = Dead(q)
  BY <1>1, Bystander DEF Step
<1>3. /\ Running(p) /\ phase[p] = "enter" /\ Call(p).call = "make" /\ Current(p) # None
      /\ Return(p) /\ UNCHANGED <<build, storage, inbox, meeting>>
  BY DEF Reuse
<1>4. /\ pc[p] \in 1 .. 26 /\ pc[p] \in Makes /\ pc[p] # 26 /\ pc[p] # 2 /\ pc[p] # 4
      /\ Call(p).side = (IF pc[p] \in OfFirst THEN First(p) ELSE Second(p))
  BY <1>1, <1>3, CallIs DEF PartyInv, Course, Makes
<1>5. /\ pc'[p] = pc[p] + 1 /\ round'[p] = round[p] /\ status' = status /\ io' = io
      /\ phase'[p] = "enter" /\ inbox' = inbox
      /\ Position(p)' = Position(p) + (IF pc[p] = 3 THEN 1 ELSE 0)
  <2>1. pc[p] < 26
    BY <1>4
  <2> QED
    BY <1>1, <1>3, <2>1, Returns, Moves DEF PartyInv
<1>6. /\ ~Dead(p) /\ ~Dead(p)' /\ Running(p)' /\ First(p)' = First(p) /\ Second(p)' = Second(p)
  BY <1>3, <1>5 DEF Dead, Running, First, Second
<1>7. \A s \in Sides : /\ Instance(p, s)' = Instance(p, s)
                       /\ SessionOf(p, s)' = SessionOf(p, s)
                       /\ CountOf(p, s)' = CountOf(p, s)
  <2>1. \A s \in Sides : Instance(p, s)' = Instance(p, s)
    BY <1>3, InstanceKept
  <2> QED
    BY <1>2, <2>1, Values
<1>8. ASSUME pc[p] = 3, round[p] = 1
      PROVE  /\ Instance(p, Second(p)) # None /\ Instance(p, Second(p)).session # session
             /\ \A s \in Sides : Instance(p, s) # None /\ Instance(p, s).session # session
  <2>1. Instance(p, Second(p)) # None
    BY <1>3, <1>4, <1>8 DEF Current, OfFirst
  <2>2. ~Past(p, Second(p))
    BY <1>3, <1>8, TwoSides DEF Past, MakeAt
  <2>3. Instance(p, Second(p)).session # session
    BY <1>1, <2>1, <2>2, TwoSides DEF PartyInv, NotBefore
  <2> QED
    BY <1>1, <2>1, <2>3, BothOld
<1>9. SEND \in Sides /\ RECV \in Sides /\ Second(p) \in Sides /\ Second(q) \in Sides
  BY TwoSides
<1>10. SameCount(p, q)' /\ SameCount(q, p)'
  <2>1. /\ Unanswered(p)' = Unanswered(p)
        /\ Unanswered(q)' = Unanswered(q)
    BY <1>2, <1>3, <1>5 DEF Unanswered
  <2> QED
    BY <1>2, <1>6, <1>7, <1>9, <2>1 DEF Pair, SameCount
<1>11. ASSUME NEW m
       PROVE  /\ Asks(q, p, m) => Asks(q, p, m)'
              /\ Answers(p, q, m) => Answers(p, q, m)'
  BY <1>2, <1>3, <1>5, <1>6, <1>7, <1>9, AsksKept, AnswersKept
(* q has not begun, or is talking, at the constructor that p passes.       *)
<1>12. ASSUME pc[p] = 3, pc[q] = 3, round[p] = round[q],
              ~(phase[q] = "enter" /\ (~Dead(q) => Instance(q, Second(q)) # None))
       PROVE  /\ round[p] = 1
              /\ ~Dead(q) => SessionOf(q, Second(q)) = session
  BY <1>1, <1>12, AtTheThird DEF SessionOf
<1>13. ASSUME Level(p, q)
       PROVE  \/ Level(p, q)'
              \/ /\ pc[p] = 3 /\ pc[q] = 3 /\ round[p] = 1 /\ round[q] = 1
                 /\ ~Dead(q) => SessionOf(q, Second(q)) = session
  <2>1. CASE pc[p] # 3
    <3>1. ~Skips(p, q) /\ ~Skips(q, p)
      BY <1>4, <2>1 DEF Skips
    <3> QED
      BY <1>2, <1>4, <1>5, <1>13, <2>1, <3>1, PositionType DEF Level
  <2>2. CASE pc[p] = 3 /\ Skips(p, q)
    <3>1. Position(q) = Position(p) + 1
      BY <2>2, AtThree DEF Skips
    <3> QED
      BY <1>2, <1>5, <2>2, <3>1 DEF Level
  <2>3. CASE pc[p] = 3 /\ Position(p) = Position(q)
    <3>1. pc[q] = 3 /\ round[p] = round[q]
      BY <2>3, AtThree
    <3>2. CASE phase[q] = "enter" /\ (~Dead(q) => Instance(q, Second(q)) # None)
      <4>1. Skips(q, p)'
        BY <1>2, <1>5, <1>9, <2>3, <3>1, <3>2 DEF Skips
      <4> QED
        BY <4>1 DEF Level
    <3>3. CASE ~(phase[q] = "enter" /\ (~Dead(q) => Instance(q, Second(q)) # None))
      BY <1>12, <2>3, <3>1, <3>3
    <3> QED
      BY <3>2, <3>3
  <2>4. ~Skips(q, p)
    BY <1>4 DEF Skips
  <2> QED
    BY <1>13, <2>1, <2>2, <2>3, <2>4 DEF Level
<1>14. CASE Quiet(p, q)
  <2>1. /\ phase[q] # "reply" /\ inbox[p] = <<>> /\ inbox[q] = <<>> /\ Level(p, q)
    BY <1>14 DEF Quiet
  <2>2. CASE Level(p, q)'
    BY <1>2, <1>5, <2>1, <2>2, <1>10 DEF Quiet, Stand, Pair
  <2>3. CASE /\ pc[p] = 3 /\ pc[q] = 3 /\ round[p] = 1 /\ round[q] = 1
             /\ ~Dead(q) => SessionOf(q, Second(q)) = session
    <3>1. Apart(q, p)'
      BY <1>2, <1>5, <1>6, <1>7, <1>8, <1>9, <2>1, <2>3 DEF Apart
    <3> QED
      BY <1>10, <3>1 DEF Stand, Pair
  <2> QED
    BY <1>13, <2>1, <2>2, <2>3
<1>15. CASE Asked(q, p)
  <2>1. /\ phase[q] = "reply" /\ inbox[q] = <<>> /\ Level(q, p)
    BY <1>15 DEF Asked
  <2>2. PICK m \in Tags : inbox[p] = <<m>> /\ Asks(q, p, m)
    BY <1>15 DEF Asked
  <2>3. Level(p, q)
    BY <2>1 DEF Level
  <2>4. CASE Level(p, q)'
    <3>1. Level(q, p)'
      BY <2>4 DEF Level
    <3>2. Asked(q, p)'
      BY <1>2, <1>5, <1>11, <2>1, <2>2, <3>1 DEF Asked
    <3> QED
      BY <1>10, <3>2 DEF Stand, Pair
  <2>5. CASE /\ pc[p] = 3 /\ pc[q] = 3 /\ round[p] = 1 /\ round[q] = 1
             /\ ~Dead(q) => SessionOf(q, Second(q)) = session
    <3>1. m.session = session
      BY <1>1, <2>2, <2>5, AtTheThird DEF Asks
    <3>2. Apart(q, p)'
      BY <1>2, <1>5, <1>6, <1>7, <1>8, <1>9, <2>1, <2>2, <2>5, <3>1 DEF Apart
    <3> QED
      BY <1>10, <3>2 DEF Stand, Pair
  <2> QED
    BY <1>13, <2>3, <2>4, <2>5
<1>16. CASE Replied(q, p)
  <2>1. /\ phase[q] = "reply" /\ inbox[p] = <<>> /\ Behind(q, p)
    BY <1>16 DEF Replied
  <2>2. PICK m \in Tags : inbox[q] = <<m>> /\ Answers(p, q, m)
    BY <1>16 DEF Replied
  <2>3. Position(p) = Position(q) + 1 /\ (Call(q).call = "use" \/ pc[q] = 3)
    BY <1>4, <2>1 DEF Behind, NextTo, Passed
  <2>4. NextTo(q, p)'
    <3>1. CASE pc[p] # 3
      BY <1>2, <1>5, <2>3, <3>1, PositionType DEF NextTo
    <3>2. CASE pc[p] = 3
      <4>1. pc[q] <= 26
        BY <1>1, <2>1 DEF PartyInv, Phases
      <4>2. pc[q] \in {1, 2} /\ round[q] = round[p]
        BY <2>3, <3>2, <4>1, AtThree
      <4>3. pc[q] = 2
        BY <1>1, <2>3, <4>1, <4>2, CallIs DEF Makes
      <4>4. Passed(q, p)'
        BY <1>2, <1>5, <1>6, <1>7, <1>8, <1>9, <3>2, <4>2, <4>3 DEF Passed
      <4> QED
        BY <4>4 DEF NextTo
    <3> QED
      BY <3>1, <3>2
  <2>5. Replied(q, p)'
    BY <1>2, <1>5, <1>11, <2>1, <2>2, <2>4 DEF Replied, Behind
  <2> QED
    BY <1>10, <2>5 DEF Stand, Pair
<1>17. ~Asked(p, q) /\ ~Replied(p, q) /\ ~AskedBack(p, q) /\ ~AskedBack(q, p)
  BY <1>3 DEF Asked, Replied, AskedBack
<1>18. ~Apart(p, q)
  BY <1>6, <1>8 DEF Apart, SessionOf
<1>19. ~Apart(q, p)
  BY <1>4 DEF Apart
<1> QED
  BY <1>14, <1>15, <1>16, <1>17, <1>18, <1>19, QuietEither DEF Pair, Stand

(* A new instance counts as one that was not there. *)
LEMMA CreatePair ==
  ASSUME TypeOK, PartiesInv, NEW p \in Parties, NEW q \in Parties, q = Peer(p), Create(p),
         Pair(p, q)
  PROVE  Pair(p, q)'
<1>1. PartyInv(p) /\ PartyInv(q) /\ p # q /\ p = Peer(q)
  BY TwoParties DEF PartiesInv
<1>2. /\ session' = session
      /\ status'[q] = status[q] /\ io'[q] = io[q] /\ pc'[q] = pc[q]
      /\ phase'[q] = phase[q] /\ round'[q] = round[q]
      /\ \A s \in Sides : /\ Instance(q, s)' = Instance(q, s)
                          /\ SessionOf(q, s)' = SessionOf(q, s)
                          /\ CountOf(q, s)' = CountOf(q, s)
      /\ Call(q)' = Call(q) /\ Position(q)' = Position(q) /\ Second(q)' = Second(q)
      /\ Running(q)' = Running(q) /\ Dead(q)' = Dead(q)
  BY <1>1, Bystander DEF Step
<1>3. /\ Running(p) /\ phase[p] = "enter" /\ Call(p).call = "make" /\ Current(p) = None
      /\ UNCHANGED <<build, status, io, pc, round, inbox, meeting>>
      /\ phase' = [phase EXCEPT ![p] = "talk"]
  BY DEF Create
<1>4. /\ pc[p] \in 1 .. 26 /\ pc[p] \in Makes /\ pc[p] # 4 /\ pc[p] # 2
      /\ Call(p).side = (IF pc[p] \in OfFirst THEN First(p) ELSE Second(p))
      /\ Call(p).side \in Sides
  BY <1>1, <1>3, CallIs DEF PartyInv, Course, Makes
<1>5. /\ phase'[p] = "talk" /\ pc'[p] = pc[p] /\ round'[p] = round[p] /\ Call(p)' = Call(p)
      /\ Position(p)' = Position(p) /\ Second(p)' = Second(p)
      /\ ~Dead(p) /\ ~Dead(p)' /\ Running(p)'
  BY <1>3 DEF TypeOK, Call, Position, BlockOf, Second, First, Dead, Running
<1>6. \A s \in Sides : /\ SessionOf(p, s)' = SessionOf(p, s)
                       /\ CountOf(p, s)' = CountOf(p, s)
                       /\ Instance(p, s) # None => Instance(p, s)' = Instance(p, s)
  <2>1. ASSUME NEW side \in Sides, side = Call(p).side
        PROVE  \A s \in Sides : /\ SessionOf(p, s)' = SessionOf(p, s)
                                /\ CountOf(p, s)' = CountOf(p, s)
                                /\ Instance(p, s) # None => Instance(p, s)' = Instance(p, s)
    <3> DEFINE new == [io |-> io[p], session |-> session, count |-> 0]
    <3>1. new \in OT /\ new # None /\ new.session = session /\ new.count = 0
      BY <1>3, NoneIsNone DEF OT, TypeOK
    <3>2. SetInstance(p, side, new)
      BY <2>1 DEF Create
    <3> HIDE DEF new
    <3>3. /\ Instance(p, side)' = new
          /\ \A s \in Sides : s # side => Instance(p, s)' = Instance(p, s)
      BY <1>3, <3>1, <3>2, InstanceSet
    <3>4. Instance(p, side) = None
      BY <1>3, <2>1 DEF Current
    <3> QED
      BY <1>2, <3>1, <3>3, <3>4 DEF SessionOf, CountOf
  <2> QED
    BY <1>4, <2>1
<1>7. SEND \in Sides /\ RECV \in Sides /\ Second(p) \in Sides /\ Second(q) \in Sides
  BY TwoSides
<1>8. inbox' = inbox
  BY <1>3
<1>9. SameCount(p, q)' /\ SameCount(q, p)'
  <2>1. Unanswered(p)' = Unanswered(p) /\ Unanswered(q)' = Unanswered(q)
    BY <1>2, <1>3, <1>5, <1>8 DEF Unanswered
  <2> QED
    BY <1>2, <1>5, <1>6, <1>7, <2>1 DEF Pair, SameCount
<1>10. ASSUME NEW m
       PROVE  /\ Asks(q, p, m) => Asks(q, p, m)'
              /\ Answers(p, q, m) => Answers(p, q, m)'
  BY <1>2, <1>3, <1>5, <1>6, <1>7, AsksKept, AnswersKept
<1>11. ASSUME Level(p, q)
       PROVE  Level(p, q)'
  <2>1. ~Skips(q, p)
    BY <1>4 DEF Skips
  <2>2. ~Skips(p, q)
    BY <1>3, <1>4, <1>5 DEF Skips, Current, OfFirst
  <2> QED
    BY <1>2, <1>5, <1>11, <2>1, <2>2 DEF Level
<1>12. CASE Quiet(p, q)
  BY <1>2, <1>5, <1>8, <1>9, <1>11, <1>12 DEF Quiet, Stand, Pair
<1>13. CASE Asked(q, p)
  <2>1. Level(q, p)'
    BY <1>11, <1>13 DEF Asked, Level
  <2>2. Asked(q, p)'
    BY <1>2, <1>5, <1>8, <1>10, <1>13, <2>1 DEF Asked
  <2> QED
    BY <1>9, <2>2 DEF Stand, Pair
<1>14. CASE Replied(q, p)
  <2>1. Position(p) = Position(q) + 1 /\ (Call(q).call = "use" \/ pc[q] = 3)
    BY <1>4, <1>14 DEF Replied, Behind, NextTo, Passed
  <2>2. Behind(q, p)'
    BY <1>2, <1>5, <2>1 DEF Behind, NextTo
  <2>3. Replied(q, p)'
    BY <1>2, <1>5, <1>8, <1>10, <1>14, <2>2 DEF Replied
  <2> QED
    BY <1>9, <2>3 DEF Stand, Pair
<1>15. CASE Apart(p, q)
  <2>1. Apart(p, q)'
    BY <1>2, <1>3, <1>5, <1>6, <1>7, <1>8, <1>15 DEF Apart
  <2> QED
    BY <1>9, <2>1 DEF Stand, Pair
<1>16. /\ ~Asked(p, q) /\ ~Replied(p, q) /\ ~AskedBack(p, q) /\ ~AskedBack(q, p)
       /\ ~Apart(q, p)
  BY <1>3, <1>4 DEF Asked, Replied, AskedBack, Apart
<1> QED
  BY <1>12, <1>13, <1>14, <1>15, <1>16, QuietEither DEF Pair, Stand

(* A question. *)
LEMMA AskPair ==
  ASSUME TypeOK, PartiesInv, NEW p \in Parties, NEW q \in Parties, q = Peer(p), Ask(p),
         Pair(p, q)
  PROVE  Pair(p, q)'
<1>1. PartyInv(p) /\ PartyInv(q) /\ p # q /\ p = Peer(q)
  BY TwoParties DEF PartiesInv
<1>2. /\ session' = session
      /\ status'[q] = status[q] /\ io'[q] = io[q] /\ pc'[q] = pc[q]
      /\ phase'[q] = phase[q] /\ round'[q] = round[q]
      /\ \A s \in Sides : /\ Instance(q, s)' = Instance(q, s)
                          /\ SessionOf(q, s)' = SessionOf(q, s)
                          /\ CountOf(q, s)' = CountOf(q, s)
      /\ Call(q)' = Call(q) /\ Position(q)' = Position(q) /\ Second(q)' = Second(q)
      /\ Running(q)' = Running(q) /\ Dead(q)' = Dead(q)
  BY <1>1, Bystander DEF Step
<1>3. /\ Running(p) /\ Talks(p) /\ Call(p).side = RECV /\ Advanced(p)
      /\ UNCHANGED <<build, status, io, pc, round, meeting>>
      /\ phase' = [phase EXCEPT ![p] = "reply"]
      /\ inbox' = [inbox EXCEPT ![q] = Append(@, Tag(p))]
  BY DEF Ask, Talks
<1>4. /\ pc[p] \in 1 .. 26 /\ pc[p] <= 26 /\ phase[p] \in {"enter", "talk"}
      /\ Call(p).side = (IF pc[p] \in OfFirst THEN First(p) ELSE Second(p))
      /\ Call(p).call = (IF pc[p] \in Makes THEN "make" ELSE "use")
      /\ Call(p).call \in {"make", "use"}
      /\ phase[p] = "talk" <=> Call(p).call = "make"
  BY <1>1, <1>3, CallIs, Talking DEF PartyInv, Course, Talks
<1>5. /\ phase'[p] = "reply" /\ pc'[p] = pc[p] /\ round'[p] = round[p] /\ Call(p)' = Call(p)
      /\ Position(p)' = Position(p) /\ Second(p)' = Second(p)
      /\ ~Dead(p) /\ ~Dead(p)' /\ Running(p)' /\ io'[p] = io[p]
      /\ inbox'[p] = inbox[p] /\ inbox'[q] = Append(inbox[q], Tag(p))
  BY <1>1, <1>3 DEF TypeOK, Call, Position, BlockOf, Second, First, Dead, Running
<1>6. SEND \in Sides /\ RECV \in Sides /\ Second(p) \in Sides /\ Second(q) \in Sides
      /\ SEND # RECV /\ Sides = {SEND, RECV}
  BY TwoSides
<1>7. /\ Instance(p, RECV) # None /\ Instance(p, RECV).io = io[p]
      /\ Instance(p, RECV) = Current(p)
      /\ Instance(p, RECV)' # None
      /\ Instance(p, RECV)'.io = Instance(p, RECV).io
      /\ Instance(p, RECV)'.session = Instance(p, RECV).session
      /\ Instance(p, RECV)'.count = Instance(p, RECV).count + 1
      /\ Instance(p, SEND)' = Instance(p, SEND)
  BY <1>1, <1>3, <1>6, Advances
<1>8. /\ Tag(p) \in Tags /\ Tag(p).call = Call(p).call
      /\ Tag(p).session = Instance(p, RECV).session /\ Tag(p).count = Instance(p, RECV).count
      /\ Tag(p).count = CountOf(p, RECV) /\ Tag(p).session = SessionOf(p, RECV)
  BY <1>1, <1>3, <1>7, Talking DEF Tag, CountOf, SessionOf
<1>9. /\ SessionOf(p, SEND)' = SessionOf(p, SEND) /\ CountOf(p, SEND)' = CountOf(p, SEND)
      /\ SessionOf(p, RECV)' = SessionOf(p, RECV) /\ CountOf(p, RECV)' = CountOf(p, RECV) + 1
      /\ \A s \in Sides : SessionOf(p, s)' = SessionOf(p, s)
  BY <1>2, <1>6, <1>7 DEF SessionOf, CountOf
(* A setup is of this connection, and what is counted 0 is a setup.        *)
<1>10. /\ Call(p).call = "make" => Tag(p).session = session
       /\ Tag(p).session = session => (Tag(p).call = "make" <=> Tag(p).count = 0)
  <2>1. Call(p).call = "make" => Instance(p, RECV).session = session
    BY <1>1, <1>3, <1>4, <1>5 DEF PartyInv, Phases
  <2>2. Instance(p, RECV).session = session =>
          (Instance(p, RECV).count = 0 <=> phase[p] = "talk")
    BY <1>1, <1>3, <1>6, <1>7 DEF PartyInv, Counts
  <2> QED
    BY <1>4, <1>8, <2>1, <2>2
<1>11. ASSUME ~Unanswered(p)
       PROVE  Asks(p, q, Tag(p))
  <2>1. ~Dead(q) /\ Tag(p).session = session /\ SessionOf(q, SEND) = session =>
          Tag(p).count = CountOf(q, SEND)
    <3>1. CountOf(q, SEND) \in Nat
      BY <1>6, CountType
    <3> QED
      BY <1>5, <1>8, <1>11, <3>1 DEF Pair, SameCount
  <2> QED
    BY <1>7, <1>8, <1>10, <2>1 DEF Asks
<1>12. ~Unanswered(p)
  BY <1>4 DEF Unanswered
<1>13. ASSUME NEW m \in Tags, m = Tag(p)
       PROVE  Asks(p, q, m)'
  <2>1. Asks(p, q, m)
    BY <1>11, <1>12, <1>13
  <2> QED
    BY <1>2, <1>5, <1>6, <1>7, <1>8, <1>13, <2>1 DEF Asks
<1>14. ASSUME NEW m, Answers(p, q, m)
       PROVE  Answers(p, q, m)'
  BY <1>2, <1>3, <1>5, <1>6, <1>7, <1>14, AnswersKept
<1>15. ASSUME inbox[p] = <<>>, ~Unanswered(q)
       PROVE  SameCount(p, q)' /\ SameCount(q, p)'
  <2>1. Unanswered(p)'
    BY <1>5, <1>15 DEF Unanswered
  <2>2. ~Unanswered(q)'
    <3>1. inbox[q] \in Seq(Tags)
      BY DEF TypeOK
    <3>2. inbox'[q] # <<>>
      BY <1>5, <1>8, <3>1
    <3> QED
      BY <3>2 DEF Unanswered
  <2>3. SameCount(p, q)'
    BY <1>2, <1>5, <1>6, <1>9, <1>15, <2>2 DEF Pair, SameCount
  <2>4. CountOf(q, SEND) \in Nat
    BY <1>6, CountType
  <2>5. ~Dead(q) /\ SessionOf(q, SEND) = session /\ SessionOf(p, RECV) = session =>
          CountOf(p, RECV) = CountOf(q, SEND)
    BY <1>5, <1>12, <2>4 DEF Pair, SameCount
  <2>6. SameCount(q, p)'
    BY <1>2, <1>5, <1>6, <1>9, <2>1, <2>4, <2>5 DEF SameCount
  <2> QED
    BY <2>3, <2>6
<1>16. CASE Quiet(p, q)
  <2>1. /\ phase[q] # "reply" /\ inbox[p] = <<>> /\ inbox[q] = <<>> /\ Level(p, q)
    BY <1>16 DEF Quiet
  <2>2. Level(p, q)'
    <3>1. ~Skips(p, q)
      BY <1>4 DEF Skips, Makes
    <3>2. Skips(q, p) => Skips(q, p)'
      BY <1>2, <1>5, <1>6 DEF Skips
    <3> QED
      BY <1>2, <1>5, <2>1, <3>1, <3>2 DEF Level
  <2>3. inbox'[q] = <<Tag(p)>>
    BY <1>5, <1>8, <2>1
  <2>4. Asked(p, q)'
    BY <1>2, <1>5, <1>8, <1>13, <2>1, <2>2, <2>3 DEF Asked
  <2> QED
    BY <1>15, <2>1, <2>4 DEF Unanswered, Stand, Pair
<1>17. CASE Asked(q, p)
  <2>1. phase[q] = "reply" /\ Level(q, p)
    BY <1>17 DEF Asked
  <2>2. Position(q) = Position(p)
    BY <1>4, <2>1 DEF Level, Skips, Makes
  <2>3. pc[q] <= 26 /\ Call(q).side = RECV
    BY <1>1, <2>1 DEF PartyInv, Phases
  <2> QED
    BY <1>1, <1>3, <1>4, <2>2, <2>3, Mirror
<1>18. CASE Replied(q, p)
  <2>1. /\ phase[q] = "reply" /\ inbox[p] = <<>> /\ Behind(q, p)
    BY <1>18 DEF Replied
  <2>2. PICK m \in Tags : inbox[q] = <<m>> /\ Answers(p, q, m)
    BY <1>18 DEF Replied
  <2>3. NextTo(q, p)
    <3>1. CASE pc[q] = 1 /\ pc[p] = 2 /\ round[q] = round[p]
      <4>1. Position(q) = Position(p)
        BY <3>1, AtThree
      <4>2. pc[q] <= 26 /\ Call(q).side = RECV
        BY <1>1, <2>1 DEF PartyInv, Phases
      <4> QED
        BY <1>1, <1>3, <1>4, <4>1, <4>2, Mirror
    <3> QED
      BY <2>1, <3>1 DEF Behind
  <2>4. NextTo(q, p)'
    <3>1. Passed(q, p) => Passed(q, p)'
      <4>1. First(p) = SEND \/ Second(p) = SEND
        BY <1>6, TwoSides
      <4> QED
        BY <1>2, <1>5, <1>6, <1>7 DEF Passed
    <3> QED
      BY <1>2, <1>5, <2>3, <3>1 DEF NextTo
  <2>5. inbox'[q] = <<m, Tag(p)>>
    <3>1. Append(<<m>>, Tag(p)) = <<m, Tag(p)>>
      BY <1>8, <2>2, AppendSecond
    <3> QED
      BY <1>5, <2>2, <3>1, Zenon
  <2>6. pc[q] = 2 /\ pc[p] = 4 /\ round[p] = 1 => Tag(p).session # session
    <3>1. CASE pc[q] = 2 /\ pc[p] = 4 /\ round[p] = 1
      <4>1. Passed(q, p)
        BY <2>3, <3>1, AtThree DEF NextTo
      <4>2. Instance(p, Second(p)).session # session
        BY <1>5, <3>1, <4>1 DEF Passed
      <4>3. Past(p, Second(p))
        BY <3>1, TwoSides DEF Past, MakeAt
      <4>4. Instance(p, Second(p)) # None
        BY <1>1, <1>5, <1>6, <4>3 DEF PartyInv, Made
      <4>5. Instance(p, RECV).session # session
        BY <1>1, <1>6, <4>2, <4>4, BothOld
      <4> QED
        BY <1>8, <4>5
    <3> QED
      BY <3>1
  <2>7. PICK n \in Tags : n = Tag(p)
    BY <1>8
  <2>8. Answers(p, q, m)' /\ Asks(p, q, n)'
    BY <1>13, <1>14, <2>2, <2>7
  <2>9. AskedBack(q, p)'
    <3>1. phase'[q] = "reply" /\ phase'[p] = "reply" /\ inbox'[p] = <<>>
      BY <1>2, <1>5, <2>1
    <3>2. inbox'[q] = <<m, n>>
      BY <2>5, <2>7, Zenon
    <3>3. pc'[q] = 2 /\ pc'[p] = 4 /\ round'[p] = 1 => n.session # session'
      BY <1>2, <1>5, <2>6, <2>7
    <3> QED
      BY <2>2, <2>4, <2>7, <2>8, <3>1, <3>2, <3>3 DEF AskedBack
  <2>10. ~Unanswered(q)
    BY <2>2 DEF Unanswered
  <2> QED
    BY <1>15, <2>1, <2>9, <2>10 DEF Stand, Pair
<1>19. CASE Apart(p, q)
  <2>1. /\ phase[p] = "talk" /\ Call(p).side = Second(p) /\ inbox[q] = <<>>
        /\ SessionOf(p, Second(p)) = session
    BY <1>1, <1>4, <1>5, <1>19, AtTheThird DEF Apart
  <2>2. inbox'[q] = <<Tag(p)>> /\ Tag(p).session = session
    BY <1>3, <1>5, <1>8, <2>1
  <2>3. Apart(p, q)'
    BY <1>2, <1>5, <1>6, <1>8, <1>9, <1>19, <2>1, <2>2 DEF Apart
  <2> QED
    BY <2>3, ApartCounts DEF Stand, Pair
<1>20. CASE Apart(q, p)
  <2>1. inbox[q] = <<>>
    BY <1>4, <1>20 DEF Apart
  <2>2. \A s \in Sides : /\ Instance(p, s)' # None
                         /\ Instance(p, s)'.session # session
    BY <1>5, <1>6, <1>7, <1>20 DEF Apart
  <2>3. inbox'[q] = <<Tag(p)>> /\ Tag(p).session # session
    <3>1. inbox'[q] = <<Tag(p)>>
      BY <1>5, <1>8, <2>1
    <3>2. Instance(p, RECV).session # session
      BY <1>5, <1>6, <1>20 DEF Apart
    <3> QED
      BY <1>8, <3>1, <3>2
  <2>4. \/ inbox'[p] = <<>>
        \/ phase'[q] = "reply" /\ \E m \in Tags : inbox'[p] = <<m>> /\ m.session = session
    BY <1>2, <1>5, <1>20 DEF Apart
  <2>5. Apart(q, p)'
    BY <1>2, <1>5, <1>6, <1>8, <1>20, <2>2, <2>3, <2>4 DEF Apart
  <2> QED
    BY <1>1, <2>5, ApartCounts DEF Stand, Pair
<1>21. ~Asked(p, q) /\ ~Replied(p, q) /\ ~AskedBack(p, q) /\ ~AskedBack(q, p)
  BY <1>4 DEF Asked, Replied, AskedBack
<1> QED
  BY <1>16, <1>17, <1>18, <1>19, <1>20, <1>21, QuietEither DEF Pair, Stand

(* An answer. *)
LEMMA AnswerPair ==
  ASSUME TypeOK, PartiesInv, NEW p \in Parties, NEW q \in Parties, q = Peer(p), Answer(p),
         Pair(p, q)
  PROVE  Pair(p, q)'
<1>1. PartyInv(p) /\ PartyInv(q) /\ p # q /\ p = Peer(q)
  BY TwoParties DEF PartiesInv
<1>2. /\ session' = session
      /\ status'[q] = status[q] /\ io'[q] = io[q] /\ pc'[q] = pc[q]
      /\ phase'[q] = phase[q] /\ round'[q] = round[q]
      /\ \A s \in Sides : /\ Instance(q, s)' = Instance(q, s)
                          /\ SessionOf(q, s)' = SessionOf(q, s)
                          /\ CountOf(q, s)' = CountOf(q, s)
      /\ Call(q)' = Call(q) /\ Position(q)' = Position(q) /\ Second(q)' = Second(q)
      /\ Running(q)' = Running(q) /\ Dead(q)' = Dead(q)
  BY <1>1, Bystander DEF Step
<1>3. /\ Running(p) /\ Talks(p) /\ Call(p).side = SEND /\ Advanced(p) /\ Return(p)
      /\ UNCHANGED <<build, meeting>>
      /\ inbox[p] # <<>> /\ Head(inbox[p]) = Tag(p)
      /\ inbox' = [inbox EXCEPT ![p] = Tail(@), ![q] = Append(@, NextTag(p))]
  BY DEF Answer, Talks, Understands
<1>4. /\ pc[p] \in 1 .. 26 /\ pc[p] <= 26 /\ phase[p] \in {"enter", "talk"}
      /\ Call(p).side = (IF pc[p] \in OfFirst THEN First(p) ELSE Second(p))
      /\ Call(p).call = (IF pc[p] \in Makes THEN "make" ELSE "use")
      /\ Call(p).call \in {"make", "use"}
      /\ phase[p] = "talk" <=> Call(p).call = "make"
  BY <1>1, <1>3, CallIs, Talking DEF PartyInv, Course, Talks
<1>5. /\ phase'[p] = "enter" /\ First(p)' = First(p) /\ Second(p)' = Second(p)
      /\ ~Dead(p) /\ ~Dead(p)' /\ (Running(p)' => io'[p] = io[p])
      /\ inbox'[p] = Tail(inbox[p]) /\ inbox'[q] = Append(inbox[q], NextTag(p))
      /\ Position(p)' = Position(p) + (IF Call(p).call = "make" /\ pc[p] # 3 THEN 0 ELSE 1)
  <2>1. /\ phase'[p] = "enter"
        /\ (status'[p] = status[p] /\ io'[p] = io[p]) \/ status'[p] = "done"
    BY <1>1, <1>3, Returns DEF PartyInv
  <2>2. inbox'[p] = Tail(inbox[p]) /\ inbox'[q] = Append(inbox[q], NextTag(p))
    BY <1>1, <1>3 DEF TypeOK
  <2>3. Position(p)' = Position(p) + (IF Call(p).call = "make" /\ pc[p] # 3 THEN 0 ELSE 1)
    BY <1>1, <1>3, Moves
  <2> QED
    BY <1>3, <2>1, <2>2, <2>3 DEF First, Second, Dead, Running
<1>6. SEND \in Sides /\ RECV \in Sides /\ Second(p) \in Sides /\ Second(q) \in Sides
      /\ SEND # RECV /\ Sides = {SEND, RECV}
  BY TwoSides
<1>7. /\ Instance(p, SEND) # None /\ Instance(p, SEND).io = io[p]
      /\ Instance(p, SEND) = Current(p)
      /\ Instance(p, SEND)' # None
      /\ Instance(p, SEND)'.io = Instance(p, SEND).io
      /\ Instance(p, SEND)'.session = Instance(p, SEND).session
      /\ Instance(p, SEND)'.count = Instance(p, SEND).count + 1
      /\ Instance(p, RECV)' = Instance(p, RECV)
  BY <1>1, <1>3, <1>6, Advances
<1>8. /\ Tag(p).call = Call(p).call /\ Tag(p).session = Instance(p, SEND).session
      /\ NextTag(p) \in Tags /\ NextTag(p).call = Call(p).call
      /\ NextTag(p).session = Instance(p, SEND).session
      /\ NextTag(p).count = Instance(p, SEND).count + 1
      /\ NextTag(p).count = CountOf(p, SEND) + 1 /\ NextTag(p).session = SessionOf(p, SEND)
  BY <1>1, <1>3, <1>7, Talking DEF Tag, CountOf, SessionOf
<1>9. /\ SessionOf(p, RECV)' = SessionOf(p, RECV) /\ CountOf(p, RECV)' = CountOf(p, RECV)
      /\ SessionOf(p, SEND)' = SessionOf(p, SEND) /\ CountOf(p, SEND)' = CountOf(p, SEND) + 1
  BY <1>2, <1>6, <1>7 DEF SessionOf, CountOf
<1>10. ~Apart(p, q)
  <2>1. SUFFICES ASSUME Apart(p, q)
                 PROVE  FALSE
    OBVIOUS
  <2>2. PICK m \in Tags : inbox[p] = <<m>> /\ m.session # session
    BY <1>3, <2>1 DEF Apart
  <2>3. m = Tag(p)
    BY <1>3, <2>2
  <2>4. Call(p).side = Second(p) /\ SessionOf(p, Second(p)) = session
    BY <1>1, <1>5, <2>1, AtTheThird DEF Apart
  <2> QED
    BY <1>3, <1>8, <2>2, <2>3, <2>4
<1>11. ~Apart(q, p)
  <2>1. SUFFICES ASSUME Apart(q, p)
                 PROVE  FALSE
    OBVIOUS
  <2>2. PICK m \in Tags : inbox[p] = <<m>> /\ m.session = session
    BY <1>3, <2>1 DEF Apart
  <2>3. m = Tag(p)
    BY <1>3, <2>2
  <2>4. Instance(p, SEND).session # session
    BY <1>5, <1>6, <2>1 DEF Apart
  <2> QED
    BY <1>8, <2>2, <2>3, <2>4
<1>12. /\ ~Quiet(p, q) /\ ~Asked(p, q) /\ ~Replied(p, q) /\ ~AskedBack(p, q)
       /\ ~Replied(q, p) /\ ~AskedBack(q, p)
  BY <1>3, <1>4 DEF Quiet, Asked, Replied, AskedBack
<1>13. CASE Asked(q, p)
  <2>1. /\ phase[q] = "reply" /\ inbox[q] = <<>> /\ Level(q, p)
    BY <1>13 DEF Asked
  <2>2. PICK m \in Tags : inbox[p] = <<m>> /\ Asks(q, p, m)
    BY <1>13 DEF Asked
  <2>3. m = Tag(p)
    BY <1>3, <2>2
  <2>4. Position(p) = Position(q)
    BY <1>4, <2>1 DEF Level, Skips, Makes
  <2>5. pc[q] \in 1 .. 26 /\ pc[q] <= 26 /\ Call(q).call = (IF pc[q] \in Makes THEN "make" ELSE "use")
    BY <1>1, <2>1, CallIs DEF PartyInv, Phases
  <2>6. Call(q).call = Call(p).call
    BY <1>8, <2>2, <2>3 DEF Asks
  <2>7. Behind(q, p)'
    <3>1. CASE Call(p).call = "use"
      BY <1>2, <1>5, <2>4, <2>6, <3>1 DEF Behind, NextTo
    <3>2. CASE pc[p] = 3
      <4>1. pc[q] = 3
        BY <1>1, <2>4, <3>2, AtThree
      <4> QED
        BY <1>2, <1>5, <2>4, <3>2, <4>1 DEF Behind, NextTo
    <3>3. CASE Call(p).call = "make" /\ pc[p] # 3
      <4>1. pc[p] = 1
        BY <1>1, <1>4, <3>3 DEF PartyInv, Phases
      <4>2. round[q] = round[p] /\ BlockOf[pc[q]] = 1
        BY <1>1, <1>4, <2>4, <2>5, <4>1, Mirror, Blocks
      <4>3. pc[q] = 1
        BY <2>5, <2>6, <3>3, <4>2, Blocks DEF Makes
      <4>4. pc'[p] = 2 /\ round'[p] = round[p]
        BY <1>1, <1>3, <4>1, Returns DEF PartyInv
      <4> QED
        BY <1>2, <4>2, <4>3, <4>4 DEF Behind
    <3> QED
      BY <1>4, <3>1, <3>2, <3>3
  <2>8. inbox'[p] = <<>> /\ inbox'[q] = <<NextTag(p)>>
    BY <1>5, <1>8, <2>1, <2>2
  <2>9. CountOf(p, SEND) \in Nat /\ CountOf(q, RECV) \in Nat
    BY <1>6, CountType
  <2>10. ~Dead(q) /\ SessionOf(p, SEND) = session /\ SessionOf(q, RECV) = session =>
           CountOf(q, RECV) = CountOf(p, SEND) + 1
    BY <1>5, <2>1 DEF Pair, SameCount, Unanswered
  <2>11. ASSUME NEW n \in Tags, n = NextTag(p)
         PROVE  Answers(p, q, n)'
    <3>1. n.call = Call(q)'.call
      BY <1>2, <1>8, <2>6, <2>11
    <3>2. /\ Instance(p, SEND)' # None /\ n.session = Instance(p, SEND)'.session
          /\ Running(p)' => Instance(p, SEND)'.io = io'[p]
      BY <1>5, <1>7, <1>8, <2>11
    <3>3. ~Dead(q)' /\ n.session = session' /\ SessionOf(q, RECV)' = session' =>
            n.count = CountOf(q, RECV)'
      BY <1>2, <1>6, <1>8, <2>10, <2>11
    <3> QED
      BY <3>1, <3>2, <3>3 DEF Answers
  <2>12. Replied(q, p)'
    <3>1. PICK n \in Tags : n = NextTag(p)
      BY <1>8
    <3>2. inbox'[q] = <<n>> /\ Answers(p, q, n)'
      BY <2>8, <2>11, <3>1
    <3>3. phase'[q] = "reply" /\ phase'[p] # "reply" /\ inbox'[p] = <<>>
      BY <1>2, <1>5, <2>1, <2>8
    <3> QED
      BY <2>7, <3>1, <3>2, <3>3 DEF Replied
  <2>13. SameCount(p, q)' /\ SameCount(q, p)'
    <3>1. ~Unanswered(q)' /\ ~Unanswered(p)' /\ ~Unanswered(p)
      BY <1>4, <1>5, <2>8 DEF Unanswered
    <3>2. SameCount(p, q)'
      BY <1>2, <1>6, <1>9, <2>9, <2>10, <3>1 DEF SameCount
    <3>3. SameCount(q, p)'
      BY <1>2, <1>5, <1>6, <1>9, <3>1 DEF Pair, SameCount
    <3> QED
      BY <3>2, <3>3
  <2> QED
    BY <2>12, <2>13 DEF Stand, Pair
<1> QED
  BY <1>10, <1>11, <1>12, <1>13, QuietEither DEF Pair, Stand

(* An answer is read. *)
LEMMA AnsweredPair ==
  ASSUME TypeOK, PartiesInv, NEW p \in Parties, NEW q \in Parties, q = Peer(p), Answered(p),
         Pair(p, q)
  PROVE  Pair(p, q)'
<1>1. PartyInv(p) /\ PartyInv(q) /\ p # q /\ p = Peer(q)
  BY TwoParties DEF PartiesInv
<1>2. /\ session' = session
      /\ status'[q] = status[q] /\ io'[q] = io[q] /\ pc'[q] = pc[q]
      /\ phase'[q] = phase[q] /\ round'[q] = round[q]
      /\ \A s \in Sides : /\ Instance(q, s)' = Instance(q, s)
                          /\ SessionOf(q, s)' = SessionOf(q, s)
                          /\ CountOf(q, s)' = CountOf(q, s)
      /\ Call(q)' = Call(q) /\ Position(q)' = Position(q) /\ Second(q)' = Second(q)
      /\ Running(q)' = Running(q) /\ Dead(q)' = Dead(q)
  BY <1>1, Bystander DEF Step
<1>3. /\ Running(p) /\ phase[p] = "reply" /\ Return(p)
      /\ UNCHANGED <<build, storage, meeting>>
      /\ inbox[p] # <<>> /\ Head(inbox[p]) = Tag(p)
      /\ inbox' = [inbox EXCEPT ![p] = Tail(@)]
  BY DEF Answered, Understands
<1>4. /\ pc[p] \in 1 .. 26 /\ pc[p] <= 26 /\ Call(p).side = RECV
      /\ Call(p).call = (IF pc[p] \in Makes THEN "make" ELSE "use")
      /\ Current(p) # None
  BY <1>1, <1>3, CallIs, Talking DEF PartyInv, Course, Phases
<1>5. /\ phase'[p] = "enter" /\ First(p)' = First(p) /\ Second(p)' = Second(p)
      /\ ~Dead(p) /\ ~Dead(p)' /\ (Running(p)' => io'[p] = io[p])
      /\ inbox'[p] = Tail(inbox[p]) /\ inbox'[q] = inbox[q]
      /\ Position(p)' = Position(p) + (IF Call(p).call = "make" /\ pc[p] # 3 THEN 0 ELSE 1)
      /\ pc[p] < 26 => pc'[p] = pc[p] + 1 /\ round'[p] = round[p]
  <2>1. /\ phase'[p] = "enter"
        /\ (status'[p] = status[p] /\ io'[p] = io[p]) \/ status'[p] = "done"
        /\ pc[p] < 26 => pc'[p] = pc[p] + 1 /\ round'[p] = round[p]
    BY <1>1, <1>3, <1>4, Returns DEF PartyInv
  <2>2. inbox'[p] = Tail(inbox[p]) /\ inbox'[q] = inbox[q]
    BY <1>1, <1>3 DEF TypeOK
  <2>3. Position(p)' = Position(p) + (IF Call(p).call = "make" /\ pc[p] # 3 THEN 0 ELSE 1)
    BY <1>1, <1>3, Moves
  <2> QED
    BY <1>3, <2>1, <2>2, <2>3 DEF First, Second, Dead, Running
<1>6. SEND \in Sides /\ RECV \in Sides /\ Second(p) \in Sides /\ Second(q) \in Sides
  BY TwoSides
<1>7. \A s \in Sides : /\ Instance(p, s)' = Instance(p, s)
                       /\ SessionOf(p, s)' = SessionOf(p, s)
                       /\ CountOf(p, s)' = CountOf(p, s)
  <2>1. \A s \in Sides : Instance(p, s)' = Instance(p, s)
    BY <1>3, InstanceKept
  <2> QED
    BY <1>2, <2>1, Values
<1>8. Tag(p).session = Instance(p, RECV).session /\ Tag(p).session = SessionOf(p, RECV)
  BY <1>4 DEF Tag, Current, SessionOf
<1>9. SameCount(p, q)' /\ SameCount(q, p)'
  <2>1. ~Unanswered(p)' /\ ~Unanswered(p) /\ Unanswered(q)' = Unanswered(q)
    BY <1>2, <1>3, <1>5 DEF Unanswered
  <2> QED
    BY <1>2, <1>5, <1>6, <1>7, <2>1 DEF Pair, SameCount
<1>10. ~Apart(p, q)
  <2>1. SUFFICES ASSUME Apart(p, q)
                 PROVE  FALSE
    OBVIOUS
  <2>2. PICK m \in Tags : inbox[p] = <<m>> /\ m.session # session
    BY <1>3, <2>1 DEF Apart
  <2>3. m = Tag(p)
    BY <1>3, <2>2
  <2>4. Call(p).side = Second(p) /\ SessionOf(p, Second(p)) = session
    BY <1>1, <1>5, <2>1, AtTheThird DEF Apart
  <2> QED
    BY <1>4, <1>8, <2>2, <2>3, <2>4
<1>11. ~Apart(q, p)
  <2>1. SUFFICES ASSUME Apart(q, p)
                 PROVE  FALSE
    OBVIOUS
  <2>2. PICK m \in Tags : inbox[p] = <<m>> /\ m.session = session
    BY <1>3, <2>1 DEF Apart
  <2>3. m = Tag(p)
    BY <1>3, <2>2
  <2>4. Instance(p, RECV).session # session
    BY <1>5, <1>6, <2>1 DEF Apart
  <2> QED
    BY <1>8, <2>2, <2>3, <2>4
<1>12. /\ ~Quiet(p, q) /\ ~Asked(p, q) /\ ~Asked(q, p) /\ ~Replied(q, p) /\ ~AskedBack(q, p)
  BY <1>3 DEF Quiet, Asked, Replied, AskedBack
(* p comes to the constructor that q has passed over.                      *)
<1>13. ASSUME Passed(p, q)
       PROVE  \/ Skips(p, q)'
              \/ /\ pc'[p] = 3 /\ pc'[q] = 4 /\ round'[p] = 1 /\ round'[q] = 1
                 /\ SessionOf(p, Second(p))' = session'
                 /\ ~Dead(q)' => \A s \in Sides : /\ Instance(q, s)' # None
                                                  /\ Instance(q, s)'.session # session'
  <2>1. /\ pc'[p] = 3 /\ pc'[q] = 4 /\ round'[p] = round'[q] /\ round'[p] = round[p]
        /\ phase'[p] = "enter"
    BY <1>2, <1>5, <1>13 DEF Passed
  <2>2. CASE Instance(p, Second(p)) # None
    BY <1>5, <1>6, <1>7, <2>1, <2>2 DEF Skips
  <2>3. CASE Instance(p, Second(p)) = None
    <3>1. round[p] = 1
      <4>1. ~Past(p, Second(p))
        BY <1>1, <1>5, <1>6, <2>3 DEF PartyInv, Made
      <4>2. ~(round[p] > 1)
        BY <4>1 DEF Past
      <4> QED
        BY <4>2 DEF TypeOK
    <3>2. SessionOf(p, Second(p)) = session
      BY <2>3 DEF SessionOf
    <3>3. ~Dead(q) => \A s \in Sides : Instance(q, s) # None /\ Instance(q, s).session # session
      <4>1. SUFFICES ASSUME ~Dead(q)
                     PROVE  \A s \in Sides : Instance(q, s) # None /\ Instance(q, s).session # session
        OBVIOUS
      <4>2. Instance(q, Second(q)).session # session
        BY <1>13, <3>1, <4>1 DEF Passed
      <4>3. Past(q, Second(q))
        BY <1>13, TwoSides DEF Past, MakeAt, Passed
      <4>4. Instance(q, Second(q)) # None
        BY <1>1, <1>6, <4>1, <4>3 DEF PartyInv, Made
      <4> QED
        BY <1>1, <4>2, <4>4, BothOld
    <3> QED
      BY <1>2, <1>5, <1>6, <1>7, <2>1, <3>1, <3>2, <3>3
  <2> QED
    BY <2>2, <2>3
<1>14. CASE Replied(p, q)
  <2>1. phase[q] # "reply" /\ inbox[q] = <<>> /\ Behind(p, q)
    BY <1>14 DEF Replied
  <2>2. inbox'[p] = <<>> /\ inbox'[q] = <<>>
    <3>1. PICK m \in Tags : inbox[p] = <<m>>
      BY <1>14 DEF Replied
    <3> QED
      BY <1>5, <2>1, <3>1
  <2>3. CASE Level(p, q)'
    <3>1. Quiet(p, q)'
      BY <1>2, <1>5, <2>1, <2>2, <2>3 DEF Quiet
    <3> QED
      BY <1>9, <3>1 DEF Stand, Pair
  <2>4. CASE Passed(p, q) /\ ~Skips(p, q)'
    <3>1. Apart(p, q)'
      BY <1>13, <2>2, <2>4 DEF Apart
    <3> QED
      BY <1>9, <3>1 DEF Stand, Pair
  <2>5. CASE Skips(p, q)'
    BY <2>3, <2>5 DEF Level
  <2>6. CASE Position(q) = Position(p) + 1 /\ (Call(p).call = "use" \/ pc[p] = 3)
    <3>1. Level(p, q)'
      BY <1>2, <1>5, <2>6 DEF Level
    <3> QED
      BY <2>3, <3>1
  <2>7. CASE pc[p] = 1 /\ pc[q] = 2 /\ round[p] = round[q]
    <3>1. Position(q) = Position(p) /\ Position(p) \in Nat
      BY <1>1, <2>7, AtThree, PositionType
    <3>2. Call(p).call = "make"
      BY <1>4, <2>7 DEF Makes
    <3>3. Level(p, q)'
      BY <1>2, <1>5, <2>7, <3>1, <3>2 DEF Level
    <3> QED
      BY <2>3, <3>3
  <2> QED
    BY <2>1, <2>4, <2>5, <2>6, <2>7 DEF Behind, NextTo
<1>15. CASE AskedBack(p, q)
  <2>1. phase[q] = "reply" /\ inbox[q] = <<>> /\ NextTo(p, q)
    BY <1>15 DEF AskedBack
  <2>2. PICK m \in Tags, n \in Tags :
          /\ inbox[p] = <<m, n>> /\ Answers(q, p, m) /\ Asks(q, p, n)
          /\ pc[p] = 2 /\ pc[q] = 4 /\ round[q] = 1 => n.session # session
    BY <1>15 DEF AskedBack
  <2>3. inbox'[p] = <<n>> /\ inbox'[q] = <<>>
    BY <1>5, <2>1, <2>2
  <2>4. Asks(q, p, n)'
    BY <1>2, <1>5, <1>6, <1>7, <2>2, AsksKept
  <2>5. CASE Level(p, q)'
    <3>1. Asked(q, p)'
      BY <1>2, <1>5, <2>1, <2>2, <2>3, <2>4, <2>5 DEF Asked, Level
    <3> QED
      BY <1>9, <3>1 DEF Stand, Pair
  <2>6. CASE Passed(p, q) /\ ~Skips(p, q)'
    <3>1. round[q] = 1 /\ n.session # session'
      BY <1>2, <1>13, <2>2, <2>6 DEF Passed
    <3>2. Apart(p, q)'
      BY <1>2, <1>13, <2>1, <2>2, <2>3, <2>6, <3>1 DEF Apart
    <3> QED
      BY <1>9, <3>2 DEF Stand, Pair
  <2>7. CASE Skips(p, q)'
    BY <2>5, <2>7 DEF Level
  <2>8. CASE Position(q) = Position(p) + 1 /\ (Call(p).call = "use" \/ pc[p] = 3)
    <3>1. Level(p, q)'
      BY <1>2, <1>5, <2>8 DEF Level
    <3> QED
      BY <2>5, <3>1
  <2> QED
    BY <2>1, <2>6, <2>7, <2>8 DEF NextTo
<1> QED
  BY <1>10, <1>11, <1>12, <1>14, <1>15, QuietEither DEF Pair, Stand

(* Every step of a party keeps how the two stand. *)
LEMMA StepPair ==
  ASSUME TypeOK, PartiesInv, PairInv, NEW p \in Parties, Step(p)
  PROVE  PairInv'
<1> DEFINE q == Peer(p)
<1>1. q \in Parties /\ Pair(p, q)
  BY TwoParties, PairSymmetric
<1>2. PairInv' <=> Pair(p, q)'
  BY DEF PairInv, Pair, Parties, Peer, GARBLER, EVALUATOR
<1>3. CASE Refuse(p) \/ Misread(p) \/ PeerGone(p)
  <2>1. Running(p) /\ Throw(p)
    BY <1>3 DEF Refuse, Misread, PeerGone, Awaits, Talks
  <2>2. /\ status'[p] = "threw" /\ io'[p] = None
        /\ \A r \in Parties : r # p => status'[r] = status[r] /\ io'[r] = io[r]
        /\ UNCHANGED <<build, storage, pc, phase, round, inbox, session>>
    BY <2>1, Thrown DEF Throw, meeting
  <2>3. \A r \in Parties, s \in Sides : Instance(r, s)' = Instance(r, s)
    BY <2>2, InstanceKept
  <2>4. \A r \in Parties : /\ Dead(r) => Dead(r)'
                           /\ Running(r)' => Running(r) /\ io'[r] = io[r]
    BY <2>1, <2>2 DEF Dead, Running
  <2>5. /\ Stand(p, q) => Stand(p, q)'
        /\ SameCount(p, q) => SameCount(p, q)'
        /\ Stand(q, p) => Stand(q, p)'
        /\ SameCount(q, p) => SameCount(q, p)'
    BY <1>1, <2>2, <2>3, <2>4, PairStops
  <2> QED
    BY <1>1, <1>2, <2>5 DEF Pair
<1> QED
  BY <1>1, <1>2, <1>3, ReusePair, CreatePair, AskPair, AnswerPair, AnsweredPair DEF Step

(* A new connection finds both at the beginning. *)
LEMMA ConnectPair ==
  ASSUME TypeOK, PartiesInv, Connect
  PROVE  PairInv'
<1>1. /\ session \in Nat /\ session' = session + 1
      /\ \A p \in Parties : /\ pc'[p] = 1 /\ round'[p] = 1 /\ phase'[p] = "enter"
                            /\ inbox'[p] = <<>>
      /\ UNCHANGED <<build, storage>>
  BY DEF Connect, TypeOK
<1>2. \A p \in Parties, s \in Sides :
        /\ Instance(p, s)' = Instance(p, s)
        /\ Instance(p, s) # None => Instance(p, s).session # session'
  <2>1. ASSUME NEW p \in Parties, NEW s \in Sides, Instance(p, s) # None
        PROVE  Instance(p, s).session # session'
    <3>1. Instance(p, s).session <= session /\ Instance(p, s).session \in Nat
      BY <2>1, InstanceType DEF PartiesInv, PartyInv, NotBefore
    <3> QED
      BY <1>1, <3>1
  <2> QED
    BY <1>1, <2>1, InstanceKept
<1>3. \A p \in Parties, s \in Sides : SessionOf(p, s)' = session' => CountOf(p, s)' = 0
  BY <1>2 DEF SessionOf, CountOf
<1>4. \A p, q \in Parties : SameCount(p, q)'
  BY <1>1, <1>3, TwoSides DEF SameCount, Unanswered
<1>5. \A p, q \in Parties : Quiet(p, q)'
  BY <1>1 DEF Quiet, Level, Position
<1> QED
  BY <1>4, <1>5, TwoParties DEF PairInv, Pair, Stand

(* A death keeps how the two stand. *)
LEMMA DiePair ==
  ASSUME TypeOK, PairInv, NEW proc \in Processes, Die(proc)
  PROVE  PairInv'
<1>1. /\ UNCHANGED <<pc, phase, round, inbox>> /\ session' = session
      /\ \A r \in Parties : /\ status'[r] = IF Process(r) = proc THEN "died" ELSE status[r]
                            /\ io'[r] = IF Process(r) = proc THEN None ELSE io[r]
  BY DEF Die
<1>2. \A r \in Parties, s \in Sides :
        Instance(r, s)' = IF Process(r) = proc THEN None ELSE Instance(r, s)
  BY InstanceLost
<1>3. \A r \in Parties :
        /\ Dead(r) => Dead(r)'
        /\ ~Dead(r)' => \A s \in Sides : Instance(r, s)' = Instance(r, s)
        /\ Running(r)' => Running(r) /\ io'[r] = io[r]
  BY <1>1, <1>2 DEF Dead, Running
<1>4. \A p, q \in Parties : /\ Stand(p, q) => Stand(p, q)'
                            /\ SameCount(p, q) => SameCount(p, q)'
  BY <1>1, <1>3, PairStops
<1> QED
  BY <1>4, TwoParties DEF PairInv, Pair

IInv == TypeOK /\ PartiesInv /\ PairInv

(* The types, what holds of each party, and how the two stand to each      *)
(* other hold in every state.                                              *)
THEOREM SharedInvariance == Spec => []IInv
<1>1. ASSUME Init
      PROVE  IInv
  <2>1. TypeOK /\ PartiesInv
    BY <1>1, PartiesInit
  <2>2. /\ session = 0
        /\ \A p \in Parties : pc[p] = 1 /\ round[p] = 1 /\ phase[p] = "enter" /\ inbox[p] = <<>>
    BY <1>1 DEF Init
  <2>3. \A p \in Parties, s \in Sides : Instance(p, s) = None
    <3>1. \A p \in Parties : Process(p) \in Parties /\ Slot(p) \in Slots
      BY <2>1, TwoSides, InstanceType
    <3> QED
      BY <1>1, <3>1 DEF Init, Instance, NoInstances
  <2>4. \A p, q \in Parties : SameCount(p, q)
    BY <2>2, <2>3, TwoSides DEF SameCount, Unanswered, CountOf
  <2>5. \A p, q \in Parties : Quiet(p, q)
    BY <2>2 DEF Quiet, Level, Position
  <2> QED
    BY <2>1, <2>4, <2>5, TwoParties DEF IInv, PairInv, Pair, Stand
<1>2. ASSUME IInv, [Next]_vars
      PROVE  IInv'
  <2>1. TypeOK /\ PartiesInv /\ PairInv /\ TypeOK' /\ PartiesInv'
    BY <1>2, PartiesNext DEF IInv
  <2>2. CASE Connect
    BY <2>1, <2>2, ConnectPair DEF IInv
  <2>3. CASE \E p \in Parties : Step(p)
    BY <2>1, <2>3, StepPair DEF IInv
  <2>4. CASE \E proc \in Processes : Die(proc)
    BY <2>1, <2>4, DiePair DEF IInv
  <2>5. CASE UNCHANGED vars
    <3>1. \A r \in Parties, s \in Sides : Instance(r, s)' = Instance(r, s)
      BY <2>5, InstanceKept DEF vars, build
    <3>2. \A r \in Parties : /\ Dead(r) => Dead(r)'
                             /\ Running(r)' => Running(r) /\ io'[r] = io[r]
      BY <2>5 DEF vars, Dead, Running
    <3>3. \A p, q \in Parties : /\ Stand(p, q) => Stand(p, q)'
                                /\ SameCount(p, q) => SameCount(p, q)'
      BY <2>1, <2>5, <3>1, <3>2, PairStops DEF vars
    <3> QED
      BY <2>1, <3>3, TwoParties DEF IInv, PairInv, Pair
  <2> QED
    BY <1>2, <2>2, <2>3, <2>4, <2>5 DEF Next
<1> QED
  BY <1>1, <1>2, PTL DEF Spec

-----------------------------------------------------------------------------
(* What a party reads.                                                     *)

(* The instances of a party are of another connection, and of the address  *)
(* of its NetIO if it has one.                                             *)
LEMMA OldIsRecycled ==
  ASSUME TypeOK, NEW p \in Parties, PartyInv(p), pc[p] = 4, ~Dead(p), NEW s \in Sides,
         Instance(p, s) # None, Instance(p, s).session # session
  PROVE  Recycled(p, s)
<1>1. Past(p, s)
  BY DEF Past, MakeAt
<1>2. Running(p) => Instance(p, s).io = io[p]
  BY <1>1 DEF PartyInv, Made
<1> QED
  BY <1>2 DEF Recycled

(* What is read fits the instance, but for the recycled. *)
LEMMA ReadInStep ==
  ASSUME IInv, NEW p \in Parties, Awaits(p), inbox[p] # <<>>
  PROVE  \/ Understands(p)
         \/ Recycled(p, Call(p).side) \/ Recycled(Peer(p), Other(Call(p).side))
         \/ status[Peer(p)] = "died" /\ Head(inbox[p]).session # session
<1> DEFINE q == Peer(p)
<1>1. /\ TypeOK /\ PartyInv(p) /\ PartyInv(q) /\ q \in Parties /\ Pair(p, q)
      /\ Running(p) /\ ~Dead(p) /\ pc[p] \in 1 .. 26
      /\ Talks(p) \/ phase[p] = "reply"
  <2>1. q \in Parties /\ Pair(p, q)
    BY PairSymmetric, TwoParties DEF IInv
  <2>2. Running(p) /\ (Talks(p) \/ phase[p] = "reply")
    BY DEF Awaits, Talks
  <2>3. TypeOK /\ PartyInv(p) /\ PartyInv(q)
    BY <2>1 DEF IInv, PartiesInv
  <2> QED
    BY <2>1, <2>2, <2>3, Talking DEF Dead, Running
<1>2. SEND \in Sides /\ RECV \in Sides /\ Other(SEND) = RECV /\ Other(RECV) = SEND
  BY TwoSides
<1>3. /\ Call(p).side \in Sides /\ Call(p).call \in {"make", "use"}
      /\ Current(p) # None /\ Current(p).io = io[p]
      /\ Current(p) = Instance(p, Call(p).side) /\ CountOf(p, Call(p).side) = Current(p).count
      /\ SessionOf(p, Call(p).side) = Current(p).session
      /\ Tag(p) = [call |-> Call(p).call, session |-> Current(p).session, count |-> Current(p).count]
      /\ Past(p, Call(p).side)
  <2>1. Call(p).side \in Sides /\ Call(p).call \in {"make", "use"}
    BY <1>1, CallIs
  <2>2. Current(p) # None /\ Current(p).io = io[p] /\ Past(p, Call(p).side)
    BY <1>1, Talking
  <2>3. Current(p) = Instance(p, Call(p).side)
    BY DEF Current
  <2>4. /\ CountOf(p, Call(p).side) = Current(p).count
        /\ SessionOf(p, Call(p).side) = Current(p).session
    BY <2>2, <2>3 DEF CountOf, SessionOf
  <2> QED
    BY <2>1, <2>2, <2>3, <2>4 DEF Tag
<1>4. CASE Current(p).session # session
  BY <1>3, <1>4 DEF Recycled
<1>5. ASSUME Current(p).session = session
      PROVE  ~Apart(q, p)
  BY <1>1, <1>3, <1>5 DEF Apart
<1>6. CASE Apart(p, q)
  <2>1. PICK m \in Tags : inbox[p] = <<m>> /\ m.session # session
    BY <1>6 DEF Apart
  <2>2. Head(inbox[p]).session # session
    BY <2>1
  <2>3. CASE Dead(q)
    BY <2>2, <2>3 DEF Dead
  <2>4. CASE ~Dead(q)
    <3>1. \A s \in Sides : Instance(q, s) # None /\ Instance(q, s).session # session
      BY <1>6, <2>4 DEF Apart
    <3>2. \A s \in Sides : Recycled(q, s)
      BY <1>1, <1>6, <2>4, <3>1, OldIsRecycled DEF Apart
    <3> QED
      BY <1>2, <1>3, <3>2, TwoSides
  <2> QED
    BY <2>3, <2>4
(* What q has sent is of the setup of its instance.                        *)
<1>7. ASSUME NEW m \in Tags, inbox[p] # <<>>, Head(inbox[p]) = m, NEW s \in Sides,
             s = Other(Call(p).side), m.session # session,
             ~Dead(q) => /\ Instance(q, s) # None /\ m.session = Instance(q, s).session
                         /\ Running(q) => Instance(q, s).io = io[q]
      PROVE  \/ Recycled(q, Other(Call(p).side))
             \/ status[q] = "died" /\ Head(inbox[p]).session # session
  BY <1>7 DEF Recycled, Dead
<1>8. CASE phase[p] = "reply" /\ Current(p).session = session
  <2>1. Call(p).side = RECV
    BY <1>1, <1>8 DEF PartyInv, Phases
  <2>2. ASSUME NEW m \in Tags, Head(inbox[p]) = m, Answers(q, p, m)
        PROVE  \/ Understands(p) \/ Recycled(q, Other(Call(p).side))
               \/ status[q] = "died" /\ Head(inbox[p]).session # session
    <3>1. CASE m.session = session
      <4>1. m.call = Call(p).call /\ m.count = Current(p).count
        BY <1>1, <1>3, <1>8, <2>1, <2>2, <3>1 DEF Answers
      <4>2. m = Tag(p)
        BY <1>3, <1>8, <3>1, <4>1 DEF Tags
      <4> QED
        BY <2>2, <4>2 DEF Understands
    <3>2. CASE m.session # session
      BY <1>2, <1>7, <2>1, <2>2, <3>2 DEF Answers
    <3> QED
      BY <3>1, <3>2
  <2>3. CASE Replied(p, q)
    <3>1. PICK m \in Tags : inbox[p] = <<m>> /\ Answers(q, p, m)
      BY <2>3 DEF Replied
    <3>2. Head(inbox[p]) = m
      BY <3>1
    <3> QED
      BY <2>2, <3>1, <3>2
  <2>4. CASE AskedBack(p, q)
    <3>1. PICK m \in Tags, n \in Tags : inbox[p] = <<m, n>> /\ Answers(q, p, m)
      BY <2>4 DEF AskedBack
    <3>2. Head(inbox[p]) = m
      BY <3>1
    <3> QED
      BY <2>2, <3>1, <3>2
  <2>5. /\ ~Quiet(p, q) /\ ~Asked(p, q) /\ ~Asked(q, p) /\ ~Replied(q, p) /\ ~AskedBack(q, p)
    BY <1>8 DEF Quiet, Asked, Replied, AskedBack
  <2> QED
    BY <1>1, <1>5, <1>6, <1>8, <2>3, <2>4, <2>5, QuietEither DEF Pair, Stand
<1>9. CASE phase[p] # "reply" /\ Current(p).session = session
  <2>1. Call(p).side = SEND /\ Talks(p) /\ phase[p] \in {"enter", "talk"}
    BY <1>9 DEF Awaits, Talks
  <2>2. CASE Asked(q, p)
    <3>1. PICK m \in Tags : inbox[p] = <<m>> /\ Asks(q, p, m)
      BY <2>2 DEF Asked
    <3>2. Head(inbox[p]) = m
      BY <3>1
    <3>3. CASE m.session = session
      <4>1. m.count = Current(p).count /\ (m.call = "make" <=> m.count = 0)
        BY <1>1, <1>3, <1>9, <2>1, <3>1, <3>3 DEF Asks
      <4>2. Current(p).count = 0 <=> phase[p] = "talk"
        BY <1>1, <1>2, <1>3, <1>9, <2>1 DEF PartyInv, Counts
      <4>3. phase[p] = "talk" <=> Call(p).call = "make"
        BY <1>1, <2>1, Talking
      <4>4. m.call = Call(p).call
        BY <1>3, <4>1, <4>2, <4>3 DEF Tags
      <4>5. m = Tag(p)
        BY <1>3, <1>9, <3>3, <4>1, <4>4 DEF Tags
      <4> QED
        BY <3>2, <4>5 DEF Understands
    <3>4. CASE m.session # session
      BY <1>2, <1>7, <2>1, <3>1, <3>2, <3>4 DEF Asks
    <3> QED
      BY <3>3, <3>4
  <2>3. /\ ~Quiet(p, q) /\ ~Asked(p, q) /\ ~Replied(p, q) /\ ~Replied(q, p)
        /\ ~AskedBack(p, q) /\ ~AskedBack(q, p)
    BY <1>9 DEF Quiet, Asked, Replied, AskedBack
  <2> QED
    BY <1>1, <1>5, <1>6, <1>9, <2>2, <2>3, QuietEither DEF Pair, Stand
<1> QED
  BY <1>4, <1>8, <1>9

(* InStep of SharedOT, of the instances in shared_ot_storage: for every    *)
(* number of connections, rounds and deaths, and every reuse of addresses, *)
(* the two ends of an OT are of the same setup and have made as many       *)
(* extensions of it, but where one of them is recycled.                    *)
THEOREM InStepHolds == Spec => []InStep
<1>1. ASSUME IInv
      PROVE  InStep
  BY <1>1, ReadInStep DEF InStep
<1> QED
  BY <1>1, SharedInvariance, PTL

-----------------------------------------------------------------------------
(* Of a connection at whose beginning there was no instance and in which   *)
(* no process has died.                                                    *)
Whole ==
  undisturbed =>
    /\ session > 0
    /\ \A p \in Parties :
         /\ status[p] \in {"running", "done"}
         /\ \A s \in Sides : Instance(p, s) # None => Instance(p, s).session = session

(* A party of such a connection does not throw.                            *)
LEMMA NobodyThrows ==
  ASSUME IInv, Whole, undisturbed, NEW p \in Parties
  PROVE  ~Refuse(p) /\ ~Misread(p) /\ ~PeerGone(p)
<1> DEFINE q == Peer(p)
<1>1. /\ TypeOK /\ PartyInv(p) /\ PartyInv(q) /\ q \in Parties /\ Pair(p, q) /\ p = Peer(q)
      /\ session > 0 /\ status[q] \in {"running", "done"}
      /\ \A r \in Parties, s \in Sides : Instance(r, s) # None => Instance(r, s).session = session
  BY PairSymmetric, TwoParties DEF IInv, PartiesInv, Whole
<1>2. ASSUME Refuse(p)
      PROVE  FALSE
  <2>1. /\ Running(p) /\ Refused(p) /\ ~Dead(p) /\ pc[p] <= 26
    BY <1>1, <1>2 DEF Refuse, PartyInv, Course, Running, Dead
  <2>2. Call(p).side \in Sides
    BY <1>1, <2>1, CallIs
  <2>3. CASE Call(p).call = "make" /\ Current(p) # None /\ Current(p).io # io[p]
    <3>1. Instance(p, Call(p).side).session = session
      BY <1>1, <2>2, <2>3 DEF Current
    <3>2. Past(p, Call(p).side)
      BY <1>1, <2>2, <2>3, <3>1 DEF PartyInv, NotBefore, Current
    <3> QED
      BY <1>1, <2>1, <2>2, <2>3, <3>2 DEF PartyInv, Made, Current
  <2>4. CASE Call(p).call = "use" /\ Current(p) = None
    <3>1. Past(p, Call(p).side)
      BY <1>1, <2>1, <2>4, PastCall
    <3> QED
      BY <1>1, <2>1, <2>2, <2>4, <3>1 DEF PartyInv, Made, Current
  <2> QED
    BY <2>1, <2>3, <2>4 DEF Refused
<1>3. ASSUME Misread(p)
      PROVE  FALSE
  <2>1. /\ Awaits(p) /\ inbox[p] # <<>> /\ ~Understands(p)
    BY <1>3 DEF Misread
  <2>2. Call(p).side \in Sides /\ Other(Call(p).side) \in Sides
    <3>1. Running(p) /\ (Talks(p) \/ phase[p] = "reply")
      BY <2>1 DEF Awaits, Talks
    <3> QED
      BY <1>1, <3>1, Talking, TwoSides
  <2>3. \A r \in Parties, s \in Sides : ~Recycled(r, s)
    BY <1>1 DEF Recycled
  <2> QED
    BY <1>1, <2>1, <2>2, <2>3, ReadInStep
<1>4. ASSUME PeerGone(p)
      PROVE  FALSE
  <2>1. /\ Awaits(p) /\ inbox[p] = <<>> /\ ~Running(q) /\ Running(p) /\ pc[p] \in 1 .. 26
        /\ pc[p] <= 26
    BY <1>1, <1>4, SMTT(30) DEF PeerGone, Awaits, Talks, PartyInv, Course, TypeOK
  <2>2. status[q] = "done" /\ pc[q] = 27 /\ round[q] = rounds /\ round[p] <= rounds
    BY <1>1, <2>1 DEF Running, PartyInv, Course
  <2>3. phase[q] = "enter"
    BY <1>1, <2>2 DEF PartyInv, Phases
  <2>4. Position(p) # Position(q)
    <3>1. /\ round[p] \in Nat /\ round[q] \in Nat /\ BlockOf[pc[p]] \in 1 .. 17
          /\ Position(p) = 17 * (round[p] - 1) + BlockOf[pc[p]]
          /\ Position(q) = 17 * (round[q] - 1) + BlockOf[pc[q]]
      BY <1>1, <2>1, PositionType
    <3>2. BlockOf[pc[q]] = 18
      BY <2>2, Blocks
    <3>3. round[p] <= round[q]
      BY <2>2
    <3> QED
      BY <3>1, <3>2, <3>3
  <2>5. ~Level(p, q)
    BY <2>2, <2>4 DEF Level, Skips
  <2>6. ~Quiet(p, q) /\ ~Asked(p, q) /\ ~Replied(p, q) /\ ~AskedBack(p, q) /\ ~Apart(p, q)
    BY <2>1, <2>2, <2>5 DEF Quiet, Asked, Replied, AskedBack, Apart
  <2>7. ~Asked(q, p) /\ ~Replied(q, p) /\ ~AskedBack(q, p) /\ ~Apart(q, p)
    BY <2>2, <2>3 DEF Asked, Replied, AskedBack, Apart
  <2> QED
    BY <1>1, <2>6, <2>7, QuietEither DEF Pair, Stand
<1> QED
  BY <1>2, <1>3, <1>4

(* So nothing ends or gets old but by returning. *)
LEMMA StepWhole ==
  ASSUME IInv, Whole, NEW p \in Parties, Step(p)
  PROVE  Whole'
<1> DEFINE q == Peer(p)
<1>1. /\ TypeOK /\ PartyInv(p) /\ q \in Parties /\ \A r \in Parties : r = p \/ r = q
  BY TwoParties DEF IInv, PartiesInv
<1>2. /\ session' = session /\ undisturbed' = undisturbed /\ UNCHANGED build
      /\ status'[q] = status[q] /\ \A s \in Sides : Instance(q, s)' = Instance(q, s)
  BY <1>1, OthersStep
<1>3. SUFFICES ASSUME undisturbed
               PROVE  /\ status'[p] \in {"running", "done"}
                      /\ \A s \in Sides : Instance(p, s)' # None =>
                                            Instance(p, s)'.session = session
  BY <1>1, <1>2 DEF Whole
<1>4. /\ \A s \in Sides : Instance(p, s) # None => Instance(p, s).session = session
      /\ ~Refuse(p) /\ ~Misread(p) /\ ~PeerGone(p)
  BY <1>3, NobodyThrows DEF Whole
<1>5. Running(p) /\ status[p] = "running"
  BY <1>4 DEF Step, Reuse, Create, Ask, Answer, Answered, Talks, Running
<1>6. ASSUME Return(p)
      PROVE  status'[p] \in {"running", "done"}
  BY <1>1, <1>5, <1>6, Returns DEF PartyInv
<1>7. ASSUME NEW side \in Sides, side = Call(p).side, Create(p)
      PROVE  \A s \in Sides : Instance(p, s)' # None => Instance(p, s)'.session = session
  <2> DEFINE new == [io |-> io[p], session |-> session, count |-> 0]
  <2>1. new \in OT /\ new.session = session
    BY <1>1, <1>5 DEF OT, TypeOK
  <2>2. SetInstance(p, side, new)
    BY <1>7 DEF Create
  <2> HIDE DEF new
  <2>3. /\ Instance(p, side)' = new
        /\ \A s \in Sides : s # side => Instance(p, s)' = Instance(p, s)
    BY <1>1, <1>2, <2>1, <2>2, InstanceSet
  <2> QED
    BY <1>4, <2>1, <2>3
<1>8. ASSUME NEW side \in Sides, side = Call(p).side, Ask(p) \/ Answer(p)
      PROVE  \A s \in Sides : Instance(p, s)' # None => Instance(p, s)'.session = session
  <2>1. Talks(p) /\ Advanced(p)
    BY <1>8 DEF Ask, Answer
  <2> QED
    BY <1>1, <1>2, <1>4, <1>5, <1>8, <2>1, Advances
<1>9. ASSUME Create(p) \/ Ask(p) \/ Answer(p)
      PROVE  Call(p).side \in Sides
  BY <1>1, <1>5, CallIs DEF PartyInv, Course
<1>10. CASE Reuse(p) \/ Answered(p)
  <2>1. Return(p) /\ UNCHANGED <<build, storage>>
    BY <1>2, <1>10 DEF Reuse, Answered
  <2>2. \A s \in Sides : Instance(p, s)' = Instance(p, s)
    BY <2>1, InstanceKept
  <2> QED
    BY <1>4, <1>6, <2>1, <2>2
<1>11. CASE Create(p) \/ Ask(p)
  <2>1. status'[p] = status[p]
    BY <1>11 DEF Create, Ask
  <2> QED
    BY <1>5, <1>7, <1>8, <1>9, <1>11, <2>1
<1>12. CASE Answer(p)
  <2>1. Return(p)
    BY <1>12 DEF Answer
  <2> QED
    BY <1>6, <1>8, <1>9, <1>12, <2>1
<1> QED
  BY <1>4, <1>10, <1>11, <1>12 DEF Step

(* FreshConnectionsServe of SharedOT: where both parties find no instance  *)
(* and no process dies nobody is refused, misreads or is left waiting, in  *)
(* whatever order the two run and whether or not they share the storage.   *)
THEOREM FreshConnectionsServeAll == Spec => []FreshConnectionsServe
<1>1. Init => Whole
  BY DEF Init, Whole
<1>2. ASSUME IInv, Whole, [Next]_vars
      PROVE  Whole'
  <2>1. CASE Connect
    <3>1. /\ session' = session + 1 /\ session \in Nat
          /\ \A p \in Parties : status'[p] = "running"
          /\ undisturbed' => \A p \in Parties : storage[p] = NoInstances
          /\ UNCHANGED <<build, storage>>
      BY <1>2, <2>1 DEF Connect, IInv, TypeOK
    <3>2. \A p \in Parties, s \in Sides : /\ Instance(p, s)' = Instance(p, s)
                                          /\ Process(p) \in Parties /\ Slot(p) \in Slots
      BY <1>2, <3>1, InstanceKept, InstanceType DEF IInv
    <3>3. undisturbed' => \A p \in Parties, s \in Sides : Instance(p, s) = None
      BY <3>1, <3>2 DEF Instance, NoInstances
    <3> QED
      BY <3>1, <3>2, <3>3 DEF Whole
  <2>2. CASE \E p \in Parties : Step(p)
    BY <1>2, <2>2, StepWhole
  <2>3. CASE \E proc \in Processes : Die(proc)
    BY <2>3 DEF Die, Whole
  <2>4. CASE UNCHANGED vars
    <3>1. \A p \in Parties, s \in Sides : Instance(p, s)' = Instance(p, s)
      BY <2>4, InstanceKept DEF vars, build
    <3> QED
      BY <1>2, <2>4, <3>1 DEF Whole, vars
  <2> QED
    BY <1>2, <2>1, <2>2, <2>3, <2>4 DEF Next
<1>3. Whole => FreshConnectionsServe
  BY DEF Whole, FreshConnectionsServe
<1> QED
  BY <1>1, <1>2, <1>3, SharedInvariance, PTL DEF Spec
=============================================================================
