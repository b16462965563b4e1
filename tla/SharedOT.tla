------------------------------ MODULE SharedOT ------------------------------
(***************************************************************************)
(* The OT instances that a process shares between the objects of           *)
(* block_correlated_OT.hpp.  A process keeps one instance a side (IKNP     *)
(* sender and IKNP receiver), or one a side and role when it is built for  *)
(* two parties; the instance is made by the first object that needs it and *)
(* remembers the address of that object's NetIO.                           *)
(*                                                                         *)
(* Two parties meet in one connection after the other and in each run the  *)
(* library's functions, of which the order of OT calls is kept.  A process *)
(* may die at any step and is started again; the operating system tells    *)
(* its peer.  A NetIO gets any address that is free, that of a destroyed   *)
(* one included.                                                           *)
(***************************************************************************)
EXTENDS Naturals, Sequences

CONSTANTS
  None,
  Addresses,    \* where a NetIO object may lie
  Sessions,     \* connections at most
  Rounds,       \* calls of the functions on a connection, at most
  Deaths        \* of processes, at most

ASSUME BoundsAssumption == Sessions \in Nat /\ Rounds \in Nat /\ Deaths \in Nat
ASSUME NoneAssumption == None \notin [io : Addresses, session : Nat, count : Nat]

GARBLER == "garbler"
EVALUATOR == "evaluator"
Parties == {GARBLER, EVALUATOR}
Peer(p) == IF p = GARBLER THEN EVALUATOR ELSE GARBLER

SEND == "sender"
RECV == "receiver"
Sides == {SEND, RECV}

VARIABLES
  oneProcess,   \* both parties are threads of one process, as in the tests
  instances,    \* PARTY_INSTANCES_PER_THREAD
  storage,      \* shared_ot_storage: of a process, a side and a slot
  status,       \* of a party: "away", "running", "done", "threw", "died"
  io,           \* address of its NetIO
  pc, phase,    \* its call, and how far it is: "enter", "talk" or "reply"
  round,        \* of its calls on this connection
  inbox,        \* messages for it
  session,      \* number of the connection
  rounds,       \* rounds both parties will make of it
  undisturbed,  \* it found no instance, and no process has died in it
  deaths

vars == <<oneProcess, instances, storage, status, io, pc, phase, round, inbox, session, rounds,
          undisturbed, deaths>>

build == <<oneProcess, instances>>
meeting == <<session, rounds, undisturbed, deaths>>

-----------------------------------------------------------------------------
(* The constructors (Make) and the extensions (Use) of a round, in order;  *)
(* extensions of one side with no other call between them count as one.    *)
Make(side) == [call |-> "make", side |-> side]
Use(side) == [call |-> "use", side |-> side]

GarblerKeys == <<Make(SEND), Use(SEND), Make(RECV), Use(SEND), Use(RECV)>>
EvaluatorKeys == <<Make(RECV), Use(RECV), Make(SEND), Use(RECV), Use(SEND)>>

(* Mutant: the verifier of check_delta is made before the prover. *)
GarblerStepsSwapped ==
  <<Use(SEND), Make(RECV), Use(RECV), Make(RECV), Use(RECV), Use(SEND), Use(RECV),
    Use(SEND), Use(SEND), Make(RECV), Use(RECV), Make(SEND), Use(SEND)>>

(* bStar and its dual; sid1 with aMatrix and tmpDelta; sid2 with the      *)
(* triple shares and tmpDelta; the ANDed masks of both, the garbler's on  *)
(* sid2; the triples; check_delta's prover, its verifier, sid3.           *)
GarblerSteps ==
  <<Use(SEND), Make(RECV), Use(RECV), Make(RECV), Use(RECV), Use(SEND), Use(RECV),
    Use(SEND), Make(RECV), Use(RECV), Use(SEND), Make(SEND), Use(SEND)>>
EvaluatorSteps ==
  <<Use(RECV), Make(SEND), Use(SEND), Make(SEND), Use(SEND), Use(RECV), Use(SEND),
    Use(RECV), Make(SEND), Use(SEND), Use(RECV), Make(RECV), Use(RECV)>>

(* eqcheck_diff_key twice, with two constructors each; the last extension  *)
(* goes on with those of check_beaver_triple and of online.                *)
GarblerEnd ==
  <<Make(SEND), Use(SEND), Make(SEND), Use(SEND), Make(SEND), Use(SEND), Make(SEND), Use(SEND)>>
EvaluatorEnd ==
  <<Make(RECV), Use(RECV), Make(RECV), Use(RECV), Make(RECV), Use(RECV), Make(RECV), Use(RECV)>>

Program(p) ==
  IF p = GARBLER THEN GarblerKeys \o GarblerSteps \o GarblerEnd
  ELSE EvaluatorKeys \o EvaluatorSteps \o EvaluatorEnd

Length == Len(Program(GARBLER))

-----------------------------------------------------------------------------
Process(p) == IF oneProcess THEN GARBLER ELSE p
Processes == {Process(p) : p \in Parties}

(* Mutant: all roles share a slot. *)
SlotOfAll(p) == "only"

(* role_index: the parties of a process have different roles.              *)
Slot(p) == IF instances = 1 THEN "only" ELSE p

Slots == {"only"} \cup Parties

Instance(p, side) == storage[Process(p)][side][Slot(p)]

SetInstance(p, side, ot) ==
  storage' = [storage EXCEPT ![Process(p)][side][Slot(p)] = ot]

NoInstances == [side \in Sides |-> [slot \in Slots |-> None]]

(* A build for one party a process has no two in it. *)
Init ==
  /\ oneProcess \in BOOLEAN /\ instances \in {1, 2}
  /\ oneProcess => instances = 2
  /\ storage = [proc \in Parties |-> NoInstances]
  /\ status = [p \in Parties |-> "away"]
  /\ io = [p \in Parties |-> None]
  /\ pc = [p \in Parties |-> 1] /\ round = [p \in Parties |-> 1]
  /\ phase = [p \in Parties |-> "enter"]
  /\ inbox = [p \in Parties |-> <<>>]
  /\ session = 0 /\ rounds = 0 /\ deaths = 0 /\ undisturbed = FALSE

Running(p) == status[p] = "running"

(* Both NetIO constructors; two objects of a process do not overlap.       *)
Connect ==
  /\ session < Sessions
  /\ \A p \in Parties : ~Running(p)
  /\ io' \in [Parties -> Addresses]
  /\ oneProcess => io'[GARBLER] # io'[EVALUATOR]
  /\ status' = [p \in Parties |-> "running"]
  /\ pc' = [p \in Parties |-> 1] /\ round' = [p \in Parties |-> 1]
  /\ phase' = [p \in Parties |-> "enter"]
  /\ inbox' = [p \in Parties |-> <<>>]
  /\ session' = session + 1
  /\ rounds' \in 1 .. Rounds
  /\ undisturbed' = \A p \in Parties : storage[p] = NoInstances
  /\ UNCHANGED <<build, storage, deaths>>

-----------------------------------------------------------------------------
Call(p) == Program(p)[pc[p]]
Current(p) == Instance(p, Call(p).side)

(* An exception leaves the caller's function, the NetIO is destroyed.      *)
Throw(p) ==
  /\ status' = [status EXCEPT ![p] = "threw"]
  /\ io' = [io EXCEPT ![p] = None]
  /\ UNCHANGED <<build, storage, pc, phase, round, inbox, meeting>>

(* The call returns; after the last one of the last round so does the      *)
(* function that owns the NetIO.                                           *)
Return(p) ==
  LET leaves == pc[p] = Length /\ round[p] = rounds
      again == pc[p] = Length /\ ~leaves
  IN  /\ pc' = [pc EXCEPT ![p] = IF again THEN 1 ELSE @ + 1]
      /\ round' = [round EXCEPT ![p] = IF again THEN @ + 1 ELSE @]
      /\ status' = [status EXCEPT ![p] = IF leaves THEN "done" ELSE @]
      /\ io' = [io EXCEPT ![p] = IF leaves THEN None ELSE @]
      /\ phase' = [phase EXCEPT ![p] = "enter"]

(* Mutant: the instance is returned whatever its NetIO. *)
RefusedNever(p) == Call(p).call = "use" /\ Current(p) = None

(* Initialize_simple_OT: an instance of an earlier connection is refused   *)
(* when its NetIO lies elsewhere; Get_simple_OT needs one to be there.     *)
Refused(p) ==
  \/ Call(p).call = "make" /\ Current(p) # None /\ Current(p).io # io[p]
  \/ Call(p).call = "use" /\ Current(p) = None

Refuse(p) == Running(p) /\ phase[p] = "enter" /\ Refused(p) /\ Throw(p)

(* Nothing is sent when there is an instance already.                      *)
Reuse(p) ==
  /\ Running(p) /\ phase[p] = "enter"
  /\ Call(p).call = "make" /\ Current(p) # None /\ ~Refused(p)
  /\ Return(p)
  /\ UNCHANGED <<build, storage, inbox, meeting>>

(* make_unique, before setup_send or setup_recv.                           *)
Create(p) ==
  /\ Running(p) /\ phase[p] = "enter"
  /\ Call(p).call = "make" /\ Current(p) = None
  /\ SetInstance(p, Call(p).side, [io |-> io[p], session |-> session, count |-> 0])
  /\ phase' = [phase EXCEPT ![p] = "talk"]
  /\ UNCHANGED <<build, status, io, pc, round, inbox, meeting>>

(* What passes between two IKNP objects: the receiver speaks first, both   *)
(* in the setup and in an extension, and either goes on in its generators  *)
(* when the first message passes.  What a message can be decoded with is   *)
(* the setup it stems from and its number since.                           *)
Talks(p) ==
  /\ Running(p)
  /\ phase[p] = "talk" \/ (phase[p] = "enter" /\ Call(p).call = "use" /\ ~Refused(p))

Tag(p) == [call |-> Call(p).call, session |-> Current(p).session, count |-> Current(p).count]

NextTag(p) == [Tag(p) EXCEPT !.count = @ + 1]

Advanced(p) == SetInstance(p, Call(p).side, [Current(p) EXCEPT !.count = @ + 1])

Ask(p) ==
  /\ Talks(p) /\ Call(p).side = RECV
  /\ phase' = [phase EXCEPT ![p] = "reply"]
  /\ inbox' = [inbox EXCEPT ![Peer(p)] = Append(@, Tag(p))]
  /\ Advanced(p)
  /\ UNCHANGED <<build, status, io, pc, round, meeting>>

Awaits(p) == (Talks(p) /\ Call(p).side = SEND) \/ (Running(p) /\ phase[p] = "reply")

Understands(p) == Head(inbox[p]) = Tag(p)

Answer(p) ==
  /\ Talks(p) /\ Call(p).side = SEND
  /\ inbox[p] # <<>> /\ Understands(p)
  /\ inbox' = [inbox EXCEPT ![p] = Tail(@), ![Peer(p)] = Append(@, NextTag(p))]
  /\ Advanced(p) /\ Return(p)
  /\ UNCHANGED <<build, meeting>>

Answered(p) ==
  /\ Running(p) /\ phase[p] = "reply"
  /\ inbox[p] # <<>> /\ Understands(p)
  /\ inbox' = [inbox EXCEPT ![p] = Tail(@)]
  /\ Return(p)
  /\ UNCHANGED <<build, storage, meeting>>

(* The instances are out of step: what comes is not what is read for, or   *)
(* fails the check of the extension.                                       *)
Misread(p) == Awaits(p) /\ inbox[p] # <<>> /\ ~Understands(p) /\ Throw(p)

(* The peer has destroyed its NetIO, and everything it sent is read.       *)
PeerGone(p) == Awaits(p) /\ inbox[p] = <<>> /\ ~Running(Peer(p)) /\ Throw(p)

(* A process dies with its statics; later it is started again.             *)
Die(proc) ==
  /\ deaths < Deaths
  /\ deaths' = deaths + 1 /\ undisturbed' = FALSE
  /\ storage' = [storage EXCEPT ![proc] = NoInstances]
  /\ status' = [p \in Parties |-> IF Process(p) = proc THEN "died" ELSE status[p]]
  /\ io' = [p \in Parties |-> IF Process(p) = proc THEN None ELSE io[p]]
  /\ UNCHANGED <<build, pc, phase, round, inbox, session, rounds>>

-----------------------------------------------------------------------------
Step(p) ==
  \/ Refuse(p) \/ Reuse(p) \/ Create(p) \/ Ask(p) \/ Answer(p) \/ Answered(p)
  \/ Misread(p) \/ PeerGone(p)

Over == session = Sessions /\ \A p \in Parties : ~Running(p)

Next ==
  \/ Connect
  \/ \E p \in Parties : Step(p)
  \/ \E proc \in Processes : Die(proc)
  \/ Over /\ UNCHANGED vars

(* A thread that can go on does. *)
Fairness == \A p \in Parties : WF_vars(Step(p))

Spec == Init /\ [][Next]_vars /\ Fairness

-----------------------------------------------------------------------------
(* An instance that was made on an earlier connection and is used because  *)
(* the NetIO of this one lies at the address of that one's; that NetIO may *)
(* be gone when its messages are read.                                     *)
Recycled(p, side) ==
  LET ot == Instance(p, side)
  IN  ot # None /\ ot.session # session /\ (Running(p) => ot.io = io[p])

Other(side) == IF side = SEND THEN RECV ELSE SEND

(* The two ends of an OT are of the same setup and have made as many       *)
(* extensions of it, whatever connections, aborted ones included, and      *)
(* restarts of either process came before: instances that do not fit are   *)
(* refused before a message of theirs is read for another.  The exception  *)
(* is an OT one of whose ends is at the address of a destroyed NetIO: the  *)
(* comparison of addresses takes that for the same connection.  Of a peer  *)
(* that has died since it is the message that tells.                       *)
InStep ==
  \A p \in Parties :
    Awaits(p) /\ inbox[p] # <<>> =>
      \/ Understands(p)
      \/ Recycled(p, Call(p).side) \/ Recycled(Peer(p), Other(Call(p).side))
      \/ status[Peer(p)] = "died" /\ Head(inbox[p]).session # session

(* Where both parties find no instance they need not start again: nobody   *)
(* throws in any round of that connection, although the parties may be     *)
(* threads that share the storage, and although objects come and go.       *)
FreshConnectionsServe == undisturbed => \A p \in Parties : status[p] # "threw"

(* Every connection comes to an end for both, whether the other is done,   *)
(* has refused its instance, has died or is out of step.                   *)
SessionsEnd == \A p \in Parties : Running(p) ~> ~Running(p)
=============================================================================
