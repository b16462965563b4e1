---------------------------- MODULE NetIO_proofs ----------------------------
(***************************************************************************)
(* Proofs about NetIO, for all scripts of both parties, every size of the  *)
(* buffers and of the socket, and every choice of processes that may die:  *)
(* its type invariant, that nobody waits on unsent bytes of its own, and   *)
(* that it implements Channel.                                             *)
(*                                                                         *)
(* Proofs about the bits that go over it (Packing): bitsets in words and   *)
(* bool arrays in packed bytes arrive as they were sent, for every size    *)
(* of words and groups, every length and every alignment both share.       *)
(***************************************************************************)
EXTENDS NetIO, Packing, SequenceTheorems, WellFoundedInduction, TLAPS

(***************************************************************************)
(* The inductive invariant.                                                *)
(***************************************************************************)

(* How far the constructors are, and their descriptors.                    *)
Descriptors ==
  /\ status[SERVER] = "new" => fds[SERVER] = 0
  /\ status[SERVER] = "listening" => fds[SERVER] = 1
  /\ status[SERVER] = "open" => fds[SERVER] = 2
  /\ status[CLIENT] = "new" => link # "made" /\ (link = "none" => fds[CLIENT] = 0)
                                             /\ (link = "trying" => fds[CLIENT] = 1)
  /\ status[CLIENT] = "open" => fds[CLIENT] = 2

(* A party in recv_data_internal has flushed; what it has not flushed is   *)
(* of the send it is in, or hasSent tells of it.                           *)
SendsKnown ==
  \A p \in Party :
    /\ entered[p] => ~Returned(p) /\ Call(p).call = "recv" /\ ~hasSent[p]
    /\ sendBuf[p] # <<>> /\ ~flushing[p] =>
         hasSent[p] \/ (~Returned(p) /\ Call(p).call = "send")

(* The bytes on their way to a live party are those after the last it got; *)
(* and the sender's last is among them while it lives, too.                *)
Numbered ==
  \A p \in Party :
    Peer(p) \in up =>
      /\ \A i \in 1 .. Len(InTransit[p]) : InTransit[p][i] = got[Peer(p)] + i
      /\ p \in up => got[Peer(p)] + Len(InTransit[p]) = sent[p]

(* The type invariant in two parts: objects and streams.                   *)
ObjectsOK ==
  /\ status \in [Party -> Statuses] /\ link \in {"none", "trying", "made"}
  /\ fds \in [Party -> 0 .. 2]
  /\ \A p \in Party : status[p] = "closed" => fds[p] = 0
  /\ Descriptors

StreamsOK ==
  /\ script \in Scripts /\ pc \in [Party -> Nat \ {0}]
  /\ moved \in [Party -> Nat] /\ sent \in [Party -> Nat] /\ got \in [Party -> Nat]
  /\ entered \in [Party -> BOOLEAN] /\ flushing \in [Party -> BOOLEAN]
  /\ hasSent \in [Party -> BOOLEAN]
  /\ sendBuf \in [Party -> Seq(Nat)] /\ socket \in [Party -> Seq(Nat)]
  /\ recvBuf \in [Party -> Seq(Nat)]
  /\ \A p \in Party :
       /\ pc[p] <= Len(script[p]) + 1
       /\ Len(sendBuf[p]) <= BufferSize /\ Len(socket[p]) <= SocketSize
       /\ Len(recvBuf[p]) <= BufferSize

IInv == TypeOK /\ Descriptors /\ SendsKnown /\ Numbered

-----------------------------------------------------------------------------
LEMMA Parties ==
  /\ SERVER # CLIENT
  /\ \A p \in Party : Peer(p) \in Party /\ Peer(p) # p /\ Peer(Peer(p)) = p
  /\ \A p, q \in Party : p # q => q = Peer(p)
BY DEF Party, SERVER, CLIENT, Peer

LEMMA ScriptType ==
  ASSUME StreamsOK, NEW p \in Party
  PROVE  /\ script[p] \in Seq(Calls) /\ Len(script[p]) \in Nat /\ pc[p] \in Nat
         /\ ~Returned(p) => Call(p).len \in Nat
<1>1. script[p] \in Seq(Calls) /\ pc[p] \in Nat \ {0}
  BY ScriptsAssumption DEF StreamsOK
<1>2. Len(script[p]) \in Nat
  BY <1>1
<1>3. ~Returned(p) => Call(p) \in Calls
  BY <1>1, <1>2 DEF Returned, Call
<1> QED  BY <1>1, <1>2, <1>3 DEF Calls

(* What the buffer operations do to a queue of bytes.                      *)
LEMMA QueueOps ==
  ASSUME NEW s \in Seq(Nat), NEW b \in Nat
  PROVE  /\ Len(s) \in Nat
         /\ Append(s, b) \in Seq(Nat) /\ Len(Append(s, b)) = Len(s) + 1
         /\ s # <<>> => Head(s) \in Nat /\ Tail(s) \in Seq(Nat) /\ Len(Tail(s)) = Len(s) - 1
BY AppendProperties, HeadTailProperties, LenProperties

(* A prefix and what is left after it. *)
LEMMA CutQueue ==
  ASSUME NEW s \in Seq(Nat), NEW n \in 0 .. Len(s)
  PROVE  /\ SubSeq(s, 1, n) \in Seq(Nat) /\ Len(SubSeq(s, 1, n)) = n
         /\ SubSeq(s, n + 1, Len(s)) \in Seq(Nat)
         /\ Len(SubSeq(s, n + 1, Len(s))) = Len(s) - n
         /\ \A i \in 1 .. n : SubSeq(s, 1, n)[i] = s[i]
         /\ \A i \in 1 .. (Len(s) - n) : SubSeq(s, n + 1, Len(s))[i] = s[n + i]
         /\ SubSeq(s, 1, n) \o SubSeq(s, n + 1, Len(s)) = s
<1>1. Len(s) \in Nat /\ n \in Nat /\ n <= Len(s) /\ \A i \in 1 .. Len(s) : s[i] \in Nat
  BY LenProperties
<1>2. \A i \in 1 .. n : s[i] \in Nat
  BY <1>1
<1>3. \A i \in (n + 1) .. Len(s) : s[i] \in Nat
  BY <1>1
<1>4. /\ SubSeq(s, 1, n) \in Seq(Nat) /\ Len(SubSeq(s, 1, n)) = IF 1 <= n THEN n - 1 + 1 ELSE 0
      /\ \A i \in 1 .. (n - 1 + 1) : SubSeq(s, 1, n)[i] = s[1 + i - 1]
  BY <1>1, <1>2, SubSeqProperties
<1>5. /\ SubSeq(s, n + 1, Len(s)) \in Seq(Nat)
      /\ Len(SubSeq(s, n + 1, Len(s))) = IF n + 1 <= Len(s) THEN Len(s) - (n + 1) + 1 ELSE 0
      /\ \A i \in 1 .. (Len(s) - (n + 1) + 1) : SubSeq(s, n + 1, Len(s))[i] = s[n + 1 + i - 1]
  BY <1>1, <1>3, SubSeqProperties, SMTT(30)
<1>6. /\ Len(SubSeq(s, 1, n)) = n /\ Len(SubSeq(s, n + 1, Len(s))) = Len(s) - n
      /\ \A i \in 1 .. n : SubSeq(s, 1, n)[i] = s[i]
      /\ \A i \in 1 .. (Len(s) - n) : SubSeq(s, n + 1, Len(s))[i] = s[n + i]
  <2>1. \A i \in 1 .. n : i \in 1 .. (n - 1 + 1) /\ 1 + i - 1 = i
    BY <1>1
  <2>2. \A i \in 1 .. (Len(s) - n) : i \in 1 .. (Len(s) - (n + 1) + 1) /\ n + 1 + i - 1 = n + i
    BY <1>1
  <2>3. Len(SubSeq(s, 1, n)) = n /\ Len(SubSeq(s, n + 1, Len(s))) = Len(s) - n
    BY <1>1, <1>4, <1>5
  <2> QED  BY <1>4, <1>5, <2>1, <2>2, <2>3
<1>7. 1 \in 1 .. (Len(s) + 1) /\ n \in (1 - 1) .. Len(s) /\ Len(s) \in n .. Len(s)
  BY <1>1
<1>8. SubSeq(s, 1, n) \o SubSeq(s, n + 1, Len(s)) = SubSeq(s, 1, Len(s))
  BY <1>7, ConcatAdjacentSubSeq
<1> QED  BY <1>4, <1>5, <1>6, <1>8, SubSeqFull
-----------------------------------------------------------------------------
(***************************************************************************)
(* Types and descriptors.                                                  *)
(***************************************************************************)
LEMMA Shape == TypeOK /\ Descriptors <=> ObjectsOK /\ StreamsOK
BY DEF TypeOK, ObjectsOK, StreamsOK

LEMMA InitShape == Init => ObjectsOK /\ StreamsOK
<1> SUFFICES ASSUME Init PROVE ObjectsOK /\ StreamsOK
  OBVIOUS
<1>1. script \in Scripts /\ \A p \in Party : script[p] \in Seq(Calls)
  BY ScriptsAssumption DEF Init
<1>2. \A p \in Party : pc[p] <= Len(script[p]) + 1
  BY <1>1, LenProperties DEF Init
<1>3. <<>> \in Seq(Nat) /\ Len(<<>>) = 0
  BY EmptySeq
<1>4. StreamsOK
  BY <1>1, <1>2, <1>3, SizesAssumption DEF Init, StreamsOK
<1>5. ObjectsOK
  BY Parties DEF Init, ObjectsOK, Descriptors, Statuses, Party
<1> QED  BY <1>4, <1>5

(* The constructors. *)
LEMMA EstablishObjects ==
  ASSUME ObjectsOK, NEW p \in Party, Establish(p) \/ BindFails
  PROVE  ObjectsOK' /\ UNCHANGED streamVars
<1>1. SERVER \in Party /\ CLIENT \in Party /\ SERVER # CLIENT
  BY Parties DEF Party
<1>2. CASE Listen
  BY <1>1, <1>2 DEF Listen, ObjectsOK, Descriptors, Statuses
<1>3. CASE BindFails
  BY <1>1, <1>3 DEF BindFails, ObjectsOK, Descriptors, Statuses
<1>4. CASE Accept
  <2>1. fds' = [fds EXCEPT ![SERVER] = 2]
    BY <1>1, <1>4 DEF Accept, ObjectsOK, Descriptors
  <2> QED  BY <1>1, <1>4, <2>1 DEF Accept, ObjectsOK, Descriptors, Statuses
<1>5. CASE ClientSocket
  BY <1>1, <1>5 DEF ClientSocket, ObjectsOK, Descriptors, Statuses
<1>6. CASE Connect
  <2>1. fds' = [fds EXCEPT ![CLIENT] = 2]
    BY <1>1, <1>6 DEF Connect, ObjectsOK, Descriptors
  <2> QED  BY <1>1, <1>6, <2>1 DEF Connect, ObjectsOK, Descriptors, Statuses
<1>7. CASE Refused
  <2>1. fds' = [fds EXCEPT ![CLIENT] = 0]
    BY <1>1, <1>7 DEF Refused, ObjectsOK, Descriptors
  <2> QED  BY <1>1, <1>7, <2>1 DEF Refused, ObjectsOK, Descriptors, Statuses
<1> QED  BY <1>2, <1>3, <1>4, <1>5, <1>6, <1>7 DEF Establish

(* A call leaves the descriptors of a party that goes on alone, and no     *)
(* party that has ended has any.                                           *)
LEMMA StepObjects ==
  ASSUME ObjectsOK, NEW p \in Party, Step(p) \/ Die(p)
  PROVE  ObjectsOK'
<1>1. CASE UNCHANGED <<status, fds, link>>
  BY <1>1 DEF ObjectsOK, Descriptors
<1>2. ASSUME NEW s \in {"closed", "threw", "died"}, UNCHANGED link,
             status' = [status EXCEPT ![p] = s], fds' = [fds EXCEPT ![p] = 0]
      PROVE  ObjectsOK'
  BY <1>2, Parties DEF ObjectsOK, Descriptors, Party, Statuses
<1>3. CASE Transmit(p)
  <2>1. CASE UNCHANGED status
    <3>1. fds' = [fds EXCEPT ![p] = fds[p]]
      BY <1>3, <2>1 DEF Transmit
    <3> QED  BY <1>1, <1>3, <2>1, <3>1 DEF Transmit, ObjectsOK
  <2>2. ASSUME NEW s \in {"threw", "died"}, status' = [status EXCEPT ![p] = s]
        PROVE  ObjectsOK'
    <3>1. status'[p] # "open"
      BY <2>2 DEF ObjectsOK
    <3>2. fds' = [fds EXCEPT ![p] = 0] /\ UNCHANGED link
      BY <1>3, <3>1 DEF Transmit
    <3> QED  BY <1>2, <2>2, <3>2
  <2> QED  BY <1>3, <2>1, <2>2 DEF Transmit
<1>4. CASE Destroy(p)
  <2>1. status[p] = "open" => fds[p] = 2
    BY DEF ObjectsOK, Descriptors, Party
  <2>2. CASE sendBuf[p] # <<>>
    BY <1>1, <1>4, <2>2 DEF Destroy
  <2>3. CASE sendBuf[p] = <<>>
    <3>1. status' = [status EXCEPT ![p] = "closed"] /\ fds' = [fds EXCEPT ![p] = 0]
      BY <1>4, <2>1, <2>3 DEF Destroy, Running
    <3> QED  BY <1>2, <1>4, <3>1 DEF Destroy
  <2> QED  BY <2>2, <2>3
<1>5. CASE EndOfFile(p) \/ Die(p)
  <2>1. PICK s \in {"threw", "died"} : status' = [status EXCEPT ![p] = s]
    BY <1>5 DEF EndOfFile, Die
  <2> QED  BY <1>2, <1>5, <2>1 DEF EndOfFile, Die
<1> QED  BY <1>1, <1>3, <1>4, <1>5 DEF Step, CopyIn, BufferFull, EndSend, Flushed, FlushCall,
            EnterRecv, CopyOut, Refill, EndRecv
(* The buffers, the socket and the calls. *)
LEMMA StepStreams ==
  ASSUME StreamsOK, NEW p \in Party, Step(p) \/ Die(p)
  PROVE  StreamsOK'
<1>1. /\ sendBuf[p] \in Seq(Nat) /\ recvBuf[p] \in Seq(Nat) /\ socket[p] \in Seq(Nat)
      /\ Peer(p) \in Party /\ socket[Peer(p)] \in Seq(Nat)
      /\ BufferSize \in Nat /\ SocketSize \in Nat
  BY Parties, SizesAssumption DEF StreamsOK
<1>2. \A n, q : n \in Nat /\ q \in Seq(Nat) =>
        /\ Len(q) \in Nat
        /\ Append(q, n) \in Seq(Nat) /\ Len(Append(q, n)) = Len(q) + 1
        /\ q # <<>> => Head(q) \in Nat /\ Tail(q) \in Seq(Nat) /\ Len(Tail(q)) = Len(q) - 1
  BY QueueOps
<1>3. ASSUME NextCall(p), ~Returned(p)
      PROVE  /\ pc' \in [Party -> Nat \ {0}] /\ moved' \in [Party -> Nat]
             /\ entered' \in [Party -> BOOLEAN]
             /\ \A q \in Party : pc'[q] <= Len(script[q]) + 1
  <2>1. pc[p] \in Nat /\ Len(script[p]) \in Nat /\ pc[p] + 1 <= Len(script[p]) + 1
    BY <1>3, ScriptType DEF Returned
  <2> QED  BY <1>3, <2>1, SMTT(30) DEF NextCall, StreamsOK
<1>4. CASE CopyIn(p)
  <2>1. /\ Append(sendBuf[p], sent[p] + 1) \in Seq(Nat)
        /\ Len(Append(sendBuf[p], sent[p] + 1)) <= BufferSize
    BY <1>1, <1>2, <1>4, SMTT(30) DEF CopyIn, StreamsOK
  <2> QED  BY <1>4, <2>1 DEF CopyIn, StreamsOK
<1>5. CASE BufferFull(p) \/ Flushed(p) \/ EndOfFile(p) \/ Destroy(p)
  BY <1>5 DEF BufferFull, Flushed, EndOfFile, Destroy, SameCall, StreamsOK
<1>6. CASE EndSend(p) \/ FlushCall(p) \/ EndRecv(p)
  <2>1. NextCall(p) /\ ~Returned(p)
    BY <1>6 DEF EndSend, FlushCall, EndRecv, In
  <2> QED  BY <1>3, <1>6, <2>1 DEF EndSend, FlushCall, EndRecv, StreamsOK
<1>7. CASE Transmit(p)
  <2>1. sendBuf[p] # <<>>
    BY <1>7 DEF Transmit
  <2>2. /\ Tail(sendBuf[p]) \in Seq(Nat) /\ Len(Tail(sendBuf[p])) <= BufferSize
        /\ Append(socket[p], Head(sendBuf[p])) \in Seq(Nat)
        /\ Len(socket[p]) < SocketSize => Len(Append(socket[p], Head(sendBuf[p]))) <= SocketSize
    BY <1>1, <1>2, <2>1, SMTT(30) DEF StreamsOK
  <2>3. /\ sendBuf' = [sendBuf EXCEPT ![p] = Tail(@)] \/ UNCHANGED sendBuf
        /\ \/ UNCHANGED socket
           \/ /\ Len(socket[p]) < SocketSize
              /\ socket' = [socket EXCEPT ![p] = Append(@, Head(sendBuf[p]))]
        /\ UNCHANGED <<script, pc, moved, entered, flushing, hasSent, recvBuf, sent, got>>
    BY <1>7 DEF Transmit, SameCall
  <2>4. /\ sendBuf' \in [Party -> Seq(Nat)] /\ socket' \in [Party -> Seq(Nat)]
        /\ \A q \in Party : Len(sendBuf'[q]) <= BufferSize /\ Len(socket'[q]) <= SocketSize
    BY <2>2, <2>3, ZenonT(40) DEF StreamsOK
  <2> QED  BY <2>3, <2>4 DEF StreamsOK
<1>8. CASE EnterRecv(p)
  BY <1>8 DEF EnterRecv, StreamsOK
<1>9. CASE CopyOut(p)
  <2>1. /\ Head(recvBuf[p]) \in Nat /\ Tail(recvBuf[p]) \in Seq(Nat)
        /\ Len(Tail(recvBuf[p])) <= BufferSize
    BY <1>1, <1>2, <1>9 DEF CopyOut, StreamsOK
  <2> QED  BY <1>9, <2>1, SMTT(30) DEF CopyOut, StreamsOK
<1>10. CASE Refill(p)
  <2> DEFINE s == socket[Peer(p)]
             n == IF Len(s) < BufferSize THEN Len(s) ELSE BufferSize
  <2>1. n \in 0 .. Len(s) /\ n <= BufferSize
    BY <1>1, <1>2
  <2> HIDE DEF n
  <2>2. /\ SubSeq(s, 1, n) \in Seq(Nat) /\ Len(SubSeq(s, 1, n)) <= BufferSize
        /\ SubSeq(s, n + 1, Len(s)) \in Seq(Nat)
        /\ Len(SubSeq(s, n + 1, Len(s))) <= SocketSize
    <3>1. Len(s) <= SocketSize /\ Len(s) \in Nat
      BY <1>1, <1>2 DEF StreamsOK
    <3> QED  BY <1>1, <2>1, <3>1, CutQueue
  <2>3. /\ recvBuf' = [recvBuf EXCEPT ![p] = SubSeq(s, 1, n)]
        /\ socket' = [socket EXCEPT ![Peer(p)] = SubSeq(s, n + 1, Len(s))]
        /\ UNCHANGED <<script, pc, moved, entered, flushing, hasSent, sendBuf, sent, got>>
    BY <1>10 DEF Refill, SameCall, n
  <2> QED  BY <1>1, <2>2, <2>3 DEF StreamsOK
<1>11. CASE Die(p)
  <2>1. PICK n \in 0 .. Len(socket[p]) : socket' = [socket EXCEPT ![p] = SubSeq(@, 1, n)]
    BY <1>11 DEF Die
  <2>2. SubSeq(socket[p], 1, n) \in Seq(Nat) /\ Len(SubSeq(socket[p], 1, n)) <= SocketSize
    <3>1. Len(socket[p]) <= SocketSize /\ Len(socket[p]) \in Nat
      BY <1>1, <1>2 DEF StreamsOK
    <3> QED  BY <1>1, <3>1, CutQueue
  <2>3. <<>> \in Seq(Nat) /\ Len(<<>>) = 0
    BY EmptySeq
  <2>4. sendBuf' = [sendBuf EXCEPT ![p] = <<>>]
        /\ UNCHANGED <<script, pc, moved, entered, flushing, hasSent, recvBuf, sent, got>>
    BY <1>11 DEF Die, SameCall
  <2>5. /\ sendBuf' \in [Party -> Seq(Nat)] /\ socket' \in [Party -> Seq(Nat)]
        /\ \A q \in Party : Len(sendBuf'[q]) <= BufferSize /\ Len(socket'[q]) <= SocketSize
    <3> DEFINE kept == SubSeq(socket[p], 1, n)
    <3>1. kept \in Seq(Nat) /\ Len(kept) <= SocketSize /\ socket' = [socket EXCEPT ![p] = kept]
      BY <2>1, <2>2
    <3> HIDE DEF kept
    <3>2. socket' \in [Party -> Seq(Nat)] /\ \A q \in Party : Len(socket'[q]) <= SocketSize
      BY <3>1 DEF StreamsOK
    <3>3. sendBuf' \in [Party -> Seq(Nat)] /\ \A q \in Party : Len(sendBuf'[q]) <= BufferSize
      BY <1>1, <2>3, <2>4, SMTT(30) DEF StreamsOK
    <3> QED  BY <3>2, <3>3
  <2> QED  BY <2>4, <2>5 DEF StreamsOK
<1> QED  BY <1>4, <1>5, <1>6, <1>7, <1>8, <1>9, <1>10, <1>11 DEF Step

-----------------------------------------------------------------------------
(***************************************************************************)
(* Nobody waits on unsent bytes of its own.                                *)
(***************************************************************************)
LEMMA StepSends ==
  ASSUME StreamsOK, ObjectsOK, SendsKnown, NEW p \in Party, Step(p) \/ Die(p)
  PROVE  SendsKnown'
<1> DEFINE Known(q) == /\ entered[q] => ~Returned(q) /\ Call(q).call = "recv" /\ ~hasSent[q]
                       /\ sendBuf[q] # <<>> /\ ~flushing[q] =>
                            hasSent[q] \/ (~Returned(q) /\ Call(q).call = "send")
<1>1. UNCHANGED script /\ \A q \in Party : Known(q)
  BY DEF SendsKnown, Step, CopyIn, BufferFull, EndSend, Transmit, Flushed, FlushCall, EnterRecv,
     CopyOut, Refill, EndOfFile, EndRecv, Destroy, Die
<1>2. ASSUME NEW q \in Party, q # p PROVE Known(q)'
  <2>1. /\ pc'[q] = pc[q] /\ entered'[q] = entered[q] /\ flushing'[q] = flushing[q]
        /\ hasSent'[q] = hasSent[q] /\ sendBuf'[q] = sendBuf[q]
    BY <1>2 DEF StreamsOK, Step, CopyIn, BufferFull, EndSend, Transmit, Flushed,
       FlushCall, EnterRecv, CopyOut, Refill, EndOfFile, EndRecv, Destroy, Die, NextCall, SameCall
  <2> QED  BY <1>1, <1>2, <2>1 DEF Returned, Call
<1>3. Known(p)'
  <2> USE DEF Returned, Call
  <2>1. CASE CopyIn(p)
    BY <1>1, <2>1 DEF CopyIn, In, StreamsOK
  <2>2. CASE BufferFull(p) \/ Destroy(p)
    BY <1>1, <2>2 DEF BufferFull, Destroy, SameCall, StreamsOK, ObjectsOK
  <2>3. CASE EndSend(p)
    BY <1>1, <2>3 DEF EndSend, NextCall, StreamsOK
  <2>4. CASE Transmit(p)
    <3>1. flushing[p] /\ UNCHANGED <<script, pc, entered, flushing, hasSent>>
      BY <2>4 DEF Transmit, SameCall
    <3> QED  BY <1>1, <3>1
  <2>5. CASE Flushed(p)
    BY <1>1, <2>5 DEF Flushed, SameCall
  <2>6. CASE FlushCall(p)
    BY <1>1, <2>6 DEF FlushCall, NextCall, StreamsOK
  <2>7. CASE EnterRecv(p)
    BY <1>1, <2>7 DEF EnterRecv, In, Running, StreamsOK
  <2>8. CASE CopyOut(p) \/ Refill(p)
    BY <1>1, <2>8 DEF CopyOut, Refill, SameCall
  <2>9. CASE EndOfFile(p)
    BY <1>1, <2>9 DEF EndOfFile, SameCall, ObjectsOK
  <2>10. CASE EndRecv(p)
    BY <1>1, <2>10 DEF EndRecv, In, Running, NextCall, StreamsOK
  <2>11. CASE Die(p)
    BY <1>1, <2>11 DEF Die, SameCall, StreamsOK
  <2> QED  BY <2>1, <2>2, <2>3, <2>4, <2>5, <2>6, <2>7, <2>8, <2>9, <2>10, <2>11 DEF Step
<1> QED  BY <1>2, <1>3 DEF SendsKnown

LEMMA WaitsUnsent ==
  ASSUME SendsKnown
  PROVE  NeverWaitsUnsent
BY DEF SendsKnown, NeverWaitsUnsent, Reading, In, Running

-----------------------------------------------------------------------------
(***************************************************************************)
(* A stream is three queues, one after the other: what the receiver has    *)
(* read from the socket, what the socket holds, what the sender buffers.   *)
(***************************************************************************)
LEMMA ThreeQueues ==
  ASSUME NEW r \in Seq(Nat), NEW s \in Seq(Nat), NEW t \in Seq(Nat)
  PROVE  /\ r \o s \o t \in Seq(Nat) /\ Len(r \o s \o t) = Len(r) + Len(s) + Len(t)
         /\ Len(r) \in Nat /\ Len(s) \in Nat /\ Len(t) \in Nat
         /\ \A i \in 1 .. Len(r \o s \o t) :
              (r \o s \o t)[i] = IF i <= Len(r) THEN r[i]
                                ELSE IF i <= Len(r) + Len(s) THEN s[i - Len(r)]
                                ELSE t[i - Len(r) - Len(s)]
<1>1. Len(r) \in Nat /\ Len(s) \in Nat /\ Len(t) \in Nat
  BY LenProperties
<1>2. /\ r \o s \in Seq(Nat) /\ Len(r \o s) = Len(r) + Len(s)
      /\ \A i \in 1 .. Len(r) + Len(s) :
           (r \o s)[i] = IF i <= Len(r) THEN r[i] ELSE s[i - Len(r)]
  BY ConcatProperties
<1>3. /\ r \o s \o t \in Seq(Nat) /\ Len(r \o s \o t) = Len(r \o s) + Len(t)
      /\ \A i \in 1 .. Len(r \o s) + Len(t) :
           (r \o s \o t)[i] = IF i <= Len(r \o s) THEN (r \o s)[i] ELSE t[i - Len(r \o s)]
  BY <1>2, ConcatProperties
<1>4. ASSUME NEW i \in 1 .. Len(r \o s \o t)
      PROVE  (r \o s \o t)[i] = IF i <= Len(r) THEN r[i]
                                ELSE IF i <= Len(r) + Len(s) THEN s[i - Len(r)]
                                ELSE t[i - Len(r) - Len(s)]
  <2>1. CASE i <= Len(r) + Len(s)
    <3>1. (r \o s \o t)[i] = (r \o s)[i] /\ i \in 1 .. Len(r) + Len(s)
      BY <1>1, <1>2, <1>3, <2>1
    <3>2. i <= Len(r) => i <= Len(r) + Len(s)
      BY <1>1
    <3> QED  BY <1>2, <2>1, <3>1, <3>2
  <2>2. CASE ~(i <= Len(r) + Len(s))
    <3>1. ~(i <= Len(r)) /\ i - Len(r \o s) = i - Len(r) - Len(s)
      BY <1>1, <1>2, <2>2
    <3>2. (r \o s \o t)[i] = t[i - Len(r \o s)]
      BY <1>2, <1>3, <2>2
    <3> QED  BY <2>2, <3>1, <3>2
  <2> QED  BY <2>1, <2>2
<1> QED  BY <1>1, <1>2, <1>3, <1>4

(* A byte into the sender's buffer goes to the end of the stream.          *)
LEMMA IntoBuffer ==
  ASSUME NEW r \in Seq(Nat), NEW s \in Seq(Nat), NEW t \in Seq(Nat), NEW b \in Nat
  PROVE  r \o s \o Append(t, b) = Append(r \o s \o t, b)
<1>1. r \o s \in Seq(Nat) /\ r \o s \o t \in Seq(Nat) /\ <<b>> \in Seq(Nat)
  BY ConcatProperties
<1> QED  BY <1>1, AppendIsConcat, ConcatAssociative, SMTT(30)

(* From the sender's buffer into the socket.                               *)
LEMMA IntoSocket ==
  ASSUME NEW r \in Seq(Nat), NEW s \in Seq(Nat), NEW t \in Seq(Nat), t # <<>>
  PROVE  r \o Append(s, Head(t)) \o Tail(t) = r \o s \o t
<1> DEFINE h == Head(t)
<1>1. h \in Nat /\ Tail(t) \in Seq(Nat) /\ <<h>> \in Seq(Nat) /\ r \o s \in Seq(Nat)
  BY HeadTailProperties, ConcatProperties
<1>2. t = <<h>> \o Tail(t)
  <2>1. Len(t) \in Nat /\ Len(t) # 0
    BY EmptySeq
  <2>2. 1 \in 1 .. Len(t) /\ Len(t) \in 1 .. Len(t)
    BY <2>1
  <2>3. SubSeq(t, 1, Len(t)) = <<t[1]>> \o SubSeq(t, 1 + 1, Len(t))
    BY <2>2, SubSeqRecursiveFirst
  <2>4. t[1] = h /\ 1 + 1 = 2
    OBVIOUS
  <2> QED  BY <2>3, <2>4, SubSeqFull, TailIsSubSeq
<1> HIDE DEF h
<1>3. r \o Append(s, h) = (r \o s) \o <<h>>
  BY <1>1, AppendIsConcat, ConcatAssociative
<1>4. (r \o s) \o <<h>> \o Tail(t) = (r \o s) \o (<<h>> \o Tail(t))
  BY <1>1, ConcatAssociative, SMTT(30)
<1>5. r \o Append(s, h) \o Tail(t) = r \o s \o t
  BY <1>2, <1>3, <1>4
<1> QED  BY <1>5 DEF h

(* Out of the receiver's buffer comes the head of the stream.              *)
LEMMA OutOfBuffer ==
  ASSUME NEW r \in Seq(Nat), NEW s \in Seq(Nat), NEW t \in Seq(Nat), r # <<>>
  PROVE  /\ r \o s \o t # <<>> /\ Head(r \o s \o t) = Head(r)
         /\ Tail(r) \o s \o t = Tail(r \o s \o t)
<1> DEFINE all == r \o s \o t
           rest == Tail(r) \o s \o t
<1>1. /\ Tail(r) \in Seq(Nat) /\ Len(Tail(r)) = Len(r) - 1 /\ Len(r) \in Nat \ {0}
      /\ \A i \in 1 .. Len(Tail(r)) : Tail(r)[i] = r[i + 1]
  BY HeadTailProperties, EmptySeq
<1>2. /\ all \in Seq(Nat) /\ Len(all) = Len(r) + Len(s) + Len(t)
      /\ Len(s) \in Nat /\ Len(t) \in Nat
      /\ \A i \in 1 .. Len(all) :
           all[i] = IF i <= Len(r) THEN r[i]
                    ELSE IF i <= Len(r) + Len(s) THEN s[i - Len(r)]
                    ELSE t[i - Len(r) - Len(s)]
  BY ThreeQueues
<1>3. /\ rest \in Seq(Nat) /\ Len(rest) = Len(Tail(r)) + Len(s) + Len(t)
      /\ \A i \in 1 .. Len(rest) :
           rest[i] = IF i <= Len(Tail(r)) THEN Tail(r)[i]
                     ELSE IF i <= Len(Tail(r)) + Len(s) THEN s[i - Len(Tail(r))]
                     ELSE t[i - Len(Tail(r)) - Len(s)]
  BY <1>1, ThreeQueues
<1> HIDE DEF all, rest
<1>4. all # <<>> /\ all[1] = r[1]
  <2>1. Len(all) # 0 /\ 1 \in 1 .. Len(all) /\ 1 <= Len(r)
    BY <1>1, <1>2
  <2>2. all[1] = r[1]
    BY <1>2, <2>1
  <2> QED  BY <2>1, <2>2, EmptySeq
<1>5. /\ Tail(all) \in Seq(Nat) /\ Len(Tail(all)) = Len(all) - 1
      /\ \A i \in 1 .. Len(Tail(all)) : Tail(all)[i] = all[i + 1]
  BY <1>2, <1>4, HeadTailProperties
<1>6. ASSUME NEW i \in 1 .. Len(rest) PROVE rest[i] = Tail(all)[i]
  <2>1. i \in 1 .. Len(Tail(all)) /\ i + 1 \in 1 .. Len(all) /\ Len(rest) = Len(Tail(all))
    BY <1>1, <1>2, <1>3, <1>5
  <2>2. CASE i <= Len(Tail(r))
    BY <1>1, <1>2, <1>3, <1>5, <2>1, <2>2
  <2>3. CASE ~(i <= Len(Tail(r))) /\ i <= Len(Tail(r)) + Len(s)
    <3>1. i - Len(Tail(r)) = (i + 1) - Len(r) /\ ~(i + 1 <= Len(r)) /\ i + 1 <= Len(r) + Len(s)
      BY <1>1, <1>2, <2>3
    <3> QED  BY <1>2, <1>3, <1>5, <2>1, <2>3, <3>1
  <2>4. CASE ~(i <= Len(Tail(r)) + Len(s))
    <3>1. /\ i - Len(Tail(r)) - Len(s) = (i + 1) - Len(r) - Len(s)
          /\ ~(i + 1 <= Len(r)) /\ ~(i + 1 <= Len(r) + Len(s)) /\ ~(i <= Len(Tail(r)))
      BY <1>1, <1>2, <2>4
    <3> QED  BY <1>2, <1>3, <1>5, <2>1, <2>4, <3>1
  <2> QED  BY <2>2, <2>3, <2>4
<1>7. Len(rest) = Len(Tail(all))
  BY <1>1, <1>2, <1>3, <1>5
<1>8. rest = Tail(all)
  BY <1>3, <1>5, <1>6, <1>7, SeqEqual
<1> QED  BY <1>4, <1>8, SMTT(30) DEF all, rest

(* From the socket into the receiver's empty buffer.                       *)
LEMMA Refilled ==
  ASSUME NEW s \in Seq(Nat), NEW t \in Seq(Nat), NEW n \in 0 .. Len(s)
  PROVE  SubSeq(s, 1, n) \o SubSeq(s, n + 1, Len(s)) \o t = <<>> \o s \o t
BY CutQueue, ConcatEmptySeq

(* What is left when the sender's buffer is lost and the socket cut.       *)
LEMMA CutShort ==
  ASSUME NEW r \in Seq(Nat), NEW s \in Seq(Nat), NEW t \in Seq(Nat), NEW n \in 0 .. Len(s)
  PROVE  /\ Len(r) + n \in 0 .. Len(r \o s \o t)
         /\ r \o SubSeq(s, 1, n) \o <<>> = SubSeq(r \o s \o t, 1, Len(r) + n)
<1> DEFINE all == r \o s \o t
           cut == SubSeq(s, 1, n)
           kept == r \o cut
<1>1. /\ all \in Seq(Nat) /\ Len(all) = Len(r) + Len(s) + Len(t)
      /\ Len(r) \in Nat /\ Len(s) \in Nat /\ Len(t) \in Nat
      /\ \A i \in 1 .. Len(all) :
           all[i] = IF i <= Len(r) THEN r[i]
                    ELSE IF i <= Len(r) + Len(s) THEN s[i - Len(r)]
                    ELSE t[i - Len(r) - Len(s)]
  BY ThreeQueues
<1>2. cut \in Seq(Nat) /\ Len(cut) = n /\ \A i \in 1 .. n : cut[i] = s[i]
  BY CutQueue
<1> HIDE DEF cut
<1>3. /\ kept \in Seq(Nat) /\ Len(kept) = Len(r) + n
      /\ \A i \in 1 .. Len(r) + n :
           kept[i] = IF i <= Len(r) THEN r[i] ELSE cut[i - Len(r)]
  BY <1>2, ConcatProperties
<1> HIDE DEF all, kept
<1>4. Len(r) + n \in 0 .. Len(all)
  BY <1>1
<1>5. /\ SubSeq(all, 1, Len(r) + n) \in Seq(Nat) /\ Len(SubSeq(all, 1, Len(r) + n)) = Len(r) + n
      /\ \A i \in 1 .. Len(r) + n : SubSeq(all, 1, Len(r) + n)[i] = all[i]
  BY <1>1, <1>4, CutQueue
<1>6. ASSUME NEW i \in 1 .. Len(r) + n PROVE kept[i] = all[i]
  <2>1. i \in 1 .. Len(all)
    BY <1>1
  <2>2. CASE i <= Len(r)
    BY <1>1, <1>3, <2>1, <2>2
  <2>3. CASE ~(i <= Len(r))
    <3>1. i - Len(r) \in 1 .. n /\ i <= Len(r) + Len(s)
      BY <1>1, <2>3
    <3> QED  BY <1>1, <1>2, <1>3, <2>1, <2>3, <3>1
  <2> QED  BY <2>2, <2>3
<1>7. kept = SubSeq(all, 1, Len(r) + n)
  BY <1>3, <1>5, <1>6, SeqEqual
<1>8. kept \o <<>> = kept
  BY <1>3, ConcatEmptySeq
<1> QED  BY <1>4, <1>7, <1>8 DEF all, kept, cut

(* What is left when a write takes a byte that nobody will read.           *)
LEMMA HeadDropped ==
  ASSUME NEW r \in Seq(Nat), NEW s \in Seq(Nat), NEW t \in Seq(Nat), t # <<>>
  PROVE  \E n \in DOMAIN (r \o s \o t) :
           r \o s \o Tail(t) = SubSeq(r \o s \o t, 1, n - 1)
                                \o SubSeq(r \o s \o t, n + 1, Len(r \o s \o t))
<1> DEFINE front == r \o s
           all == front \o t
           k == Len(front)
<1>1. /\ front \in Seq(Nat) /\ k \in Nat /\ Len(t) \in Nat /\ Len(t) # 0
      /\ all \in Seq(Nat) /\ Len(all) = k + Len(t)
      /\ \A i \in 1 .. k + Len(t) : all[i] = IF i <= k THEN front[i] ELSE t[i - k]
  BY ConcatProperties, EmptySeq, LenProperties
<1>2. /\ Tail(t) \in Seq(Nat) /\ Len(Tail(t)) = Len(t) - 1
      /\ \A i \in 1 .. Len(Tail(t)) : Tail(t)[i] = t[i + 1]
  BY HeadTailProperties
<1> HIDE DEF front, all, k
<1>3. k \in 0 .. Len(all) /\ k + 1 \in 0 .. Len(all) /\ k + 1 \in 1 .. Len(all)
  BY <1>1
<1>4. /\ SubSeq(all, 1, k) \in Seq(Nat) /\ Len(SubSeq(all, 1, k)) = k
      /\ \A i \in 1 .. k : SubSeq(all, 1, k)[i] = all[i]
  BY <1>1, <1>3, CutQueue
<1>5. /\ SubSeq(all, k + 1 + 1, Len(all)) \in Seq(Nat)
      /\ Len(SubSeq(all, k + 1 + 1, Len(all))) = Len(all) - (k + 1)
      /\ \A i \in 1 .. (Len(all) - (k + 1)) :
           SubSeq(all, k + 1 + 1, Len(all))[i] = all[k + 1 + i]
  BY <1>1, <1>3, CutQueue
<1>6. SubSeq(all, 1, k) = front
  <2>1. \A i \in 1 .. k : SubSeq(all, 1, k)[i] = front[i]
    BY <1>1, <1>4
  <2> QED  BY <1>1, <1>4, <2>1, SeqEqual DEF k
<1>7. SubSeq(all, k + 1 + 1, Len(all)) = Tail(t)
  <2>1. Len(all) - (k + 1) = Len(Tail(t))
    BY <1>1, <1>2
  <2>2. ASSUME NEW i \in 1 .. Len(Tail(t))
        PROVE  SubSeq(all, k + 1 + 1, Len(all))[i] = Tail(t)[i]
    <3>1. /\ k + 1 + i \in 1 .. k + Len(t) /\ ~(k + 1 + i <= k) /\ (k + 1 + i) - k = i + 1
          /\ i \in 1 .. (Len(all) - (k + 1))
      BY <1>1, <1>2
    <3> QED  BY <1>1, <1>2, <1>5, <3>1
  <2> QED  BY <1>2, <1>5, <2>1, <2>2, SeqEqual
<1>8. k + 1 \in DOMAIN all /\ (k + 1) - 1 = k
  BY <1>1, <1>3, LenProperties
<1>9. front \o Tail(t) = SubSeq(all, 1, (k + 1) - 1) \o SubSeq(all, (k + 1) + 1, Len(all))
  BY <1>6, <1>7, <1>8
<1> QED  BY <1>8, <1>9 DEF front, all

-----------------------------------------------------------------------------
(***************************************************************************)
(* Every step is one of Channel's, or leaves the streams alone.            *)
(***************************************************************************)
LEMMA StreamTypes ==
  ASSUME StreamsOK
  PROVE  /\ InTransit \in [Party -> Seq(Nat)]
         /\ \A p \in Party :
              /\ recvBuf[Peer(p)] \in Seq(Nat) /\ socket[p] \in Seq(Nat) /\ sendBuf[p] \in Seq(Nat)
              /\ InTransit[p] = recvBuf[Peer(p)] \o socket[p] \o sendBuf[p]
<1>1. \A p \in Party :
        recvBuf[Peer(p)] \in Seq(Nat) /\ socket[p] \in Seq(Nat) /\ sendBuf[p] \in Seq(Nat)
  BY Parties DEF StreamsOK
<1>2. \A p \in Party : recvBuf[Peer(p)] \o socket[p] \o sendBuf[p] \in Seq(Nat)
  BY <1>1, ThreeQueues
<1> QED  BY <1>1, <1>2 DEF InTransit

(* The end of a party's object, with its stream as it is or cut short.     *)
LEMMA EndOfParty ==
  ASSUME ObjectsOK, NEW p \in Party, Alive(p),
         NEW s \in {"closed", "threw", "unbound", "died"}, status' = [status EXCEPT ![p] = s]
  PROVE  p \in up /\ up' = up \ {p}
BY DEF ObjectsOK, up, Alive

LEMMA WholeStream ==
  ASSUME StreamsOK, NEW p \in Party
  PROVE  \E n \in 0 .. Len(InTransit[p]) :
           InTransit = [InTransit EXCEPT ![p] = SubSeq(@, 1, n)]
<1>1. InTransit \in [Party -> Seq(Nat)] /\ InTransit[p] \in Seq(Nat)
  BY StreamTypes
<1>2. Len(InTransit[p]) \in 0 .. Len(InTransit[p])
  BY <1>1, LenProperties
<1>3. InTransit = [InTransit EXCEPT ![p] = SubSeq(@, 1, Len(InTransit[p]))]
  BY <1>1, SubSeqFull
<1> QED  BY <1>2, <1>3

LEMMA EstablishChannel ==
  ASSUME StreamsOK, ObjectsOK, NEW p \in Party, Establish(p) \/ BindFails
  PROVE  [IdealChannel!ChannelNext]_<<sent, InTransit, got, up>>
<1>1. UNCHANGED <<sent, InTransit, got>>
  <2>1. UNCHANGED streamVars
    BY EstablishObjects
  <2> QED  BY <2>1 DEF streamVars, InTransit
<1>2. CASE BindFails
  <2>1. SERVER \in Party /\ Alive(SERVER)
    BY <1>2 DEF BindFails, Party, Alive
  <2>2. SERVER \in up /\ up' = up \ {SERVER}
    BY <1>2, <2>1, EndOfParty DEF BindFails
  <2>3. IdealChannel!Leave(SERVER)
    BY <1>1, <2>1, <2>2, WholeStream DEF IdealChannel!Leave
  <2> QED  BY <2>1, <2>3 DEF IdealChannel!ChannelNext
<1>3. CASE Establish(p)
  <2>1. UNCHANGED up
    BY <1>3 DEF Establish, Listen, Accept, ClientSocket, Connect, Refused, ObjectsOK, up, Alive
  <2> QED  BY <1>1, <2>1
<1> QED  BY <1>2, <1>3

(* A byte that the next call may take has the number it should have.       *)
LEMMA NextByte ==
  ASSUME StreamsOK, Numbered, NEW p \in Party, p \in up, InTransit[Peer(p)] # <<>>
  PROVE  Head(InTransit[Peer(p)]) = got[p] + 1
<1> DEFINE q == Peer(p)
<1>1. q \in Party /\ Peer(q) = p /\ InTransit[q] \in Seq(Nat)
  BY Parties, StreamTypes
<1>2. 1 \in 1 .. Len(InTransit[q]) /\ Head(InTransit[q]) = InTransit[q][1]
  BY <1>1, EmptySeq
<1> QED  BY <1>1, <1>2 DEF Numbered

LEMMA StepChannel ==
  ASSUME StreamsOK, ObjectsOK, Numbered, NEW p \in Party, Step(p) \/ Die(p)
  PROVE  [IdealChannel!ChannelNext]_<<sent, InTransit, got, up>>
<1> DEFINE q == Peer(p)
           r == recvBuf[q]
           s == socket[p]
           t == sendBuf[p]
           goal == [IdealChannel!ChannelNext]_<<sent, InTransit, got, up>>
<1>1. q \in Party /\ q # p /\ Peer(q) = p /\ \A z \in Party : z = p \/ z = q
  BY Parties
<1>2. /\ r \in Seq(Nat) /\ s \in Seq(Nat) /\ t \in Seq(Nat) /\ InTransit[p] = r \o s \o t
      /\ InTransit \in [Party -> Seq(Nat)]
      /\ recvBuf[p] \in Seq(Nat) /\ socket[q] \in Seq(Nat) /\ sendBuf[q] \in Seq(Nat)
      /\ InTransit[q] = recvBuf[p] \o socket[q] \o sendBuf[q]
  BY <1>1, StreamTypes
<1>3. UNCHANGED status => UNCHANGED up
  BY DEF up, Alive
<1>4. UNCHANGED <<sendBuf, socket, recvBuf>> => UNCHANGED InTransit
  BY DEF InTransit
<1>5. ASSUME NEW e \in {"closed", "threw", "died"}, status' = [status EXCEPT ![p] = e], Alive(p),
             UNCHANGED <<sendBuf, socket, recvBuf, sent, got>>
      PROVE  goal
  <2>1. p \in up /\ up' = up \ {p}
    BY <1>5, EndOfParty
  <2>2. IdealChannel!Leave(p)
    BY <1>4, <1>5, <2>1, WholeStream DEF IdealChannel!Leave
  <2> QED  BY <2>2 DEF IdealChannel!ChannelNext
<1>6. CASE CopyIn(p)
  <2>1. p \in up
    BY <1>6 DEF CopyIn, In, Running, up, Alive
  <2>2. /\ sendBuf' = [sendBuf EXCEPT ![p] = Append(@, sent[p] + 1)]
        /\ sent' = [sent EXCEPT ![p] = @ + 1]
        /\ UNCHANGED <<socket, recvBuf, got, status>>
    BY <1>6 DEF CopyIn
  <2>3. InTransit'[p] = Append(InTransit[p], sent[p] + 1) /\ InTransit'[q] = InTransit[q]
    <3>1. sent[p] + 1 \in Nat
      BY DEF StreamsOK
    <3>2. InTransit'[p] = r \o s \o Append(t, sent[p] + 1)
      BY <1>1, <2>2 DEF InTransit, StreamsOK
    <3>3. InTransit'[q] = InTransit[q]
      BY <1>1, <2>2 DEF InTransit, StreamsOK
    <3>4. r \o s \o Append(t, sent[p] + 1) = Append(r \o s \o t, sent[p] + 1)
      <4> DEFINE b == sent[p] + 1
      <4>1. r \in Seq(Nat) /\ s \in Seq(Nat) /\ t \in Seq(Nat) /\ b \in Nat
        BY <1>2, <3>1
      <4> HIDE DEF r, s, t, b
      <4>2. r \o s \o Append(t, b) = Append(r \o s \o t, b)
        BY <4>1, IntoBuffer
      <4> QED  BY <4>2 DEF b
    <3> QED  BY <1>2, <3>2, <3>3, <3>4, Zenon
  <2>4. InTransit' = [InTransit EXCEPT ![p] = Append(@, sent[p] + 1)]
    BY <1>1, <1>2, <2>3 DEF InTransit
  <2>5. IdealChannel!SendByte(p)
    BY <1>3, <2>1, <2>2, <2>4 DEF IdealChannel!SendByte
  <2> QED  BY <2>5 DEF IdealChannel!ChannelNext
<1>7. CASE \/ BufferFull(p) \/ EndSend(p) \/ Flushed(p) \/ FlushCall(p) \/ EnterRecv(p)
           \/ EndRecv(p)
  BY <1>3, <1>4, <1>7 DEF BufferFull, EndSend, Flushed, FlushCall, EnterRecv, EndRecv
<1>8. CASE Transmit(p)
  <2>1. /\ t # <<>> /\ Alive(p) /\ UNCHANGED <<recvBuf, sent, got>>
    BY <1>8 DEF Transmit, Alive
  <2>2. CASE /\ socket' = [socket EXCEPT ![p] = Append(@, Head(sendBuf[p]))]
             /\ sendBuf' = [sendBuf EXCEPT ![p] = Tail(@)]
             /\ UNCHANGED status
    <3>1. InTransit'[p] = r \o Append(s, Head(t)) \o Tail(t) /\ InTransit'[q] = InTransit[q]
      BY <1>1, <2>1, <2>2 DEF InTransit, StreamsOK
    <3>2. InTransit'[p] = InTransit[p]
      BY <1>2, <2>1, <3>1, IntoSocket, ZenonT(40)
    <3>3. UNCHANGED InTransit
      BY <1>1, <1>2, <3>1, <3>2 DEF InTransit
    <3> QED  BY <1>3, <2>1, <2>2, <3>3
  <2>3. CASE /\ ~Alive(Peer(p)) /\ sendBuf' = [sendBuf EXCEPT ![p] = Tail(@)]
             /\ UNCHANGED <<socket, status>>
    <3>1. InTransit'[p] = r \o s \o Tail(t) /\ InTransit'[q] = InTransit[q]
      BY <1>1, <2>1, <2>3 DEF InTransit, StreamsOK
    <3>2. PICK n \in DOMAIN InTransit[p] :
            InTransit'[p] = SubSeq(InTransit[p], 1, n - 1)
                              \o SubSeq(InTransit[p], n + 1, Len(InTransit[p]))
      <4>1. \E n \in DOMAIN (r \o s \o t) :
              r \o s \o Tail(t) = SubSeq(r \o s \o t, 1, n - 1)
                                   \o SubSeq(r \o s \o t, n + 1, Len(r \o s \o t))
        <5>1. r \in Seq(Nat) /\ s \in Seq(Nat) /\ t \in Seq(Nat) /\ t # <<>>
          BY <1>2, <2>1
        <5> HIDE DEF r, s, t
        <5> QED  BY <5>1, HeadDropped
      <4> QED  BY <1>2, <3>1, <4>1, Zenon
    <3>3. InTransit' = [InTransit EXCEPT ![p] = SubSeq(@, 1, n - 1) \o SubSeq(@, n + 1, Len(@))]
      BY <1>1, <1>2, <3>1, <3>2 DEF InTransit
    <3>4. Peer(p) \notin up
      BY <2>3 DEF up
    <3>5. IdealChannel!DropByte(p)
      BY <1>3, <2>1, <2>3, <3>3, <3>4 DEF IdealChannel!DropByte
    <3> QED  BY <3>5 DEF IdealChannel!ChannelNext
  <2>4. CASE /\ status' \in {[status EXCEPT ![p] = "threw"], [status EXCEPT ![p] = "died"]}
             /\ UNCHANGED <<sendBuf, socket>>
    BY <1>5, <2>1, <2>4
  <2> QED  BY <1>8, <2>2, <2>3, <2>4 DEF Transmit
<1>9. CASE CopyOut(p)
  <2>1. /\ p \in up /\ recvBuf[p] # <<>>
        /\ recvBuf' = [recvBuf EXCEPT ![p] = Tail(@)]
        /\ got' = [got EXCEPT ![p] = Head(recvBuf[p])]
        /\ UNCHANGED <<sendBuf, socket, sent, status>>
    BY <1>9 DEF CopyOut, Reading, In, Running, up, Alive
  <2>2. /\ InTransit[q] # <<>> /\ Head(InTransit[q]) = Head(recvBuf[p])
        /\ Tail(recvBuf[p]) \o socket[q] \o sendBuf[q] = Tail(InTransit[q])
    <3> DEFINE rp == recvBuf[p]
               sq == socket[q]
               tq == sendBuf[q]
    <3>1. /\ rp \o sq \o tq # <<>> /\ Head(rp \o sq \o tq) = Head(rp)
          /\ Tail(rp) \o sq \o tq = Tail(rp \o sq \o tq)
      BY <1>2, <2>1, OutOfBuffer, ZenonT(40)
    <3> QED  BY <1>2, <3>1, Zenon
  <2>3. InTransit'[q] = Tail(InTransit[q]) /\ InTransit'[p] = InTransit[p]
    BY <1>1, <2>1, <2>2 DEF InTransit, StreamsOK
  <2>4. InTransit' = [InTransit EXCEPT ![q] = Tail(@)]
    BY <1>1, <1>2, <2>3 DEF InTransit
  <2>5. Head(InTransit[q]) = got[p] + 1
    BY <2>1, <2>2, NextByte
  <2>6. got' = [got EXCEPT ![p] = @ + 1]
    BY <2>1, <2>2, <2>5
  <2>7. IdealChannel!RecvByte(p)
    BY <1>3, <2>1, <2>2, <2>4, <2>5, <2>6 DEF IdealChannel!RecvByte
  <2> QED  BY <2>7 DEF IdealChannel!ChannelNext
<1>10. CASE Refill(p)
  <2> DEFINE n == IF Len(socket[q]) < BufferSize THEN Len(socket[q]) ELSE BufferSize
  <2>1. n \in 0 .. Len(socket[q])
    BY <1>2, SizesAssumption, LenProperties
  <2>2. /\ recvBuf[p] = <<>>
        /\ recvBuf' = [recvBuf EXCEPT ![p] = SubSeq(socket[q], 1, n)]
        /\ socket' = [socket EXCEPT ![q] = SubSeq(socket[q], n + 1, Len(socket[q]))]
        /\ UNCHANGED <<sendBuf, sent, got, status>>
    BY <1>10 DEF Refill
  <2> HIDE DEF n
  <2>3. /\ InTransit'[q] = SubSeq(socket[q], 1, n) \o SubSeq(socket[q], n + 1, Len(socket[q]))
                            \o sendBuf[q]
        /\ InTransit'[p] = InTransit[p]
    BY <1>1, <2>2 DEF InTransit, StreamsOK
  <2>4. InTransit'[q] = InTransit[q]
    <3> DEFINE sq == socket[q]
               tq == sendBuf[q]
    <3>1. SubSeq(sq, 1, n) \o SubSeq(sq, n + 1, Len(sq)) \o tq = <<>> \o sq \o tq
      BY <1>2, <2>1, Refilled
    <3>2. InTransit[q] = <<>> \o sq \o tq
      BY <1>2, <2>2, Zenon
    <3> QED  BY <2>3, <3>1, <3>2, Zenon
  <2>5. UNCHANGED InTransit
    BY <1>1, <1>2, <2>3, <2>4 DEF InTransit
  <2> QED  BY <1>3, <2>2, <2>5
<1>11. CASE EndOfFile(p)
  BY <1>5, <1>11 DEF EndOfFile, Reading, In, Running, Alive
<1>12. CASE Destroy(p)
  <2>1. CASE sendBuf[p] # <<>>
    BY <1>3, <1>4, <1>12, <2>1 DEF Destroy
  <2>2. CASE sendBuf[p] = <<>>
    BY <1>5, <1>12, <2>2 DEF Destroy, Running, Alive
  <2> QED  BY <2>1, <2>2
<1>13. CASE Die(p)
  <2>1. PICK n \in 0 .. Len(socket[p]) : socket' = [socket EXCEPT ![p] = SubSeq(@, 1, n)]
    BY <1>13 DEF Die
  <2>2. /\ status' = [status EXCEPT ![p] = "died"] /\ sendBuf' = [sendBuf EXCEPT ![p] = <<>>]
        /\ Alive(p) /\ UNCHANGED <<recvBuf, sent, got>>
    BY <1>13 DEF Die
  <2>3. p \in up /\ up' = up \ {p}
    BY <2>2, EndOfParty
  <2>4. InTransit'[p] = r \o SubSeq(s, 1, n) \o <<>> /\ InTransit'[q] = InTransit[q]
    BY <1>1, <2>1, <2>2 DEF InTransit, StreamsOK
  <2>5. /\ Len(r) + n \in 0 .. Len(InTransit[p])
        /\ InTransit'[p] = SubSeq(InTransit[p], 1, Len(r) + n)
    <3>1. r \in Seq(Nat) /\ s \in Seq(Nat) /\ t \in Seq(Nat) /\ n \in 0 .. Len(s)
      BY <1>2, <2>1
    <3> HIDE DEF r, s, t
    <3>2. /\ Len(r) + n \in 0 .. Len(r \o s \o t)
          /\ r \o SubSeq(s, 1, n) \o <<>> = SubSeq(r \o s \o t, 1, Len(r) + n)
      BY <3>1, CutShort, Zenon
    <3> QED  BY <1>2, <2>4, <3>2, Zenon
  <2>6. InTransit' = [InTransit EXCEPT ![p] = SubSeq(@, 1, Len(r) + n)]
    BY <1>1, <1>2, <2>4, <2>5 DEF InTransit
  <2>7. IdealChannel!Leave(p)
    BY <2>2, <2>3, <2>5, <2>6 DEF IdealChannel!Leave
  <2> QED  BY <2>7 DEF IdealChannel!ChannelNext
<1> QED  BY <1>6, <1>7, <1>8, <1>9, <1>10, <1>11, <1>12, <1>13 DEF Step

(* Channel's steps keep the numbers. *)
LEMMA NumberedKept ==
  ASSUME StreamsOK, Numbered, [IdealChannel!ChannelNext]_<<sent, InTransit, got, up>>
  PROVE  Numbered'
<1> DEFINE Counts(z) ==
             Peer(z) \in up =>
               /\ \A i \in 1 .. Len(InTransit[z]) : InTransit[z][i] = got[Peer(z)] + i
               /\ z \in up => got[Peer(z)] + Len(InTransit[z]) = sent[z]
<1>1. /\ InTransit \in [Party -> Seq(Nat)] /\ sent \in [Party -> Nat] /\ got \in [Party -> Nat]
      /\ \A z \in Party : Counts(z)
  BY StreamTypes DEF StreamsOK, Numbered
<1>2. CASE UNCHANGED <<sent, InTransit, got, up>>
  BY <1>1, <1>2 DEF Numbered
<1>3. ASSUME NEW p \in Party, IdealChannel!SendByte(p) PROVE Numbered'
  <2> DEFINE b == sent[p] + 1
             s == InTransit[p]
  <2>1. /\ p \in up /\ sent' = [sent EXCEPT ![p] = b] /\ UNCHANGED <<got, up>>
        /\ InTransit' = [InTransit EXCEPT ![p] = Append(s, b)]
    BY <1>3 DEF IdealChannel!SendByte
  <2>2. \A z \in Party : z # p => Counts(z)'
    BY <1>1, <2>1
  <2>3. s \in Seq(Nat) /\ b \in Nat /\ Len(s) \in Nat
    BY <1>1, LenProperties
  <2>4. Len(Append(s, b)) = Len(s) + 1
    BY <2>3, AppendProperties
  <2>5. ASSUME Peer(p) \in up
        PROVE  /\ \A i \in 1 .. (Len(s) + 1) : Append(s, b)[i] = got[Peer(p)] + i
               /\ got[Peer(p)] + (Len(s) + 1) = b
    <3>1. /\ got[Peer(p)] + Len(s) = sent[p] /\ got[Peer(p)] \in Nat /\ sent[p] \in Nat
          /\ \A i \in 1 .. Len(s) : s[i] = got[Peer(p)] + i
      BY <1>1, <2>1, <2>5, Parties
    <3>2. got[Peer(p)] + (Len(s) + 1) = b
      BY <2>3, <3>1
    <3>3. Append(s, b)[Len(s) + 1] = b /\ \A i \in 1 .. Len(s) : Append(s, b)[i] = s[i]
      BY <2>3, AppendProperties
    <3>4. \A i \in 1 .. (Len(s) + 1) : i = Len(s) + 1 \/ i \in 1 .. Len(s)
      BY <2>3
    <3> HIDE DEF b, s
    <3> QED  BY <3>1, <3>2, <3>3, <3>4
  <2>6. Counts(p)'
    BY <1>1, <2>1, <2>4, <2>5
  <2> QED  BY <2>2, <2>6 DEF Numbered
<1>4. ASSUME NEW p \in Party, IdealChannel!RecvByte(p) PROVE Numbered'
  <2> DEFINE q == Peer(p)
             s == InTransit[q]
             rest == Tail(s)
  <2>1. /\ p \in up /\ s # <<>> /\ got' = [got EXCEPT ![p] = @ + 1] /\ UNCHANGED <<sent, up>>
        /\ InTransit' = [InTransit EXCEPT ![q] = rest]
    BY <1>4 DEF IdealChannel!RecvByte
  <2>2. q \in Party /\ q # p /\ Peer(q) = p /\ \A z \in Party : z = p \/ z = q
    BY Parties
  <2>3. Counts(p)'
    BY <1>1, <2>1, <2>2
  <2>4. /\ s \in Seq(Nat) /\ Len(s) \in Nat /\ Len(rest) = Len(s) - 1
        /\ \A i \in 1 .. Len(rest) : rest[i] = s[i + 1]
    BY <1>1, <2>1, <2>2, HeadTailProperties, LenProperties
  <2>5. /\ \A i \in 1 .. Len(s) : s[i] = got[p] + i
        /\ q \in up => got[p] + Len(s) = sent[q]
        /\ got[p] \in Nat
    BY <1>1, <2>1, <2>2
  <2>6. InTransit'[q] = rest /\ got'[p] = got[p] + 1
    BY <1>1, <2>1, <2>2
  <2> HIDE DEF s, rest
  <2>7. \A i \in 1 .. Len(rest) : rest[i] = got[p] + 1 + i
    <3> TAKE i \in 1 .. Len(rest)
    <3>1. Len(rest) = Len(s) - 1 /\ Len(s) \in Nat /\ got[p] \in Nat
      BY <2>4, <2>5
    <3>2. i + 1 \in 1 .. Len(s) /\ got[p] + (i + 1) = got[p] + 1 + i
      BY <3>1
    <3> QED  BY <2>4, <2>5, <3>2
  <2>8. q \in up => got[p] + 1 + Len(rest) = sent[q]
    BY <2>4, <2>5
  <2>9. Counts(q)'
    BY <2>1, <2>2, <2>6, <2>7, <2>8
  <2> QED  BY <2>2, <2>3, <2>9 DEF Numbered
<1>5. ASSUME NEW p \in Party, IdealChannel!Leave(p) PROVE Numbered'
  <2> DEFINE q == Peer(p)
             s == InTransit[p]
  <2>1. /\ up' = up \ {p} /\ UNCHANGED <<sent, got>>
        /\ \E n \in 0 .. Len(s) : InTransit' = [InTransit EXCEPT ![p] = SubSeq(s, 1, n)]
    BY <1>5 DEF IdealChannel!Leave
  <2>2. q \in Party /\ q # p /\ Peer(q) = p /\ \A z \in Party : z = p \/ z = q
    BY Parties
  <2>3. PICK n \in 0 .. Len(s) : InTransit' = [InTransit EXCEPT ![p] = SubSeq(s, 1, n)]
    BY <2>1
  <2>4. s \in Seq(Nat) /\ Len(s) \in Nat
    BY <1>1, LenProperties
  <2>5. Len(SubSeq(s, 1, n)) = n /\ \A i \in 1 .. n : SubSeq(s, 1, n)[i] = s[i]
    BY <2>4, CutQueue
  <2>6. Counts(p)'
    <3>1. n \in Nat /\ \A i \in 1 .. n : i \in 1 .. Len(s)
      BY <2>4
    <3>2. InTransit'[p] = SubSeq(s, 1, n) /\ p \notin up' /\ (q \in up' => q \in up)
      BY <1>1, <2>1, <2>3
    <3>3. q \in up => \A i \in 1 .. n : SubSeq(s, 1, n)[i] = got[q] + i
      BY <1>1, <2>5, <3>1
    <3> QED  BY <2>1, <2>5, <3>2, <3>3
  <2>7. Counts(q)'
    BY <2>1, <2>2
  <2> QED  BY <2>2, <2>6, <2>7 DEF Numbered
<1>6. ASSUME NEW p \in Party, IdealChannel!DropByte(p) PROVE Numbered'
  <2>1. /\ Peer(p) \notin up /\ UNCHANGED <<sent, got, up>>
        /\ \A z \in Party : z # p => InTransit'[z] = InTransit[z]
    BY <1>1, <1>6 DEF IdealChannel!DropByte
  <2> QED  BY <1>1, <2>1, ZenonT(40) DEF Numbered
<1> QED  BY <1>2, <1>3, <1>4, <1>5, <1>6 DEF IdealChannel!ChannelNext

-----------------------------------------------------------------------------
(***************************************************************************)
(* The theorems.                                                           *)
(***************************************************************************)
LEMMA NextStep ==
  ASSUME StreamsOK, ObjectsOK, SendsKnown, Numbered, [Next]_netVars
  PROVE  /\ StreamsOK' /\ ObjectsOK' /\ SendsKnown'
         /\ [IdealChannel!ChannelNext]_<<sent, InTransit, got, up>>
<1>1. ASSUME NEW p \in Party, Establish(p) \/ BindFails
      PROVE  /\ StreamsOK' /\ ObjectsOK' /\ SendsKnown'
             /\ [IdealChannel!ChannelNext]_<<sent, InTransit, got, up>>
  <2>1. ObjectsOK' /\ UNCHANGED streamVars
    BY <1>1, EstablishObjects
  <2>2. StreamsOK'
    BY <2>1 DEF streamVars, StreamsOK
  <2>3. SendsKnown'
    BY <2>1 DEF streamVars, SendsKnown, Returned, Call
  <2> QED  BY <1>1, <2>1, <2>2, <2>3, EstablishChannel
<1>2. ASSUME NEW p \in Party, Step(p) \/ Die(p)
      PROVE  /\ StreamsOK' /\ ObjectsOK' /\ SendsKnown'
             /\ [IdealChannel!ChannelNext]_<<sent, InTransit, got, up>>
  BY <1>2, StepStreams, StepObjects, StepSends, StepChannel
<1>3. CASE UNCHANGED netVars
  BY <1>3 DEF netVars, StreamsOK, ObjectsOK, Descriptors, SendsKnown, Returned, Call, InTransit, up,
     Alive
<1>4. SERVER \in Party
  BY DEF Party
<1>5. CASE \E p \in Party : Establish(p) \/ Step(p) \/ Die(p)
  BY <1>1, <1>2, <1>5
<1>6. CASE BindFails
  BY <1>1, <1>4, <1>6
<1> QED  BY <1>3, <1>5, <1>6 DEF Next

LEMMA Invariance == Spec => []IInv
<1>1. Init => IInv
  <2> SUFFICES ASSUME Init PROVE IInv
    OBVIOUS
  <2>1. ObjectsOK /\ StreamsOK
    BY InitShape
  <2>2. SendsKnown
    BY DEF Init, SendsKnown
  <2>3. \A p \in Party : InTransit[p] = <<>> /\ got[Peer(p)] = 0 /\ sent[p] = 0
    <3>1. <<>> \in Seq(Nat) /\ <<>> \o <<>> \o <<>> = <<>>
      BY EmptySeq, ConcatEmptySeq
    <3> QED  BY <3>1, Parties DEF Init, InTransit
  <2>4. Numbered
    BY <2>3, EmptySeq DEF Numbered
  <2> QED  BY <2>1, <2>2, <2>4, Shape DEF IInv
<1>2. IInv /\ [Next]_netVars => IInv'
  <2> SUFFICES ASSUME IInv, [Next]_netVars PROVE IInv'
    OBVIOUS
  <2>1. ObjectsOK /\ StreamsOK /\ SendsKnown /\ Numbered
    BY Shape DEF IInv
  <2>2. /\ StreamsOK' /\ ObjectsOK' /\ SendsKnown'
        /\ [IdealChannel!ChannelNext]_<<sent, InTransit, got, up>>
    BY <2>1, NextStep
  <2>3. Numbered'
    BY <2>1, <2>2, NumberedKept
  <2>4. (TypeOK /\ Descriptors)'
    BY <2>2 DEF TypeOK, ObjectsOK, StreamsOK
  <2> QED  BY <2>2, <2>3, <2>4 DEF IInv
<1> QED  BY <1>1, <1>2, PTL DEF Spec

(* No buffer, no socket and no table of descriptors overflows, for every   *)
(* size, all scripts and any number of refused attempts to connect.        *)
THEOREM TypeCorrect == Spec => []TypeOK
<1>1. IInv => TypeOK
  BY DEF IInv
<1> QED  BY <1>1, Invariance, PTL

(* A party blocked in fread has flushed everything it has sent, whatever   *)
(* it sent and received before and whoever died: the flush at the start of *)
(* recv_data_internal, guarded by hasSent, is enough.                      *)
THEOREM WaitsFlushed == Spec => []NeverWaitsUnsent
<1>1. IInv => NeverWaitsUnsent
  BY WaitsUnsent DEF IInv
<1> QED  BY <1>1, Invariance, PTL

(* NetIO implements the byte streams that the protocols take it for: what  *)
(* a party sends is what the other receives, byte for byte, up to the end  *)
(* of either process.                                                      *)
THEOREM ChannelImplemented == Spec => ImplementsChannel
<1>1. Init => IdealChannel!ChannelInit
  <2> SUFFICES ASSUME Init PROVE IdealChannel!ChannelInit
    OBVIOUS
  <2>1. <<>> \o <<>> \o <<>> = <<>>
    BY EmptySeq, ConcatEmptySeq
  <2>2. InTransit = [p \in Party |-> <<>>]
    BY <2>1, Parties DEF Init, InTransit
  <2>3. up = Party
    BY DEF Init, up, Alive
  <2> QED  BY <2>2, <2>3 DEF Init, IdealChannel!ChannelInit
<1>2. IInv /\ [Next]_netVars => [IdealChannel!ChannelNext]_(IdealChannel!channelVars)
  <2> SUFFICES ASSUME IInv, [Next]_netVars
               PROVE  [IdealChannel!ChannelNext]_<<sent, InTransit, got, up>>
    BY DEF IdealChannel!channelVars
  <2> QED  BY Shape, NextStep DEF IInv
<1> QED  BY <1>1, <1>2, Invariance, PTL DEF Spec, ImplementsChannel, IdealChannel!ChannelSpec

-----------------------------------------------------------------------------
(***************************************************************************)
(* Bits on the wire.  Starts and FlattenSeq are recursive functions; that  *)
(* they have the values their equations say is itself proved here, by      *)
(* induction over the numbers.                                             *)
(***************************************************************************)

(* Induction over the numbers up to n. *)
LEMMA UpTo ==
  ASSUME NEW n \in Nat, NEW good, 0 \in good,
         \A i \in 1 .. n : i - 1 \in good => i \in good
  PROVE  n \in good
<1> DEFINE bad == {i \in 0 .. n : i \notin good}
<1>1. SUFFICES ASSUME bad # {} PROVE FALSE
  OBVIOUS
<1>2. IsWellFoundedOn(OpToRel(<, Nat), Nat)
  BY NatLessThanWellFounded
<1>3. bad \subseteq Nat
  OBVIOUS
<1>4. PICK i \in bad : \A j \in bad : <<j, i>> \notin OpToRel(<, Nat)
  BY <1>1, <1>2, <1>3, WFMin
<1>5. i \in 1 .. n /\ i - 1 \in 0 .. n /\ i - 1 \in Nat /\ i \in Nat /\ i - 1 < i
  OBVIOUS
<1>6. i - 1 \in bad
  BY <1>5
<1> DEFINE p == <<i - 1, i>>
<1>7. p \in Nat \X Nat /\ p[1] < p[2]
  BY <1>5
<1> HIDE DEF p
<1>8. p \in OpToRel(<, Nat)
  BY <1>7, Zenon DEF OpToRel
<1>9. <<i - 1, i>> \in OpToRel(<, Nat)
  BY <1>8 DEF p
<1> QED  BY <1>4, <1>6, <1>9, Zenon

(* f has the values of a recursion over 1 .. n: each is what step[i] makes *)
(* of the one before.                                                      *)
Computes(f, n, S, first, step) ==
  /\ f \in [1 .. n -> S] /\ f[1] = first
  /\ \A i \in 2 .. n : f[i] = step[i][f[i - 1]]

(* A recursion has values. *)
LEMMA Recursion ==
  ASSUME NEW n \in Nat \ {0}, NEW S, NEW first \in S, NEW step \in [1 .. n -> [S -> S]]
  PROVE  \E f : Computes(f, n, S, first, step)
<1> DEFINE Prefix(f, m) == /\ f \in [1 .. m -> S] /\ f[1] = first
                           /\ \A i \in 2 .. m : f[i] = step[i][f[i - 1]]
           good == {m \in 0 .. n : m > 0 => \E f : Prefix(f, m)}
<1>1. 0 \in good
  OBVIOUS
<1>2. ASSUME NEW m \in 1 .. n, m - 1 \in good
      PROVE  m \in good
  <2>1. CASE m = 1
    <3> DEFINE f == [i \in 1 .. 1 |-> first]
    <3>1. Prefix(f, 1)
      OBVIOUS
    <3> HIDE DEF f, Prefix
    <3> QED  BY <2>1, <3>1
  <2>2. CASE m # 1
    <3>1. PICK f : Prefix(f, m - 1)
      BY <1>2, <2>2
    <3> DEFINE g == [i \in 1 .. m |-> IF i < m THEN f[i] ELSE step[m][f[m - 1]]]
    <3>2. m - 1 \in 1 .. m - 1 /\ 1 < m
      BY <2>2
    <3>3. step[m][f[m - 1]] \in S
      BY <3>1, <3>2
    <3>4. g \in [1 .. m -> S] /\ g[1] = first
      BY <3>1, <3>2, <3>3
    <3>5. ASSUME NEW i \in 2 .. m
          PROVE  g[i] = step[i][g[i - 1]]
      <4>1. CASE i = m
        BY <3>2, <4>1
      <4>2. CASE i # m
        <5>1. i \in 2 .. m - 1 /\ i < m /\ i - 1 < m /\ i \in 1 .. m /\ i - 1 \in 1 .. m
          BY <4>2
        <5>2. f[i] = step[i][f[i - 1]]
          BY <3>1, <5>1
        <5> QED  BY <5>1, <5>2
      <4> QED  BY <4>1, <4>2
    <3>6. Prefix(g, m)
      BY <3>4, <3>5
    <3> HIDE DEF Prefix, g
    <3> QED  BY <3>6
  <2> QED  BY <2>1, <2>2
<1>3. n \in good
  <2> HIDE DEF good
  <2> QED  BY <1>1, <1>2, UpTo
<1>4. PICK f : Prefix(f, n)
  BY <1>3
<1> QED  BY <1>4 DEF Computes

(* Starts follows the pieces. *)
LEMMA StartsRight ==
  ASSUME NEW m \in Nat, NEW pieces \in [1 .. m -> Nat], Len(pieces) = m
  PROVE  /\ Starts(pieces)[1] = 1
         /\ \A k \in 1 .. m : Starts(pieces)[k + 1] = Starts(pieces)[k] + pieces[k]
<1> DEFINE F(start) == [k \in 1 .. m + 1 |-> IF k = 1 THEN 1 ELSE start[k - 1] + pieces[k - 1]]
           s == CHOOSE start : start = F(start)
           step == [k \in 1 .. m + 1 |-> [x \in Nat |-> IF k = 1 THEN x ELSE x + pieces[k - 1]]]
<1>1. \E f : f = F(f)
  <2>1. step \in [1 .. m + 1 -> [Nat -> Nat]]
    OBVIOUS
  <2>2. m + 1 \in Nat \ {0} /\ 1 \in Nat
    OBVIOUS
  <2>3. \E f : Computes(f, m + 1, Nat, 1, step)
    <3> HIDE DEF step, F, s
    <3> QED  BY <2>1, <2>2, Recursion
  <2> PICK f : Computes(f, m + 1, Nat, 1, step)
    BY <2>3
  <2>4. /\ f \in [1 .. m + 1 -> Nat] /\ f[1] = 1
        /\ \A k \in 2 .. m + 1 : f[k] = step[k][f[k - 1]]
    BY DEF Computes
  <2>5. ASSUME NEW k \in 1 .. m + 1
        PROVE  f[k] = IF k = 1 THEN 1 ELSE f[k - 1] + pieces[k - 1]
    <3>1. CASE k = 1
      BY <2>4, <3>1
    <3>2. CASE k # 1
      <4> HIDE DEF step
      <4>1. k \in 2 .. m + 1 /\ k - 1 \in 1 .. m + 1 /\ f[k - 1] \in Nat
        <5>1. k \in 2 .. m + 1 /\ k - 1 \in 1 .. m + 1
          BY <3>2
        <5> QED  BY <2>4, <5>1
      <4> USE DEF step
      <4>2. f[k] = step[k][f[k - 1]]
        BY <2>4, <4>1
      <4> QED  BY <3>2, <4>1, <4>2
    <3> QED  BY <3>1, <3>2
  <2>6. f = F(f)
    <3>1. f = [k \in DOMAIN f |-> f[k]]
      BY <2>4
    <3> HIDE DEF step
    <3> QED  BY <2>4, <2>5, <3>1
  <2> HIDE DEF F
  <2> QED  BY <2>6
<1>2. s = F(s)
  <2> HIDE DEF F
  <2> QED  BY <1>1
<1>3. Starts(pieces) = s
  BY DEF Starts
<1> HIDE DEF s
<1>4. \A k \in 1 .. m + 1 : s[k] = IF k = 1 THEN 1 ELSE s[k - 1] + pieces[k - 1]
  BY <1>2
<1>5. ASSUME NEW k \in 1 .. m
      PROVE  s[k + 1] = s[k] + pieces[k]
  <2>1. k + 1 \in 1 .. m + 1 /\ k + 1 # 1 /\ (k + 1) - 1 = k
    OBVIOUS
  <2> QED  BY <1>4, <2>1
<1> QED  BY <1>3, <1>4, <1>5

(* One sequence behind the other. *)
Joins(flat, pieces, m) ==
  flat[1] = pieces[1] /\ \A k \in 2 .. m : flat[k] = flat[k - 1] \o pieces[k]

(* FlattenSeq puts one sequence behind the other. *)
LEMMA Flattened ==
  ASSUME NEW m \in Nat \ {0}, NEW S, NEW pieces \in [1 .. m -> Seq(S)], Len(pieces) = m
  PROVE  \E flat : Joins(flat, pieces, m) /\ SeqExt!FlattenSeq(pieces) = flat[m]
<1> DEFINE F(flatten) == [i \in 1 .. m |-> IF i = 1 THEN pieces[i] ELSE flatten[i - 1] \o pieces[i]]
           s == CHOOSE flatten : flatten = F(flatten)
           step == [k \in 1 .. m |-> [x \in Seq(S) |-> x \o pieces[k]]]
<1>1. \E f : f = F(f)
  <2>1. step \in [1 .. m -> [Seq(S) -> Seq(S)]]
    <3>1. ASSUME NEW k \in 1 .. m, NEW x \in Seq(S)
          PROVE  x \o pieces[k] \in Seq(S)
      BY ConcatProperties
    <3> QED  BY <3>1
  <2>2. pieces[1] \in Seq(S)
    OBVIOUS
  <2>3. \E f : Computes(f, m, Seq(S), pieces[1], step)
    <3> HIDE DEF step, F, s
    <3> QED  BY <2>1, <2>2, Recursion
  <2> PICK f : Computes(f, m, Seq(S), pieces[1], step)
    BY <2>3
  <2>4. /\ f \in [1 .. m -> Seq(S)] /\ f[1] = pieces[1]
        /\ \A k \in 2 .. m : f[k] = step[k][f[k - 1]]
    BY DEF Computes
  <2>5. ASSUME NEW k \in 1 .. m
        PROVE  f[k] = IF k = 1 THEN pieces[k] ELSE f[k - 1] \o pieces[k]
    <3>1. CASE k = 1
      BY <2>4, <3>1
    <3>2. CASE k # 1
      <4>1. k \in 2 .. m /\ k - 1 \in 1 .. m /\ f[k - 1] \in Seq(S)
        BY <2>4, <3>2
      <4>2. f[k] = step[k][f[k - 1]]
        BY <2>4, <4>1
      <4> QED  BY <3>2, <4>1, <4>2
    <3> QED  BY <3>1, <3>2
  <2>6. f = F(f)
    <3>1. f = [k \in DOMAIN f |-> f[k]]
      BY <2>4
    <3> HIDE DEF step
    <3> QED  BY <2>4, <2>5, <3>1
  <2> HIDE DEF F
  <2> QED  BY <2>6
<1>2. s = F(s)
  <2> HIDE DEF F
  <2> QED  BY <1>1
<1>3. SeqExt!FlattenSeq(pieces) = s[m]
  BY DEF SeqExt!FlattenSeq
<1> HIDE DEF s
<1>4. \A k \in 1 .. m : s[k] = IF k = 1 THEN pieces[k] ELSE s[k - 1] \o pieces[k]
  BY <1>2
<1>5. Joins(s, pieces, m)
  <2>1. 1 \in 1 .. m /\ \A k \in 2 .. m : k \in 1 .. m /\ k # 1
    OBVIOUS
  <2> HIDE DEF F
  <2> QED  BY <1>4, <2>1, Zenon DEF Joins
<1> HIDE DEF F
<1> QED  BY <1>3, <1>5, Zenon

(* Division by a positive number. *)
LEMMA Division ==
  ASSUME NEW n \in Nat, NEW d \in Nat \ {0}
  PROVE  /\ n \div d \in Nat /\ n % d \in 0 .. d - 1
         /\ n = (n \div d) * d + (n % d)
OBVIOUS

(* A bit of a bitset is in one of its words. *)
LEMMA BitPlace ==
  ASSUME NEW n \in Nat, NEW i \in 1 .. n
  PROVE  /\ (i - 1) \div WordBits + 1 \in 1 .. CalcBitsetBlock(n)
         /\ (i - 1) % WordBits \in Offsets
         /\ ((i - 1) \div WordBits) * WordBits + ((i - 1) % WordBits) + 1 = i
<1> DEFINE W == WordBits
           p == (i - 1) \div W
           s == (i - 1) % W
           q == n \div W
           r == n % W
<1>1. W \in Nat \ {0}
  BY PackingAssumption
<1>2. p \in Nat /\ s \in 0 .. W - 1 /\ i - 1 = p * W + s
  <2> DEFINE m == i - 1
  <2>1. m \in Nat
    OBVIOUS
  <2> HIDE DEF m, W
  <2> QED  BY <1>1, <2>1, Division DEF m
<1>3. q \in Nat /\ r \in 0 .. W - 1 /\ n = q * W + r
  BY <1>1, Division
<1>4. CalcBitsetBlock(n) = q + (IF r # 0 THEN 1 ELSE 0)
  BY DEF CalcBitsetBlock
<1> HIDE DEF W, p, s, q, r
<1>5. p + 1 <= q + (IF r # 0 THEN 1 ELSE 0)
  <2>1. ASSUME p >= q + 1 PROVE FALSE
    <3>1. p * W >= (q + 1) * W
      BY <1>1, <1>2, <1>3, <2>1
    <3>2. (q + 1) * W = q * W + W /\ p * W \in Nat /\ q * W \in Nat
      BY <1>1, <1>2, <1>3
    <3> QED  BY <1>1, <1>2, <1>3, <3>1, <3>2
  <2>2. ASSUME p >= q, r = 0 PROVE FALSE
    <3>1. p * W >= q * W
      BY <1>1, <1>2, <1>3, <2>2
    <3>2. p * W \in Nat /\ q * W \in Nat
      BY <1>1, <1>2, <1>3
    <3> QED  BY <1>1, <1>2, <1>3, <2>2, <3>1, <3>2
  <2> QED  BY <1>2, <1>3, <2>1, <2>2
<1>6. p + 1 \in 1 .. CalcBitsetBlock(n)
  BY <1>2, <1>3, <1>4, <1>5
<1> QED  BY <1>2, <1>6 DEF W, p, s, Offsets

(***************************************************************************)
(* send_boost_bitset and receive_boost_bitset: a bitset, or a slice of     *)
(* one, arrives as it was sent, for every size of words and bitset.        *)
(***************************************************************************)
THEOREM BitsetArrives ==
  ASSUME NEW bits \in Seq({0, 1}), NEW begin \in Nat, NEW end \in Nat,
         (begin < end /\ end <= Len(bits)) \/ (begin = 0 /\ end = 0),
         NEW slice, slice = IF end = 0 THEN bits ELSE SubSeq(bits, begin + 1, end)
  PROVE  ReceiveBoostBitset(SendBoostBitset(bits, begin, end), Len(slice)) = slice
<1> DEFINE n == Len(slice)
           count == CalcBitsetBlock(n)
           words == ToBlocks(slice, count)
<1>1. slice \in Seq({0, 1})
  <2>1. CASE end = 0
    BY <2>1
  <2>2. CASE end # 0
    BY <2>2, SubSeqProperties
  <2> QED  BY <2>1, <2>2
<1>2. n \in Nat /\ slice = [i \in 1 .. n |-> slice[i]] /\ \A i \in 1 .. n : slice[i] \in {0, 1}
  BY <1>1, LenProperties, ElementOfSeq
<1>3. count \in Nat
  <2>1. n \in Nat /\ WordBits \in Nat \ {0}
    BY <1>2, PackingAssumption
  <2> HIDE DEF n
  <2>2. n \div WordBits \in Nat
    BY <2>1, Division
  <2> QED  BY <2>2 DEF CalcBitsetBlock
<1>4. SendBoostBitset(bits, begin, end) = words
  <2>1. CASE end = 0
    BY <2>1 DEF SendBoostBitset
  <2>2. CASE end # 0
    BY <2>2 DEF SendBoostBitset
  <2> QED  BY <2>1, <2>2
<1>5. words = [w \in 1 .. count |-> words[w]] /\ Len(words) = count /\ SubSeq(words, 1, count) = words
  <2>1. words = [w \in 1 .. count |-> words[w]]
    BY DEF ToBlocks
  <2> HIDE DEF words, count
  <2>2. words \in Seq({words[w] : w \in 1 .. count}) /\ Len(words) = count
    BY <1>3, <2>1
  <2>3. SubSeq(words, 1, count) = words
    BY <1>3, <2>2
  <2> QED  BY <2>1, <2>2, <2>3
<1>6. ReceiveBoostBitset(words, n) = FromBlocks(words, n)
  BY <1>5 DEF ReceiveBoostBitset
<1>7. ASSUME NEW i \in 1 .. n
      PROVE  FromBlocks(words, n)[i] = slice[i]
  <2> DEFINE w == (i - 1) \div WordBits + 1
             k == (i - 1) % WordBits
  <2>1. /\ w \in 1 .. count /\ k \in Offsets /\ w <= count
        /\ (w - 1) * WordBits + k + 1 = i
    <3>1. w \in 1 .. count /\ k \in Offsets /\ ((i - 1) \div WordBits) * WordBits + k + 1 = i
      BY <1>2, BitPlace
    <3>2. (i - 1) \div WordBits = w - 1
      BY <1>2, PackingAssumption, Division
    <3> QED  BY <3>1, <3>2
  <2>2. k \in words[w] <=> slice[i] = 1
    <3> HIDE DEF w, k
    <3>1. words[w] = {l \in Offsets : LET j == (w - 1) * WordBits + l + 1
                                      IN  j <= Len(slice) /\ slice[j] = 1}
      BY <2>1 DEF ToBlocks
    <3> HIDE DEF words
    <3> QED  BY <2>1, <3>1
  <2>3. FromBlocks(words, n)[i] = IF w <= Len(words) /\ k \in words[w] THEN 1 ELSE 0
    BY DEF FromBlocks
  <2> HIDE DEF w, k, words, count
  <2> QED  BY <1>2, <1>5, <2>1, <2>2, <2>3
<1>8. FromBlocks(words, n) = [i \in 1 .. n |-> FromBlocks(words, n)[i]]
  BY DEF FromBlocks
<1> HIDE DEF words, n
<1> QED  BY <1>2, <1>4, <1>6, <1>7, <1>8 DEF n

(* Pieces are not empty; the first begins at 1, each where the one before  *)
(* ends, the last ends with the array.                                     *)
Fill(pieces, start, n) ==
  LET m == Len(pieces)
  IN  /\ m \in Nat /\ pieces \in [1 .. m -> Nat \ {0}]
      /\ start[1] = 1 /\ start[m + 1] = n + 1
      /\ \A k \in 1 .. m : start[k + 1] = start[k] + pieces[k]

(* Bools that go one by one. *)
LEMMA SinglesFill ==
  ASSUME NEW address \in Nat, NEW n \in Nat, ~CanAlign(address, n)
  PROVE  Fill(Pieces(address, n), Starts(Pieces(address, n)), n)
<1> DEFINE pieces == Pieces(address, n)
           start == Starts(pieces)
<1>1. pieces = [k \in 1 .. n |-> 1] /\ Len(pieces) = n
  <2>1. pieces = [k \in 1 .. n |-> 1]
    BY DEF Pieces
  <2> QED  BY <2>1
<1>2. pieces \in [1 .. n -> Nat] /\ pieces \in [1 .. n -> Nat \ {0}]
  BY <1>1
<1>3. start[1] = 1 /\ \A k \in 1 .. n : start[k + 1] = start[k] + pieces[k]
  <2> HIDE DEF pieces
  <2> QED  BY <1>1, <1>2, StartsRight
<1> HIDE DEF start, pieces
<1> DEFINE good == {j \in 0 .. n : start[j + 1] = j + 1}
<1>4. 0 \in good
  BY <1>3
<1>5. ASSUME NEW j \in 1 .. n, j - 1 \in good
      PROVE  j \in good
  <2>1. start[j + 1] = start[j] + 1
    BY <1>1, <1>3
  <2>2. start[j] = j
    <3>1. start[(j - 1) + 1] = (j - 1) + 1
      BY <1>5
    <3>2. (j - 1) + 1 = j
      OBVIOUS
    <3> QED  BY <3>1, <3>2
  <2> QED  BY <2>1, <2>2
<1>6. n \in good
  <2> HIDE DEF good
  <2> QED  BY <1>4, <1>5, UpTo
<1>7. start[n + 1] = n + 1
  BY <1>6
<1> QED  BY <1>1, <1>2, <1>3, <1>7 DEF Fill, start, pieces

(* Bools that go one by one up to an aligned address, in groups, and one   *)
(* by one after the last group.                                            *)
LEMMA GroupsFill ==
  ASSUME NEW address \in Nat, NEW n \in Nat, CanAlign(address, n)
  PROVE  Fill(Pieces(address, n), Starts(Pieces(address, n)), n)
<1> DEFINE G == GroupSize
           d == AlignDiff(address)
           g == (n - d) \div G
           r == (n - d) % G
           m == d + g + r
           pieces == Pieces(address, n)
           start == Starts(pieces)
<1>1. G \in Nat \ {0}
  BY PackingAssumption
<1>2. d \in Nat /\ d <= n
  <2>1. address % G \in 0 .. G - 1
    <3> HIDE DEF G
    <3> QED  BY <1>1, Division
  <2> DEFINE a == address % G
             b == G - a
  <2>2. b \in Nat /\ d = b % G
    BY <1>1, <2>1 DEF AlignDiff
  <2> HIDE DEF b, d
  <2>3. d \in Nat
    <3>1. b % G \in 0 .. G - 1
      <4> HIDE DEF G
      <4> QED  BY <1>1, <2>2, Division
    <3> QED  BY <1>1, <2>2, <3>1
  <2>4. n >= d + G
    BY DEF CanAlign, d
  <2> QED  BY <1>1, <2>3, <2>4
<1>3. g \in Nat /\ r \in Nat /\ n - d = g * G + r
  <2> DEFINE x == n - d
  <2>1. x \in Nat
    BY <1>2
  <2> HIDE DEF x, G
  <2>2. x \div G \in Nat /\ x % G \in 0 .. G - 1 /\ x = (x \div G) * G + (x % G)
    BY <1>1, <2>1, Division
  <2> QED  BY <1>1, <2>2 DEF x
<1>4. /\ pieces = [k \in 1 .. m |-> IF k > d /\ k <= d + g THEN G ELSE 1]
      /\ m \in Nat /\ Len(pieces) = m
  <2>1. pieces = [k \in 1 .. m |-> IF k > d /\ k <= d + g THEN G ELSE 1]
    BY DEF Pieces
  <2> HIDE DEF pieces, d, g, r
  <2>2. m \in Nat
    BY <1>2, <1>3
  <2> QED  BY <2>1, <2>2
<1> HIDE DEF G, d, g, r, m
<1>5. pieces \in [1 .. m -> Nat] /\ pieces \in [1 .. m -> Nat \ {0}]
  <2> HIDE DEF pieces
  <2> QED  BY <1>1, <1>4
<1>6. start[1] = 1 /\ \A k \in 1 .. m : start[k + 1] = start[k] + pieces[k]
  <2> HIDE DEF pieces
  <2> QED  BY <1>4, <1>5, StartsRight
<1> HIDE DEF start, pieces
<1> DEFINE place(j) == IF j <= d THEN j + 1
                       ELSE IF j <= d + g THEN d + 1 + (j - d) * G
                       ELSE d + 1 + g * G + (j - d - g)
           good == {j \in 0 .. m : start[j + 1] = place(j)}
<1>7. 0 \in good
  BY <1>2, <1>4, <1>6
<1>8. ASSUME NEW j \in 1 .. m, j - 1 \in good
      PROVE  j \in good
  <2>1. start[j + 1] = start[j] + (IF j > d /\ j <= d + g THEN G ELSE 1)
    BY <1>4, <1>6
  <2>2. start[j] = place(j - 1)
    <3>1. start[(j - 1) + 1] = place(j - 1)
      BY <1>8
    <3>2. (j - 1) + 1 = j
      OBVIOUS
    <3> HIDE DEF place
    <3> QED  BY <3>1, <3>2
  <2>3. /\ g * G \in Nat /\ (j - d) * G \in Int /\ (j - 1 - d) * G \in Int
        /\ (j - d) * G = (j - 1 - d) * G + G
    BY <1>1, <1>2, <1>3
  <2>4. place(j) = place(j - 1) + (IF j > d /\ j <= d + g THEN G ELSE 1)
    <3>1. CASE j <= d
      BY <1>2, <1>3, <3>1
    <3>2. CASE j > d /\ j <= d + g
      <4>1. place(j) = d + 1 + (j - d) * G
        BY <1>2, <1>3, <3>2
      <4>2. CASE j = d + 1
        <5>1. (j - d) * G = G
          BY <1>1, <1>2, <4>2
        <5>2. place(j - 1) = d + 1
          BY <1>2, <4>2
        <5> HIDE DEF place
        <5> QED  BY <1>1, <1>2, <3>2, <4>1, <5>1, <5>2
      <4>3. CASE j # d + 1
        <5>1. place(j - 1) = d + 1 + (j - 1 - d) * G
          BY <1>2, <1>3, <3>2, <4>3
        <5> HIDE DEF place
        <5> QED  BY <1>1, <1>2, <2>3, <3>2, <4>1, <5>1
      <4> QED  BY <4>2, <4>3
    <3>3. CASE j > d + g
      <4>1. place(j) = d + 1 + g * G + (j - d - g)
        BY <1>2, <1>3, <3>3
      <4>2. CASE j = d + g + 1
        <5>1. place(j - 1) = d + 1 + g * G
          <6>1. CASE g = 0
            BY <1>1, <1>2, <4>2, <6>1
          <6>2. CASE g # 0
            <7>1. j - 1 = d + g /\ ~(j - 1 <= d) /\ j - 1 <= d + g
              BY <1>2, <1>3, <4>2, <6>2
            <7>2. place(j - 1) = d + 1 + (j - 1 - d) * G
              BY <7>1
            <7>3. j - 1 - d = g
              BY <1>2, <1>3, <4>2
            <7> HIDE DEF place
            <7> QED  BY <7>2, <7>3
          <6> QED  BY <6>1, <6>2
        <5> HIDE DEF place
        <5> QED  BY <1>2, <1>3, <2>3, <3>3, <4>1, <4>2, <5>1
      <4>3. CASE j # d + g + 1
        <5>1. place(j - 1) = d + 1 + g * G + (j - 1 - d - g)
          BY <1>2, <1>3, <3>3, <4>3
        <5> HIDE DEF place
        <5> QED  BY <1>2, <1>3, <2>3, <3>3, <4>1, <5>1
      <4> QED  BY <4>2, <4>3
    <3> QED  BY <1>2, <1>3, <3>1, <3>2, <3>3
  <2>5. j \in 0 .. m
    OBVIOUS
  <2> HIDE DEF place
  <2> QED  BY <2>1, <2>2, <2>4, <2>5
<1>9. m \in good
  <2> HIDE DEF good
  <2> QED  BY <1>4, <1>7, <1>8, UpTo
<1>10. place(m) = n + 1
  <2>1. g * G \in Nat
    BY <1>1, <1>3
  <2>2. CASE r = 0 /\ g = 0
    <3>1. place(m) = d + 1 /\ g * G = 0
      BY <1>1, <1>2, <2>2 DEF m
    <3> HIDE DEF place
    <3> QED  BY <1>2, <1>3, <2>2, <3>1
  <2>3. CASE r = 0 /\ g # 0
    <3>1. m = d + g /\ ~(m <= d) /\ m <= d + g /\ m - d = g
      BY <1>2, <1>3, <2>3 DEF m
    <3>2. place(m) = d + 1 + (m - d) * G
      BY <3>1
    <3>3. place(m) = d + 1 + g * G
      BY <3>1, <3>2
    <3> HIDE DEF place
    <3> QED  BY <1>2, <1>3, <2>1, <2>3, <3>3
  <2>4. CASE r # 0
    <3>1. ~(m <= d) /\ ~(m <= d + g) /\ m - d - g = r
      BY <1>2, <1>3, <2>4 DEF m
    <3>2. place(m) = d + 1 + g * G + (m - d - g)
      BY <3>1
    <3> HIDE DEF place
    <3> QED  BY <1>2, <1>3, <2>1, <3>1, <3>2
  <2> QED  BY <2>2, <2>3, <2>4
<1>11. start[m + 1] = n + 1
  BY <1>9, <1>10
<1> QED  BY <1>4, <1>5, <1>6, <1>11 DEF Fill, start, pieces

(* Either way the pieces are the array. *)
LEMMA PiecesFill ==
  ASSUME NEW address \in Nat, NEW n \in Nat
  PROVE  Fill(Pieces(address, n), Starts(Pieces(address, n)), n)
BY SinglesFill, GroupsFill

(* Where a piece begins and ends is in the array. *)
LEMMA Bounds ==
  ASSUME NEW pieces, NEW start, NEW n \in Nat, Fill(pieces, start, n), NEW k \in 1 .. Len(pieces)
  PROVE  /\ start[k] \in 1 .. n /\ start[k + 1] \in 2 .. n + 1
         /\ pieces[k] \in Nat \ {0} /\ start[k + 1] = start[k] + pieces[k]
<1> DEFINE m == Len(pieces)
<1>1. /\ m \in Nat /\ pieces \in [1 .. m -> Nat \ {0}]
      /\ start[1] = 1 /\ start[m + 1] = n + 1
      /\ \A l \in 1 .. m : start[l + 1] = start[l] + pieces[l]
  BY DEF Fill
<1> HIDE DEF m
<1> DEFINE good == {j \in 0 .. m : \A i \in 0 .. j : /\ start[i + 1] \in Nat \ {0}
                                                  /\ start[i + 1] <= start[j + 1]}
<1>2. 0 \in good
  BY <1>1
<1>3. ASSUME NEW j \in 1 .. m, j - 1 \in good
      PROVE  j \in good
  <2>1. start[j + 1] = start[j] + pieces[j] /\ pieces[j] \in Nat \ {0}
    BY <1>1
  <2>2. \A i \in 0 .. j - 1 : start[i + 1] \in Nat \ {0} /\ start[i + 1] <= start[j]
    <3>1. (j - 1) + 1 = j
      OBVIOUS
    <3> QED  BY <1>3, <3>1
  <2>3. start[j] \in Nat \ {0}
    <3>1. (j - 1) + 1 = j /\ j - 1 \in 0 .. j - 1
      OBVIOUS
    <3>2. start[(j - 1) + 1] \in Nat \ {0}
      BY <2>2, <3>1
    <3> QED  BY <3>1, <3>2
  <2>4. ASSUME NEW i \in 0 .. j
        PROVE  start[i + 1] \in Nat \ {0} /\ start[i + 1] <= start[j + 1]
    <3>1. CASE i = j
      BY <2>1, <2>3, <3>1
    <3>2. CASE i # j
      <4>1. i \in 0 .. j - 1
        BY <3>2
      <4> QED  BY <2>1, <2>2, <2>3, <4>1
    <3> QED  BY <3>1, <3>2
  <2> QED  BY <2>4
<1>4. m \in good
  <2> HIDE DEF good
  <2> QED  BY <1>1, <1>2, <1>3, UpTo
<1>5. start[k + 1] \in Nat \ {0} /\ start[k + 1] <= n + 1
  <2>1. k \in 0 .. m
    BY DEF m
  <2> QED  BY <1>1, <1>4, <2>1
<1>6. start[k] \in Nat \ {0}
  <2>1. k - 1 \in 0 .. m /\ (k - 1) + 1 = k
    BY <1>1 DEF m
  <2>2. start[(k - 1) + 1] \in Nat \ {0}
    BY <1>4, <2>1
  <2> QED  BY <2>1, <2>2
<1>7. pieces[k] \in Nat \ {0} /\ start[k + 1] = start[k] + pieces[k]
  BY <1>1 DEF m
<1> QED  BY <1>5, <1>6, <1>7

(* What a receiver takes of the bytes of a sender that cut at the same     *)
(* places is the pieces.                                                   *)
LEMMA PiecesArrive ==
  ASSUME NEW bools \in Seq({0, 1}), NEW sender \in Nat, NEW receiver \in Nat,
         AlignDiff(sender) = AlignDiff(receiver),
         NEW pieces, pieces = Pieces(sender, Len(bools)), NEW start, start = Starts(pieces)
  PROVE  RecvBool(SendBool(bools, sender), receiver, Len(bools))
           = SeqExt!FlattenSeq([k \in 1 .. Len(pieces) |-> SubSeq(bools, start[k], start[k + 1] - 1)])
<1> DEFINE n == Len(bools)
           m == Len(pieces)
           piece(k) == SubSeq(bools, start[k], start[k + 1] - 1)
           wire == SendBool(bools, sender)
           taken(k) == [i \in 1 .. pieces[k] |-> IF i <= Len(wire[k]) THEN wire[k][i] ELSE 0]
<1>1. n \in Nat /\ \A i \in 1 .. n : bools[i] \in {0, 1}
  BY LenProperties, ElementOfSeq
<1>2. Fill(pieces, start, n)
  <2> HIDE DEF n
  <2> QED  BY <1>1, PiecesFill DEF n
<1>3. Pieces(receiver, n) = pieces
  BY DEF Pieces, CanAlign
<1>4. m \in Nat /\ DOMAIN pieces = 1 .. m
  BY <1>2 DEF Fill
<1>5. wire = [k \in 1 .. m |-> piece(k)] /\ Len(wire) = m
  <2>1. wire = [k \in 1 .. m |-> piece(k)]
    BY <1>4 DEF SendBool
  <2> HIDE DEF wire, m, piece
  <2> QED  BY <1>4, <2>1
<1>6. ASSUME NEW k \in 1 .. m
      PROVE  taken(k) = piece(k)
  <2>1. /\ start[k] \in 1 .. n /\ start[k + 1] \in 2 .. n + 1
        /\ pieces[k] \in Nat \ {0} /\ start[k + 1] = start[k] + pieces[k]
    <3> HIDE DEF n
    <3> QED  BY <1>1, <1>2, Bounds
  <2> DEFINE lo == start[k]
             hi == start[k + 1] - 1
             p == SubSeq(bools, lo, hi)
  <2>2. lo \in Int /\ hi \in Int /\ lo <= hi /\ hi - lo + 1 = pieces[k] /\ 1 <= lo /\ hi <= n
    BY <1>1, <2>1, SMTT(30)
  <2> HIDE DEF lo, hi
  <2>3. \A i \in lo .. hi : bools[i] \in {0, 1}
    BY <1>1, <2>2
  <2>4. p \in Seq({0, 1}) /\ Len(p) = pieces[k]
    BY <2>2, <2>3, SubSeqProperties
  <2>5. wire[k] = p
    BY <1>5 DEF lo, hi
  <2> HIDE DEF p, wire
  <2>6. p = [i \in 1 .. pieces[k] |-> p[i]]
    BY <2>4, LenProperties
  <2>7. taken(k) = p
    <3> DEFINE size == pieces[k]
    <3>1. taken(k) = [i \in 1 .. size |-> IF i <= Len(p) THEN p[i] ELSE 0]
      BY <2>5
    <3> HIDE DEF size, taken
    <3>2. size = Len(p) /\ p = [i \in 1 .. size |-> p[i]]
      BY <2>4, <2>6 DEF size
    <3>3. \A i \in 1 .. size : i <= Len(p)
      BY <3>2
    <3> QED  BY <3>1, <3>2, <3>3
  <2> QED  BY <2>7 DEF p, lo, hi
<1>7. RecvBool(wire, receiver, n) = SeqExt!FlattenSeq([k \in 1 .. m |-> taken(k)])
  <2> HIDE DEF wire, n
  <2>1. ~(Len(wire) < Len(pieces))
    BY <1>4, <1>5
  <2> HIDE DEF m
  <2> QED  BY <1>3, <1>4, <2>1, Zenon DEF RecvBool
<1>8. [k \in 1 .. m |-> taken(k)] = [k \in 1 .. m |-> piece(k)]
  <2> HIDE DEF taken, piece
  <2> QED  BY <1>6
<1> QED  BY <1>7, <1>8

(***************************************************************************)
(* send_bool and recv_bool: what is stored is what was given, for every    *)
(* length, every alignment the two arrays share and every size of groups.  *)
(***************************************************************************)
THEOREM BoolsArrive ==
  ASSUME NEW bools \in Seq({0, 1}), NEW sender \in Nat, NEW receiver \in Nat,
         sender % GroupSize = receiver % GroupSize
  PROVE  RecvBool(SendBool(bools, sender), receiver, Len(bools)) = bools
<1> DEFINE n == Len(bools)
           pieces == Pieces(sender, n)
           start == Starts(pieces)
           m == Len(pieces)
           parts == [k \in 1 .. m |-> SubSeq(bools, start[k], start[k + 1] - 1)]
<1>1. AlignDiff(sender) = AlignDiff(receiver)
  BY DEF AlignDiff
<1>2. RecvBool(SendBool(bools, sender), receiver, n) = SeqExt!FlattenSeq(parts)
  BY <1>1, PiecesArrive
<1>3. n \in Nat /\ \A i \in 1 .. n : bools[i] \in {0, 1}
  BY LenProperties, ElementOfSeq
<1>4. Fill(pieces, start, n)
  <2> HIDE DEF n
  <2> QED  BY <1>3, PiecesFill
<1>5. /\ m \in Nat /\ start[1] = 1 /\ start[m + 1] = n + 1
      /\ \A k \in 1 .. m : start[k] \in 1 .. n /\ start[k + 1] \in 2 .. n + 1 /\ start[k] < start[k + 1]
  <2> HIDE DEF n, pieces, start
  <2>1. m \in Nat /\ start[1] = 1 /\ start[m + 1] = n + 1
    BY <1>4 DEF Fill
  <2>2. ASSUME NEW k \in 1 .. m
        PROVE  start[k] \in 1 .. n /\ start[k + 1] \in 2 .. n + 1 /\ start[k] < start[k + 1]
    <3>1. /\ start[k] \in 1 .. n /\ start[k + 1] \in 2 .. n + 1
          /\ pieces[k] \in Nat \ {0} /\ start[k + 1] = start[k] + pieces[k]
      BY <1>3, <1>4, Bounds
    <3> QED  BY <1>3, <3>1
  <2> QED  BY <2>1, <2>2
<1>6. CASE m = 0
  <2>1. n = 0
    BY <1>3, <1>5, <1>6
  <2>2. bools = <<>>
    BY <2>1, EmptySeq
  <2>3. Len(parts) = 0 /\ parts = <<>>
    BY <1>6
  <2>4. SeqExt!FlattenSeq(parts) = parts
    <3> HIDE DEF parts
    <3> QED  BY <2>3 DEF SeqExt!FlattenSeq
  <2> QED  BY <1>2, <2>2, <2>3, <2>4
<1>7. CASE m # 0
  <2>1. m \in Nat \ {0}
    BY <1>5, <1>7
  <2>2. ASSUME NEW k \in 1 .. m
        PROVE  parts[k] = SubSeq(bools, start[k], start[k + 1] - 1) /\ parts[k] \in Seq({0, 1})
    <3>1. parts[k] = SubSeq(bools, start[k], start[k + 1] - 1)
      OBVIOUS
    <3> DEFINE lo == start[k]
               hi == start[k + 1] - 1
    <3>2. lo \in Int /\ hi \in Int /\ \A i \in lo .. hi : bools[i] \in {0, 1}
      <4> HIDE DEF n, start, m
      <4>1. start[k] \in 1 .. n /\ start[k + 1] \in 2 .. n + 1
        BY <1>5
      <4> QED  BY <1>3, <4>1
    <3> HIDE DEF lo, hi, parts
    <3>3. SubSeq(bools, lo, hi) \in Seq({0, 1})
      BY <3>2, SubSeqProperties
    <3> QED  BY <3>1, <3>3 DEF lo, hi
  <2>3. parts \in [1 .. m -> Seq({0, 1})] /\ Len(parts) = m
    <3>1. parts = [k \in 1 .. m |-> parts[k]]
      OBVIOUS
    <3> HIDE DEF parts, m
    <3> QED  BY <2>1, <2>2, <3>1
  <2> PICK flat : Joins(flat, parts, m) /\ SeqExt!FlattenSeq(parts) = flat[m]
    <3> HIDE DEF parts, m
    <3> QED  BY <2>1, <2>3, Flattened
  <2>4. /\ SeqExt!FlattenSeq(parts) = flat[m] /\ flat[1] = parts[1]
        /\ \A k \in 2 .. m : flat[k] = flat[k - 1] \o parts[k]
    <3> HIDE DEF parts, m
    <3> QED  BY DEF Joins
  <2> HIDE DEF parts, m, start, pieces, n
  <2> DEFINE good == {j \in 0 .. m : j > 0 => flat[j] = SubSeq(bools, 1, start[j + 1] - 1)}
  <2>5. 0 \in good
    BY <2>1
  <2>6. ASSUME NEW j \in 1 .. m, j - 1 \in good
        PROVE  j \in good
    <3>1. parts[j] = SubSeq(bools, start[j], start[j + 1] - 1)
      BY <2>2
    <3>2. CASE j = 1
      <4>1. flat[1] = SubSeq(bools, 1, start[1 + 1] - 1)
        BY <1>5, <2>4, <3>1, <3>2
      <4> QED  BY <3>2, <4>1
    <3>3. CASE j # 1
      <4>1. j \in 2 .. m /\ j - 1 \in 1 .. m /\ (j - 1) + 1 = j /\ j - 1 > 0
        BY <2>1, <3>3
      <4>2. flat[j - 1] = SubSeq(bools, 1, start[(j - 1) + 1] - 1)
        BY <2>6, <4>1
      <4>3. flat[j] = flat[j - 1] \o parts[j]
        BY <2>4, <4>1
      <4> DEFINE x == start[j] - 1
                 y == start[j + 1] - 1
      <4>4. x + 1 = start[j] /\ x \in 0 .. n /\ y \in x .. n
        <5>1. start[j] \in 1 .. n /\ start[j + 1] \in 2 .. n + 1 /\ start[j] < start[j + 1]
          BY <1>5
        <5> HIDE DEF good
        <5> QED  BY <1>3, <5>1, SMTT(30)
      <4>5. flat[j] = SubSeq(bools, 1, x) \o SubSeq(bools, x + 1, y)
        BY <3>1, <4>1, <4>2, <4>3, <4>4
      <4> HIDE DEF x, y
      <4>6. SubSeq(bools, 1, x) \o SubSeq(bools, x + 1, y) = SubSeq(bools, 1, y)
        <5>1. 1 \in 1 .. Len(bools) + 1 /\ x \in 1 - 1 .. Len(bools) /\ y \in x .. Len(bools)
          BY <1>3, <4>4 DEF n
        <5> QED  BY <5>1, ConcatAdjacentSubSeq
      <4>7. flat[j] = SubSeq(bools, 1, start[j + 1] - 1)
        BY <4>5, <4>6 DEF y
      <4> QED  BY <4>7
    <3> QED  BY <3>2, <3>3
  <2>7. m \in good
    <3> HIDE DEF good
    <3> QED  BY <2>1, <2>5, <2>6, UpTo
  <2>8. flat[m] = SubSeq(bools, 1, n)
    <3>1. flat[m] = SubSeq(bools, 1, start[m + 1] - 1)
      BY <2>1, <2>7
    <3>2. start[m + 1] - 1 = n
      BY <1>3, <1>5
    <3> QED  BY <3>1, <3>2
  <2> QED  BY <1>2, <2>4, <2>8, SubSeqFull DEF n
<1> QED  BY <1>6, <1>7
=============================================================================
