------------------------------- MODULE NetIO --------------------------------
(***************************************************************************)
(* The two NetIO objects of a connection (net-io.hpp), from their          *)
(* constructors to their destruction.  The server listens for one          *)
(* connection, the client tries until it is not refused.  From then on     *)
(* send_data and recv_data go through two stdio streams                    *)
(* over one socket: fwrite fills a buffer and writes it to the socket when *)
(* it is full or flushed, fread blocks until the socket has bytes.  A      *)
(* party flushes what it sent when it next receives, and when the object   *)
(* is destroyed.                                                           *)
(*                                                                         *)
(* A party runs a script of calls; bytes are numbered in the order they    *)
(* are sent.  sendBuf and recvBuf are the stdio buffers, socket[p] what    *)
(* the kernel holds of p's bytes.                                          *)
(***************************************************************************)
EXTENDS Naturals, Sequences

CONSTANTS
  Scripts,        \* pairs of scripts: functions from Party to sequences of calls
  BufferSize,     \* NETWORK_BUFFER_SIZE
  SocketSize,     \* what the kernel takes before a write blocks
  Failing         \* the parties whose process may die

SERVER == "SERVER"
CLIENT == "CLIENT"
Party == {SERVER, CLIENT}

Calls == [call : {"send", "recv", "flush"}, len : Nat]

ASSUME SizesAssumption ==
  BufferSize \in Nat \ {0} /\ SocketSize \in Nat \ {0} /\ Failing \subseteq Party

ASSUME ScriptsAssumption == \A pair \in Scripts : pair \in [Party -> Seq(Calls)]

Peer(p) == IF p = SERVER THEN CLIENT ELSE SERVER

(* The calls of a script. *)
Send(len) == [call |-> "send", len |-> len]
Recv(len) == [call |-> "recv", len |-> len]
Flush == [call |-> "flush", len |-> 0]

(* sync: one byte each way, the server first. *)
Sync(p) == IF p = SERVER THEN <<Send(1), Recv(1)>> ELSE <<Recv(1), Send(1), Flush>>

VARIABLES
  script,     \* the pair of scripts of this execution
  pc,         \* the call each party is in
  moved,      \* the bytes it has sent or received in this call
  entered,    \* in recv_data_internal, past the flush of its beginning
  flushing,   \* in fflush, or in fwrite with a full buffer
  hasSent,
  sendBuf, socket, recvBuf,
  sent,       \* bytes given to fwrite
  got,        \* bytes fread returned, the last one's number
  status,     \* "new", "listening", "open", "closed" (destroyed), "threw",
              \* "unbound" (the constructor threw), "died"
  link,       \* of the client's connect: "none", "trying", "made"
  fds         \* open descriptors of each object

netVars == <<script, pc, moved, entered, flushing, hasSent, sendBuf, socket, recvBuf, sent, got,
             status, link, fds>>

Init ==
  /\ script \in Scripts
  /\ pc = [p \in Party |-> 1]
  /\ moved = [p \in Party |-> 0]
  /\ entered = [p \in Party |-> FALSE]
  /\ flushing = [p \in Party |-> FALSE]
  /\ hasSent = [p \in Party |-> FALSE]
  /\ sendBuf = [p \in Party |-> <<>>]
  /\ socket = [p \in Party |-> <<>>]
  /\ recvBuf = [p \in Party |-> <<>>]
  /\ sent = [p \in Party |-> 0]
  /\ got = [p \in Party |-> 0]
  /\ status = [p \in Party |-> "new"]
  /\ link = "none"
  /\ fds = [p \in Party |-> 0]

-----------------------------------------------------------------------------
streamVars == <<script, pc, moved, entered, flushing, hasSent, sendBuf, socket, recvBuf, sent, got>>

Statuses == {"new", "listening", "open", "closed", "threw", "unbound", "died"}

Alive(p) == status[p] \in {"new", "listening", "open"}

(* The server's constructor: socket, bind and listen; then accept, which   *)
(* waits for the client, and close of the listening socket.  A failed bind *)
(* throws with the socket open: no destructor runs.                        *)
Listen ==
  /\ status[SERVER] = "new"
  /\ status' = [status EXCEPT ![SERVER] = "listening"]
  /\ fds' = [fds EXCEPT ![SERVER] = @ + 1]
  /\ UNCHANGED <<streamVars, link>>

BindFails ==
  /\ SERVER \in Failing /\ status[SERVER] = "new"
  /\ status' = [status EXCEPT ![SERVER] = "unbound"]
  /\ fds' = [fds EXCEPT ![SERVER] = @ + 1]
  /\ UNCHANGED <<streamVars, link>>

Accept ==
  /\ status[SERVER] = "listening" /\ link = "made"
  /\ status' = [status EXCEPT ![SERVER] = "open"]
  /\ fds' = [fds EXCEPT ![SERVER] = @ + 2 - 1]      \* consocket, its dup, close of mysocket
  /\ UNCHANGED <<streamVars, link>>

(* The client's loop: a new socket for every attempt.  The kernel takes    *)
(* the connection as soon as the server listens.                           *)
ClientSocket ==
  /\ status[CLIENT] = "new" /\ link = "none"
  /\ link' = "trying"
  /\ fds' = [fds EXCEPT ![CLIENT] = @ + 1]
  /\ UNCHANGED <<streamVars, status>>

Connect ==
  /\ status[CLIENT] = "new" /\ link = "trying" /\ status[SERVER] = "listening"
  /\ link' = "made"
  /\ status' = [status EXCEPT ![CLIENT] = "open"]
  /\ fds' = [fds EXCEPT ![CLIENT] = @ + 1]      \* dup
  /\ UNCHANGED streamVars

(* Mutant: the refused socket stays open. *)
RefusedKeptOpen ==
  /\ status[CLIENT] = "new" /\ link = "trying" /\ status[SERVER] # "listening"
  /\ link' = "none"
  /\ UNCHANGED <<streamVars, status, fds>>

Refused ==
  /\ status[CLIENT] = "new" /\ link = "trying" /\ status[SERVER] # "listening"
  /\ link' = "none"
  /\ fds' = [fds EXCEPT ![CLIENT] = @ - 1]
  /\ UNCHANGED <<streamVars, status>>

-----------------------------------------------------------------------------
Running(p) == status[p] = "open" /\ ~flushing[p]

Returned(p) == pc[p] > Len(script[p])

Call(p) == script[p][pc[p]]

In(p, call) == Running(p) /\ ~Returned(p) /\ Call(p).call = call

NextCall(p) ==
  /\ pc' = [pc EXCEPT ![p] = @ + 1]
  /\ moved' = [moved EXCEPT ![p] = 0]
  /\ entered' = [entered EXCEPT ![p] = FALSE]

SameCall == UNCHANGED <<pc, moved, entered>>

(* Mutant: copies without looking at the room in the buffer. *)
CopyInUnbounded(p) ==
  /\ In(p, "send") /\ moved[p] < Call(p).len
  /\ sendBuf' = [sendBuf EXCEPT ![p] = Append(@, sent[p] + 1)]
  /\ sent' = [sent EXCEPT ![p] = @ + 1]
  /\ moved' = [moved EXCEPT ![p] = @ + 1]
  /\ UNCHANGED <<script, pc, entered, flushing, hasSent, socket, recvBuf, got, status, link, fds>>

(* send_data_internal: fwrite copies bytes while the buffer has room and   *)
(* writes the buffer out when it has none.                                 *)
CopyIn(p) ==
  /\ In(p, "send") /\ moved[p] < Call(p).len
  /\ Len(sendBuf[p]) < BufferSize
  /\ sendBuf' = [sendBuf EXCEPT ![p] = Append(@, sent[p] + 1)]
  /\ sent' = [sent EXCEPT ![p] = @ + 1]
  /\ moved' = [moved EXCEPT ![p] = @ + 1]
  /\ UNCHANGED <<script, pc, entered, flushing, hasSent, socket, recvBuf, got, status, link, fds>>

BufferFull(p) ==
  /\ In(p, "send") /\ moved[p] < Call(p).len
  /\ Len(sendBuf[p]) = BufferSize
  /\ flushing' = [flushing EXCEPT ![p] = TRUE]
  /\ SameCall
  /\ UNCHANGED <<script, hasSent, sendBuf, socket, recvBuf, sent, got, status, link, fds>>

EndSend(p) ==
  /\ In(p, "send") /\ moved[p] = Call(p).len
  /\ hasSent' = [hasSent EXCEPT ![p] = TRUE]
  /\ NextCall(p)
  /\ UNCHANGED <<script, flushing, sendBuf, socket, recvBuf, sent, got, status, link, fds>>

(* fflush's write loop: the socket takes a byte when it has room.  Once    *)
(* the peer's end is gone it takes bytes that nobody reads, or fails; a    *)
(* failure makes fwrite return 0, or the signal SIGPIPE ends the process.  *)
Transmit(p) ==
  /\ status[p] = "open" /\ flushing[p] /\ sendBuf[p] # <<>>
  /\ \/ /\ Alive(Peer(p)) /\ Len(socket[p]) < SocketSize
        /\ socket' = [socket EXCEPT ![p] = Append(@, Head(sendBuf[p]))]
        /\ sendBuf' = [sendBuf EXCEPT ![p] = Tail(@)]
        /\ UNCHANGED status
     \/ /\ ~Alive(Peer(p))
        /\ sendBuf' = [sendBuf EXCEPT ![p] = Tail(@)]
        /\ UNCHANGED <<socket, status>>
     \/ /\ ~Alive(Peer(p))
        /\ status' \in {[status EXCEPT ![p] = "threw"], [status EXCEPT ![p] = "died"]}
        /\ UNCHANGED <<sendBuf, socket>>
  /\ SameCall
  /\ fds' = [fds EXCEPT ![p] = IF status'[p] = "open" THEN @ ELSE 0]
  /\ UNCHANGED <<script, flushing, hasSent, recvBuf, sent, got, link>>

Flushed(p) ==
  /\ status[p] = "open" /\ flushing[p] /\ sendBuf[p] = <<>>
  /\ flushing' = [flushing EXCEPT ![p] = FALSE]
  /\ SameCall
  /\ UNCHANGED <<script, hasSent, sendBuf, socket, recvBuf, sent, got, status, link, fds>>

FlushCall(p) ==
  /\ In(p, "flush")
  /\ flushing' = [flushing EXCEPT ![p] = TRUE]
  /\ NextCall(p)
  /\ UNCHANGED <<script, hasSent, sendBuf, socket, recvBuf, sent, got, status, link, fds>>

(* Mutant: receives without a flush. *)
EnterRecvUnflushed(p) ==
  /\ In(p, "recv") /\ ~entered[p]
  /\ entered' = [entered EXCEPT ![p] = TRUE]
  /\ hasSent' = [hasSent EXCEPT ![p] = FALSE]
  /\ UNCHANGED <<script, pc, moved, flushing, sendBuf, socket, recvBuf, sent, got, status, link, fds>>

(* recv_data_internal: flush what was sent since the last receive. *)
EnterRecv(p) ==
  /\ In(p, "recv") /\ ~entered[p]
  /\ entered' = [entered EXCEPT ![p] = TRUE]
  /\ flushing' = [flushing EXCEPT ![p] = hasSent[p]]
  /\ hasSent' = [hasSent EXCEPT ![p] = FALSE]
  /\ UNCHANGED <<script, pc, moved, sendBuf, socket, recvBuf, sent, got, status, link, fds>>

Reading(p) == In(p, "recv") /\ entered[p] /\ moved[p] < Call(p).len

(* fread: from the buffer, or a read of what the socket has. *)
CopyOut(p) ==
  /\ Reading(p) /\ recvBuf[p] # <<>>
  /\ recvBuf' = [recvBuf EXCEPT ![p] = Tail(@)]
  /\ got' = [got EXCEPT ![p] = Head(recvBuf[p])]
  /\ moved' = [moved EXCEPT ![p] = @ + 1]
  /\ UNCHANGED <<script, pc, entered, flushing, hasSent, sendBuf, socket, sent, status, link, fds>>

(* Mutant: reads again before the buffer is empty, over what is left. *)
RefillEarly(p) ==
  LET available == socket[Peer(p)]
      n == IF Len(available) < BufferSize THEN Len(available) ELSE BufferSize
  IN  /\ Reading(p) /\ available # <<>>
      /\ recvBuf' = [recvBuf EXCEPT ![p] = SubSeq(available, 1, n)]
      /\ socket' = [socket EXCEPT ![Peer(p)] = SubSeq(@, n + 1, Len(@))]
      /\ SameCall
      /\ UNCHANGED <<script, flushing, hasSent, sendBuf, sent, got, status, link, fds>>

Refill(p) ==
  LET available == socket[Peer(p)]
      n == IF Len(available) < BufferSize THEN Len(available) ELSE BufferSize
  IN  /\ Reading(p) /\ recvBuf[p] = <<>> /\ available # <<>>
      /\ recvBuf' = [recvBuf EXCEPT ![p] = SubSeq(available, 1, n)]
      /\ socket' = [socket EXCEPT ![Peer(p)] = SubSeq(@, n + 1, Len(@))]
      /\ SameCall
      /\ UNCHANGED <<script, flushing, hasSent, sendBuf, sent, got, status, link, fds>>

(* Mutant: the loop of recv_data_internal goes on when fread returns 0. *)
EndOfFileRetry(p) ==
  /\ Reading(p) /\ recvBuf[p] = <<>> /\ socket[Peer(p)] = <<>>
  /\ ~Alive(Peer(p))
  /\ UNCHANGED netVars

(* End of file: fread returns less and then 0. *)
EndOfFile(p) ==
  /\ Reading(p) /\ recvBuf[p] = <<>> /\ socket[Peer(p)] = <<>>
  /\ ~Alive(Peer(p))
  /\ status' = [status EXCEPT ![p] = "threw"]
  /\ fds' = [fds EXCEPT ![p] = 0]
  /\ SameCall
  /\ UNCHANGED <<script, flushing, hasSent, sendBuf, socket, recvBuf, sent, got, link>>

EndRecv(p) ==
  /\ In(p, "recv") /\ entered[p] /\ moved[p] = Call(p).len
  /\ NextCall(p)
  /\ UNCHANGED <<script, flushing, hasSent, sendBuf, socket, recvBuf, sent, got, status, link, fds>>

(* Mutant: closes the descriptor, the buffer is not written. *)
DestroyUnflushed(p) ==
  /\ Running(p) /\ Returned(p)
  /\ status' = [status EXCEPT ![p] = "closed"]
  /\ fds' = [fds EXCEPT ![p] = 0]
  /\ SameCall
  /\ UNCHANGED <<script, flushing, hasSent, sendBuf, socket, recvBuf, sent, got, link>>

(* ~NetIO: flush, then close both streams.                                 *)
Destroy(p) ==
  /\ Running(p) /\ Returned(p)
  /\ IF sendBuf[p] # <<>>
     THEN flushing' = [flushing EXCEPT ![p] = TRUE] /\ UNCHANGED <<status, fds>>
     ELSE /\ status' = [status EXCEPT ![p] = "closed"]
          /\ fds' = [fds EXCEPT ![p] = @ - 2]
          /\ UNCHANGED flushing
  /\ SameCall
  /\ UNCHANGED <<script, hasSent, sendBuf, socket, recvBuf, sent, got, link>>

(* The process dies: its buffer is gone, and the reset of the connection   *)
(* may discard bytes that were on their way.                               *)
Die(p) ==
  /\ p \in Failing /\ Alive(p)
  /\ status' = [status EXCEPT ![p] = "died"]
  /\ sendBuf' = [sendBuf EXCEPT ![p] = <<>>]
  /\ \E n \in 0 .. Len(socket[p]) : socket' = [socket EXCEPT ![p] = SubSeq(@, 1, n)]
  /\ fds' = [fds EXCEPT ![p] = 0]
  /\ SameCall
  /\ UNCHANGED <<script, flushing, hasSent, recvBuf, sent, got, link>>

-----------------------------------------------------------------------------
Step(p) ==
  \/ CopyIn(p) \/ BufferFull(p) \/ EndSend(p) \/ Transmit(p) \/ Flushed(p) \/ FlushCall(p)
  \/ EnterRecv(p) \/ CopyOut(p) \/ Refill(p) \/ EndOfFile(p) \/ EndRecv(p) \/ Destroy(p)

Establish(p) == IF p = SERVER THEN Listen \/ Accept ELSE ClientSocket \/ Connect \/ Refused

Ended == \A p \in Party : ~Alive(p)

Next ==
  \/ \E p \in Party : Establish(p) \/ Step(p) \/ Die(p)
  \/ BindFails
  \/ Ended /\ UNCHANGED netVars

(* A process that can run does; the kernel passes on what it took. *)
Fairness == \A p \in Party : WF_netVars(Establish(p) \/ Step(p))

Spec == Init /\ [][Next]_netVars /\ Fairness

-----------------------------------------------------------------------------
(* The streams' shape and limits: no buffer and no socket holds more than  *)
(* its size, however the calls of both parties interleave, and no object   *)
(* more than two descriptors, however often its client was refused; a      *)
(* destroyed one has none.                                                 *)
TypeOK ==
  /\ script \in Scripts /\ pc \in [Party -> Nat \ {0}]
  /\ moved \in [Party -> Nat] /\ sent \in [Party -> Nat] /\ got \in [Party -> Nat]
  /\ entered \in [Party -> BOOLEAN] /\ flushing \in [Party -> BOOLEAN]
  /\ hasSent \in [Party -> BOOLEAN]
  /\ sendBuf \in [Party -> Seq(Nat)] /\ socket \in [Party -> Seq(Nat)]
  /\ recvBuf \in [Party -> Seq(Nat)]
  /\ status \in [Party -> Statuses] /\ link \in {"none", "trying", "made"}
  /\ fds \in [Party -> 0 .. 2]
  /\ \A p \in Party :
       /\ pc[p] <= Len(script[p]) + 1
       /\ Len(sendBuf[p]) <= BufferSize /\ Len(socket[p]) <= SocketSize
       /\ Len(recvBuf[p]) <= BufferSize
       /\ status[p] = "closed" => fds[p] = 0

(***************************************************************************)
(* A party that waits for bytes has none of its own in its buffer: the     *)
(* peer may be waiting for them.  hasSent has to be set whenever the       *)
(* buffer may be filled and reset only with a flush.                       *)
(***************************************************************************)
NeverWaitsUnsent == \A p \in Party : Reading(p) => sendBuf[p] = <<>>

(* The bytes on their way from a party. *)
InTransit == [p \in Party |-> recvBuf[Peer(p)] \o socket[p] \o sendBuf[p]]

up == {p \in Party : Alive(p)}

IdealChannel == INSTANCE Channel WITH stream <- InTransit

(* What one object sends the other receives: buffers, flushes and partial  *)
(* reads lose, repeat and reorder nothing.  The end of a process cuts the  *)
(* end off its stream, and never takes a byte out of the middle.           *)
ImplementsChannel == IdealChannel!ChannelSpec

(***************************************************************************)
(* If nobody dies and the server can bind, the client's loop ends, scripts *)
(* that match end, both objects are destroyed, no call threw and every     *)
(* byte arrived: also the bytes of a last send that no receive and no      *)
(* flush follows, as that of the garbler's check.                          *)
(***************************************************************************)
EveryByteArrives ==
  \/ <>(\E p \in Party : status[p] \in {"died", "unbound"})
  \/ <>(\A p \in Party : status[p] = "closed" /\ got[Peer(p)] = sent[p])

(***************************************************************************)
(* Once the connection is made, a process that dies does not leave the     *)
(* other waiting: that one ends or throws, also when the server dies       *)
(* before it accepts.                                                      *)
(***************************************************************************)
PeerEnds == link = "made" ~> Ended
=============================================================================
