------------------------------- MODULE MCNetIO -------------------------------
(***************************************************************************)
(* NetIO for the ways in which the protocols talk, with buffers of two     *)
(* bytes and a socket that takes three.                                    *)
(***************************************************************************)
EXTENDS NetIO, TLC

Of(server, client) == (SERVER :> server) @@ (CLIENT :> client)

MCScripts == {
  (* toss_random_block and the hash comparisons: both send, then receive *)
  Of(<<Send(2), Recv(2), Send(1), Recv(1)>>, <<Send(2), Recv(2), Send(1), Recv(1)>>),
  (* garbled tables: more than all buffers hold, received in other pieces *)
  Of(<<Send(3), Send(5), Recv(1)>>, <<Recv(2), Recv(6), Send(1)>>),
  (* a fix with no bits, and a fix after which the sender sends again *)
  Of(<<Recv(0), Recv(2), Send(0), Recv(1)>>, <<Send(0), Send(2), Recv(0), Send(1)>>),
  (* the final check: a last message with no receive after it *)
  Of(<<Recv(1), Send(2), Send(1)>>, <<Send(1), Recv(3)>>),
  (* flush in the middle, then sync *)
  Of(<<Send(1), Flush, Send(1)>> \o Sync(SERVER), <<Recv(2)>> \o Sync(CLIENT))}
=============================================================================
