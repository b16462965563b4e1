------------------------------ MODULE Channel -------------------------------
(***************************************************************************)
(* What the protocols expect of NetIO: a byte stream in each direction     *)
(* that loses, repeats and reorders nothing, but for its end when an end   *)
(* of the channel goes.  The bytes a party sends are numbered 1, 2, ...    *)
(***************************************************************************)
EXTENDS Naturals, Sequences

CONSTANTS Party, Peer(_)

VARIABLES
  sent,       \* number of bytes each party has sent
  stream,     \* stream[p]: the bytes on their way from p
  got,        \* got[p]: number of bytes p has received
  up          \* the parties that are there

channelVars == <<sent, stream, got, up>>

ChannelInit ==
  /\ sent = [p \in Party |-> 0]
  /\ stream = [p \in Party |-> <<>>]
  /\ got = [p \in Party |-> 0]
  /\ up = Party

SendByte(p) ==
  /\ p \in up
  /\ sent' = [sent EXCEPT ![p] = @ + 1]
  /\ stream' = [stream EXCEPT ![p] = Append(@, sent[p] + 1)]
  /\ UNCHANGED <<got, up>>

(* The next byte is the one after the last. *)
RecvByte(p) ==
  /\ p \in up
  /\ stream[Peer(p)] # <<>>
  /\ Head(stream[Peer(p)]) = got[p] + 1
  /\ stream' = [stream EXCEPT ![Peer(p)] = Tail(@)]
  /\ got' = [got EXCEPT ![p] = @ + 1]
  /\ UNCHANGED <<sent, up>>

(* A party goes; what it has sent may be cut short. *)
Leave(p) ==
  /\ p \in up
  /\ up' = up \ {p}
  /\ \E n \in 0 .. Len(stream[p]) : stream' = [stream EXCEPT ![p] = SubSeq(@, 1, n)]
  /\ UNCHANGED <<sent, got>>

(* Bytes for a party that is gone go nowhere. *)
DropByte(p) ==
  /\ Peer(p) \notin up
  /\ \E n \in DOMAIN stream[p] :
       stream' = [stream EXCEPT ![p] = SubSeq(@, 1, n - 1) \o SubSeq(@, n + 1, Len(@))]
  /\ UNCHANGED <<sent, got, up>>

ChannelNext == \E p \in Party : SendByte(p) \/ RecvByte(p) \/ Leave(p) \/ DropByte(p)

ChannelSpec == ChannelInit /\ [][ChannelNext]_channelVars
=============================================================================
