------------------------------ MODULE EndemicOT ------------------------------
(***************************************************************************)
(* A batch of oblivious transfers with Kyber (EndemicOT.hpp,               *)
(* EndemicOT.cpp, Endemic_OT_C.c).  Two threads, in one process or in two, *)
(* talk over a connection.  Either side calls batch_send or batch_receive  *)
(* in one of two forms: "each" OT after the other, or the template that    *)
(* handles "all" of them with one message each way.                        *)
(*                                                                         *)
(* randombytes (rng.c) works on static state without a lock: a thread      *)
(* reads it when it enters and writes it when it leaves.                   *)
(***************************************************************************)
EXTENDS Kyber

CONSTANTS
  LEN,          \* OTs of a batch
  Pairs,        \* of messages
  Seeds,        \* of the generators; Draw(state): the bytes it yields
  Draw(_)

RECEIVER == "receiver"
SENDER == "sender"
Threads == {RECEIVER, SENDER}
Modes == {"each", "all"}

ASSUME BatchAssumption ==
  /\ LEN \in Nat \ {0} /\ N % 2 = 0 /\ Seeds \subseteq Nat
  /\ Pairs \subseteq [{0, 1} -> [Positions -> {0, 1}]]

(* The half of a 256-bit message that is a block of the caller. *)
Kept == 0 .. N \div 2 - 1

VARIABLES
  mode,          \* of each side
  oneProcess,    \* both threads share the generator
  choices,       \* the receiver's bits
  data,          \* the sender's pairs; what is not in Kept is neighbouring memory
  drbg,          \* state of each process' generator
  inside,        \* what a thread read of it on entry
  pc, at,        \* of each thread: its next step, in its current OT
  receivers,     \* the Receiver objects: b, secretKey, pk, keys
  coins, pk,     \* gen_sender_message's coins and public key
  ciphertexts,   \* computed by the sender, not yet sent
  toSender, toReceiver,      \* messages on their way
  received       \* the blocks batch_receive has written

vars == <<mode, oneProcess, choices, data, drbg, inside, pc, at, receivers, coins, pk, ciphertexts,
          toSender, toReceiver, received>>

inputs == <<mode, oneProcess, choices, data>>

(* A sender that wants all messages and a receiver that sends one at a     *)
(* time do not fit, and the caller may not combine them.                   *)
Init ==
  /\ mode \in [Threads -> Modes]
  /\ mode[SENDER] = "all" => (mode[RECEIVER] = "all" \/ LEN = 1)
  /\ oneProcess \in BOOLEAN
  /\ choices \in [1 .. LEN -> {0, 1}]
  /\ data \in [1 .. LEN -> Pairs]
  /\ drbg \in [Threads -> Seeds]
  /\ inside = [t \in Threads |-> <<>>]
  /\ pc = [t \in Threads |-> IF t = RECEIVER THEN "keypair" ELSE "recv"]
  /\ at = [t \in Threads |-> 1]
  /\ receivers = <<>> /\ ciphertexts = <<>> /\ coins = <<>> /\ pk = <<>>
  /\ toSender = <<>> /\ toReceiver = <<>> /\ received = <<>>

-----------------------------------------------------------------------------
Process(t) == IF oneProcess THEN SENDER ELSE t

Goto(t, step) == pc' = [pc EXCEPT ![t] = step]

(* randombytes: the state is read here,                                    *)
Enter(t, step) ==
  /\ pc[t] = step /\ inside[t] = <<>>
  /\ inside' = [inside EXCEPT ![t] = <<drbg[Process(t)]>>]
  /\ UNCHANGED <<inputs, drbg, pc, at, receivers, coins, pk, ciphertexts, toSender, toReceiver, received>>

(* and written back here, when the bytes are Draw(inside[t][1]).           *)
Leave(t, step) ==
  /\ pc[t] = step /\ inside[t] # <<>>
  /\ drbg' = [drbg EXCEPT ![Process(t)] = inside[t][1] + 1]
  /\ inside' = [inside EXCEPT ![t] = <<>>]

Bytes(t) == Draw(inside[t][1])

-----------------------------------------------------------------------------
(* Receiver::Receiver, gen_receiver_message: indcpa_keypair,               *)
ReceiverKeypair ==
  /\ Leave(RECEIVER, "keypair")
  /\ receivers' = Append(receivers,
       [b |-> choices[at[RECEIVER]], secretKey |-> Keypair(Bytes(RECEIVER)).sk,
        pk |-> Keypair(Bytes(RECEIVER)).pk, keys |-> <<>>])
  /\ Goto(RECEIVER, "seed")
  /\ UNCHANGED <<inputs, at, coins, pk, ciphertexts, toSender, toReceiver, received>>

(* then a random key for the item not chosen, and its own key less the     *)
(* hash of that one.  The template makes all objects first.                *)
ReceiverKeys ==
  LET last == Len(receivers)
      b == receivers[last].b
      key == receivers[last].pk
      other == RandomPK(Bytes(RECEIVER), key.seed)
      own == PkMinus(key, PkHash(other, key.seed))
      more == mode[RECEIVER] = "all" /\ at[RECEIVER] < LEN
  IN  /\ Leave(RECEIVER, "seed")
      /\ receivers' = [receivers EXCEPT ![last].keys = [k \in {0, 1} |-> IF k = b THEN own ELSE other]]
      /\ Goto(RECEIVER, IF more THEN "keypair" ELSE "send")
      /\ at' = [at EXCEPT ![RECEIVER] = IF more THEN @ + 1 ELSE @]
      /\ UNCHANGED <<inputs, coins, pk, ciphertexts, toSender, toReceiver, received>>

(* Mutant: goes on to the next OT before the sender has answered. *)
ReceiverSendsOn ==
  LET more == at[RECEIVER] < LEN
  IN  /\ pc[RECEIVER] = "send"
      /\ toSender' = Append(toSender, receivers[at[RECEIVER]].keys)
      /\ at' = [at EXCEPT ![RECEIVER] = IF more THEN @ + 1 ELSE 1]
      /\ Goto(RECEIVER, IF more THEN "keypair" ELSE "recv")
      /\ UNCHANGED <<inputs, drbg, inside, receivers, coins, pk, ciphertexts, toReceiver, received>>

ReceiverSends ==
  LET message(i) == receivers[i].keys
  IN  /\ pc[RECEIVER] = "send"
      /\ toSender' = toSender \o (IF mode[RECEIVER] = "all" THEN [i \in 1 .. LEN |-> message(i)]
                                  ELSE <<message(at[RECEIVER])>>)
      /\ Goto(RECEIVER, "recv")
      /\ UNCHANGED <<inputs, drbg, inside, at, receivers, coins, pk, ciphertexts, toReceiver, received>>

(* Mutant: the caller's block takes the other half. *)
DecryptedSecondHalf(receiver, message) ==
  LET bits == Dec(message[receiver.b + 1], receiver.secretKey)
  IN  [k \in Kept |-> bits[N \div 2 + k]]

(* decrypt_chosen; the caller's block takes the first half.                *)
Decrypted(receiver, message) ==
  LET bits == Dec(message[receiver.b + 1], receiver.secretKey) IN [k \in Kept |-> bits[k]]

ReceiverDecrypts ==
  LET n == IF mode[RECEIVER] = "all" THEN LEN ELSE 1
      first == IF mode[RECEIVER] = "all" THEN 1 ELSE at[RECEIVER]
  IN  /\ pc[RECEIVER] = "recv" /\ Len(toReceiver) >= n
      /\ received' = received \o
           [i \in 1 .. n |-> Decrypted(receivers[first + i - 1], toReceiver[i])]
      /\ toReceiver' = SubSeq(toReceiver, n + 1, Len(toReceiver))
      /\ at' = [at EXCEPT ![RECEIVER] = @ + 1]
      /\ Goto(RECEIVER, IF at[RECEIVER] < LEN THEN "keypair" ELSE "done")
      /\ UNCHANGED <<inputs, drbg, inside, receivers, coins, pk, ciphertexts, toSender>>

-----------------------------------------------------------------------------
SenderReceives ==
  /\ pc[SENDER] = "recv"
  /\ Len(toSender) >= IF mode[SENDER] = "all" THEN LEN ELSE 1
  /\ Goto(SENDER, "coins0")
  /\ UNCHANGED <<inputs, drbg, inside, at, receivers, coins, pk, ciphertexts, toSender, toReceiver,
                 received>>

CoinsOf(k) == IF k = 0 THEN "coins0" ELSE "coins1"
EncryptOf(k) == IF k = 0 THEN "encrypt0" ELSE "encrypt1"

(* Mutant: the hash of the item's own key. *)
SenderCoinsOwnHash(k) ==
  LET keys == Head(toSender)
  IN  /\ Leave(SENDER, CoinsOf(k))
      /\ coins' = <<Bytes(SENDER)>>
      /\ pk' = <<PkPlus(keys[k], PkHash(keys[k], keys[0].seed))>>
      /\ Goto(SENDER, EncryptOf(k))
      /\ UNCHANGED <<inputs, at, receivers, ciphertexts, toSender, toReceiver, received>>

(* gen_sender_message, for one item after the other: fresh coins, the key  *)
(* of the receiver's message plus the hash of the other key,               *)
SenderCoins(k) ==
  LET keys == Head(toSender)
  IN  /\ Leave(SENDER, CoinsOf(k))
      /\ coins' = <<Bytes(SENDER)>>
      /\ pk' = <<PkPlus(keys[k], PkHash(keys[1 - k], keys[0].seed))>>
      /\ Goto(SENDER, EncryptOf(k))
      /\ UNCHANGED <<inputs, at, receivers, ciphertexts, toSender, toReceiver, received>>

(* and the encryption.  The template encrypts for all messages first.      *)
SenderEncrypts(k) ==
  LET more == mode[SENDER] = "all" /\ at[SENDER] < LEN
      ciphertext == Enc(data[at[SENDER]][k], pk[1], coins[1])
  IN  /\ pc[SENDER] = EncryptOf(k)
      /\ coins' = <<>> /\ pk' = <<>>
      /\ IF k = 0
         THEN /\ ciphertexts' = Append(ciphertexts, <<ciphertext>>)
              /\ Goto(SENDER, "coins1")
              /\ UNCHANGED <<toSender, at>>
         ELSE /\ ciphertexts' = [ciphertexts EXCEPT ![Len(ciphertexts)] = Append(@, ciphertext)]
              /\ Goto(SENDER, IF more THEN "coins0" ELSE "send")
              /\ toSender' = Tail(toSender)
              /\ at' = [at EXCEPT ![SENDER] = @ + 1]
      /\ UNCHANGED <<inputs, drbg, inside, receivers, toReceiver, received>>

(* Mutant: what was sent is sent again with the next. *)
SenderSendsAgain ==
  /\ pc[SENDER] = "send"
  /\ toReceiver' = toReceiver \o ciphertexts
  /\ Goto(SENDER, IF at[SENDER] <= LEN THEN "recv" ELSE "done")
  /\ UNCHANGED <<inputs, drbg, inside, at, receivers, coins, pk, ciphertexts, toSender, received>>

SenderSends ==
  /\ pc[SENDER] = "send"
  /\ toReceiver' = toReceiver \o ciphertexts
  /\ ciphertexts' = <<>>
  /\ Goto(SENDER, IF at[SENDER] <= LEN THEN "recv" ELSE "done")
  /\ UNCHANGED <<inputs, drbg, inside, at, receivers, coins, pk, toSender, received>>

-----------------------------------------------------------------------------
Receiver ==
  \/ Enter(RECEIVER, "keypair") \/ ReceiverKeypair \/ Enter(RECEIVER, "seed") \/ ReceiverKeys
  \/ ReceiverSends \/ ReceiverDecrypts

Sender ==
  \/ SenderReceives \/ SenderSends
  \/ \E k \in {0, 1} : Enter(SENDER, CoinsOf(k)) \/ SenderCoins(k) \/ SenderEncrypts(k)

Done == \A t \in Threads : pc[t] = "done"

Next == Receiver \/ Sender \/ (Done /\ UNCHANGED vars)

(* Both threads run, and the connection delivers. *)
Fairness == WF_vars(Receiver) /\ WF_vars(Sender)

Spec == Init /\ [][Next]_vars /\ Fairness

-----------------------------------------------------------------------------
(* Two threads of a process are never both in randombytes, which has no    *)
(* lock: in every combination of the forms one side draws only while the   *)
(* other waits for its message.                                            *)
RngExclusive == oneProcess => \E t \in Threads : inside[t] = <<>>

(* How often each thread has drawn. *)
Drawn ==
  [t \in Threads |->
     IF t = RECEIVER THEN 2 * Len(receivers) - IF pc[RECEIVER] = "seed" THEN 1 ELSE 0
     ELSE 2 * at[SENDER] - CASE pc[SENDER] = "encrypt1" -> 0
                             [] pc[SENDER] \in {"encrypt0", "coins1"} -> 1
                             [] OTHER -> 2]

(* So no draw is lost, nor are bytes handed out twice: the state of a      *)
(* generator has moved on once for every draw of the threads that use it,  *)
(* both of them where they are in one process.                             *)
EveryDrawAdvances ==
  \A t \in Threads : \E seed \in Seeds :
    drbg[Process(t)] = seed + (IF oneProcess THEN Drawn[RECEIVER] + Drawn[SENDER] ELSE Drawn[t])

(* What the sender encrypts the chosen item with is the key whose secret   *)
(* the receiver of that OT holds: it comes out of a difference and a hash  *)
(* the way it went in, packed again and again, and the messages and the    *)
(* objects of the two sides keep their order in every combination of the   *)
(* forms.                                                                  *)
ChosenKeyIsReceivers ==
  \A k \in {0, 1} :
    pc[SENDER] = EncryptOf(k) /\ choices[at[SENDER]] = k => pk = <<receivers[at[SENDER]].pk>>

(* When both calls have returned no message of this batch is left for the  *)
(* next one on the connection, also when one side counted in batches and   *)
(* the other in single OTs.                                                *)
ConnectionLeftEmpty == Done => toSender = <<>> /\ toReceiver = <<>>

(* The generator states a batch can read, and what has to be true of the   *)
(* keypairs and coins they yield: no decryption fails in the half of a     *)
(* message that is kept.                                                   *)
States == {seed + n : seed \in Seeds, n \in 0 .. 4 * LEN - 1}

DecryptsRight ==
  \A s, t \in States : \A message \in [Positions -> {0, 1}] : \A k \in Kept :
    LET pair == Keypair(Draw(s))
    IN  Dec(Enc(message, pair.pk, Draw(t)), pair.sk)[k] = message[k]

items == [i \in 1 .. LEN |-> [k \in Kept |-> data[i][choices[i]][k]]]

Ideal == INSTANCE IdealOT

(* batch_receive writes the chosen blocks, in order, for every combination *)
(* of forms and whatever lies behind the sender's blocks in memory, and    *)
(* both calls return: the receiver's key, split into a difference and a    *)
(* hash, is put together again by the sender, and the noise of the key, of *)
(* the ciphertext and of its compression stays below a quarter of q.       *)
ImplementsOT == Ideal!OTSpec
=============================================================================
