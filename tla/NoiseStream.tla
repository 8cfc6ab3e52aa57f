---------------------------- MODULE NoiseStream ----------------------------
(***************************************************************************)
(* One direction of an encrypted connection, from Conn.Write of one side to *)
(* Conn.Read of the other.  Write cuts what it is given into messages; each *)
(* is sent as two ciphertexts, its length and its bytes.  Both sides count  *)
(* the operations of their cipher and derive a new key after every          *)
(* KeyRotationInterval of them; nothing on the wire says which key or nonce *)
(* a ciphertext is under.                                                   *)
(*                                                                         *)
(* The bytes written are numbered, and a payload is the interval of numbers *)
(* it carries.  A key is the key the handshake agreed on and the number of  *)
(* times it was rotated.  The network delivers in order; it may damage a    *)
(* ciphertext, or break, after which what was not received is lost.         *)
(*                                                                         *)
(* net/rpc, the caller, is external: it writes something or nothing, calls  *)
(* Write from one goroutine at a time and Read from another, and gives the  *)
(* connection up when either fails.                                         *)
(***************************************************************************)
EXTENDS Integers, Sequences

CONSTANTS KeyRotationInterval,  \* operations under one key (1000 in the code)
          MaxUint16,            \* bytes of the longest message
          Sizes,                \* how much a Write may be given
          Buffers,              \* room that a Read may be given
          MaxWritten            \* bound: bytes that are written

ASSUME NoiseStreamAssumption ==
    /\ KeyRotationInterval \in Nat \ {0}
    /\ MaxUint16 \in Nat \ {0}
    /\ Sizes \subseteq Nat \ {0}
    /\ Buffers \subseteq Nat \ {0}
    /\ MaxWritten \in Nat

VARIABLES send,     \* sendCipher of the writing side
          recv,     \* recvCipher of the reading side
          wire,     \* ciphertexts that were sent and not received
          writer,   \* where Write is: "idle", "length", "payload" or "failed"
          todo,     \* bytes of the Write that are not sent yet
          chunk,    \* length of the message whose length was sent, or 0
          written,  \* bytes that were sent
          reader,   \* where Read is: "length", "payload", "failed" or "ended"
          pktLen,   \* length of the message that is being read, or 0
          readBuf,  \* bytes that were received and not read
          got,      \* history: number of the last byte that was read
          order,    \* history: "lost" once a byte was read that is not the next
          sealed,   \* history: keys and nonces that were used to encrypt
          reused,   \* history: "yes" once one of them was used again
          damaged   \* history: "yes" once the network damaged a ciphertext

ciphers == <<send, recv>>
writing == <<writer, todo, chunk, written>>
reading == <<reader, pktLen, readBuf, got, order>>
histories == <<sealed, reused, damaged>>
streamVars == <<ciphers, wire, writing, reading, histories>>

-----------------------------------------------------------------------------
(* The sides, their public keys, and the secret that ecdh makes of one key and  *)
(* the private part of another, which either side can compute.                *)
Sides == {"initiator", "responder"}
Static(side) == <<side, "static">>
Ephemeral(side) == <<side, "ephemeral">>
Ecdh(pub, priv) == {pub, priv}

(* What the handshake agrees on when nobody disturbs it: the secrets ee, es and *)
(* se, and of the two keys that split makes of them the one for the direction.  *)
AgreedSecrets ==
    <<Ecdh(Ephemeral("initiator"), Ephemeral("responder")),
      Ecdh(Ephemeral("initiator"), Static("responder")),
      Ecdh(Static("initiator"), Ephemeral("responder"))>>
AgreedKey(from) == <<AgreedSecrets, IF from = "initiator" THEN 1 ELSE 2>>

(* A cipherState: the key it was initialised with, how often it was rotated,  *)
(* and the nonce.                                                            *)
InitializeKey(key) == [base |-> key, rotations |-> 0, nonce |-> 0]

(* Mistakes: forgetting the new key; rotating one operation late.             *)
AdvancedSameKey(c) ==
    IF c.nonce + 1 = KeyRotationInterval THEN [c EXCEPT !.nonce = 0]
    ELSE [c EXCEPT !.nonce = @ + 1]
AdvancedLate(c) ==
    IF c.nonce = KeyRotationInterval THEN [c EXCEPT !.rotations = @ + 1, !.nonce = 0]
    ELSE [c EXCEPT !.nonce = @ + 1]

(* The deferred part of Encrypt and Decrypt, done whether they succeed or not. *)
Advanced(c) ==
    IF c.nonce + 1 = KeyRotationInterval THEN [c EXCEPT !.rotations = @ + 1, !.nonce = 0]
    ELSE [c EXCEPT !.nonce = @ + 1]

(* A ciphertext of a length, which carries no bytes, or of a payload.         *)
Length(n) == [cipher |-> send, kind |-> "length", size |-> n,
              from |-> written + 1, to |-> written, intact |-> "yes"]
Payload(n) == [cipher |-> send, kind |-> "payload", size |-> n,
               from |-> written + 1, to |-> written + n, intact |-> "yes"]

Encrypt(ciphertext) ==
    /\ wire' = Append(wire, ciphertext)
    /\ sealed' = sealed \cup {send}
    /\ reused' = IF send \in sealed THEN "yes" ELSE reused
    /\ send' = Advanced(send)

(* The reader gets as many bytes as it expects: if they are a ciphertext of   *)
(* the kind and size, then it opens under the same key and nonce, undamaged.  *)
Opens(ct, kind, size) ==
    /\ ct.cipher = recv
    /\ ct.intact = "yes"
    /\ ct.kind = kind
    /\ kind = "payload" => ct.size = size

(* Mistake: only the writing side derives a new key.                          *)
DecryptSameKey ==
    /\ wire' = Tail(wire)
    /\ recv' = AdvancedSameKey(recv)

Decrypt ==
    /\ wire' = Tail(wire)
    /\ recv' = Advanced(recv)

-----------------------------------------------------------------------------
InitStream ==
    /\ wire = <<>>
    /\ writer = "idle"
    /\ todo = 0
    /\ chunk = 0
    /\ written = 0
    /\ reader = "length"
    /\ pktLen = 0
    /\ readBuf = [from |-> 1, to |-> 0]
    /\ got = 0
    /\ order = "kept"
    /\ sealed = {}
    /\ reused = "no"
    /\ damaged = "no"

(* Both sides begin with the key that the handshake agreed on.                *)
Init ==
    /\ InitStream
    /\ \E from \in Sides : send = InitializeKey(AgreedKey(from))
    /\ recv = send

(* Write is called.                                                          *)
Write(n) ==
    /\ writer = "idle"
    /\ written + n <= MaxWritten
    /\ todo' = n
    /\ writer' = "length"
    /\ UNCHANGED <<ciphers, wire, chunk, written, reading, histories>>

ChunkSize == IF todo <= MaxUint16 THEN todo ELSE MaxUint16

(* WriteMessage: the length, then the payload, then on to the next chunk.     *)
WriteLength ==
    /\ writer = "length"
    /\ Encrypt(Length(ChunkSize))
    /\ chunk' = ChunkSize
    /\ writer' = "payload"
    /\ UNCHANGED <<recv, todo, written, reading, damaged>>

WritePayload ==
    /\ writer = "payload"
    /\ Encrypt(Payload(chunk))
    /\ written' = written + chunk
    /\ todo' = todo - chunk
    /\ chunk' = 0
    /\ writer' = IF todo - chunk = 0 THEN "idle" ELSE "length"
    /\ UNCHANGED <<recv, reading, damaged>>

BufferEmpty == readBuf.from > readBuf.to

(* ReadMessage, called by Read when its buffer is empty.                     *)
ReadLength ==
    /\ reader = "length"
    /\ BufferEmpty
    /\ wire # <<>>
    /\ Decrypt
    /\ IF Opens(Head(wire), "length", 0)
       THEN reader' = "payload" /\ pktLen' = Head(wire).size
       ELSE reader' = "failed" /\ UNCHANGED pktLen
    /\ UNCHANGED <<send, writing, readBuf, got, order, histories>>

ReadPayload ==
    /\ reader = "payload"
    /\ wire # <<>>
    /\ Decrypt
    /\ pktLen' = 0
    /\ IF Opens(Head(wire), "payload", pktLen)
       THEN reader' = "length" /\ readBuf' = [from |-> Head(wire).from, to |-> Head(wire).to]
       ELSE reader' = "failed" /\ UNCHANGED readBuf
    /\ UNCHANGED <<send, writing, got, order, histories>>

(* Mistake: what does not fit is thrown away.                                *)
RestNone(n) == [from |-> readBuf.to + 1, to |-> readBuf.to]

Rest(n) == [from |-> readBuf.from + n, to |-> readBuf.to]

(* The buffer is not empty: Read takes what fits.                            *)
ReadBuffered(room) ==
    LET size == readBuf.to - readBuf.from + 1
        n == IF room < size THEN room ELSE size
    IN  /\ ~BufferEmpty
        /\ reader # "failed"
        /\ order' = IF readBuf.from = got + 1 THEN order ELSE "lost"
        /\ got' = readBuf.from + n - 1
        /\ readBuf' = Rest(n)
        /\ UNCHANGED <<ciphers, wire, writing, reader, pktLen, histories>>

(* Mistake: the handshake's read deadline stays set on the connection.        *)
ReadEndsAtDeadline ==
    /\ reader \in {"length", "payload"}
    /\ BufferEmpty
    /\ wire = <<>>
    /\ reader' = "ended"
    /\ UNCHANGED <<ciphers, wire, writing, pktLen, readBuf, got, order, histories>>

(* The connection ends when the writer's side is gone.  Both sides have reset  *)
(* their deadline, so that a read waits for as long as it takes.               *)
ReadEnds ==
    /\ reader \in {"length", "payload"}
    /\ BufferEmpty
    /\ wire = <<>>
    /\ writer = "failed"
    /\ reader' = "ended"
    /\ UNCHANGED <<ciphers, wire, writing, pktLen, readBuf, got, order, histories>>

(* The network damages a ciphertext.                                         *)
Damage ==
    /\ damaged = "no"
    /\ \E i \in DOMAIN wire : wire' = [wire EXCEPT ![i].intact = "no"]
    /\ damaged' = "yes"
    /\ UNCHANGED <<ciphers, writing, reading, sealed, reused>>

(* The connection breaks: a write fails, and only part of what was sent        *)
(* arrives.                                                                  *)
Break ==
    /\ writer # "failed"
    /\ writer' = "failed"
    /\ \E n \in 0..Len(wire) : wire' = SubSeq(wire, 1, n)
    /\ UNCHANGED <<ciphers, todo, chunk, written, reading, histories>>

WriterStep == (\E n \in Sizes : Write(n)) \/ WriteLength \/ WritePayload
ReaderStep == ReadLength \/ ReadPayload \/ (\E n \in Buffers : ReadBuffered(n)) \/ ReadEnds

Next ==
    \/ WriterStep
    \/ ReaderStep
    \/ Damage
    \/ Break

Spec == Init /\ [][Next]_streamVars

-----------------------------------------------------------------------------
(* Every byte is read at most once and in the order in which it was written,   *)
(* and none that was not: however messages were cut and whatever the network   *)
(* damaged.                                                                  *)
InOrder == order = "kept" /\ got <= written

(* The two sides rotate their keys at the same operation: reading fails only   *)
(* if the network damaged something.                                         *)
KeysInStep == reader = "failed" => damaged = "yes"

(* No key and nonce encrypt twice, rotations included.                        *)
NonceOnce == reused = "no"
=============================================================================
