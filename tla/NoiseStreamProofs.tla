------------------------- MODULE NoiseStreamProofs -------------------------
(***************************************************************************)
(* What holds of one direction of a connection for every rotation interval, *)
(* message size, amount written and room to read into.                      *)
(*                                                                         *)
(* The invariant is about the ciphertexts on the wire.  Each is under the    *)
(* cipher that follows that of the one before it, carries the bytes that     *)
(* follow, and is of the kind that follows.  The reader expects what the     *)
(* first one is, and the writer goes on where the last one ended; if the     *)
(* wire is empty, the writer is where the reader is.                        *)
(***************************************************************************)
EXTENDS NoiseStream, SequenceTheorems, TLAPS

Cipher == [base : {AgreedKey(from) : from \in Sides}, rotations : Nat, nonce : 0..(KeyRotationInterval - 1)]
Ciphertext == [cipher : Cipher, kind : {"length", "payload"}, size : Nat,
               from : Nat, to : Nat, intact : {"yes", "no"}]

StreamTypeOK ==
    /\ send \in Cipher
    /\ recv \in Cipher
    /\ wire \in Seq(Ciphertext)
    /\ writer \in {"idle", "length", "payload", "failed"}
    /\ todo \in Nat
    /\ chunk \in Nat
    /\ written \in Nat
    /\ reader \in {"length", "payload", "failed", "ended"}
    /\ pktLen \in Nat
    /\ readBuf \in [from : Nat, to : Nat]
    /\ got \in Nat
    /\ sealed \subseteq Cipher
    /\ damaged \in {"yes", "no"}

(* A Write has bytes left for as long as it lasts.                           *)
WriteOK ==
    /\ writer = "length" => todo > 0
    /\ writer = "payload" => chunk > 0 /\ chunk <= todo

Before(c, d) ==
    \/ c.rotations < d.rotations
    \/ c.rotations = d.rotations /\ c.nonce < d.nonce

(* All that was used to encrypt comes before what is used next.               *)
SealedOK ==
    /\ \A c \in sealed : Before(c, send)
    /\ reused = "no"

(* Ciphertext b was sent right after ciphertext a.                           *)
Follows(a, b) ==
    /\ b.cipher = Advanced(a.cipher)
    /\ b.from = a.to + 1
    /\ a.kind = "length" => b.kind = "payload" /\ b.size = a.size
    /\ a.kind = "payload" => b.kind = "length"

WireOK ==
    /\ \A i \in 1..Len(wire) :
           /\ wire[i].to <= written
           /\ IF wire[i].kind = "length" THEN wire[i].to + 1 = wire[i].from
              ELSE wire[i].to >= wire[i].from
    /\ \A i \in 1..(Len(wire) - 1) : Follows(wire[i], wire[i + 1])

Alive == reader \in {"length", "payload"}

(* The reader expects the ciphertext ct.                                     *)
Expected(ct) ==
    /\ ct.cipher = recv
    /\ ct.from = readBuf.to + 1
    /\ ct.kind = reader
    /\ reader = "payload" => ct.size = pktLen

HeadOK == Alive /\ Len(wire) > 0 => Expected(wire[1])

(* The writer goes on after the ciphertext ct.                               *)
Continued(ct) ==
    /\ send = Advanced(ct.cipher)
    /\ written = ct.to
    /\ ct.kind = "length" <=> writer = "payload"
    /\ writer = "payload" => chunk = ct.size

LastOK == writer # "failed" /\ Len(wire) > 0 => Continued(wire[Len(wire)])

EmptyOK ==
    Alive /\ writer # "failed" /\ Len(wire) = 0 =>
        /\ send = recv
        /\ written = readBuf.to
        /\ reader = "payload" <=> writer = "payload"
        /\ writer = "payload" => chunk = pktLen

BufferOK ==
    /\ readBuf.from = got + 1
    /\ got <= readBuf.to
    /\ readBuf.to <= written
    /\ reader = "payload" => got = readBuf.to
    /\ order = "kept"

IntactOK ==
    /\ damaged = "no" => \A i \in 1..Len(wire) : wire[i].intact = "yes"
    /\ KeysInStep

StreamInv ==
    /\ StreamTypeOK
    /\ WriteOK
    /\ SealedOK
    /\ WireOK
    /\ HeadOK
    /\ LastOK
    /\ EmptyOK
    /\ BufferOK
    /\ IntactOK

-----------------------------------------------------------------------------
(* The cipher that follows another is a cipher, and comes after it.           *)
LEMMA AdvancedCipher ==
    ASSUME NEW c \in Cipher
    PROVE  Advanced(c) \in Cipher /\ Before(c, Advanced(c))
<1>1. c.nonce \in 0..(KeyRotationInterval - 1) /\ c.rotations \in Nat /\ c.base \in {AgreedKey(from) : from \in Sides}
    BY DEF Cipher
<1>2. c = [base |-> c.base, rotations |-> c.rotations, nonce |-> c.nonce]
    BY DEF Cipher
<1>3. CASE c.nonce + 1 = KeyRotationInterval
    <2>1. Advanced(c) = [base |-> c.base, rotations |-> c.rotations + 1, nonce |-> 0]
        BY <1>2, <1>3 DEF Advanced
    <2>. QED
        BY <1>1, <2>1, NoiseStreamAssumption DEF Cipher, Before
<1>4. CASE c.nonce + 1 # KeyRotationInterval
    <2>1. Advanced(c) = [base |-> c.base, rotations |-> c.rotations, nonce |-> c.nonce + 1]
        BY <1>2, <1>4 DEF Advanced
    <2>2. c.nonce + 1 \in 0..(KeyRotationInterval - 1)
        BY <1>1, <1>4, NoiseStreamAssumption
    <2>. QED
        BY <1>1, <2>1, <2>2 DEF Cipher, Before
<1>. QED
    BY <1>3, <1>4

(* A cipher does not come before itself, and what comes before a cipher comes *)
(* before the next.                                                          *)
LEMMA BeforeOrder ==
    ASSUME NEW c \in Cipher, NEW d \in Cipher
    PROVE  /\ ~Before(c, c)
           /\ Before(c, d) => Before(c, Advanced(d))
<1>1. /\ c.nonce \in Nat /\ c.rotations \in Nat
      /\ d.nonce \in Nat /\ d.rotations \in Nat
      /\ Advanced(d).nonce \in Nat /\ Advanced(d).rotations \in Nat
    BY AdvancedCipher, NoiseStreamAssumption DEF Cipher
<1>2. Before(d, Advanced(d))
    BY AdvancedCipher
<1>. QED
    BY <1>1, <1>2 DEF Before

(* The sequences that the actions make of the wire.                          *)
LEMMA WireElement ==
    ASSUME wire \in Seq(Ciphertext), NEW i \in 1..Len(wire)
    PROVE  wire[i] \in Ciphertext
OBVIOUS

LEMMA AppendFacts ==
    ASSUME wire \in Seq(Ciphertext), NEW ct \in Ciphertext, wire' = Append(wire, ct)
    PROVE  /\ wire' \in Seq(Ciphertext)
           /\ Len(wire') = Len(wire) + 1
           /\ \A i \in 1..Len(wire) : wire'[i] = wire[i]
           /\ wire'[Len(wire) + 1] = ct
OBVIOUS

LEMMA TailFacts ==
    ASSUME wire \in Seq(Ciphertext), wire # <<>>, wire' = Tail(wire)
    PROVE  /\ wire' \in Seq(Ciphertext)
           /\ Len(wire) \in Nat \ {0}
           /\ Len(wire') = Len(wire) - 1
           /\ \A i \in 1..(Len(wire) - 1) : wire'[i] = wire[i + 1]
           /\ Head(wire) = wire[1]
           /\ wire[1] \in Ciphertext
<1>1. Len(wire) \in Nat \ {0}
    OBVIOUS
<1>2. wire' \in Seq(Ciphertext) /\ Len(wire') = Len(wire) - 1
    BY <1>1
<1>3. \A i \in 1..(Len(wire) - 1) : wire'[i] = wire[i + 1]
    BY <1>1
<1>4. Head(wire) = wire[1] /\ wire[1] \in Ciphertext
    BY <1>1
<1>. QED
    BY <1>1, <1>2, <1>3, <1>4

LEMMA PrefixFacts ==
    ASSUME wire \in Seq(Ciphertext), NEW n \in 0..Len(wire), wire' = SubSeq(wire, 1, n)
    PROVE  /\ wire' \in Seq(Ciphertext)
           /\ Len(wire') = n
           /\ \A i \in 1..n : wire'[i] = wire[i]
<1>1. Len(wire) \in Nat /\ n \in Nat /\ n <= Len(wire)
    OBVIOUS
<1>. QED
    BY <1>1

(* Damage changes only whether a ciphertext is intact.                        *)
LEMMA DamageFacts ==
    ASSUME wire \in Seq(Ciphertext), NEW i \in 1..Len(wire),
           wire' = [wire EXCEPT ![i].intact = "no"]
    PROVE  /\ wire' \in Seq(Ciphertext)
           /\ Len(wire') = Len(wire)
           /\ \A j \in 1..Len(wire) :
                  /\ wire'[j].cipher = wire[j].cipher
                  /\ wire'[j].kind = wire[j].kind
                  /\ wire'[j].size = wire[j].size
                  /\ wire'[j].from = wire[j].from
                  /\ wire'[j].to = wire[j].to
<1>1. DOMAIN wire = 1..Len(wire) /\ Len(wire) \in Nat /\ wire[i] \in Ciphertext
    OBVIOUS
<1>2. [wire[i] EXCEPT !.intact = "no"] \in Ciphertext
    BY <1>1 DEF Ciphertext
<1>3. wire' = [wire EXCEPT ![i] = [wire[i] EXCEPT !.intact = "no"]]
    BY <1>1
<1>4. wire' \in Seq(Ciphertext) /\ Len(wire') = Len(wire)
    BY <1>2, <1>3
<1>5. ASSUME NEW j \in 1..Len(wire)
      PROVE  wire'[j] = IF j = i THEN [wire[i] EXCEPT !.intact = "no"] ELSE wire[j]
    BY <1>1, <1>3
<1>6. /\ [wire[i] EXCEPT !.intact = "no"].cipher = wire[i].cipher
      /\ [wire[i] EXCEPT !.intact = "no"].kind = wire[i].kind
      /\ [wire[i] EXCEPT !.intact = "no"].size = wire[i].size
      /\ [wire[i] EXCEPT !.intact = "no"].from = wire[i].from
      /\ [wire[i] EXCEPT !.intact = "no"].to = wire[i].to
    BY <1>1 DEF Ciphertext
<1>. QED
    BY <1>4, <1>5, <1>6

-----------------------------------------------------------------------------
LEMMA StreamInit == Init => StreamInv
<1>. SUFFICES ASSUME Init PROVE StreamInv
    OBVIOUS
<1>. USE NoiseStreamAssumption DEF Init, InitStream
<1>1. PICK from \in Sides : send = InitializeKey(AgreedKey(from))
    OBVIOUS
<1>2. send \in Cipher /\ recv = send
    BY <1>1 DEF InitializeKey, Cipher
<1>3. StreamTypeOK
    BY <1>2 DEF StreamTypeOK
<1>4. Len(wire) = 0
    OBVIOUS
<1>. QED
    BY <1>2, <1>3, <1>4 DEF StreamInv, WriteOK, SealedOK, WireOK, HeadOK, LastOK, EmptyOK,
       BufferOK, IntactOK, KeysInStep, Alive

(* What an Encrypt of the ciphertext that continues the wire preserves.       *)
LEMMA Sent ==
    ASSUME StreamInv, NEW ct \in Ciphertext, Encrypt(ct), writer # "failed",
           ct.cipher = send, ct.from = written + 1, ct.to = written', ct.intact = "yes",
           written <= written',
           ct.kind = "length" <=> writer # "payload",
           ct.kind = "length" => ct.to = written,
           ct.kind = "payload" => ct.size = chunk /\ ct.to >= ct.from,
           UNCHANGED <<reader, readBuf, recv, pktLen, damaged>>
    PROVE  /\ send' \in Cipher /\ wire' \in Seq(Ciphertext) /\ sealed' \subseteq Cipher
           /\ SealedOK' /\ WireOK' /\ HeadOK' /\ IntactOK'
           /\ Len(wire') > 0
           /\ wire'[Len(wire')] = ct
           /\ send' = Advanced(ct.cipher)
<1>. USE DEF StreamInv
<1>1. /\ wire' \in Seq(Ciphertext)
      /\ Len(wire') = Len(wire) + 1
      /\ \A i \in 1..Len(wire) : wire'[i] = wire[i]
      /\ wire'[Len(wire) + 1] = ct
    BY AppendFacts DEF StreamTypeOK, Encrypt
<1>2. Len(wire) \in Nat
    BY DEF StreamTypeOK
<1>3. send \in Cipher /\ send' = Advanced(send) /\ send' \in Cipher
    BY AdvancedCipher DEF StreamTypeOK, Encrypt
<1>4. sealed' = sealed \cup {send} /\ sealed' \subseteq Cipher
    BY <1>3 DEF StreamTypeOK, Encrypt
<1>5. SealedOK'
    <2>1. send \notin sealed
        BY <1>3, BeforeOrder DEF SealedOK
    <2>2. reused' = "no"
        BY <2>1 DEF SealedOK, Encrypt
    <2>3. ASSUME NEW c \in sealed' PROVE Before(c, send')
        <3>1. CASE c = send
            BY <3>1, <1>3, AdvancedCipher
        <3>2. CASE c \in sealed
            <4>1. c \in Cipher /\ Before(c, send)
                BY <3>2 DEF SealedOK, StreamTypeOK
            <4>. QED
                BY <4>1, <1>3, BeforeOrder
        <3>. QED
            BY <3>1, <3>2, <1>4
    <2>. QED
        BY <2>2, <2>3 DEF SealedOK
<1>6. WireOK'
    <2>1. ASSUME NEW i \in 1..Len(wire')
          PROVE  /\ wire'[i].to <= written'
                 /\ IF wire'[i].kind = "length" THEN wire'[i].to + 1 = wire'[i].from
                    ELSE wire'[i].to >= wire'[i].from
        <3>1. CASE i = Len(wire) + 1
            <4>1. wire'[i] = ct
                BY <3>1, <1>1
            <4>2. ct.kind \in {"length", "payload"} /\ ct.to \in Nat /\ ct.from \in Nat
                BY DEF Ciphertext
            <4>. QED
                BY <4>1, <4>2
        <3>2. CASE i \in 1..Len(wire)
            <4>1. wire'[i] = wire[i] /\ wire[i].to \in Nat
                BY <3>2, <1>1, WireElement DEF StreamTypeOK, Ciphertext
            <4>2. written \in Nat /\ written' \in Nat
                BY DEF StreamTypeOK, Ciphertext
            <4>. QED
                BY <4>1, <4>2, <3>2 DEF WireOK
        <3>. QED
            BY <3>1, <3>2, <1>1, <1>2
    <2>2. ASSUME NEW i \in 1..(Len(wire') - 1)
          PROVE  Follows(wire'[i], wire'[i + 1])
        <3>1. CASE i = Len(wire)
            <4>1. wire'[i] = wire[i] /\ wire'[i + 1] = ct /\ Len(wire) > 0
                BY <3>1, <1>1, <1>2
            <4>2. Continued(wire[i])
                BY <4>1, <3>1 DEF LastOK
            <4>3. wire[i].kind \in {"length", "payload"}
                BY <4>1, <3>1, <1>2, WireElement DEF StreamTypeOK, Ciphertext
            <4>4. ct.kind \in {"length", "payload"}
                BY DEF Ciphertext
            <4>. QED
                BY <4>1, <4>2, <4>3, <4>4 DEF Continued, Follows
        <3>2. CASE i \in 1..(Len(wire) - 1)
            BY <3>2, <1>1, <1>2 DEF WireOK
        <3>. QED
            BY <3>1, <3>2, <1>1, <1>2
    <2>. QED
        BY <2>1, <2>2 DEF WireOK
<1>7. HeadOK'
    <2>. SUFFICES ASSUME Alive PROVE Expected(wire[1])'
        BY DEF HeadOK, Alive
    <2>1. CASE Len(wire) = 0
        <3>1. wire'[1] = ct
            BY <2>1, <1>1
        <3>2. ct.kind \in {"length", "payload"} /\ reader \in {"length", "payload"}
            BY DEF Ciphertext, Alive
        <3>. QED
            BY <2>1, <3>1, <3>2 DEF EmptyOK, Expected
    <2>2. CASE Len(wire) > 0
        <3>1. wire'[1] = wire[1] /\ Expected(wire[1])
            BY <2>2, <1>1, <1>2 DEF HeadOK
        <3>. QED
            BY <3>1 DEF Expected
    <2>. QED
        BY <2>1, <2>2, <1>2
<1>8. IntactOK'
    <2>1. ASSUME damaged = "no", NEW i \in 1..Len(wire') PROVE wire'[i].intact = "yes"
        BY <2>1, <1>1, <1>2 DEF IntactOK
    <2>. QED
        BY <2>1 DEF IntactOK, KeysInStep
<1>. QED
    BY <1>1, <1>2, <1>3, <1>4, <1>5, <1>6, <1>7, <1>8

LEMMA WriteStep ==
    ASSUME StreamInv, NEW n \in Sizes, Write(n)
    PROVE  StreamInv'
<1>. USE DEF StreamInv, Write, ciphers, reading, histories
<1>1. n \in Nat \ {0}
    BY NoiseStreamAssumption
<1>2. StreamTypeOK'
    BY <1>1 DEF StreamTypeOK
<1>3. WriteOK' /\ SealedOK' /\ WireOK'
    BY <1>1 DEF WriteOK, SealedOK, WireOK
<1>4. HeadOK' /\ LastOK'
    BY DEF HeadOK, LastOK, Alive, Expected, Continued
<1>5. EmptyOK' /\ BufferOK' /\ IntactOK'
    BY DEF EmptyOK, BufferOK, IntactOK, KeysInStep, Alive
<1>. QED
    BY <1>2, <1>3, <1>4, <1>5

LEMMA WriteLengthStep ==
    ASSUME StreamInv, WriteLength
    PROVE  StreamInv'
<1>. DEFINE n == ChunkSize
            ct == Length(n)
<1>. USE DEF StreamInv
<1>1. writer = "length" /\ todo \in Nat /\ todo > 0 /\ written \in Nat /\ send \in Cipher
    BY DEF WriteLength, StreamTypeOK, WriteOK
<1>2. n \in Nat /\ n > 0 /\ n <= todo
    BY <1>1, NoiseStreamAssumption DEF ChunkSize
<1>. HIDE DEF n
<1>3. /\ ct \in Ciphertext /\ ct.cipher = send /\ ct.from = written + 1 /\ ct.to = written
      /\ ct.intact = "yes" /\ ct.kind = "length" /\ ct.size = n
    BY <1>1, <1>2 DEF Length, Ciphertext
<1>4. /\ Encrypt(ct) /\ chunk' = n /\ writer' = "payload"
      /\ UNCHANGED <<recv, todo, written, reader, pktLen, readBuf, got, order, damaged>>
    BY DEF WriteLength, n, reading
<1>. HIDE DEF ct
<1>5. /\ send' \in Cipher /\ wire' \in Seq(Ciphertext) /\ sealed' \subseteq Cipher
      /\ SealedOK' /\ WireOK' /\ HeadOK' /\ IntactOK'
      /\ Len(wire') > 0
      /\ wire'[Len(wire')] = ct
      /\ send' = Advanced(ct.cipher)
    BY <1>1, <1>3, <1>4, Sent
<1>6. StreamTypeOK'
    BY <1>2, <1>4, <1>5 DEF StreamTypeOK
<1>7. WriteOK' /\ BufferOK' /\ EmptyOK'
    BY <1>2, <1>4, <1>5 DEF WriteOK, BufferOK, EmptyOK
<1>8. LastOK'
    BY <1>3, <1>4, <1>5 DEF LastOK, Continued
<1>. QED
    BY <1>5, <1>6, <1>7, <1>8

LEMMA WritePayloadStep ==
    ASSUME StreamInv, WritePayload
    PROVE  StreamInv'
<1>. DEFINE ct == Payload(chunk)
<1>. USE DEF StreamInv
<1>1. /\ writer = "payload" /\ todo \in Nat /\ chunk \in Nat /\ chunk > 0 /\ chunk <= todo
      /\ written \in Nat /\ send \in Cipher
    BY DEF WritePayload, StreamTypeOK, WriteOK
<1>2. /\ ct \in Ciphertext /\ ct.cipher = send /\ ct.from = written + 1
      /\ ct.to = written + chunk /\ ct.intact = "yes" /\ ct.kind = "payload" /\ ct.size = chunk
    BY <1>1 DEF Payload, Ciphertext
<1>3. /\ Encrypt(ct) /\ written' = written + chunk /\ todo' = todo - chunk /\ chunk' = 0
      /\ writer' = IF todo - chunk = 0 THEN "idle" ELSE "length"
      /\ UNCHANGED <<recv, reader, pktLen, readBuf, got, order, damaged>>
    BY DEF WritePayload, reading
<1>. HIDE DEF ct
<1>4. written <= written' /\ ct.to = written' /\ ct.to >= ct.from
    BY <1>1, <1>2, <1>3
<1>5. /\ send' \in Cipher /\ wire' \in Seq(Ciphertext) /\ sealed' \subseteq Cipher
      /\ SealedOK' /\ WireOK' /\ HeadOK' /\ IntactOK'
      /\ Len(wire') > 0
      /\ wire'[Len(wire')] = ct
      /\ send' = Advanced(ct.cipher)
    BY <1>1, <1>2, <1>3, <1>4, Sent
<1>6. StreamTypeOK'
    BY <1>1, <1>3, <1>5 DEF StreamTypeOK
<1>7. WriteOK' /\ EmptyOK'
    BY <1>1, <1>3, <1>5 DEF WriteOK, EmptyOK
<1>8. BufferOK'
    BY <1>1, <1>3, <1>4 DEF BufferOK, StreamTypeOK
<1>9. LastOK'
    BY <1>2, <1>3, <1>4, <1>5 DEF LastOK, Continued
<1>. QED
    BY <1>5, <1>6, <1>7, <1>8, <1>9

(* What a Decrypt of the first ciphertext preserves, and what is known of that *)
(* ciphertext: it is the one expected, and the next one follows it.             *)
LEMMA Received ==
    ASSUME StreamInv, Alive, wire # <<>>, Decrypt,
           UNCHANGED <<send, writer, todo, chunk, written, sealed, reused, damaged>>
    PROVE  /\ recv' = Advanced(recv) /\ recv' \in Cipher /\ wire' \in Seq(Ciphertext)
           /\ Len(wire') = Len(wire) - 1 /\ Len(wire) \in Nat \ {0}
           /\ WriteOK' /\ SealedOK' /\ WireOK'
           /\ LastOK'
           /\ damaged = "no" => \A i \in 1..Len(wire') : wire'[i].intact = "yes"
           /\ Head(wire) = wire[1] /\ wire[1] \in Ciphertext /\ Expected(wire[1])
           /\ Len(wire') > 0 => Follows(wire[1], wire'[1])
           /\ Len(wire') = 0 /\ writer # "failed" => Continued(wire[1])
           /\ damaged = "no" => wire[1].intact = "yes"
           /\ wire[1].to <= written
           /\ IF wire[1].kind = "length" THEN wire[1].to + 1 = wire[1].from
              ELSE wire[1].to >= wire[1].from
<1>. USE DEF StreamInv
<1>1. /\ wire' \in Seq(Ciphertext)
      /\ Len(wire) \in Nat \ {0}
      /\ Len(wire') = Len(wire) - 1
      /\ \A i \in 1..(Len(wire) - 1) : wire'[i] = wire[i + 1]
      /\ Head(wire) = wire[1]
      /\ wire[1] \in Ciphertext
    BY TailFacts DEF StreamTypeOK, Decrypt
<1>2. recv' = Advanced(recv) /\ recv' \in Cipher
    BY AdvancedCipher DEF StreamTypeOK, Decrypt
<1>3. WriteOK' /\ SealedOK'
    BY DEF WriteOK, SealedOK
<1>4. WireOK'
    <2>1. ASSUME NEW i \in 1..Len(wire')
          PROVE  /\ wire'[i].to <= written'
                 /\ IF wire'[i].kind = "length" THEN wire'[i].to + 1 = wire'[i].from
                    ELSE wire'[i].to >= wire'[i].from
        <3>1. i + 1 \in 1..Len(wire) /\ wire'[i] = wire[i + 1]
            BY <1>1
        <3>. QED
            BY <3>1 DEF WireOK
    <2>2. ASSUME NEW i \in 1..(Len(wire') - 1)
          PROVE  Follows(wire'[i], wire'[i + 1])
        <3>1. /\ i + 1 \in 1..(Len(wire) - 1)
              /\ wire'[i] = wire[i + 1] /\ wire'[i + 1] = wire[(i + 1) + 1]
            BY <1>1
        <3>. QED
            BY <3>1 DEF WireOK
    <2>. QED
        BY <2>1, <2>2 DEF WireOK
<1>5. LastOK'
    <2>. SUFFICES ASSUME writer # "failed", Len(wire') > 0
                  PROVE  Continued(wire[Len(wire)])'
        BY DEF LastOK
    <2>1. wire'[Len(wire')] = wire[Len(wire)]
        BY <1>1
    <2>2. Continued(wire[Len(wire)])
        BY <1>1 DEF LastOK
    <2>. QED
        BY <2>1, <2>2 DEF Continued
<1>6. damaged = "no" => \A i \in 1..Len(wire') : wire'[i].intact = "yes"
    BY <1>1 DEF IntactOK
<1>7. Expected(wire[1])
    BY <1>1 DEF HeadOK
<1>8. Len(wire') > 0 => Follows(wire[1], wire'[1])
    BY <1>1 DEF WireOK
<1>9. Len(wire') = 0 /\ writer # "failed" => Continued(wire[1])
    <2>. SUFFICES ASSUME Len(wire') = 0, writer # "failed" PROVE Continued(wire[1])
        OBVIOUS
    <2>1. Len(wire) = 1
        BY <1>1
    <2>2. Continued(wire[Len(wire)])
        BY <2>1 DEF LastOK
    <2>. QED
        BY <2>1, <2>2
<1>10. damaged = "no" => wire[1].intact = "yes"
    BY <1>1 DEF IntactOK
<1>11. /\ wire[1].to <= written
       /\ IF wire[1].kind = "length" THEN wire[1].to + 1 = wire[1].from
          ELSE wire[1].to >= wire[1].from
    BY <1>1 DEF WireOK
<1>. QED
    BY <1>1, <1>2, <1>3, <1>4, <1>5, <1>6, <1>7, <1>8, <1>9, <1>10, <1>11

LEMMA ReadLengthStep ==
    ASSUME StreamInv, ReadLength
    PROVE  StreamInv'
<1>. USE DEF StreamInv
<1>1. /\ reader = "length" /\ BufferEmpty /\ wire # <<>> /\ Decrypt
      /\ UNCHANGED <<send, writer, todo, chunk, written, readBuf, got, order, sealed, reused, damaged>>
    BY DEF ReadLength, writing, histories
<1>2. Alive
    BY <1>1 DEF Alive
<1>3. /\ recv' = Advanced(recv) /\ recv' \in Cipher /\ wire' \in Seq(Ciphertext)
      /\ Len(wire') = Len(wire) - 1 /\ Len(wire) \in Nat \ {0}
      /\ WriteOK' /\ SealedOK' /\ WireOK'
      /\ LastOK'
      /\ damaged = "no" => \A i \in 1..Len(wire') : wire'[i].intact = "yes"
      /\ Head(wire) = wire[1] /\ wire[1] \in Ciphertext /\ Expected(wire[1])
      /\ Len(wire') > 0 => Follows(wire[1], wire'[1])
      /\ Len(wire') = 0 /\ writer # "failed" => Continued(wire[1])
      /\ damaged = "no" => wire[1].intact = "yes"
      /\ wire[1].kind = "length" => wire[1].to + 1 = wire[1].from
    BY <1>1, <1>2, Received
<1>4. /\ wire[1].size \in Nat /\ wire[1].from \in Nat /\ wire[1].to \in Nat
      /\ got \in Nat /\ readBuf.to \in Nat /\ readBuf.from \in Nat
    BY <1>3 DEF StreamTypeOK, Ciphertext
<1>5. got = readBuf.to
    BY <1>1, <1>4 DEF BufferEmpty, BufferOK
<1>6. wire[1].kind = "length" /\ wire[1].cipher = recv /\ wire[1].to = readBuf.to
    BY <1>1, <1>3, <1>4 DEF Expected
<1>7. CASE Opens(wire[1], "length", 0)
    <2>1. reader' = "payload" /\ pktLen' = wire[1].size
        BY <1>3, <1>7 DEF ReadLength
    <2>2. StreamTypeOK'
        BY <1>1, <1>3, <1>4, <2>1 DEF StreamTypeOK
    <2>3. HeadOK'
        BY <1>1, <1>3, <1>6, <2>1 DEF HeadOK, Follows, Expected
    <2>4. EmptyOK'
        BY <1>1, <1>3, <1>6, <2>1 DEF EmptyOK, Continued
    <2>5. BufferOK' /\ IntactOK'
        BY <1>1, <1>3, <1>5, <2>1 DEF BufferOK, IntactOK, KeysInStep
    <2>. QED
        BY <1>3, <2>2, <2>3, <2>4, <2>5
<1>8. CASE ~Opens(wire[1], "length", 0)
    <2>1. reader' = "failed" /\ pktLen' = pktLen
        BY <1>3, <1>8 DEF ReadLength
    <2>2. damaged = "yes"
        BY <1>3, <1>6, <1>8 DEF Opens, StreamTypeOK
    <2>3. StreamTypeOK'
        BY <1>1, <1>3, <2>1 DEF StreamTypeOK
    <2>4. HeadOK' /\ EmptyOK'
        BY <2>1 DEF HeadOK, EmptyOK, Alive
    <2>5. BufferOK' /\ IntactOK'
        BY <1>1, <1>3, <2>1, <2>2 DEF BufferOK, IntactOK, KeysInStep
    <2>. QED
        BY <1>3, <2>3, <2>4, <2>5
<1>. QED
    BY <1>7, <1>8

LEMMA ReadPayloadStep ==
    ASSUME StreamInv, ReadPayload
    PROVE  StreamInv'
<1>. USE DEF StreamInv
<1>1. /\ reader = "payload" /\ wire # <<>> /\ Decrypt /\ pktLen' = 0
      /\ UNCHANGED <<send, writer, todo, chunk, written, got, order, sealed, reused, damaged>>
    BY DEF ReadPayload, writing, histories
<1>2. Alive
    BY <1>1 DEF Alive
<1>3. /\ recv' = Advanced(recv) /\ recv' \in Cipher /\ wire' \in Seq(Ciphertext)
      /\ Len(wire') = Len(wire) - 1 /\ Len(wire) \in Nat \ {0}
      /\ WriteOK' /\ SealedOK' /\ WireOK'
      /\ LastOK'
      /\ damaged = "no" => \A i \in 1..Len(wire') : wire'[i].intact = "yes"
      /\ Head(wire) = wire[1] /\ wire[1] \in Ciphertext /\ Expected(wire[1])
      /\ Len(wire') > 0 => Follows(wire[1], wire'[1])
      /\ Len(wire') = 0 /\ writer # "failed" => Continued(wire[1])
      /\ damaged = "no" => wire[1].intact = "yes"
      /\ wire[1].to <= written
      /\ wire[1].kind = "payload" => wire[1].to >= wire[1].from
    BY <1>1, <1>2, Received
<1>4. /\ wire[1].size \in Nat /\ wire[1].from \in Nat /\ wire[1].to \in Nat
      /\ got \in Nat /\ readBuf.to \in Nat /\ readBuf.from \in Nat /\ written \in Nat
    BY <1>3 DEF StreamTypeOK, Ciphertext
<1>5. /\ wire[1].kind = "payload" /\ wire[1].cipher = recv /\ wire[1].size = pktLen
      /\ wire[1].from = got + 1 /\ got <= wire[1].to
    BY <1>1, <1>3, <1>4 DEF Expected, BufferOK
<1>6. CASE Opens(wire[1], "payload", pktLen)
    <2>1. reader' = "length" /\ readBuf' = [from |-> wire[1].from, to |-> wire[1].to]
        BY <1>3, <1>6 DEF ReadPayload
    <2>2. StreamTypeOK'
        BY <1>1, <1>3, <1>4, <2>1 DEF StreamTypeOK
    <2>3. HeadOK'
        BY <1>1, <1>3, <1>5, <2>1 DEF HeadOK, Follows, Expected
    <2>4. EmptyOK'
        BY <1>1, <1>3, <1>5, <2>1 DEF EmptyOK, Continued
    <2>5. BufferOK' /\ IntactOK'
        BY <1>1, <1>3, <1>5, <2>1 DEF BufferOK, IntactOK, KeysInStep
    <2>. QED
        BY <1>3, <2>2, <2>3, <2>4, <2>5
<1>7. CASE ~Opens(wire[1], "payload", pktLen)
    <2>1. reader' = "failed" /\ readBuf' = readBuf
        BY <1>3, <1>7 DEF ReadPayload
    <2>2. damaged = "yes"
        BY <1>3, <1>5, <1>7 DEF Opens, StreamTypeOK
    <2>3. StreamTypeOK'
        BY <1>1, <1>3, <2>1 DEF StreamTypeOK
    <2>4. HeadOK' /\ EmptyOK'
        BY <2>1 DEF HeadOK, EmptyOK, Alive
    <2>5. BufferOK' /\ IntactOK'
        BY <1>1, <1>3, <2>1, <2>2 DEF BufferOK, IntactOK, KeysInStep
    <2>. QED
        BY <1>3, <2>3, <2>4, <2>5
<1>. QED
    BY <1>6, <1>7

LEMMA ReadBufferedStep ==
    ASSUME StreamInv, NEW room \in Buffers, ReadBuffered(room)
    PROVE  StreamInv'
<1>. DEFINE size == readBuf.to - readBuf.from + 1
            n == IF room < size THEN room ELSE size
<1>. USE DEF StreamInv
<1>1. /\ ~BufferEmpty
      /\ order' = IF readBuf.from = got + 1 THEN order ELSE "lost"
      /\ got' = readBuf.from + n - 1
      /\ readBuf' = Rest(n)
      /\ UNCHANGED <<send, recv, wire, writer, todo, chunk, written, reader, pktLen, sealed, reused, damaged>>
    BY DEF ReadBuffered, ciphers, writing, histories
<1>2. /\ readBuf.from \in Nat /\ readBuf.to \in Nat /\ got \in Nat /\ written \in Nat
      /\ room \in Nat \ {0}
    BY NoiseStreamAssumption DEF StreamTypeOK
<1>3. readBuf.from <= readBuf.to
    BY <1>1, <1>2 DEF BufferEmpty
<1>4. n \in Nat /\ n > 0 /\ n <= readBuf.to - readBuf.from + 1
    BY <1>2, <1>3
<1>. HIDE DEF n
<1>5. readBuf'.from = readBuf.from + n /\ readBuf'.to = readBuf.to
      /\ readBuf' \in [from : Nat, to : Nat]
    BY <1>1, <1>2, <1>4 DEF Rest
<1>6. got' \in Nat /\ readBuf'.from = got' + 1 /\ got' <= readBuf.to
    BY <1>1, <1>2, <1>4, <1>5
<1>7. reader # "payload"
    BY <1>1, <1>2, <1>3 DEF BufferOK
<1>8. StreamTypeOK'
    BY <1>1, <1>5, <1>6 DEF StreamTypeOK
<1>9. BufferOK'
    BY <1>1, <1>5, <1>6, <1>7 DEF BufferOK
<1>10. HeadOK' /\ EmptyOK'
    BY <1>1, <1>5 DEF HeadOK, EmptyOK, Expected, Alive
<1>11. WriteOK' /\ SealedOK' /\ WireOK' /\ LastOK' /\ IntactOK'
    BY <1>1 DEF WriteOK, SealedOK, WireOK, LastOK, Continued, IntactOK, KeysInStep
<1>. QED
    BY <1>8, <1>9, <1>10, <1>11

LEMMA ReadEndsStep ==
    ASSUME StreamInv, ReadEnds
    PROVE  StreamInv'
<1>. USE DEF StreamInv, ReadEnds, ciphers, writing, histories
<1>1. StreamTypeOK'
    BY DEF StreamTypeOK
<1>2. HeadOK' /\ EmptyOK' /\ BufferOK'
    BY DEF HeadOK, EmptyOK, BufferOK, Alive
<1>3. WriteOK' /\ SealedOK' /\ WireOK' /\ LastOK' /\ IntactOK'
    BY DEF WriteOK, SealedOK, WireOK, LastOK, Continued, IntactOK, KeysInStep
<1>. QED
    BY <1>1, <1>2, <1>3

LEMMA DamageStep ==
    ASSUME StreamInv, Damage
    PROVE  StreamInv'
<1>. USE DEF StreamInv
<1>1. /\ damaged' = "yes"
      /\ UNCHANGED <<send, recv, writer, todo, chunk, written, reader, pktLen, readBuf, got,
                     order, sealed, reused>>
    BY DEF Damage, ciphers, writing, reading
<1>2. wire \in Seq(Ciphertext) /\ DOMAIN wire = 1..Len(wire) /\ Len(wire) \in Nat
    BY DEF StreamTypeOK
<1>3. PICK i \in 1..Len(wire) : wire' = [wire EXCEPT ![i].intact = "no"]
    BY <1>2 DEF Damage
<1>4. /\ wire' \in Seq(Ciphertext)
      /\ Len(wire') = Len(wire)
      /\ \A j \in 1..Len(wire) :
             /\ wire'[j].cipher = wire[j].cipher
             /\ wire'[j].kind = wire[j].kind
             /\ wire'[j].size = wire[j].size
             /\ wire'[j].from = wire[j].from
             /\ wire'[j].to = wire[j].to
    BY <1>2, <1>3, DamageFacts
<1>5. StreamTypeOK'
    BY <1>1, <1>4 DEF StreamTypeOK
<1>6. WireOK'
    <2>1. \A j \in 1..Len(wire') :
              /\ wire'[j].to <= written'
              /\ IF wire'[j].kind = "length" THEN wire'[j].to + 1 = wire'[j].from
                 ELSE wire'[j].to >= wire'[j].from
        BY <1>1, <1>4 DEF WireOK
    <2>2. ASSUME NEW j \in 1..(Len(wire') - 1) PROVE Follows(wire'[j], wire'[j + 1])
        <3>1. j \in 1..Len(wire) /\ j + 1 \in 1..Len(wire) /\ j \in 1..(Len(wire) - 1)
            BY <1>2, <1>4
        <3>2. Follows(wire[j], wire[j + 1])
            BY <3>1 DEF WireOK
        <3>. QED
            BY <1>4, <3>1, <3>2 DEF Follows
    <2>. QED
        BY <2>1, <2>2 DEF WireOK
<1>7. HeadOK'
    <2>. SUFFICES ASSUME Alive, Len(wire) > 0 PROVE Expected(wire[1])'
        BY <1>1, <1>4 DEF HeadOK, Alive
    <2>1. 1 \in 1..Len(wire) /\ Expected(wire[1])
        BY <1>2 DEF HeadOK
    <2>. QED
        BY <1>1, <1>4, <2>1 DEF Expected
<1>8. LastOK'
    <2>. SUFFICES ASSUME writer # "failed", Len(wire) > 0 PROVE Continued(wire[Len(wire)])'
        BY <1>1, <1>4 DEF LastOK
    <2>1. Len(wire) \in 1..Len(wire) /\ Continued(wire[Len(wire)])
        BY <1>2 DEF LastOK
    <2>2. /\ wire'[Len(wire')].cipher = wire[Len(wire)].cipher
          /\ wire'[Len(wire')].kind = wire[Len(wire)].kind
          /\ wire'[Len(wire')].size = wire[Len(wire)].size
          /\ wire'[Len(wire')].to = wire[Len(wire)].to
        BY <1>4, <2>1
    <2>. QED
        BY <1>1, <2>1, <2>2 DEF Continued
<1>9. WriteOK' /\ SealedOK' /\ BufferOK' /\ IntactOK'
    BY <1>1 DEF WriteOK, SealedOK, BufferOK, IntactOK, KeysInStep
<1>10. EmptyOK'
    BY <1>1, <1>4 DEF EmptyOK, Alive
<1>. QED
    BY <1>5, <1>6, <1>7, <1>8, <1>9, <1>10

LEMMA BreakStep ==
    ASSUME StreamInv, Break
    PROVE  StreamInv'
<1>. USE DEF StreamInv
<1>1. /\ writer' = "failed"
      /\ UNCHANGED <<send, recv, todo, chunk, written, reader, pktLen, readBuf, got, order,
                     sealed, reused, damaged>>
    BY DEF Break, ciphers, reading, histories
<1>2. wire \in Seq(Ciphertext) /\ Len(wire) \in Nat
    BY DEF StreamTypeOK
<1>3. PICK n \in 0..Len(wire) : wire' = SubSeq(wire, 1, n)
    BY DEF Break
<1>4. /\ wire' \in Seq(Ciphertext)
      /\ Len(wire') = n
      /\ \A i \in 1..n : wire'[i] = wire[i]
    BY <1>2, <1>3, PrefixFacts
<1>5. StreamTypeOK'
    BY <1>1, <1>4 DEF StreamTypeOK
<1>6. WireOK'
    <2>1. ASSUME NEW i \in 1..n
          PROVE  /\ wire'[i].to <= written'
                 /\ IF wire'[i].kind = "length" THEN wire'[i].to + 1 = wire'[i].from
                    ELSE wire'[i].to >= wire'[i].from
        <3>1. i \in 1..Len(wire) /\ wire'[i] = wire[i]
            BY <1>2, <1>4
        <3>. QED
            BY <1>1, <3>1 DEF WireOK
    <2>2. ASSUME NEW i \in 1..(n - 1) PROVE Follows(wire'[i], wire'[i + 1])
        <3>1. /\ i \in 1..(Len(wire) - 1)
              /\ wire'[i] = wire[i] /\ wire'[i + 1] = wire[i + 1]
            BY <1>2, <1>4
        <3>. QED
            BY <3>1 DEF WireOK
    <2>. QED
        BY <1>4, <2>1, <2>2 DEF WireOK
<1>7. HeadOK'
    <2>. SUFFICES ASSUME Alive, n > 0 PROVE Expected(wire[1])'
        BY <1>1, <1>4 DEF HeadOK, Alive
    <2>1. wire'[1] = wire[1] /\ Expected(wire[1])
        BY <1>2, <1>4 DEF HeadOK
    <2>. QED
        BY <1>1, <2>1 DEF Expected
<1>8. LastOK' /\ EmptyOK' /\ WriteOK'
    BY <1>1 DEF LastOK, EmptyOK, WriteOK
<1>9. SealedOK' /\ BufferOK'
    BY <1>1 DEF SealedOK, BufferOK
<1>10. IntactOK'
    BY <1>1, <1>2, <1>4 DEF IntactOK, KeysInStep
<1>. QED
    BY <1>5, <1>6, <1>7, <1>8, <1>9, <1>10

-----------------------------------------------------------------------------
LEMMA StreamInductive == StreamInv /\ [Next]_streamVars => StreamInv'
<1>. SUFFICES ASSUME StreamInv, [Next]_streamVars PROVE StreamInv'
    OBVIOUS
<1>1. CASE WriterStep
    BY <1>1, WriteStep, WriteLengthStep, WritePayloadStep DEF WriterStep
<1>2. CASE ReaderStep
    BY <1>2, ReadLengthStep, ReadPayloadStep, ReadBufferedStep, ReadEndsStep DEF ReaderStep
<1>3. CASE Damage
    BY <1>3, DamageStep
<1>4. CASE Break
    BY <1>4, BreakStep
<1>5. CASE UNCHANGED streamVars
    <2>. USE <1>5 DEF StreamInv, streamVars, ciphers, writing, reading, histories
    <2>1. StreamTypeOK'
        BY DEF StreamTypeOK
    <2>2. WriteOK' /\ SealedOK' /\ WireOK' /\ BufferOK' /\ IntactOK'
        BY DEF WriteOK, SealedOK, WireOK, BufferOK, IntactOK, KeysInStep
    <2>3. HeadOK' /\ LastOK' /\ EmptyOK'
        BY DEF HeadOK, LastOK, EmptyOK, Alive, Expected, Continued
    <2>. QED
        BY <2>1, <2>2, <2>3
<1>. QED
    BY <1>1, <1>2, <1>3, <1>4, <1>5 DEF Next

LEMMA StreamInvariant == Spec => []StreamInv
    BY StreamInit, StreamInductive, PTL DEF Spec

(* Bytes are read at most once and in the order in which they were written,     *)
(* whatever Conn.Write is given, whatever room Conn.Read has, and whatever the   *)
(* network damages or loses.                                                   *)
THEOREM BytesInOrder == Spec => []InOrder
<1>1. StreamInv => InOrder
    BY DEF StreamInv, StreamTypeOK, BufferOK, InOrder
<1>. QED
    BY <1>1, StreamInvariant, PTL

(* The recvCipher of one side rotates its key at the operation at which the     *)
(* sendCipher of the other did, for every interval: ReadMessage refuses nothing  *)
(* that the network did not damage.                                            *)
THEOREM CiphersInStep == Spec => []KeysInStep
<1>1. StreamInv => KeysInStep
    BY DEF StreamInv, IntactOK
<1>. QED
    BY <1>1, StreamInvariant, PTL

(* A sendCipher never encrypts twice under one key and nonce, although the nonce *)
(* returns to 0 at every rotation.                                             *)
THEOREM NoncesOnce == Spec => []NonceOnce
<1>1. StreamInv => NonceOnce
    BY DEF StreamInv, SealedOK, NonceOnce
<1>. QED
    BY <1>1, StreamInvariant, PTL

-----------------------------------------------------------------------------
(* How large things get: a message fits its length field, and the buffer holds   *)
(* at most one.                                                               *)
SizesOK ==
    /\ todo + written <= MaxWritten
    /\ chunk <= MaxUint16 /\ chunk <= MaxWritten
    /\ pktLen <= MaxUint16 /\ pktLen <= MaxWritten
    /\ readBuf.to < readBuf.from + MaxUint16
    /\ \A i \in 1..Len(wire) :
           /\ wire[i].size <= MaxUint16 /\ wire[i].size <= MaxWritten
           /\ wire[i].kind = "payload" => wire[i].to + 1 = wire[i].from + wire[i].size

LEMMA SizesInit == Init => SizesOK
BY NoiseStreamAssumption DEF Init, InitStream, SizesOK

LEMMA SizesInductive == StreamInv /\ SizesOK /\ [Next]_streamVars => SizesOK'
<1>. SUFFICES ASSUME StreamInv, SizesOK, [Next]_streamVars PROVE SizesOK'
    OBVIOUS
<1>. USE NoiseStreamAssumption DEF StreamInv
<1>1. /\ todo \in Nat /\ chunk \in Nat /\ written \in Nat /\ pktLen \in Nat
      /\ readBuf.from \in Nat /\ readBuf.to \in Nat
      /\ wire \in Seq(Ciphertext) /\ Len(wire) \in Nat
    BY DEF StreamTypeOK
<1>2. ASSUME NEW n \in Sizes, Write(n) PROVE SizesOK'
    <2>1. n \in Nat /\ written + n <= MaxWritten /\ todo' = n
        BY <1>2 DEF Write
    <2>2. UNCHANGED <<wire, chunk, written, pktLen, readBuf>>
        BY <1>2 DEF Write, reading
    <2>. QED
        BY <1>1, <2>1, <2>2 DEF SizesOK
<1>3. ASSUME WriteLength PROVE SizesOK'
    <2>1. /\ wire' = Append(wire, Length(ChunkSize)) /\ chunk' = ChunkSize
          /\ UNCHANGED <<todo, written, pktLen, readBuf>>
        BY <1>3 DEF WriteLength, Encrypt, reading
    <2>2. ChunkSize \in Nat /\ ChunkSize <= MaxUint16 /\ ChunkSize <= todo
        BY <1>1 DEF ChunkSize
    <2>3. Length(ChunkSize).size = ChunkSize /\ Length(ChunkSize).kind = "length"
          /\ Length(ChunkSize) \in Ciphertext
        BY <1>1, <2>2 DEF Length, Ciphertext, StreamTypeOK
    <2>4. /\ Len(wire') = Len(wire) + 1
          /\ \A i \in 1..Len(wire) : wire'[i] = wire[i]
          /\ wire'[Len(wire) + 1] = Length(ChunkSize)
        BY <1>1, <2>1, <2>3, AppendFacts
    <2>5. ChunkSize <= MaxWritten
        BY <1>1, <2>2 DEF SizesOK
    <2>6. ASSUME NEW i \in 1..Len(wire')
          PROVE  /\ wire'[i].size <= MaxUint16 /\ wire'[i].size <= MaxWritten
                 /\ wire'[i].kind = "payload" => wire'[i].to + 1 = wire'[i].from + wire'[i].size
        <3>1. CASE i = Len(wire) + 1
            BY <2>2, <2>3, <2>4, <2>5, <3>1
        <3>2. CASE i \in 1..Len(wire)
            BY <2>4, <3>2 DEF SizesOK
        <3>. QED
            BY <1>1, <2>4, <3>1, <3>2
    <2>. QED
        BY <1>1, <2>1, <2>2, <2>5, <2>6 DEF SizesOK
<1>4. ASSUME WritePayload PROVE SizesOK'
    <2>1. /\ wire' = Append(wire, Payload(chunk)) /\ chunk' = 0
          /\ written' = written + chunk /\ todo' = todo - chunk
          /\ chunk <= todo /\ UNCHANGED <<pktLen, readBuf>>
        BY <1>4 DEF WritePayload, Encrypt, reading, WriteOK
    <2>3. /\ Payload(chunk).size = chunk /\ Payload(chunk).to + 1 = Payload(chunk).from + chunk
          /\ Payload(chunk) \in Ciphertext
        BY <1>1 DEF Payload, Ciphertext, StreamTypeOK
    <2>4. /\ Len(wire') = Len(wire) + 1
          /\ \A i \in 1..Len(wire) : wire'[i] = wire[i]
          /\ wire'[Len(wire) + 1] = Payload(chunk)
        BY <1>1, <2>1, <2>3, AppendFacts
    <2>5. chunk <= MaxUint16 /\ chunk <= MaxWritten
        BY DEF SizesOK
    <2>6. ASSUME NEW i \in 1..Len(wire')
          PROVE  /\ wire'[i].size <= MaxUint16 /\ wire'[i].size <= MaxWritten
                 /\ wire'[i].kind = "payload" => wire'[i].to + 1 = wire'[i].from + wire'[i].size
        <3>1. CASE i = Len(wire) + 1
            BY <2>3, <2>4, <2>5, <3>1
        <3>2. CASE i \in 1..Len(wire)
            BY <2>4, <3>2 DEF SizesOK
        <3>. QED
            BY <1>1, <2>4, <3>1, <3>2
    <2>7. todo' + written' <= MaxWritten
        BY <1>1, <2>1 DEF SizesOK
    <2>. QED
        BY <1>1, <2>1, <2>6, <2>7 DEF SizesOK
<1>5. ASSUME wire # <<>>, wire' = Tail(wire)
      PROVE  /\ \A i \in 1..Len(wire') :
                    /\ wire'[i].size <= MaxUint16 /\ wire'[i].size <= MaxWritten
                    /\ wire'[i].kind = "payload" => wire'[i].to + 1 = wire'[i].from + wire'[i].size
             /\ Head(wire) = wire[1] /\ wire[1] \in Ciphertext /\ 1 \in 1..Len(wire)
    <2>1. /\ Len(wire) \in Nat \ {0} /\ Len(wire') = Len(wire) - 1
          /\ \A i \in 1..(Len(wire) - 1) : wire'[i] = wire[i + 1]
          /\ Head(wire) = wire[1] /\ wire[1] \in Ciphertext
        BY <1>1, <1>5, TailFacts
    <2>2. ASSUME NEW i \in 1..Len(wire')
          PROVE  /\ wire'[i].size <= MaxUint16 /\ wire'[i].size <= MaxWritten
                 /\ wire'[i].kind = "payload" => wire'[i].to + 1 = wire'[i].from + wire'[i].size
        <3>1. wire'[i] = wire[i + 1] /\ i + 1 \in 1..Len(wire)
            BY <2>1
        <3>. QED
            BY <3>1 DEF SizesOK
    <2>. QED
        BY <2>1, <2>2
<1>6. ASSUME ReadLength PROVE SizesOK'
    <2>1. /\ wire # <<>> /\ wire' = Tail(wire)
          /\ pktLen' = Head(wire).size \/ pktLen' = pktLen
          /\ UNCHANGED <<todo, chunk, written, readBuf>>
        BY <1>6 DEF ReadLength, Decrypt, writing
    <2>2. Head(wire).size <= MaxUint16 /\ Head(wire).size <= MaxWritten
        BY <1>5, <2>1 DEF SizesOK
    <2>3. pktLen' <= MaxUint16 /\ pktLen' <= MaxWritten
        BY <2>1, <2>2 DEF SizesOK
    <2>. QED
        BY <1>5, <2>1, <2>3 DEF SizesOK
<1>7. ASSUME ReadPayload PROVE SizesOK'
    <2>1. /\ wire # <<>> /\ wire' = Tail(wire) /\ pktLen' = 0
          /\ UNCHANGED <<todo, chunk, written>>
          /\ \/ readBuf' = readBuf
             \/ /\ Head(wire).kind = "payload"
                /\ readBuf' = [from |-> Head(wire).from, to |-> Head(wire).to]
        BY <1>7 DEF ReadPayload, Decrypt, Opens, writing
    <2>2. readBuf'.to < readBuf'.from + MaxUint16
        <3>1. CASE readBuf' = readBuf
            BY <3>1 DEF SizesOK
        <3>2. CASE /\ Head(wire).kind = "payload"
                   /\ readBuf' = [from |-> Head(wire).from, to |-> Head(wire).to]
            <4>1. /\ wire[1].to + 1 = wire[1].from + wire[1].size
                  /\ wire[1].size <= MaxUint16
                  /\ wire[1].to \in Nat /\ wire[1].from \in Nat /\ wire[1].size \in Nat
                BY <1>5, <2>1, <3>2 DEF SizesOK, Ciphertext
            <4>2. readBuf'.to = wire[1].to /\ readBuf'.from = wire[1].from
                BY <1>5, <2>1, <3>2
            <4>. QED
                BY <4>1, <4>2
        <3>. QED
            BY <2>1, <3>1, <3>2
    <2>. QED
        BY <1>5, <2>1, <2>2 DEF SizesOK
<1>8. ASSUME NEW room \in Buffers, ReadBuffered(room) PROVE SizesOK'
    <2>. DEFINE size == readBuf.to - readBuf.from + 1
                n == IF room < size THEN room ELSE size
    <2>1. ~BufferEmpty /\ readBuf' = Rest(n) /\ UNCHANGED <<wire, todo, chunk, written, pktLen>>
        BY <1>8 DEF ReadBuffered, writing
    <2>2. n \in Nat
        BY <1>1, <2>1 DEF BufferEmpty
    <2>. HIDE DEF n
    <2>3. readBuf'.to = readBuf.to /\ readBuf'.from = readBuf.from + n
        BY <2>1 DEF Rest
    <2>4. readBuf'.to < readBuf'.from + MaxUint16
        BY <1>1, <2>2, <2>3 DEF SizesOK
    <2>. QED
        BY <2>1, <2>4 DEF SizesOK
<1>9. CASE ReadEnds \/ UNCHANGED streamVars
    <2>1. UNCHANGED <<wire, todo, chunk, written, pktLen, readBuf>>
        BY <1>9 DEF ReadEnds, streamVars, writing, reading
    <2>. QED
        BY <2>1 DEF SizesOK
<1>10. ASSUME Damage PROVE SizesOK'
    <2>1. UNCHANGED <<todo, chunk, written, pktLen, readBuf>>
        BY <1>10 DEF Damage, writing, reading
    <2>2. PICK i \in DOMAIN wire : wire' = [wire EXCEPT ![i].intact = "no"]
        BY <1>10 DEF Damage
    <2>4. i \in 1..Len(wire)
        BY <1>1
    <2>3. /\ Len(wire') = Len(wire)
          /\ \A j \in 1..Len(wire) :
                 /\ wire'[j].kind = wire[j].kind /\ wire'[j].size = wire[j].size
                 /\ wire'[j].from = wire[j].from /\ wire'[j].to = wire[j].to
        BY <1>1, <2>2, <2>4, DamageFacts
    <2>. QED
        BY <2>1, <2>3 DEF SizesOK
<1>11. ASSUME Break PROVE SizesOK'
    <2>1. UNCHANGED <<todo, chunk, written, pktLen, readBuf>>
        BY <1>11 DEF Break, reading
    <2>2. PICK n \in 0..Len(wire) : wire' = SubSeq(wire, 1, n)
        BY <1>11 DEF Break
    <2>3. Len(wire') = n /\ \A i \in 1..n : wire'[i] = wire[i] /\ i \in 1..Len(wire)
        BY <1>1, <2>2, PrefixFacts
    <2>. QED
        BY <2>1, <2>3 DEF SizesOK
<1>. QED
    BY <1>2, <1>3, <1>4, <1>6, <1>7, <1>8, <1>9, <1>10, <1>11 DEF Next, WriterStep, ReaderStep

LEMMA SizesInvariant == Spec => []SizesOK
    BY StreamInvariant, SizesInit, SizesInductive, PTL DEF Spec
=============================================================================
