---------------------------- MODULE NoiseSession ----------------------------
(***************************************************************************)
(* A connection of an RPC client (Dial, the initiator) to the listener (the *)
(* responder): the Noise_XX handshake in three acts, and then one direction *)
(* of the encrypted stream, of either side.                                 *)
(*                                                                         *)
(* Keys, hashes and ciphertexts are terms: the digest is the sequence of    *)
(* what was hashed into it; the chaining key the sequence of secrets     *)
(* mixed into it, and it determines the key of the handshake's cipher; a    *)
(* ciphertext records its key, nonce, associated data and text.  It opens   *)
(* only under the same ones.                                               *)
(*                                                                         *)
(* The network may replace an act on its way by any other one that could    *)
(* be put in its place without the private keys of the two sides: with      *)
(* other bytes, with bytes that are no key, or with the public key of a     *)
(* third party and the tag that goes with it.  Neither side is told which   *)
(* static key to expect, so a handshake may be completed with the third     *)
(* party; whom a side has finished with is the static key it holds.         *)
(***************************************************************************)
EXTENDS NoiseStream

VARIABLES machine,   \* the Machine of each side
          pc,        \* where the handshake of each side is
          flight,    \* the act that is on its way
          changed,   \* history: the acts that the network changed
          prologue,  \* what each side put into its digest first
          sender     \* the side whose stream is followed

hsVars == <<machine, pc, flight, changed, prologue, sender>>
vars == <<streamVars, hsVars>>

Other(side) == IF side = "initiator" THEN "responder" ELSE "initiator"

ThirdKey == <<"third", "party">>
NoKey == <<"not", "a key">>
Garbage == [text |-> NoKey]
NoAct == [act |-> 0]

-----------------------------------------------------------------------------
(* symmetricState.                                                          *)
MixHash(m, data) == [m EXCEPT !.digest = Append(@, data)]
MixKey(m, secret) == [m EXCEPT !.chainingKey = Append(@, secret), !.nonce = 0]
Seal(m, text) == [key |-> m.chainingKey, nonce |-> m.nonce, ad |-> m.digest, text |-> text]

(* Mistake: the key and the nonce are checked, the associated data is not.    *)
UnsealsAnyDigest(m, ct) ==
    /\ ct # Garbage
    /\ ct.key = m.chainingKey /\ ct.nonce = m.nonce

Unseals(m, ct) == ct # Garbage /\ ct = Seal(m, ct.text)
CryptAndHash(m, ct) == MixHash([m EXCEPT !.nonce = @ + 1], ct)

(* NewNoiseMachine; the digest begins with the prologue.                     *)
NewMachine(data) ==
    [digest |-> <<data>>, chainingKey |-> <<>>, nonce |-> 0,
     remoteStatic |-> NoKey, remoteEphemeral |-> NoKey]

SessionInit ==
    /\ InitStream
    /\ send = InitializeKey(<<>>)
    /\ recv = InitializeKey(<<>>)
    /\ prologue \in [Sides -> {"opencx", "other"}]
    /\ prologue["responder"] = "opencx"
    /\ machine = [s \in Sides |-> NewMachine(prologue[s])]
    /\ pc = [initiator |-> "start", responder |-> "actOne"]
    /\ flight = NoAct
    /\ changed = {}
    /\ sender \in Sides

(* What a side does when an act is refused: Dial and doHandshake close the     *)
(* connection.                                                               *)
Fails(side) ==
    /\ pc' = [pc EXCEPT ![side] = "failed"]
    /\ flight' = NoAct
    /\ UNCHANGED <<machine, ciphers>>

(* split: the first key is the initiator's to send with, the second one the   *)
(* responder's.                                                              *)
DirectionKey(m, from) == InitializeKey(<<m.chainingKey, IF from = "initiator" THEN 1 ELSE 2>>)

(* Mistake: both sides send with the first key.                              *)
SplitSame(side, m) ==
    IF side = sender THEN send' = DirectionKey(m, "initiator") /\ UNCHANGED recv
    ELSE recv' = DirectionKey(m, sender) /\ UNCHANGED send

Split(side, m) ==
    IF side = sender THEN send' = DirectionKey(m, sender) /\ UNCHANGED recv
    ELSE recv' = DirectionKey(m, sender) /\ UNCHANGED send

-----------------------------------------------------------------------------
(* -> e                                                                      *)
GenActOne ==
    LET m == MixHash(machine["initiator"], Ephemeral("initiator"))
        p == Seal(m, "nothing")
    IN  /\ pc["initiator"] = "start"
        /\ machine' = [machine EXCEPT !["initiator"] = CryptAndHash(m, p)]
        /\ flight' = [act |-> 1, version |-> 1, e |-> Ephemeral("initiator"), p |-> p]
        /\ pc' = [pc EXCEPT !["initiator"] = "actTwo"]
        /\ UNCHANGED ciphers

(* The responder reads act one and answers with act two: <- e, ee, s, es       *)
RecvActOne ==
    LET act == flight
        m1 == [machine["responder"] EXCEPT !.remoteEphemeral = act.e]
        m2 == MixHash(m1, act.e)
        m3 == MixHash(CryptAndHash(m2, act.p), Ephemeral("responder"))
        m4 == MixKey(m3, Ecdh(act.e, Ephemeral("responder")))
        m5 == MixHash(m4, Static("responder"))
        m6 == MixKey(m5, Ecdh(act.e, Static("responder")))
        p == Seal(m6, "nothing")
    IN  /\ flight.act = 1
        /\ pc["responder"] = "actOne"
        /\ IF act.version = 1 /\ act.e # NoKey /\ Unseals(m2, act.p)
           THEN /\ machine' = [machine EXCEPT !["responder"] = CryptAndHash(m6, p)]
                /\ flight' = [act |-> 2, version |-> 1, e |-> Ephemeral("responder"),
                              s |-> Static("responder"), p |-> p]
                /\ pc' = [pc EXCEPT !["responder"] = "actThree"]
                /\ UNCHANGED ciphers
           ELSE Fails("responder")

(* e, ee, s, es on the side of the initiator.                                *)
ReadActTwo(m, act) ==
    LET m1 == MixHash([m EXCEPT !.remoteEphemeral = act.e], act.e)
        m2 == MixKey(m1, Ecdh(act.e, Ephemeral("initiator")))
        m3 == MixHash([m2 EXCEPT !.remoteStatic = act.s], act.s)
    IN  MixKey(m3, Ecdh(act.s, Ephemeral("initiator")))

(* The initiator reads act two and sends act three: -> s, se                   *)
RecvActTwo ==
    LET act == flight
        m1 == ReadActTwo(machine["initiator"], act)
        m2 == CryptAndHash(m1, act.p)
        s == Seal(m2, Static("initiator"))
        m3 == MixKey(CryptAndHash(m2, s), Ecdh(act.e, Static("initiator")))
        p == Seal(m3, "nothing")
        m4 == CryptAndHash(m3, p)
    IN  /\ flight.act = 2
        /\ pc["initiator"] = "actTwo"
        /\ IF act.version = 1 /\ act.e # NoKey /\ act.s # NoKey /\ Unseals(m1, act.p)
           THEN /\ machine' = [machine EXCEPT !["initiator"] = m4]
                /\ flight' = [act |-> 3, version |-> 1, s |-> s, p |-> p]
                /\ pc' = [pc EXCEPT !["initiator"] = "done"]
                /\ Split("initiator", m4)
           ELSE Fails("initiator")

RecvActThree ==
    LET act == flight
        m1 == machine["responder"]
        m2 == [CryptAndHash(m1, act.s) EXCEPT !.remoteStatic = act.s.text]
        m3 == MixKey(m2, Ecdh(act.s.text, Ephemeral("responder")))
        m4 == CryptAndHash(m3, act.p)
    IN  /\ flight.act = 3
        /\ pc["responder"] = "actThree"
        /\ IF act.version = 1 /\ Unseals(m1, act.s) /\ act.s.text # NoKey /\ Unseals(m3, act.p)
           THEN /\ machine' = [machine EXCEPT !["responder"] = m4]
                /\ flight' = NoAct
                /\ pc' = [pc EXCEPT !["responder"] = "done"]
                /\ Split("responder", m4)
           ELSE Fails("responder")

(* A read of an act fails: the deadline passes or the other side has closed    *)
(* the connection.                                                           *)
ReadActFails(side) ==
    /\ pc[side] \in {"actOne", "actTwo", "actThree"}
    /\ Fails(side)

(* A third party knows the secrets that one of its keys went into, and a        *)
(* chaining key whose secrets it knows, all of them; the key of act one, into   *)
(* which none went, anybody knows.  Then it can seal as the reader expects it;   *)
(* else it keeps what was sealed, or leaves garbage.                           *)
Known(key) == \A i \in DOMAIN key : ThirdKey \in key[i]
Sealings(m, kept, texts) ==
    {kept, Garbage} \cup {Seal(m, text) : text \in {t \in texts : Known(m.chainingKey)}}

(* What the network may make of each act; the Machine with which the tag p is     *)
(* opened is computed by its reader from the fields before it.                  *)
ActOneChanged(act) ==
    \E e \in {act.e, ThirdKey, NoKey} :
        \E p \in Sealings(MixHash(machine["responder"], e), act.p, {"nothing"}) :
            flight' = [act EXCEPT !.e = e, !.p = p]

ActTwoChanged(act) ==
    \E e \in {act.e, ThirdKey, NoKey}, s \in {act.s, ThirdKey, NoKey} :
        LET read == [act EXCEPT !.e = e, !.s = s]
        IN  \E p \in Sealings(ReadActTwo(machine["initiator"], read), act.p, {"nothing"}) :
                flight' = [read EXCEPT !.p = p]

ActThreeChanged(act) ==
    LET m == machine["responder"]
    IN  \E s \in Sealings(m, act.s, {ThirdKey, Static("initiator"), NoKey}) :
        \E p \in Sealings(MixKey(CryptAndHash(m, s), Ecdh(s.text, Ephemeral("responder"))),
                          act.p, {"nothing"}) :
            flight' = [act EXCEPT !.s = s, !.p = p]

ChangeAct ==
    /\ flight.act \notin changed
    /\ \E version \in 1..2 :
           LET act == [flight EXCEPT !.version = version]
           IN  \/ flight.act = 1 /\ ActOneChanged(act)
               \/ flight.act = 2 /\ ActTwoChanged(act)
               \/ flight.act = 3 /\ ActThreeChanged(act)
    /\ flight' # flight
    /\ changed' = changed \cup {flight.act}
    /\ UNCHANGED <<machine, pc, prologue, sender, streamVars>>

HandshakeStep ==
    /\ \/ GenActOne
       \/ RecvActOne
       \/ RecvActTwo
       \/ RecvActThree
       \/ \E side \in Sides : ReadActFails(side)
    /\ UNCHANGED <<changed, prologue, sender, wire, writing, reading, histories>>

(* A side has finished with the other one if it holds its static key.          *)
With(side) == machine[side].remoteStatic = Static(Other(side))
Connected(side) == pc[side] = "done" /\ With(side)

(* A side that has finished the handshake uses the connection; when the other  *)
(* side has given it up, writes fail.  What passes between a side and a third    *)
(* party is not followed.                                                    *)
StreamStep ==
    /\ \/ Connected(sender) /\ WriterStep
       \/ Connected(Other(sender)) /\ ReaderStep
       \/ Connected(sender) /\ Damage
       \/ Connected(sender) /\ Break
    /\ UNCHANGED hsVars

SessionNext == HandshakeStep \/ ChangeAct \/ StreamStep

SessionSpec == SessionInit /\ [][SessionNext]_vars

(* The sides take their steps; a read that gets nothing fails in time, but     *)
(* only when there is nothing to read.  The writer need not write.             *)
FairSession ==
    /\ SessionSpec
    /\ WF_vars(Connected(sender) /\ (WriteLength \/ WritePayload) /\ UNCHANGED hsVars)
    /\ WF_vars(Connected(Other(sender)) /\ ReaderStep /\ UNCHANGED hsVars)

-----------------------------------------------------------------------------
MachineOK(side) ==
    /\ machine[side].nonce \in 0..1
    /\ machine[side].remoteStatic \in {Static(Other(side)), ThirdKey, NoKey}
    /\ machine[side].remoteEphemeral \in {Ephemeral(Other(side)), ThirdKey, NoKey}

ActOK ==
    \/ flight = NoAct
    \/ /\ flight.act \in 1..3 /\ flight.version \in 1..2
       /\ flight.act \in 1..2 => flight.e \in {Ephemeral("initiator"), Ephemeral("responder"), ThirdKey, NoKey}

(* Both Machines, the act that is on its way, and the ciphers, flags and buffer   *)
(* of the direction that is followed have the shape the code gives them, and a   *)
(* message is never longer than its length field can say.                    *)
TypeOK ==
    /\ \A side \in Sides : MachineOK(side)
    /\ ActOK
    /\ \A c \in {send, recv} : c.rotations \in Nat /\ c.nonce \in 0..(KeyRotationInterval - 1)
    /\ writer \in {"idle", "length", "payload", "failed"}
    /\ reader \in {"length", "payload", "failed", "ended"}
    /\ {todo, chunk, written, pktLen, got} \subseteq 0..MaxWritten
    /\ chunk <= MaxUint16 /\ pktLen <= MaxUint16
    /\ readBuf.to - readBuf.from < MaxUint16
    /\ pc \in [Sides -> {"start", "actOne", "actTwo", "actThree", "done", "failed"}]

Done == {side \in Sides : pc[side] = "done"}

(* When both sides have finished, and one of them with the other, so has the     *)
(* other, and they have the same keys, one for each direction, and the same      *)
(* digest.  If they have finished with a third party, they have no key in        *)
(* common.                                                                    *)
KeysAgree ==
    Done = Sides =>
        IF \E side \in Sides : With(side)
        THEN /\ \A side \in Sides : With(side)
             /\ send.base = recv.base
             /\ machine["initiator"].digest = machine["responder"].digest
             /\ machine["initiator"].chainingKey = machine["responder"].chainingKey
        ELSE send.base # recv.base

(* A side that ends up with the other's static key has received every act so far  *)
(* as it was sent, and both sides used the same prologue: each change is noticed  *)
(* at the latest by the next act, or leaves the sides with a third party.         *)
ChangesNoticed ==
    /\ \A side \in Sides : Connected(side) => prologue["initiator"] = prologue["responder"]
    /\ Connected("initiator") => changed \cap {1, 2} = {}
    /\ Connected("responder") => changed = {}

(* The connection, handshake included, is a stream whose two sides begin with    *)
(* the key of an undisturbed handshake.  A side that has not finished with the   *)
(* other has the cipher it would have: nothing was written or read with another  *)
(* one.                                                                       *)
CipherOf(side, cipher) ==
    IF Connected(side) THEN cipher ELSE InitializeKey(AgreedKey(sender))
Stream == INSTANCE NoiseStream WITH send <- CipherOf(sender, send),
                                    recv <- CipherOf(Other(sender), recv)
ImplementsStream == Stream!Spec

(* What is written arrives, once the other side has finished the handshake,     *)
(* unless the network damages it or breaks.                                   *)
WrittenArrives ==
    \A n \in 1..MaxWritten :
        written >= n ~> \/ got >= n \/ damaged = "yes" \/ writer = "failed"
                        \/ pc[Other(sender)] # "done"
=============================================================================
