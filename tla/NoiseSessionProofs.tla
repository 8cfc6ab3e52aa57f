------------------------ MODULE NoiseSessionProofs ------------------------
(***************************************************************************)
(* Proofs about a noise session: the three acts of the handshake, and the  *)
(* stream that follows it.                                                 *)
(*                                                                         *)
(* HandshakeInv says what each side has mixed into its digest and its      *)
(* chaining key at each point, given the keys it has received, and what an *)
(* act under way contains.  A side that accepts an act has opened its      *)
(* ciphertext, whose key and associated data are the chaining key and the  *)
(* digest of whoever sealed it: as terms, equal digests have equal parts,  *)
(* and a third party cannot seal under a secret of the two sides.  So what *)
(* a side accepts comes from the other side and is as it was sent, or it   *)
(* comes from the third party, all of it.                                  *)
(*                                                                         *)
(* SessionIsStream then shows that a session implements NoiseStream, where *)
(* both ends start from the agreed key: the two sides get their ciphers when*)
(* they finish, and until then nothing is written or read.  The theorems of*)
(* NoiseStreamProofs hold for that instance, and are carried over to the   *)
(* ciphers of the session itself.                                          *)
(***************************************************************************)
EXTENDS NoiseSession, SequenceTheorems, TLAPS

EI == Ephemeral("initiator")
SI == Static("initiator")
ER == Ephemeral("responder")
SR == Static("responder")
TK == ThirdKey

(* A Machine, and a ciphertext of the handshake, as records.                  *)
State(digest, key, nonce, static, ephemeral) ==
    [digest |-> digest, chainingKey |-> key, nonce |-> nonce,
     remoteStatic |-> static, remoteEphemeral |-> ephemeral]
Sealed(key, nonce, ad, text) == [key |-> key, nonce |-> nonce, ad |-> ad, text |-> text]

(* The digests, chaining keys and ciphertexts of a handshake with prologue data,  *)
(* in which the initiator has the ephemeral key a and the static key x, and the  *)
(* responder has b and y.                                                     *)
K0 == <<>>
D1(data, a) == Append(<<data>>, a)
P1(data, a) == Sealed(K0, 0, D1(data, a), "nothing")
D2(data, a) == Append(D1(data, a), P1(data, a))
K2(a, b, y) == Append(Append(K0, Ecdh(a, b)), Ecdh(a, y))
D3(data, a, b, y) == Append(Append(D2(data, a), b), y)
P2(data, a, b, y) == Sealed(K2(a, b, y), 0, D3(data, a, b, y), "nothing")
D4(data, a, b, y) == Append(D3(data, a, b, y), P2(data, a, b, y))
S3(data, a, b, y, x) == Sealed(K2(a, b, y), 1, D4(data, a, b, y), x)
D5(data, a, b, y, x) == Append(D4(data, a, b, y), S3(data, a, b, y, x))
K3(a, b, y, x) == Append(K2(a, b, y), Ecdh(x, b))
P3(data, a, b, y, x) == Sealed(K3(a, b, y, x), 0, D5(data, a, b, y, x), "nothing")
D6(data, a, b, y, x) == Append(D5(data, a, b, y, x), P3(data, a, b, y, x))

(* The Machines of the initiator when it has sent act one and when it has done,  *)
(* and those of the responder when it has sent act two and when it has done.     *)
SentOne(data) == State(D2(data, EI), K0, 1, NoKey, NoKey)
InitiatorEnd(data, b, y) == State(D6(data, EI, b, y, SI), K3(EI, b, y, SI), 1, y, b)
SentTwo(a) == State(D4("opencx", a, ER, SR), K2(a, ER, SR), 1, NoKey, a)
ResponderEnd(a, x) == State(D6("opencx", a, ER, SR, x), K3(a, ER, SR, x), 1, x, a)

(* The acts as they are sent.                                                *)
AnActOne(version, e, p) == [act |-> 1, version |-> version, e |-> e, p |-> p]
AnActTwo(version, e, s, p) == [act |-> 2, version |-> version, e |-> e, s |-> s, p |-> p]
AnActThree(version, s, p) == [act |-> 3, version |-> version, s |-> s, p |-> p]
ActOne(data) == AnActOne(1, EI, P1(data, EI))
ActTwo(a) == AnActTwo(1, ER, SR, P2("opencx", a, ER, SR))
ActThree(data, b, y) == AnActThree(1, S3(data, EI, b, y, SI), P3(data, EI, b, y, SI))

SessionType ==
    /\ pc \in [Sides -> {"start", "actOne", "actTwo", "actThree", "done", "failed"}]
    /\ pc["initiator"] \in {"start", "actTwo", "done", "failed"}
    /\ pc["responder"] \in {"actOne", "actThree", "done", "failed"}
    /\ machine = [side \in Sides |-> machine[side]]
    /\ MachineOK("initiator") /\ MachineOK("responder")
    /\ prologue["initiator"] \in {"opencx", "other"}
    /\ prologue["responder"] = "opencx"
    /\ sender \in Sides
    /\ changed \subseteq {1, 2, 3}

InitiatorOK ==
    /\ pc["initiator"] = "start" =>
           /\ machine["initiator"] = NewMachine(prologue["initiator"])
           /\ pc["responder"] \in {"actOne", "failed"}
           /\ flight = NoAct
           /\ changed = {}
    /\ pc["initiator"] = "actTwo" => machine["initiator"] = SentOne(prologue["initiator"])
    /\ pc["initiator"] = "done" =>
           /\ pc["responder"] # "actOne"
           /\ \/ /\ machine["initiator"] = InitiatorEnd("opencx", ER, SR)
                 /\ prologue["initiator"] = "opencx"
                 /\ 1 \notin changed /\ 2 \notin changed
              \/ machine["initiator"] = InitiatorEnd(prologue["initiator"], TK, TK)

(* Act one may be changed without notice of the responder, so that it takes the   *)
(* initiator's key with its own prologue.                                      *)
ResponderOK ==
    /\ pc["responder"] = "actOne" => machine["responder"] = NewMachine("opencx") /\ 2 \notin changed
    /\ pc["responder"] = "actThree" =>
           \/ /\ machine["responder"] = SentTwo(EI)
              /\ 1 \in changed <=> prologue["initiator"] # "opencx"
           \/ machine["responder"] = SentTwo(TK) /\ 1 \in changed
    /\ pc["responder"] = "done" =>
           /\ pc["initiator"] = "done"
           /\ flight = NoAct
           /\ \/ /\ machine["responder"] = ResponderEnd(EI, SI)
                 /\ machine["initiator"] = InitiatorEnd("opencx", ER, SR)
                 /\ 1 \notin changed /\ 2 \notin changed /\ 3 \notin changed
              \/ machine["responder"] = ResponderEnd(TK, TK) /\ 1 \in changed
    /\ 3 \in changed => pc["initiator"] = "done"

(* The act that is on its way is as it was sent, or another one that a third      *)
(* party could make.                                                          *)
OneUnderWay ==
    LET data == prologue["initiator"]
    IN  IF 1 \notin changed THEN flight = ActOne(data)
        ELSE \E version \in 1..2, e \in {EI, TK, NoKey}, p \in {P1(data, EI), Garbage, P1("opencx", flight.e)} :
                 flight = AnActOne(version, e, p) /\ flight # ActOne(data)

TwoUnderWay(a) ==
    LET kept == P2("opencx", a, ER, SR)
        third == P2(prologue["initiator"], EI, TK, TK)
    IN  IF 2 \notin changed THEN flight = ActTwo(a)
        ELSE \E version \in 1..2, e \in {ER, TK, NoKey}, s \in {SR, TK, NoKey}, p \in {kept, Garbage, third} :
                 /\ flight = AnActTwo(version, e, s, p) /\ flight # ActTwo(a)
                 /\ p \in {kept, Garbage} \/ (e = TK /\ s = TK)

ThirdTexts == {TK, SI, NoKey}
ThirdS == {S3("opencx", TK, ER, SR, x) : x \in ThirdTexts}

ThreeUnderWay(a, b, y) ==
    LET data == prologue["initiator"]
        keptS == S3(data, EI, b, y, SI)
        keptP == P3(data, EI, b, y, SI)
        thirdP == P3("opencx", TK, ER, SR, TK)
    IN  IF 3 \notin changed THEN flight = ActThree(data, b, y)
        ELSE \E version \in 1..2, s \in {keptS, Garbage} \cup ThirdS, p \in {keptP, Garbage, thirdP} :
                 /\ flight = AnActThree(version, s, p) /\ flight # ActThree(data, b, y)
                 /\ s \in {keptS, Garbage} \/ a = TK
                 /\ p \in {keptP, Garbage} \/ (a = TK /\ s = S3("opencx", TK, ER, SR, TK))

UnderWay ==
    /\ ActOK
    /\ flight.act = 1 =>
           /\ pc["initiator"] = "actTwo" /\ pc["responder"] \in {"actOne", "failed"}
           /\ 2 \notin changed
           /\ 1 \notin changed => flight = ActOne(prologue["initiator"])
           /\ pc["responder"] = "actOne" => OneUnderWay
    /\ flight.act = 2 =>
           /\ pc["initiator"] = "actTwo" /\ pc["responder"] = "actThree"
           /\ \E a \in {EI, TK} : machine["responder"] = SentTwo(a) /\ TwoUnderWay(a)
    /\ flight.act = 3 =>
           /\ pc["initiator"] = "done" /\ pc["responder"] = "actThree"
           /\ \E a \in {EI, TK}, b \in {ER, TK}, y \in {SR, TK} :
                  /\ machine["responder"] = SentTwo(a)
                  /\ machine["initiator"] = InitiatorEnd(prologue["initiator"], b, y)
                  /\ ThreeUnderWay(a, b, y)

HandshakeInv ==
    /\ SessionType
    /\ InitiatorOK
    /\ ResponderOK
    /\ UnderWay

-----------------------------------------------------------------------------
(* Calculating with terms.                                                   *)
LEMMA KeysDiffer ==
    /\ EI # TK /\ EI # NoKey /\ ER # TK /\ ER # NoKey /\ SR # TK /\ SR # NoKey
    /\ SI # TK /\ SI # NoKey /\ TK # NoKey /\ EI # ER
<1>1. EI # TK /\ EI # NoKey /\ ER # TK /\ ER # NoKey
  BY DEF EI, ER, TK, Ephemeral, ThirdKey, NoKey
<1>2. SI # TK /\ SI # NoKey /\ SR # TK /\ SR # NoKey
  BY DEF SI, SR, TK, Static, ThirdKey, NoKey
<1>3. TK # NoKey /\ EI # ER
  BY DEF TK, ThirdKey, NoKey, EI, ER, Ephemeral
<1> QED BY <1>1, <1>2, <1>3

(* Both sides compute the same secret of two keys.                           *)
LEMMA EcdhAgrees == \A a, b : Ecdh(a, b) = Ecdh(b, a)
BY DEF Ecdh

(* What MixHash, MixKey and sealing make of a Machine.                       *)
LEMMA StateSteps ==
    ASSUME NEW d, NEW k, NEW n, NEW s, NEW e, NEW x
    PROVE  /\ MixHash(State(d, k, n, s, e), x) = State(Append(d, x), k, n, s, e)
           /\ MixKey(State(d, k, n, s, e), x) = State(d, Append(k, x), 0, s, e)
           /\ Seal(State(d, k, n, s, e), x) = Sealed(k, n, d, x)
           /\ CryptAndHash(State(d, k, n, s, e), x) = State(Append(d, x), k, n + 1, s, e)
           /\ [State(d, k, n, s, e) EXCEPT !.remoteEphemeral = x] = State(d, k, n, s, x)
           /\ [State(d, k, n, s, e) EXCEPT !.remoteStatic = x] = State(d, k, n, x, e)
<1>1. MixHash(State(d, k, n, s, e), x) = State(Append(d, x), k, n, s, e)
  BY DEF MixHash, State
<1>2. MixKey(State(d, k, n, s, e), x) = State(d, Append(k, x), 0, s, e)
  <2>1. [State(d, k, n, s, e) EXCEPT !.chainingKey = Append(@, x)] = State(d, Append(k, x), n, s, e)
    BY DEF State
  <2>2. [State(d, Append(k, x), n, s, e) EXCEPT !.nonce = 0] = State(d, Append(k, x), 0, s, e)
    BY DEF State
  <2>3. MixKey(State(d, k, n, s, e), x)
          = [[State(d, k, n, s, e) EXCEPT !.chainingKey = Append(@, x)] EXCEPT !.nonce = 0]
    BY DEF MixKey
  <2> QED BY <2>1, <2>2, <2>3
<1>3. Seal(State(d, k, n, s, e), x) = Sealed(k, n, d, x)
  BY DEF Seal, State, Sealed
<1>4. CryptAndHash(State(d, k, n, s, e), x) = State(Append(d, x), k, n + 1, s, e)
  <2>1. [State(d, k, n, s, e) EXCEPT !.nonce = @ + 1] = State(d, k, n + 1, s, e)
    BY DEF State
  <2>2. MixHash(State(d, k, n + 1, s, e), x) = State(Append(d, x), k, n + 1, s, e)
    BY DEF MixHash, State
  <2> QED BY <2>1, <2>2 DEF CryptAndHash
<1>5. [State(d, k, n, s, e) EXCEPT !.remoteEphemeral = x] = State(d, k, n, s, x)
  BY DEF State
<1>6. [State(d, k, n, s, e) EXCEPT !.remoteStatic = x] = State(d, k, n, x, e)
  BY DEF State
<1> QED BY <1>1, <1>2, <1>3, <1>4, <1>5, <1>6

LEMMA StateParts ==
    ASSUME NEW d, NEW k, NEW n, NEW s, NEW e
    PROVE  /\ State(d, k, n, s, e).digest = d
           /\ State(d, k, n, s, e).chainingKey = k
           /\ State(d, k, n, s, e).nonce = n
           /\ State(d, k, n, s, e).remoteStatic = s
           /\ State(d, k, n, s, e).remoteEphemeral = e
BY DEF State

LEMMA SealedText ==
    /\ \A k, n, a, x : Sealed(k, n, a, x).text = x
    /\ Garbage.text = NoKey
BY DEF Sealed, Garbage

(* A ciphertext opens only under its own key, nonce and associated data.       *)
LEMMA UnsealFacts ==
    ASSUME NEW d, NEW k, NEW n, NEW s, NEW e, NEW l, NEW j, NEW a, NEW x
    PROVE  /\ ~Unseals(State(d, k, n, s, e), Garbage)
           /\ Unseals(State(d, k, n, s, e), Sealed(l, j, a, x)) <=> l = k /\ j = n /\ a = d
<1>1. ~Unseals(State(d, k, n, s, e), Garbage)
  BY DEF Unseals
<1>2. Sealed(l, j, a, x) # Garbage
  <2>1. DOMAIN Sealed(l, j, a, x) = {"key", "nonce", "ad", "text"} /\ DOMAIN Garbage = {"text"}
    BY DEF Sealed, Garbage
  <2> QED BY <2>1
<1>3. Sealed(l, j, a, x) = Sealed(k, n, d, x) <=> l = k /\ j = n /\ a = d
  BY DEF Sealed
<1>4. Unseals(State(d, k, n, s, e), Sealed(l, j, a, x)) <=> Sealed(l, j, a, x) = Sealed(k, n, d, x)
  BY <1>2, SealedText, StateSteps DEF Unseals
<1> QED BY <1>1, <1>3, <1>4

LEMMA UnsealedData ==
    ASSUME NEW d, NEW k, NEW n, NEW s, NEW e, NEW l, NEW j, NEW a, NEW x,
           Unseals(State(d, k, n, s, e), Sealed(l, j, a, x))
    PROVE  a = d
BY UnsealFacts

(* Digests are equal only if their parts are.                                *)
LEMMA LastElement ==
    ASSUME NEW S, NEW s \in Seq(S), NEW t \in Seq(S), NEW x \in S, NEW y \in S,
           Append(s, x) = Append(t, y)
    PROVE  s = t /\ x = y
OBVIOUS

(* Whoever mixes another key or another prologue gets another digest.          *)
LEMMA FirstDigest ==
    ASSUME NEW p, NEW q, NEW e, NEW f, D1(p, e) = D1(q, f)
    PROVE  p = q /\ e = f
BY DEF D1

LEMMA ThirdDigest ==
    ASSUME NEW p, NEW a, NEW b, NEW y, NEW q, NEW c, NEW d, NEW z, D3(p, a, b, y) = D3(q, c, d, z)
    PROVE  p = q /\ a = c /\ b = d /\ y = z
<1> DEFINE S == {p, a, P1(p, a), b, y, q, c, P1(q, c), d, z}
<1>1. D1(p, a) \in Seq(S) /\ D1(q, c) \in Seq(S)
  BY DEF D1
<1> HIDE DEF S
<1>2. {P1(p, a), b, y, P1(q, c), d, z} \subseteq S
  BY DEF S
<1>3. D2(p, a) \in Seq(S) /\ D2(q, c) \in Seq(S)
  BY <1>1, <1>2 DEF D2
<1>4. Append(D2(p, a), b) \in Seq(S) /\ Append(D2(q, c), d) \in Seq(S)
  BY <1>2, <1>3
<1>5. Append(D2(p, a), b) = Append(D2(q, c), d) /\ y = z
  BY <1>2, <1>4, LastElement DEF D3
<1>6. D2(p, a) = D2(q, c) /\ b = d
  BY <1>2, <1>3, <1>5, LastElement
<1>7. D1(p, a) = D1(q, c)
  BY <1>1, <1>2, <1>6, LastElement DEF D2
<1> QED BY <1>5, <1>6, <1>7, FirstDigest

LEMMA FourthDigest ==
    ASSUME NEW p, NEW a, NEW b, NEW y, NEW q, NEW c, NEW d, NEW z, D4(p, a, b, y) = D4(q, c, d, z)
    PROVE  p = q /\ a = c /\ b = d /\ y = z
<1> DEFINE S == {p, a, P1(p, a), b, y, q, c, P1(q, c), d, z, P2(p, a, b, y), P2(q, c, d, z)}
<1>1. D1(p, a) \in Seq(S) /\ D1(q, c) \in Seq(S)
  BY DEF D1
<1> HIDE DEF S
<1>2. {P1(p, a), b, y, P1(q, c), d, z, P2(p, a, b, y), P2(q, c, d, z)} \subseteq S
  BY DEF S
<1>3. D3(p, a, b, y) \in Seq(S) /\ D3(q, c, d, z) \in Seq(S)
  BY <1>1, <1>2 DEF D2, D3
<1>4. D3(p, a, b, y) = D3(q, c, d, z)
  BY <1>2, <1>3, LastElement DEF D4
<1> QED BY <1>4, ThirdDigest

LEMMA FifthDigest ==
    ASSUME NEW p, NEW a, NEW b, NEW y, NEW x, NEW q, NEW c, NEW d, NEW z, NEW w,
           D5(p, a, b, y, x) = D5(q, c, d, z, w)
    PROVE  p = q /\ a = c /\ b = d /\ y = z
<1> DEFINE S == {p, a, P1(p, a), b, y, q, c, P1(q, c), d, z, P2(p, a, b, y), P2(q, c, d, z),
                 S3(p, a, b, y, x), S3(q, c, d, z, w)}
<1>1. D1(p, a) \in Seq(S) /\ D1(q, c) \in Seq(S)
  BY DEF D1
<1> HIDE DEF S
<1>2. {P1(p, a), b, y, P1(q, c), d, z, P2(p, a, b, y), P2(q, c, d, z),
       S3(p, a, b, y, x), S3(q, c, d, z, w)} \subseteq S
  BY DEF S
<1>3. D3(p, a, b, y) \in Seq(S) /\ D3(q, c, d, z) \in Seq(S)
  BY <1>1, <1>2 DEF D2, D3
<1>4. D4(p, a, b, y) \in Seq(S) /\ D4(q, c, d, z) \in Seq(S)
  BY <1>2, <1>3 DEF D4
<1>5. D4(p, a, b, y) = D4(q, c, d, z)
  BY <1>2, <1>4, LastElement DEF D5
<1> QED BY <1>5, FourthDigest

(* A third party knows a chaining key only if it has a key in every secret.      *)
LEMMA KnownSecrets ==
    ASSUME NEW a, NEW b, NEW y, NEW x
    PROVE  /\ Known(K2(a, b, y)) => TK \in {a, b} /\ TK \in {a, y}
           /\ Known(K3(a, b, y, x)) => TK \in {a, b} /\ TK \in {a, y} /\ TK \in {x, b}
<1> DEFINE f == Ecdh(a, b)
           g == Ecdh(a, y)
           h == Ecdh(x, b)
           k == Append(Append(<<>>, f), g)
           q == Append(Append(Append(<<>>, f), g), h)
<1>0. f = {a, b} /\ g = {a, y} /\ h = {x, b}
  BY DEF Ecdh
<1> HIDE DEF f, g, h
<1>1. 1 \in DOMAIN k /\ 2 \in DOMAIN k /\ k[1] = f /\ k[2] = g
  OBVIOUS
<1>2. /\ 1 \in DOMAIN q /\ q[1] = f
      /\ 2 \in DOMAIN q /\ q[2] = g
      /\ 3 \in DOMAIN q /\ q[3] = h
  OBVIOUS
<1>3. K2(a, b, y) = k /\ K3(a, b, y, x) = q
  BY DEF K2, K3, K0, f, g, h
<1> HIDE DEF k, q
<1> QED BY <1>0, <1>1, <1>2, <1>3 DEF Known, TK

(* Two handshakes with a third party do not have the same chaining key.         *)
LEMMA KeysApart == K3(EI, TK, TK, SI) # K3(TK, ER, SR, TK)
<1>1. \A a, b, y, x : K3(a, b, y, x)[1] = Ecdh(a, b)
  <2> SUFFICES ASSUME NEW a, NEW b, NEW y, NEW x PROVE K3(a, b, y, x)[1] = Ecdh(a, b)
    OBVIOUS
  <2> DEFINE f == Ecdh(a, b)
             g == Ecdh(a, y)
             h == Ecdh(x, b)
  <2>1. K3(a, b, y, x) = Append(Append(Append(<<>>, f), g), h)
    BY DEF K3, K2, K0
  <2> HIDE DEF f, g, h
  <2>2. Append(Append(Append(<<>>, f), g), h)[1] = f
    OBVIOUS
  <2> QED BY <2>1, <2>2 DEF f
<1>2. Ecdh(EI, TK) # Ecdh(TK, ER)
  BY KeysDiffer DEF Ecdh
<1> QED BY <1>1, <1>2

(* The chaining key of an undisturbed handshake.                             *)
Agreed == K3(EI, ER, SR, SI)
LEMMA FinalKey == Agreed = AgreedSecrets
<1> DEFINE a == Ecdh(EI, ER)
           b == Ecdh(EI, SR)
           c == Ecdh(SI, ER)
<1>1. AgreedSecrets = <<a, b, c>> /\ Agreed = Append(Append(Append(<<>>, a), b), c)
  BY DEF AgreedSecrets, Agreed, K3, K2, K0, EI, ER, SI, SR
<1> HIDE DEF a, b, c
<1>2. Append(<<>>, a) = <<a>>
  OBVIOUS
<1> DEFINE S == {a, b, c}
<1>3. Append(<<a>>, b) = <<a, b>>
  <2>1. Append(<<a>>, b) \in Seq(S) /\ <<a, b>> \in Seq(S)
    OBVIOUS
  <2>2. Len(Append(<<a>>, b)) = 2 /\ Append(<<a>>, b)[1] = a /\ Append(<<a>>, b)[2] = b
    OBVIOUS
  <2>3. Len(<<a, b>>) = 2 /\ <<a, b>>[1] = a /\ <<a, b>>[2] = b
    OBVIOUS
  <2>4. \A i \in 1..2 : Append(<<a>>, b)[i] = <<a, b>>[i]
    BY <2>2, <2>3
  <2> QED BY <2>1, <2>2, <2>3, <2>4, SeqEqual
<1>4. Append(<<a, b>>, c) = <<a, b, c>>
  <2>1. Append(<<a, b>>, c) \in Seq(S) /\ <<a, b, c>> \in Seq(S)
    OBVIOUS
  <2>2. /\ Len(Append(<<a, b>>, c)) = 3
        /\ Append(<<a, b>>, c)[1] = a /\ Append(<<a, b>>, c)[2] = b /\ Append(<<a, b>>, c)[3] = c
    OBVIOUS
  <2>3. Len(<<a, b, c>>) = 3 /\ <<a, b, c>>[1] = a /\ <<a, b, c>>[2] = b /\ <<a, b, c>>[3] = c
    OBVIOUS
  <2>4. \A i \in 1..3 : Append(<<a, b>>, c)[i] = <<a, b, c>>[i]
    BY <2>2, <2>3
  <2> QED BY <2>1, <2>2, <2>3, <2>4, SeqEqual
<1> QED BY <1>1, <1>2, <1>3, <1>4

-----------------------------------------------------------------------------
LEMMA Fresh == \A p : NewMachine(p) = State(<<p>>, K0, 0, NoKey, NoKey)
BY DEF NewMachine, State, K0

(* Nothing is sent or mixed yet.                                             *)
LEMMA HandshakeInit == SessionInit => HandshakeInv
<1> SUFFICES ASSUME SessionInit PROVE HandshakeInv
  OBVIOUS
<1>1. pc["initiator"] = "start" /\ pc["responder"] = "actOne" /\ flight = NoAct /\ changed = {}
  BY DEF SessionInit
<1>2. \A s \in Sides : machine[s] = NewMachine(prologue[s])
  BY DEF SessionInit
<1>3. SessionType
  <2>1. pc \in [Sides -> {"start", "actOne", "actTwo", "actThree", "done", "failed"}]
    BY DEF SessionInit, Sides
  <2>2. prologue["initiator"] \in {"opencx", "other"} /\ prologue["responder"] = "opencx"
    BY DEF SessionInit, Sides
  <2>3. machine = [side \in Sides |-> machine[side]]
    BY DEF SessionInit
  <2>4. \A p : /\ NewMachine(p).nonce = 0
               /\ NewMachine(p).remoteStatic = NoKey /\ NewMachine(p).remoteEphemeral = NoKey
    BY DEF NewMachine
  <2>5. \A side \in Sides : MachineOK(side)
    BY <1>2, <2>4 DEF MachineOK
  <2> QED BY <1>1, <2>1, <2>2, <2>3, <2>5 DEF SessionType, SessionInit, Sides
<1>4. flight.act = 0
  BY <1>1 DEF NoAct
<1>5. machine["initiator"] = NewMachine(prologue["initiator"]) /\ machine["responder"] = NewMachine("opencx")
  BY <1>2, <1>3 DEF SessionType, Sides
<1>6. InitiatorOK /\ ResponderOK
  BY <1>1, <1>5 DEF InitiatorOK, ResponderOK
<1>7. UnderWay
  BY <1>1, <1>4 DEF UnderWay, ActOK
<1> QED BY <1>3, <1>6, <1>7 DEF HandshakeInv

(* The digests and keys that the acts compute.                               *)
LEMMA SendOne ==
    ASSUME NEW p, NEW m, m = MixHash(NewMachine(p), EI)
    PROVE  /\ Seal(m, "nothing") = P1(p, EI)
           /\ CryptAndHash(m, Seal(m, "nothing")) = SentOne(p)
<1>1. m = State(D1(p, EI), K0, 0, NoKey, NoKey)
  BY Fresh, StateSteps DEF D1
<1>2. Seal(m, "nothing") = P1(p, EI)
  BY <1>1, StateSteps DEF P1
<1>3. CryptAndHash(m, P1(p, EI)) = State(D2(p, EI), K0, 0 + 1, NoKey, NoKey)
  BY <1>1, StateSteps DEF D2
<1> QED BY <1>2, <1>3 DEF SentOne

(* What the responder holds if it accepts the first act.                     *)
LEMMA ReceiveOne ==
    ASSUME NEW e, NEW m2, NEW m6,
           m2 = MixHash([NewMachine("opencx") EXCEPT !.remoteEphemeral = e], e),
           m6 = MixKey(MixHash(MixKey(MixHash(CryptAndHash(m2, P1("opencx", e)), ER), Ecdh(e, ER)), SR),
                       Ecdh(e, SR))
    PROVE  /\ ~Unseals(m2, Garbage)
           /\ \A p, f : Unseals(m2, P1(p, f)) => p = "opencx" /\ e = f
           /\ Seal(m6, "nothing") = P2("opencx", e, ER, SR)
           /\ CryptAndHash(m6, Seal(m6, "nothing")) = SentTwo(e)
<1> DEFINE data == "opencx"
<1>0. [NewMachine(data) EXCEPT !.remoteEphemeral = e] = State(<<data>>, K0, 0, NoKey, e)
  BY DEF NewMachine, State, K0
<1>1. m2 = State(D1(data, e), K0, 0, NoKey, e)
  BY <1>0, StateSteps DEF D1
<1>2. ~Unseals(m2, Garbage)
  BY <1>1, UnsealFacts
<1>3. \A p, f : Unseals(m2, P1(p, f)) => p = data /\ e = f
  <2> SUFFICES ASSUME NEW p, NEW f, Unseals(m2, P1(p, f)) PROVE p = data /\ e = f
    OBVIOUS
  <2>1. D1(p, f) = D1(data, e)
    BY <1>1, UnsealedData DEF P1
  <2> QED BY <2>1, FirstDigest
<1>4. CryptAndHash(m2, P1(data, e)) = State(D2(data, e), K0, 1, NoKey, e)
  <2>1. CryptAndHash(m2, P1(data, e)) = State(D2(data, e), K0, 0 + 1, NoKey, e)
    BY <1>1, StateSteps DEF D2
  <2> QED BY <2>1
<1>5. MixHash(State(D2(data, e), K0, 1, NoKey, e), ER) = State(Append(D2(data, e), ER), K0, 1, NoKey, e)
  BY StateSteps
<1>6. MixKey(State(Append(D2(data, e), ER), K0, 1, NoKey, e), Ecdh(e, ER))
        = State(Append(D2(data, e), ER), Append(K0, Ecdh(e, ER)), 0, NoKey, e)
  BY StateSteps
<1>7. MixHash(State(Append(D2(data, e), ER), Append(K0, Ecdh(e, ER)), 0, NoKey, e), SR)
        = State(D3(data, e, ER, SR), Append(K0, Ecdh(e, ER)), 0, NoKey, e)
  BY StateSteps DEF D3
<1>8. m6 = State(D3(data, e, ER, SR), K2(e, ER, SR), 0, NoKey, e)
  BY <1>4, <1>5, <1>6, <1>7, StateSteps DEF K2
<1>9. Seal(m6, "nothing") = P2(data, e, ER, SR)
  BY <1>8, StateSteps DEF P2
<1>10. CryptAndHash(m6, P2(data, e, ER, SR)) = State(D4(data, e, ER, SR), K2(e, ER, SR), 0 + 1, NoKey, e)
  BY <1>8, StateSteps DEF D4
<1> QED BY <1>2, <1>3, <1>9, <1>10 DEF SentTwo

(* What the initiator holds when it has read the keys of the second act.        *)
LEMMA ReadTwo ==
    ASSUME NEW act, NEW data
    PROVE  ReadActTwo(SentOne(data), act)
             = State(D3(data, EI, act.e, act.s), K2(EI, act.e, act.s), 0, act.s, act.e)
<1> DEFINE m == SentOne(data)
           e == act.e
           s == act.s
           d == D3(data, EI, e, s)
           k == Append(K0, Ecdh(EI, e))
<1>0. Ecdh(e, EI) = Ecdh(EI, e) /\ Ecdh(s, EI) = Ecdh(EI, s)
  BY EcdhAgrees
<1>1. ReadActTwo(m, act)
        = MixKey(MixHash([MixKey(MixHash([m EXCEPT !.remoteEphemeral = e], e), Ecdh(EI, e))
                            EXCEPT !.remoteStatic = s], s), Ecdh(EI, s))
  BY <1>0 DEF ReadActTwo, EI
<1> HIDE DEF e, s
<1>2. [m EXCEPT !.remoteEphemeral = e] = State(D2(data, EI), K0, 1, NoKey, e)
  BY DEF State, SentOne
<1>3. MixHash(State(D2(data, EI), K0, 1, NoKey, e), e) = State(Append(D2(data, EI), e), K0, 1, NoKey, e)
  BY StateSteps
<1>4. MixKey(State(Append(D2(data, EI), e), K0, 1, NoKey, e), Ecdh(EI, e))
        = State(Append(D2(data, EI), e), k, 0, NoKey, e)
  BY StateSteps
<1>5. [State(Append(D2(data, EI), e), k, 0, NoKey, e) EXCEPT !.remoteStatic = s]
        = State(Append(D2(data, EI), e), k, 0, s, e)
  <2> DEFINE d1 == Append(D2(data, EI), e)
  <2> HIDE DEF d1, k
  <2>1. [State(d1, k, 0, NoKey, e) EXCEPT !.remoteStatic = s] = State(d1, k, 0, s, e)
    BY DEF State
  <2> QED BY <2>1 DEF d1
<1>6. MixHash(State(Append(D2(data, EI), e), k, 0, s, e), s) = State(d, k, 0, s, e)
  BY StateSteps DEF D3
<1>7. MixKey(State(d, k, 0, s, e), Ecdh(EI, s)) = State(d, K2(EI, e, s), 0, s, e)
  BY StateSteps DEF K2
<1> HIDE DEF m, d, k
<1>8. ReadActTwo(m, act) = State(d, K2(EI, e, s), 0, s, e)
  BY <1>1, <1>2, <1>3, <1>4, <1>5, <1>6, <1>7
<1> QED BY <1>8 DEF m, d, e, s

(* It takes the responder's tag only with the responder's keys, from one that      *)
(* has got its own key and prologue.                                          *)
LEMMA ReceiveTwo ==
    ASSUME NEW data, NEW e, NEW s, NEW m1, m1 = State(D3(data, EI, e, s), K2(EI, e, s), 0, s, e)
    PROVE  /\ ~Unseals(m1, Garbage)
           /\ \A a : Unseals(m1, P2("opencx", a, ER, SR)) => data = "opencx" /\ a = EI /\ e = ER /\ s = SR
<1>1. ~Unseals(m1, Garbage)
  BY UnsealFacts
<1>2. ASSUME NEW a, Unseals(m1, P2("opencx", a, ER, SR))
      PROVE  data = "opencx" /\ a = EI /\ e = ER /\ s = SR
  <2>1. D3("opencx", a, ER, SR) = D3(data, EI, e, s)
    BY <1>2, UnsealedData DEF P2
  <2> QED BY <2>1, ThirdDigest
<1> QED BY <1>1, <1>2

(* The third act, and what the initiator holds after it.                     *)
LEMMA SendThree ==
    ASSUME NEW data, NEW b, NEW y, NEW m1, NEW m2, NEW m3,
           m1 = State(D3(data, EI, b, y), K2(EI, b, y), 0, y, b),
           m2 = CryptAndHash(m1, P2(data, EI, b, y)),
           m3 = MixKey(CryptAndHash(m2, Seal(m2, SI)), Ecdh(b, SI))
    PROVE  /\ Seal(m2, SI) = S3(data, EI, b, y, SI)
           /\ Seal(m3, "nothing") = P3(data, EI, b, y, SI)
           /\ CryptAndHash(m3, Seal(m3, "nothing")) = InitiatorEnd(data, b, y)
<1>2. m2 = State(D4(data, EI, b, y), K2(EI, b, y), 1, y, b)
  <2>1. m2 = State(D4(data, EI, b, y), K2(EI, b, y), 0 + 1, y, b)
    BY StateSteps DEF D4
  <2> QED BY <2>1
<1>3. Seal(m2, SI) = S3(data, EI, b, y, SI)
  BY <1>2, StateSteps DEF S3
<1>4. CryptAndHash(m2, S3(data, EI, b, y, SI)) = State(D5(data, EI, b, y, SI), K2(EI, b, y), 1 + 1, y, b)
  BY <1>2, StateSteps DEF D5
<1>5. m3 = State(D5(data, EI, b, y, SI), K3(EI, b, y, SI), 0, y, b)
  BY <1>3, <1>4, StateSteps, EcdhAgrees DEF K3
<1>6. Seal(m3, "nothing") = P3(data, EI, b, y, SI)
  BY <1>5, StateSteps DEF P3
<1>7. CryptAndHash(m3, P3(data, EI, b, y, SI)) = State(D6(data, EI, b, y, SI), K3(EI, b, y, SI), 0 + 1, y, b)
  BY <1>5, StateSteps DEF D6
<1> QED BY <1>3, <1>6, <1>7 DEF InitiatorEnd

(* What the responder holds when it has read the static key of the third act.    *)
LEMMA ReadThree ==
    ASSUME NEW a, NEW x, NEW s
    PROVE  /\ MixKey([CryptAndHash(SentTwo(a), s) EXCEPT !.remoteStatic = x], Ecdh(x, ER))
                = State(Append(D4("opencx", a, ER, SR), s), K3(a, ER, SR, x), 0, x, a)
           /\ MixKey(CryptAndHash(SentTwo(a), s), Ecdh(x, ER))
                = State(Append(D4("opencx", a, ER, SR), s), K3(a, ER, SR, x), 0, NoKey, a)
<1> DEFINE d == Append(D4("opencx", a, ER, SR), s)
           k == K2(a, ER, SR)
<1>1. CryptAndHash(SentTwo(a), s) = State(d, k, 1 + 1, NoKey, a)
  BY StateSteps DEF SentTwo
<1>2. MixKey(State(d, k, 1 + 1, NoKey, a), Ecdh(x, ER)) = State(d, K3(a, ER, SR, x), 0, NoKey, a)
  BY StateSteps DEF K3
<1>3. MixKey(State(d, k, 1 + 1, x, a), Ecdh(x, ER)) = State(d, K3(a, ER, SR, x), 0, x, a)
  BY StateSteps DEF K3
<1> HIDE DEF d, k
<1>4. [State(d, k, 1 + 1, NoKey, a) EXCEPT !.remoteStatic = x] = State(d, k, 1 + 1, x, a)
  BY DEF State
<1> QED BY <1>1, <1>2, <1>3, <1>4 DEF d

LEMMA ReceiveThree ==
    ASSUME NEW a, NEW x, NEW m3,
           m3 = MixKey([CryptAndHash(SentTwo(a), S3("opencx", a, ER, SR, x)) EXCEPT !.remoteStatic = x],
                       Ecdh(x, ER))
    PROVE  /\ \A data, b, y : Unseals(m3, P3(data, EI, b, y, SI))
                                 => data = "opencx" /\ a = EI /\ b = ER /\ y = SR
           /\ CryptAndHash(m3, P3("opencx", a, ER, SR, x)) = ResponderEnd(a, x)
<1>1. m3 = State(D5("opencx", a, ER, SR, x), K3(a, ER, SR, x), 0, x, a)
  BY ReadThree DEF D5
<1>2. ASSUME NEW data, NEW b, NEW y, Unseals(m3, P3(data, EI, b, y, SI))
      PROVE  data = "opencx" /\ a = EI /\ b = ER /\ y = SR
  <2>1. D5(data, EI, b, y, SI) = D5("opencx", a, ER, SR, x)
    BY <1>1, <1>2, UnsealedData DEF P3
  <2> QED BY <2>1, FifthDigest
<1>3. CryptAndHash(m3, P3("opencx", a, ER, SR, x))
        = State(D6("opencx", a, ER, SR, x), K3(a, ER, SR, x), 0 + 1, x, a)
  BY <1>1, StateSteps DEF D6
<1> QED BY <1>2, <1>3 DEF ResponderEnd

(* The static key of the third act opens only as sealed for this handshake.      *)
LEMMA OpensThree ==
    ASSUME NEW a
    PROVE  /\ ~Unseals(SentTwo(a), Garbage)
           /\ \A data, c, b, y, x : Unseals(SentTwo(a), S3(data, c, b, y, x))
                                       => data = "opencx" /\ a = c /\ b = ER /\ y = SR
<1>1. ~Unseals(SentTwo(a), Garbage)
  BY UnsealFacts DEF SentTwo
<1>2. ASSUME NEW data, NEW c, NEW b, NEW y, NEW x, Unseals(SentTwo(a), S3(data, c, b, y, x))
      PROVE  data = "opencx" /\ a = c /\ b = ER /\ y = SR
  <2>1. D4(data, c, b, y) = D4("opencx", a, ER, SR)
    BY <1>2, UnsealedData DEF S3, SentTwo
  <2> QED BY <2>1, FourthDigest
<1> QED BY <1>1, <1>2

LEMMA ActParts ==
    ASSUME NEW version, NEW e, NEW s, NEW p
    PROVE  /\ AnActOne(version, e, p).act = 1 /\ AnActOne(version, e, p).version = version
           /\ AnActOne(version, e, p).e = e /\ AnActOne(version, e, p).p = p
           /\ AnActTwo(version, e, s, p).act = 2 /\ AnActTwo(version, e, s, p).version = version
           /\ AnActTwo(version, e, s, p).e = e /\ AnActTwo(version, e, s, p).s = s
           /\ AnActTwo(version, e, s, p).p = p
           /\ AnActThree(version, s, p).act = 3 /\ AnActThree(version, s, p).version = version
           /\ AnActThree(version, s, p).s = s /\ AnActThree(version, s, p).p = p
BY DEF AnActOne, AnActTwo, AnActThree

LEMMA EndParts ==
    /\ \A data : /\ SentOne(data).nonce = 1
                 /\ SentOne(data).remoteStatic = NoKey /\ SentOne(data).remoteEphemeral = NoKey
    /\ \A a : SentTwo(a).nonce = 1 /\ SentTwo(a).remoteStatic = NoKey /\ SentTwo(a).remoteEphemeral = a
    /\ \A data, b, y :
           /\ InitiatorEnd(data, b, y).nonce = 1
           /\ InitiatorEnd(data, b, y).remoteStatic = y /\ InitiatorEnd(data, b, y).remoteEphemeral = b
           /\ InitiatorEnd(data, b, y).chainingKey = K3(EI, b, y, SI)
           /\ InitiatorEnd(data, b, y).digest = D6(data, EI, b, y, SI)
    /\ \A a, x :
           /\ ResponderEnd(a, x).nonce = 1
           /\ ResponderEnd(a, x).remoteStatic = x /\ ResponderEnd(a, x).remoteEphemeral = a
           /\ ResponderEnd(a, x).chainingKey = K3(a, ER, SR, x)
           /\ ResponderEnd(a, x).digest = D6("opencx", a, ER, SR, x)
<1>1. \A data : /\ SentOne(data).nonce = 1
                /\ SentOne(data).remoteStatic = NoKey /\ SentOne(data).remoteEphemeral = NoKey
  BY StateParts DEF SentOne
<1>2. \A a : SentTwo(a).nonce = 1 /\ SentTwo(a).remoteStatic = NoKey /\ SentTwo(a).remoteEphemeral = a
  BY StateParts DEF SentTwo
<1>3. ASSUME NEW data, NEW b, NEW y
      PROVE  /\ InitiatorEnd(data, b, y).nonce = 1
             /\ InitiatorEnd(data, b, y).remoteStatic = y /\ InitiatorEnd(data, b, y).remoteEphemeral = b
             /\ InitiatorEnd(data, b, y).chainingKey = K3(EI, b, y, SI)
             /\ InitiatorEnd(data, b, y).digest = D6(data, EI, b, y, SI)
  BY StateParts DEF InitiatorEnd
<1>4. ASSUME NEW a, NEW x
      PROVE  /\ ResponderEnd(a, x).nonce = 1
             /\ ResponderEnd(a, x).remoteStatic = x /\ ResponderEnd(a, x).remoteEphemeral = a
             /\ ResponderEnd(a, x).chainingKey = K3(a, ER, SR, x)
             /\ ResponderEnd(a, x).digest = D6("opencx", a, ER, SR, x)
  BY StateParts DEF ResponderEnd
<1> QED BY <1>1, <1>2, <1>3, <1>4

-----------------------------------------------------------------------------
(* A refused act, and a read that fails.                                     *)
LEMMA FailStep ==
    ASSUME HandshakeInv, NEW side \in Sides, pc[side] \in {"actOne", "actTwo", "actThree"},
           Fails(side), UNCHANGED <<changed, prologue, sender>>
    PROVE  HandshakeInv'
<1>1. /\ flight' = NoAct /\ machine' = machine
      /\ pc'[side] = "failed" /\ \A other \in Sides \ {side} : pc'[other] = pc[other]
      /\ pc' \in [Sides -> {"start", "actOne", "actTwo", "actThree", "done", "failed"}]
  BY DEF Fails, HandshakeInv, SessionType
<1>2. flight'.act = 0
  BY <1>1 DEF NoAct
<1>3. side = "initiator" \/ side = "responder"
  BY DEF Sides
<1>4. SessionType'
  BY <1>1, <1>3 DEF HandshakeInv, SessionType, MachineOK, Sides
<1>5. InitiatorOK'
  BY <1>1, <1>3 DEF HandshakeInv, SessionType, InitiatorOK, Sides
<1>6. ResponderOK'
  BY <1>1, <1>3 DEF HandshakeInv, SessionType, ResponderOK, InitiatorOK, Sides
<1>7. UnderWay'
  BY <1>1, <1>2 DEF UnderWay, ActOK
<1> QED BY <1>4, <1>5, <1>6, <1>7 DEF HandshakeInv

(* The steps of the handshake keep the invariant, one by one.                *)
LEMMA GenStep ==
    ASSUME HandshakeInv, GenActOne, UNCHANGED <<changed, prologue, sender>>
    PROVE  HandshakeInv'
<1> DEFINE m == MixHash(machine["initiator"], EI)
           p == prologue["initiator"]
<1>1. /\ pc["initiator"] = "start" /\ machine["initiator"] = NewMachine(p)
      /\ pc["responder"] \in {"actOne", "failed"} /\ changed = {}
  BY DEF GenActOne, HandshakeInv, InitiatorOK
<1>2. /\ machine' = [machine EXCEPT !["initiator"] = CryptAndHash(m, Seal(m, "nothing"))]
      /\ flight' = [act |-> 1, version |-> 1, e |-> EI, p |-> Seal(m, "nothing")]
      /\ pc' = [pc EXCEPT !["initiator"] = "actTwo"]
  BY DEF GenActOne, EI
<1>3. Seal(m, "nothing") = P1(p, EI) /\ CryptAndHash(m, Seal(m, "nothing")) = SentOne(p)
  BY <1>1, SendOne
<1> HIDE DEF m
<1>4. /\ machine' = [side \in Sides |-> machine'[side]]
      /\ machine'["initiator"] = SentOne(p)
      /\ machine'["responder"] = machine["responder"]
  BY <1>2, <1>3 DEF HandshakeInv, SessionType, Sides
<1>5. /\ pc' \in [Sides -> {"start", "actOne", "actTwo", "actThree", "done", "failed"}]
      /\ pc'["initiator"] = "actTwo" /\ pc'["responder"] = pc["responder"]
  BY <1>2 DEF HandshakeInv, SessionType, Sides
<1>6. flight' = ActOne(p)
  BY <1>2, <1>3 DEF ActOne, AnActOne
<1>7. flight'.act = 1 /\ flight'.version = 1 /\ flight'.e = EI
  BY <1>6, ActParts DEF ActOne
<1>8. MachineOK("initiator")' /\ MachineOK("responder")'
  BY <1>4, EndParts DEF HandshakeInv, SessionType, MachineOK
<1>9. SessionType'
  BY <1>4, <1>5, <1>8 DEF HandshakeInv, SessionType
<1>10. InitiatorOK' /\ ResponderOK'
  BY <1>1, <1>4, <1>5 DEF HandshakeInv, InitiatorOK, ResponderOK
<1>11. UnderWay'
  BY <1>1, <1>5, <1>6, <1>7 DEF UnderWay, OneUnderWay, ActOK, EI
<1> QED BY <1>9, <1>10, <1>11 DEF HandshakeInv

(* The responder takes act one with the initiator's key or a third one.          *)
LEMMA ActOneStep ==
    ASSUME HandshakeInv, RecvActOne, UNCHANGED <<changed, prologue, sender>>
    PROVE  HandshakeInv'
<1> DEFINE e == flight.e
           c == flight.p
           data == prologue["initiator"]
           m2 == MixHash([machine["responder"] EXCEPT !.remoteEphemeral = e], e)
           m6 == MixKey(MixHash(MixKey(MixHash(CryptAndHash(m2, c), ER), Ecdh(e, ER)), SR), Ecdh(e, SR))
<1>1. /\ flight.act = 1 /\ pc["responder"] = "actOne" /\ pc["initiator"] = "actTwo"
      /\ machine["responder"] = NewMachine("opencx")
      /\ 2 \notin changed /\ 3 \notin changed
      /\ OneUnderWay
  BY DEF RecvActOne, HandshakeInv, ResponderOK, UnderWay
<1>2. CASE flight.version = 1 /\ e # NoKey /\ Unseals(m2, c)
  <2>1. /\ machine' = [machine EXCEPT !["responder"] = CryptAndHash(m6, Seal(m6, "nothing"))]
        /\ flight' = [act |-> 2, version |-> 1, e |-> ER, s |-> SR, p |-> Seal(m6, "nothing")]
        /\ pc' = [pc EXCEPT !["responder"] = "actThree"]
    BY <1>2 DEF RecvActOne, ER, SR
  <2>2. /\ ~Unseals(m2, Garbage)
        /\ \A q, f : Unseals(m2, P1(q, f)) => q = "opencx" /\ e = f
    BY <1>1, ReceiveOne
  <2>3. c = P1("opencx", e) =>
           Seal(m6, "nothing") = P2("opencx", e, ER, SR) /\ CryptAndHash(m6, Seal(m6, "nothing")) = SentTwo(e)
    BY <1>1, ReceiveOne
  <2> HIDE DEF m2, m6
  <2>4. c = P1("opencx", e) /\ e \in {EI, TK}
        /\ (e = EI => (1 \in changed <=> data # "opencx")) /\ (e = TK => 1 \in changed)
    <3>1. CASE 1 \notin changed
      <4>1. flight = ActOne(data)
        BY <1>1, <3>1 DEF OneUnderWay
      <4>2. c = P1(data, EI) /\ e = EI
        BY <4>1, ActParts DEF ActOne
      <4> QED BY <1>2, <2>2, <3>1, <4>2, KeysDiffer
    <3>2. CASE 1 \in changed
      <4>1. PICK version \in 1..2, f \in {EI, TK, NoKey}, p \in {P1(data, EI), Garbage, P1("opencx", flight.e)} :
                 flight = AnActOne(version, f, p) /\ flight # ActOne(data)
        BY <1>1, <3>2 DEF OneUnderWay
      <4>2. version = flight.version /\ f = e /\ p = c
        BY <4>1, ActParts
      <4> HIDE DEF e, c
      <4>3. e \in {EI, TK} /\ c # Garbage
        BY <1>2, <2>2, <4>1, <4>2
      <4>4. c = P1("opencx", e)
        <5>1. CASE p = P1(data, EI)
          BY <1>2, <2>2, <4>2, <5>1
        <5>2. CASE p = P1("opencx", flight.e)
          BY <4>2, <5>2 DEF e
        <5> QED BY <4>1, <4>2, <4>3, <5>1, <5>2
      <4>5. ASSUME e = EI PROVE data # "opencx"
        <5> SUFFICES ASSUME data = "opencx" PROVE FALSE
          OBVIOUS
        <5>1. flight = AnActOne(1, EI, P1(data, EI))
          BY <1>2, <4>1, <4>2, <4>4, <4>5
        <5> QED BY <4>1, <5>1 DEF ActOne
      <4> QED BY <3>2, <4>3, <4>4, <4>5, KeysDiffer
    <3> QED BY <3>1, <3>2
  <2>5. /\ machine' = [side \in Sides |-> machine'[side]]
        /\ machine'["responder"] = SentTwo(e)
        /\ machine'["initiator"] = machine["initiator"]
    BY <2>1, <2>3, <2>4 DEF HandshakeInv, SessionType, Sides
  <2>6. /\ pc' \in [Sides -> {"start", "actOne", "actTwo", "actThree", "done", "failed"}]
        /\ pc'["responder"] = "actThree" /\ pc'["initiator"] = "actTwo"
    BY <1>1, <2>1 DEF HandshakeInv, SessionType, Sides
  <2>7. flight' = ActTwo(e)
    BY <2>1, <2>3, <2>4 DEF ActTwo, AnActTwo
  <2>8. flight'.act = 2 /\ flight'.version = 1 /\ flight'.e = ER
    BY <2>7, ActParts DEF ActTwo
  <2> HIDE DEF e, c
  <2>9. MachineOK("initiator")' /\ MachineOK("responder")'
    <3>1. MachineOK("responder")'
      BY <2>4, <2>5, EndParts DEF MachineOK, EI, TK, Other
    <3> QED BY <2>5, <3>1 DEF HandshakeInv, SessionType, MachineOK
  <2>10. SessionType'
    BY <2>5, <2>6, <2>9 DEF HandshakeInv, SessionType
  <2>11. InitiatorOK'
    BY <1>1, <2>5, <2>6 DEF HandshakeInv, InitiatorOK
  <2>12. ResponderOK'
    BY <1>1, <2>4, <2>5, <2>6 DEF ResponderOK
  <2>13. UnderWay'
    <3>1. ActOK'
      BY <2>8 DEF ActOK, ER
    <3>2. PICK a \in {EI, TK} : e = a
      BY <2>4
    <3>3. machine'["responder"] = SentTwo(a) /\ TwoUnderWay(a)'
      BY <1>1, <2>5, <2>7, <3>2 DEF TwoUnderWay
    <3> QED BY <2>6, <2>8, <3>1, <3>3 DEF UnderWay
  <2> QED BY <2>10, <2>11, <2>12, <2>13 DEF HandshakeInv
<1>3. CASE ~(flight.version = 1 /\ e # NoKey /\ Unseals(m2, c))
  <2>1. Fails("responder")
    BY <1>3 DEF RecvActOne
  <2> QED BY <1>1, <2>1, FailStep DEF Sides
<1> QED BY <1>2, <1>3

(* The initiator takes act two with the keys of the responder, from the genuine    *)
(* handshake, or with two keys of a third party.                               *)
LEMMA AcceptTwo ==
    ASSUME HandshakeInv, flight.act = 2, pc["initiator"] = "actTwo",
           NEW a \in {EI, TK}, machine["responder"] = SentTwo(a), TwoUnderWay(a),
           NEW m1, m1 = ReadActTwo(machine["initiator"], flight),
           flight.version = 1, Unseals(m1, flight.p)
    PROVE  \E b \in {ER, TK}, y \in {SR, TK} :
               /\ flight.e = b /\ flight.s = y
               /\ flight.p = P2(prologue["initiator"], EI, b, y)
               /\ m1 = State(D3(prologue["initiator"], EI, b, y), K2(EI, b, y), 0, y, b)
               /\ \/ /\ b = ER /\ y = SR /\ prologue["initiator"] = "opencx"
                     /\ 1 \notin changed /\ 2 \notin changed
                  \/ b = TK /\ y = TK
<1> DEFINE data == prologue["initiator"]
           e == flight.e
           s == flight.s
           c == flight.p
<1>1. m1 = State(D3(data, EI, e, s), K2(EI, e, s), 0, s, e)
  BY ReadTwo DEF HandshakeInv, InitiatorOK
<1>2. /\ ~Unseals(m1, Garbage)
      /\ \A q : Unseals(m1, P2("opencx", q, ER, SR)) => data = "opencx" /\ q = EI /\ e = ER /\ s = SR
  BY <1>1, ReceiveTwo
<1>3. pc["responder"] = "actThree"
  BY DEF HandshakeInv, UnderWay
<1>4. a = EI /\ data = "opencx" => 1 \notin changed
  <2>1. SentTwo(EI) # SentTwo(TK)
    BY EndParts, KeysDiffer
  <2> QED BY <1>3, <2>1 DEF HandshakeInv, ResponderOK
<1>5. CASE c = P2("opencx", a, ER, SR)
  <2>1. data = "opencx" /\ a = EI /\ e = ER /\ s = SR
    BY <1>2, <1>5
  <2>2. 2 \notin changed
    <3> SUFFICES ASSUME 2 \in changed PROVE FALSE
      OBVIOUS
    <3>1. PICK version \in 1..2, f \in {ER, TK, NoKey}, t \in {SR, TK, NoKey},
               p \in {P2("opencx", a, ER, SR), Garbage, P2(data, EI, TK, TK)} :
              flight = AnActTwo(version, f, t, p) /\ flight # ActTwo(a)
      BY DEF TwoUnderWay
    <3>2. version = 1 /\ f = ER /\ t = SR /\ p = P2("opencx", a, ER, SR)
      BY <1>5, <2>1, <3>1, ActParts
    <3> QED BY <3>1, <3>2 DEF ActTwo
  <2> QED BY <1>1, <1>4, <1>5, <2>1, <2>2
<1>6. CASE c # P2("opencx", a, ER, SR)
  <2>1. 2 \in changed
    BY <1>6, ActParts DEF TwoUnderWay, ActTwo
  <2>2. PICK version \in 1..2, f \in {ER, TK, NoKey}, t \in {SR, TK, NoKey},
             p \in {P2("opencx", a, ER, SR), Garbage, P2(data, EI, TK, TK)} :
            /\ flight = AnActTwo(version, f, t, p)
            /\ p \in {P2("opencx", a, ER, SR), Garbage} \/ (f = TK /\ t = TK)
    BY <2>1 DEF TwoUnderWay
  <2>3. f = e /\ t = s /\ p = c
    BY <2>2, ActParts
  <2> HIDE DEF e, s, c
  <2>4. c # Garbage
    BY <1>2 DEF c
  <2>5. e = TK /\ s = TK /\ c = P2(data, EI, TK, TK)
    BY <1>6, <2>2, <2>3, <2>4
  <2> QED BY <1>1, <2>5 DEF e, s, c
<1> QED BY <1>5, <1>6

LEMMA ActTwoStep ==
    ASSUME HandshakeInv, RecvActTwo, UNCHANGED <<changed, prologue, sender>>
    PROVE  HandshakeInv'
<1> DEFINE m1 == ReadActTwo(machine["initiator"], flight)
           m2 == CryptAndHash(m1, flight.p)
           m3 == MixKey(CryptAndHash(m2, Seal(m2, SI)), Ecdh(flight.e, SI))
           m4 == CryptAndHash(m3, Seal(m3, "nothing"))
           data == prologue["initiator"]
<1>1. /\ flight.act = 2 /\ pc["responder"] = "actThree" /\ pc["initiator"] = "actTwo"
      /\ 3 \notin changed
  BY DEF RecvActTwo, HandshakeInv, ResponderOK, UnderWay
<1>2. PICK a \in {EI, TK} : machine["responder"] = SentTwo(a) /\ TwoUnderWay(a)
  BY <1>1 DEF HandshakeInv, UnderWay
<1>3. CASE flight.version = 1 /\ flight.e # NoKey /\ flight.s # NoKey /\ Unseals(m1, flight.p)
  <2>1. /\ machine' = [machine EXCEPT !["initiator"] = m4]
        /\ flight' = [act |-> 3, version |-> 1, s |-> Seal(m2, SI), p |-> Seal(m3, "nothing")]
        /\ pc' = [pc EXCEPT !["initiator"] = "done"]
    BY <1>3 DEF RecvActTwo, SI
  <2>2. PICK b \in {ER, TK}, y \in {SR, TK} :
              /\ flight.e = b /\ flight.s = y
              /\ flight.p = P2(data, EI, b, y)
              /\ m1 = State(D3(data, EI, b, y), K2(EI, b, y), 0, y, b)
              /\ \/ b = ER /\ y = SR /\ data = "opencx" /\ 1 \notin changed /\ 2 \notin changed
                 \/ b = TK /\ y = TK
    <3> HIDE DEF m1
    <3>1. m1 = ReadActTwo(machine["initiator"], flight)
      BY DEF m1
    <3> QED BY <1>1, <1>2, <1>3, <3>1, AcceptTwo
  <2>3. /\ Seal(m2, SI) = S3(data, EI, b, y, SI) /\ Seal(m3, "nothing") = P3(data, EI, b, y, SI)
        /\ m4 = InitiatorEnd(data, b, y)
    BY <2>2, SendThree
  <2> HIDE DEF m1, m2, m3, m4
  <2>4. /\ machine' = [side \in Sides |-> machine'[side]]
        /\ machine'["initiator"] = InitiatorEnd(data, b, y)
        /\ machine'["responder"] = machine["responder"]
    BY <2>1, <2>3 DEF HandshakeInv, SessionType, Sides
  <2>5. /\ pc' \in [Sides -> {"start", "actOne", "actTwo", "actThree", "done", "failed"}]
        /\ pc'["responder"] = "actThree" /\ pc'["initiator"] = "done"
    BY <1>1, <2>1 DEF HandshakeInv, SessionType, Sides
  <2>6. flight' = ActThree(data, b, y)
    BY <2>1, <2>3 DEF ActThree, AnActThree
  <2>7. flight'.act = 3 /\ flight'.version = 1
    BY <2>6, ActParts DEF ActThree
  <2>8. MachineOK("initiator")' /\ MachineOK("responder")'
    <3>1. MachineOK("initiator")'
      BY <2>2, <2>4, EndParts DEF MachineOK, ER, SR, TK, Other
    <3> QED BY <2>4, <3>1 DEF HandshakeInv, SessionType, MachineOK
  <2>9. SessionType'
    BY <2>4, <2>5, <2>8 DEF HandshakeInv, SessionType
  <2>10. InitiatorOK'
    BY <2>2, <2>4, <2>5 DEF InitiatorOK
  <2>11. ResponderOK'
    BY <1>1, <2>4, <2>5 DEF HandshakeInv, ResponderOK
  <2>12. UnderWay'
    <3>1. ActOK'
      BY <2>7 DEF ActOK
    <3>2. ThreeUnderWay(a, b, y)'
      BY <1>1, <2>6 DEF ThreeUnderWay
    <3>3. machine'["responder"] = SentTwo(a) /\ machine'["initiator"] = InitiatorEnd(prologue'["initiator"], b, y)
      BY <1>2, <2>4
    <3> QED BY <2>2, <2>5, <2>7, <3>1, <3>2, <3>3 DEF UnderWay
  <2> QED BY <2>9, <2>10, <2>11, <2>12 DEF HandshakeInv
<1>4. CASE ~(flight.version = 1 /\ flight.e # NoKey /\ flight.s # NoKey /\ Unseals(m1, flight.p))
  <2>1. Fails("initiator")
    BY <1>4 DEF RecvActTwo
  <2> QED BY <1>1, <2>1, FailStep DEF Sides
<1> QED BY <1>3, <1>4

(* The responder takes act three from the initiator as it was sent, or from a      *)
(* third party that has had the handshake from the first act on.               *)
LEMMA AcceptThree ==
    ASSUME HandshakeInv, flight.act = 3, pc["responder"] = "actThree",
           NEW a \in {EI, TK}, NEW b \in {ER, TK}, NEW y \in {SR, TK},
           machine["responder"] = SentTwo(a),
           machine["initiator"] = InitiatorEnd(prologue["initiator"], b, y),
           ThreeUnderWay(a, b, y),
           NEW m3,
           m3 = MixKey([CryptAndHash(SentTwo(a), flight.s) EXCEPT !.remoteStatic = flight.s.text],
                       Ecdh(flight.s.text, ER)),
           flight.version = 1, Unseals(SentTwo(a), flight.s), flight.s.text # NoKey, Unseals(m3, flight.p)
    PROVE  \E x \in {SI, TK} :
               /\ flight.s.text = x /\ flight.s = S3("opencx", a, ER, SR, x)
               /\ flight.p = P3("opencx", a, ER, SR, x)
               /\ \/ /\ a = EI /\ x = SI /\ b = ER /\ y = SR /\ prologue["initiator"] = "opencx"
                     /\ 1 \notin changed /\ 2 \notin changed /\ 3 \notin changed
                  \/ a = TK /\ x = TK /\ 1 \in changed
<1> DEFINE data == prologue["initiator"]
           s == flight.s
           c == flight.p
           keptS == S3(data, EI, b, y, SI)
           keptP == P3(data, EI, b, y, SI)
           thirdP == P3("opencx", TK, ER, SR, TK)
<1>0. SentTwo(EI) # SentTwo(TK)
  BY EndParts, KeysDiffer
<1>1. PICK t \in {keptS, Garbage} \cup ThirdS, p \in {keptP, Garbage, thirdP} :
          /\ flight = AnActThree(1, t, p)
          /\ 3 \in changed => flight # ActThree(data, b, y)
          /\ t \in {keptS, Garbage} \/ a = TK
          /\ p \in {keptP, Garbage} \/ (a = TK /\ t = S3("opencx", TK, ER, SR, TK))
  <2>1. CASE 3 \notin changed
    BY <2>1 DEF ThreeUnderWay, ActThree
  <2>2. CASE 3 \in changed
    <3>1. PICK version \in 1..2, t \in {keptS, Garbage} \cup ThirdS, p \in {keptP, Garbage, thirdP} :
              /\ flight = AnActThree(version, t, p) /\ flight # ActThree(data, b, y)
              /\ t \in {keptS, Garbage} \/ a = TK
              /\ p \in {keptP, Garbage} \/ (a = TK /\ t = S3("opencx", TK, ER, SR, TK))
      BY <2>2 DEF ThreeUnderWay
    <3>2. version = 1
      BY <3>1, ActParts
    <3> QED BY <3>1, <3>2
  <2> QED BY <2>1, <2>2
<1>2. t = s /\ p = c
  BY <1>1, ActParts
<1>3. s # Garbage /\ c # Garbage
  BY DEF Unseals
<1>4. CASE s = keptS
  <2>1. data = "opencx" /\ a = EI /\ b = ER /\ y = SR
    <3>1. Unseals(SentTwo(a), S3(data, EI, b, y, SI))
      BY <1>4
    <3> QED BY <3>1, OpensThree
  <2>2. c = keptP
    BY <1>1, <1>2, <1>3, <2>1, KeysDiffer
  <2>3. s.text = SI
    BY <1>4, SealedText DEF S3
  <2>4. 3 \notin changed
    <3>1. flight = ActThree(data, b, y)
      BY <1>1, <1>2, <1>4, <2>2 DEF ActThree
    <3> QED BY <1>1, <3>1
  <2>5. 1 \notin changed /\ 2 \notin changed
    <3>1. InitiatorEnd("opencx", ER, SR) # InitiatorEnd(data, TK, TK)
      BY EndParts, KeysDiffer
    <3>2. pc["initiator"] = "done"
      BY DEF HandshakeInv, UnderWay
    <3> QED BY <2>1, <3>1, <3>2 DEF HandshakeInv, InitiatorOK
  <2> QED BY <1>4, <2>1, <2>2, <2>3, <2>4, <2>5
<1>5. CASE s # keptS
  <2>1. a = TK /\ s \in ThirdS
    BY <1>1, <1>2, <1>3, <1>5
  <2>2. PICK x \in {TK, SI, NoKey} : s = S3("opencx", a, ER, SR, x)
    BY <2>1 DEF ThirdS, ThirdTexts
  <2>3. s.text = x
    BY <2>2, SealedText DEF S3
  <2>4. c # keptP
    <3> SUFFICES ASSUME c = keptP PROVE FALSE
      OBVIOUS
    <3>1. m3 = MixKey([CryptAndHash(SentTwo(a), S3("opencx", a, ER, SR, x)) EXCEPT !.remoteStatic = x],
                      Ecdh(x, ER))
      BY <2>2, <2>3
    <3>2. Unseals(m3, P3(data, EI, b, y, SI))
      OBVIOUS
    <3>3. a = EI
      BY <3>1, <3>2, ReceiveThree
    <3> QED BY <2>1, <3>3, KeysDiffer
  <2>5. c = thirdP /\ s = S3("opencx", TK, ER, SR, TK)
    BY <1>1, <1>2, <1>3, <2>4
  <2>6. s.text = TK
    BY <2>5, SealedText DEF S3
  <2>7. 1 \in changed
    BY <1>0, <2>1 DEF HandshakeInv, ResponderOK
  <2> QED BY <2>1, <2>5, <2>6, <2>7
<1> QED BY <1>4, <1>5

LEMMA ActThreeStep ==
    ASSUME HandshakeInv, RecvActThree, UNCHANGED <<changed, prologue, sender>>
    PROVE  HandshakeInv'
<1> DEFINE m1 == machine["responder"]
           m2 == [CryptAndHash(m1, flight.s) EXCEPT !.remoteStatic = flight.s.text]
           m3 == MixKey(m2, Ecdh(flight.s.text, ER))
           m4 == CryptAndHash(m3, flight.p)
           data == prologue["initiator"]
           Accepted == /\ flight.version = 1 /\ Unseals(m1, flight.s)
                       /\ flight.s.text # NoKey /\ Unseals(m3, flight.p)
<1>1. flight.act = 3 /\ pc["responder"] = "actThree" /\ pc["initiator"] = "done"
  BY DEF RecvActThree, HandshakeInv, UnderWay
<1>2. PICK a \in {EI, TK}, b \in {ER, TK}, y \in {SR, TK} :
          /\ m1 = SentTwo(a)
          /\ machine["initiator"] = InitiatorEnd(data, b, y)
          /\ ThreeUnderWay(a, b, y)
  BY <1>1 DEF HandshakeInv, UnderWay
<1>3. CASE Accepted
  <2>1. /\ machine' = [machine EXCEPT !["responder"] = m4]
        /\ flight' = NoAct
        /\ pc' = [pc EXCEPT !["responder"] = "done"]
    BY <1>3 DEF RecvActThree, ER
  <2>2. PICK x \in {SI, TK} :
              /\ flight.s.text = x /\ flight.s = S3("opencx", a, ER, SR, x)
              /\ flight.p = P3("opencx", a, ER, SR, x)
              /\ \/ /\ a = EI /\ x = SI /\ b = ER /\ y = SR /\ data = "opencx"
                    /\ 1 \notin changed /\ 2 \notin changed /\ 3 \notin changed
                 \/ a = TK /\ x = TK /\ 1 \in changed
    <3>1. m3 = MixKey([CryptAndHash(SentTwo(a), flight.s) EXCEPT !.remoteStatic = flight.s.text],
                      Ecdh(flight.s.text, ER))
      BY <1>2
    <3> HIDE DEF m3
    <3> QED BY <1>1, <1>2, <1>3, <3>1, AcceptThree
  <2>3. m4 = ResponderEnd(a, x)
    BY <1>2, <2>2, ReceiveThree
  <2> HIDE DEF m2, m3, m4
  <2>4. /\ machine' = [side \in Sides |-> machine'[side]]
        /\ machine'["responder"] = ResponderEnd(a, x)
        /\ machine'["initiator"] = machine["initiator"]
    BY <2>1, <2>3 DEF HandshakeInv, SessionType, Sides
  <2>5. /\ pc' \in [Sides -> {"start", "actOne", "actTwo", "actThree", "done", "failed"}]
        /\ pc'["responder"] = "done" /\ pc'["initiator"] = "done"
    BY <1>1, <2>1 DEF HandshakeInv, SessionType, Sides
  <2>6. flight'.act = 0
    BY <2>1 DEF NoAct
  <2>7. MachineOK("initiator")' /\ MachineOK("responder")'
    <3>1. MachineOK("responder")'
      BY <2>2, <2>4, EndParts DEF MachineOK, EI, SI, TK, Other
    <3> QED BY <2>4, <3>1 DEF HandshakeInv, SessionType, MachineOK
  <2>8. SessionType'
    BY <2>4, <2>5, <2>7 DEF HandshakeInv, SessionType
  <2>9. InitiatorOK'
    BY <1>1, <2>4, <2>5 DEF HandshakeInv, InitiatorOK
  <2>10. ResponderOK'
    BY <1>2, <2>1, <2>2, <2>4, <2>5 DEF ResponderOK
  <2>11. UnderWay'
    BY <2>1, <2>6 DEF UnderWay, ActOK
  <2> QED BY <2>8, <2>9, <2>10, <2>11 DEF HandshakeInv
<1>4. CASE ~Accepted
  <2>1. Fails("responder")
    BY <1>4 DEF RecvActThree, ER
  <2> QED BY <1>1, <2>1, FailStep DEF Sides
<1> QED BY <1>3, <1>4

(* What a third party can seal for the reader of an act.                         *)
LEMMA SealableTwo ==
    ASSUME NEW data, NEW act, NEW kept,
           NEW p \in Sealings(ReadActTwo(SentOne(data), act), kept, {"nothing"})
    PROVE  \/ p \in {kept, Garbage}
           \/ act.e = TK /\ act.s = TK /\ p = P2(data, EI, TK, TK)
<1> DEFINE m == ReadActTwo(SentOne(data), act)
           e == act.e
           s == act.s
<1>1. m = State(D3(data, EI, e, s), K2(EI, e, s), 0, s, e)
  BY ReadTwo
<1> HIDE DEF m, e, s
<1>2. m.chainingKey = K2(EI, e, s) /\ Seal(m, "nothing") = P2(data, EI, e, s)
  BY <1>1, StateParts, StateSteps DEF P2
<1>3. p \in {kept, Garbage} \/ (Known(m.chainingKey) /\ p = Seal(m, "nothing"))
  BY DEF Sealings, m
<1>4. Known(K2(EI, e, s)) => e = TK /\ s = TK
  BY KnownSecrets, KeysDiffer
<1> QED BY <1>2, <1>3, <1>4 DEF e, s

LEMMA SealableKey ==
    ASSUME NEW a, NEW kept, NEW s, s \in Sealings(SentTwo(a), kept, ThirdTexts)
    PROVE  s \in {kept, Garbage} \/ (a = TK /\ s \in ThirdS)
<1> DEFINE m == SentTwo(a)
<1>1. m.chainingKey = K2(a, ER, SR) /\ \A text : Seal(m, text) = S3("opencx", a, ER, SR, text)
  BY StateParts, StateSteps DEF SentTwo, S3
<1>2. Known(K2(a, ER, SR)) => a = TK
  BY KnownSecrets, KeysDiffer
<1>3. s \in Sealings(m, kept, ThirdTexts)
  OBVIOUS
<1> HIDE DEF m
<1>4. s \in {kept, Garbage} \/ (Known(m.chainingKey) /\ \E text \in ThirdTexts : s = Seal(m, text))
  BY <1>3 DEF Sealings
<1> QED BY <1>1, <1>2, <1>4 DEF ThirdS

(* The network changes an act, and none twice.                                *)
LEMMA ChangeStep ==
    ASSUME HandshakeInv, ChangeAct
    PROVE  HandshakeInv'
<1> DEFINE data == prologue["initiator"]
<1>1. /\ flight.act \notin changed /\ changed' = changed \cup {flight.act} /\ flight' # flight
      /\ UNCHANGED <<machine, pc, prologue, sender>>
  BY DEF ChangeAct
<1>2. PICK version \in 1..2 :
          \/ flight.act = 1 /\ ActOneChanged([flight EXCEPT !.version = version])
          \/ flight.act = 2 /\ ActTwoChanged([flight EXCEPT !.version = version])
          \/ flight.act = 3 /\ ActThreeChanged([flight EXCEPT !.version = version])
  BY DEF ChangeAct
<1>3. flight.act \in {1, 2, 3} /\ flight # NoAct
  BY <1>2 DEF NoAct
<1>4. pc["initiator"] # "start" /\ pc["responder"] # "done"
  BY <1>3 DEF HandshakeInv, InitiatorOK, ResponderOK
<1>5. SessionType'
  BY <1>1, <1>3 DEF HandshakeInv, SessionType, MachineOK
<1>6. CASE flight.act = 1
  <2>1. flight = ActOne(data) /\ pc["initiator"] = "actTwo" /\ pc["responder"] \in {"actOne", "failed"}
        /\ 2 \notin changed
    BY <1>1, <1>6 DEF HandshakeInv, UnderWay
  <2> DEFINE act == [flight EXCEPT !.version = version]
  <2>2. act = AnActOne(version, EI, P1(data, EI))
    <3> DEFINE kept == P1(data, EI)
    <3>1. flight = AnActOne(1, EI, kept)
      BY <2>1 DEF ActOne
    <3> HIDE DEF kept
    <3>2. act = AnActOne(version, EI, kept)
      BY <3>1 DEF AnActOne
    <3> QED BY <3>2 DEF kept
  <2> HIDE DEF act
  <2>3. act.e = EI /\ act.p = P1(data, EI)
    BY <2>2, ActParts
  <2>4. PICK e \in {EI, TK, NoKey} :
            \E p \in Sealings(MixHash(machine["responder"], e), P1(data, EI), {"nothing"}) :
                flight' = [act EXCEPT !.e = e, !.p = p]
    <3>1. ActOneChanged(act)
      BY <1>2, <1>6 DEF act
    <3> QED BY <2>3, <3>1, Zenon DEF ActOneChanged, TK
  <2>5. PICK p \in Sealings(MixHash(machine["responder"], e), P1(data, EI), {"nothing"}) :
            flight' = AnActOne(version, e, p)
    <3>1. \A p : [act EXCEPT !.e = e, !.p = p] = AnActOne(version, e, p)
      <4> DEFINE kept == P1(data, EI)
      <4>1. act = AnActOne(version, EI, kept)
        BY <2>2
      <4> HIDE DEF kept
      <4> TAKE p
      <4>2. [act EXCEPT !.e = e] = AnActOne(version, e, kept)
        BY <4>1 DEF AnActOne
      <4>3. [AnActOne(version, e, kept) EXCEPT !.p = p] = AnActOne(version, e, p)
        BY DEF AnActOne
      <4>4. [act EXCEPT !.e = e, !.p = p] = [[act EXCEPT !.e = e] EXCEPT !.p = p]
        OBVIOUS
      <4> QED BY <4>2, <4>3, <4>4
    <3> QED BY <2>4, <3>1, Zenon
  <2>6. flight'.act = 1 /\ flight'.version = version /\ flight'.e = e
    BY <2>5, ActParts
  <2>7. ActOK'
    BY <2>6 DEF ActOK, EI, TK
  <2>8. ASSUME pc["responder"] = "actOne" PROVE p \in {P1(data, EI), Garbage, P1("opencx", e)}
    <3>1. MixHash(machine["responder"], e) = State(D1("opencx", e), K0, 0, NoKey, NoKey)
      BY <2>8, Fresh, StateSteps DEF D1, HandshakeInv, ResponderOK
    <3>2. Seal(MixHash(machine["responder"], e), "nothing") = P1("opencx", e)
      BY <3>1, StateSteps DEF P1
    <3> QED BY <2>5, <3>2 DEF Sealings
  <2>9. pc'["responder"] = "actOne" => OneUnderWay'
    BY <1>1, <1>6, <2>1, <2>5, <2>6, <2>8 DEF OneUnderWay
  <2>10. UnderWay'
    BY <1>1, <1>6, <2>1, <2>6, <2>7, <2>9 DEF UnderWay
  <2>11. InitiatorOK' /\ ResponderOK'
    BY <1>1, <1>4, <1>6, <2>1 DEF HandshakeInv, InitiatorOK, ResponderOK
  <2> QED BY <1>5, <2>10, <2>11 DEF HandshakeInv
<1>7. CASE flight.act = 2
  <2>1. pc["initiator"] = "actTwo" /\ pc["responder"] = "actThree"
    BY <1>7 DEF HandshakeInv, UnderWay
  <2>2. PICK a \in {EI, TK} : machine["responder"] = SentTwo(a) /\ TwoUnderWay(a)
    BY <1>7 DEF HandshakeInv, UnderWay
  <2> DEFINE kept == P2("opencx", a, ER, SR)
  <2>3. flight = ActTwo(a)
    BY <1>1, <1>7, <2>2 DEF TwoUnderWay
  <2> DEFINE act == [flight EXCEPT !.version = version]
  <2>4. act = AnActTwo(version, ER, SR, kept)
    <3>1. flight = AnActTwo(1, ER, SR, kept)
      BY <2>3 DEF ActTwo
    <3> HIDE DEF kept
    <3> QED BY <3>1 DEF AnActTwo
  <2> HIDE DEF act
  <2>5. act.e = ER /\ act.s = SR /\ act.p = kept
    BY <2>4, ActParts
  <2>6. PICK e \in {ER, TK, NoKey}, s \in {SR, TK, NoKey} :
            \E p \in Sealings(ReadActTwo(machine["initiator"], [act EXCEPT !.e = e, !.s = s]), act.p, {"nothing"}) :
                flight' = [[act EXCEPT !.e = e, !.s = s] EXCEPT !.p = p]
    <3>1. ActTwoChanged(act)
      BY <1>2, <1>7 DEF act
    <3> QED BY <2>5, <3>1, Zenon DEF ActTwoChanged, TK
  <2>7. [act EXCEPT !.e = e, !.s = s] = AnActTwo(version, e, s, kept)
    <3> HIDE DEF kept
    <3>1. [act EXCEPT !.e = e] = AnActTwo(version, e, SR, kept)
      BY <2>4 DEF AnActTwo
    <3>2. [AnActTwo(version, e, SR, kept) EXCEPT !.s = s] = AnActTwo(version, e, s, kept)
      BY DEF AnActTwo
    <3>3. [act EXCEPT !.e = e, !.s = s] = [[act EXCEPT !.e = e] EXCEPT !.s = s]
      OBVIOUS
    <3> QED BY <3>1, <3>2, <3>3
  <2>8. PICK p \in Sealings(ReadActTwo(machine["initiator"], AnActTwo(version, e, s, kept)), kept, {"nothing"}) :
            flight' = [AnActTwo(version, e, s, kept) EXCEPT !.p = p]
    BY <2>5, <2>6, <2>7, Zenon
  <2>9. flight' = AnActTwo(version, e, s, p)
    <3> HIDE DEF kept
    <3>1. [AnActTwo(version, e, s, kept) EXCEPT !.p = p] = AnActTwo(version, e, s, p)
      BY DEF AnActTwo
    <3> QED BY <2>8, <3>1
  <2>10. p \in {kept, Garbage} \/ (e = TK /\ s = TK /\ p = P2(data, EI, TK, TK))
    <3>1. machine["initiator"] = SentOne(data)
      BY <2>1 DEF HandshakeInv, InitiatorOK
    <3>2. AnActTwo(version, e, s, kept).e = e /\ AnActTwo(version, e, s, kept).s = s
      BY ActParts
    <3> HIDE DEF kept, data
    <3>3. p \in Sealings(ReadActTwo(SentOne(data), AnActTwo(version, e, s, kept)), kept, {"nothing"})
      BY <2>8, <3>1
    <3> QED BY <3>2, <3>3, SealableTwo
  <2>11. flight'.act = 2 /\ flight'.version = version /\ flight'.e = e
    BY <2>9, ActParts
  <2>12. ActOK'
    BY <2>11 DEF ActOK, ER, TK
  <2>13. TwoUnderWay(a)'
    BY <1>1, <1>7, <2>3, <2>9, <2>10 DEF TwoUnderWay
  <2>14. UnderWay'
    BY <1>1, <2>1, <2>2, <2>11, <2>12, <2>13 DEF UnderWay
  <2>15. InitiatorOK' /\ ResponderOK'
    BY <1>1, <1>4, <1>7, <2>1 DEF HandshakeInv, InitiatorOK, ResponderOK
  <2> QED BY <1>5, <2>14, <2>15 DEF HandshakeInv
<1>8. CASE flight.act = 3
  <2>1. pc["initiator"] = "done" /\ pc["responder"] = "actThree"
    BY <1>8 DEF HandshakeInv, UnderWay
  <2>2. PICK a \in {EI, TK}, b \in {ER, TK}, y \in {SR, TK} :
            /\ machine["responder"] = SentTwo(a)
            /\ machine["initiator"] = InitiatorEnd(data, b, y)
            /\ ThreeUnderWay(a, b, y)
    BY <1>8 DEF HandshakeInv, UnderWay
  <2> DEFINE keptS == S3(data, EI, b, y, SI)
             keptP == P3(data, EI, b, y, SI)
  <2>3. flight = ActThree(data, b, y)
    BY <1>1, <1>8, <2>2 DEF ThreeUnderWay
  <2> DEFINE act == [flight EXCEPT !.version = version]
  <2>4. act = AnActThree(version, keptS, keptP)
    <3>1. flight = AnActThree(1, keptS, keptP)
      BY <2>3 DEF ActThree
    <3> HIDE DEF keptS, keptP
    <3> QED BY <3>1 DEF AnActThree
  <2> HIDE DEF act
  <2>5. act.s = keptS /\ act.p = keptP
    BY <2>4, ActParts
  <2>6. PICK s \in Sealings(SentTwo(a), keptS, {TK, SI, NoKey}) :
            \E p \in Sealings(MixKey(CryptAndHash(SentTwo(a), s), Ecdh(s.text, ER)), keptP, {"nothing"}) :
                flight' = [act EXCEPT !.s = s, !.p = p]
    <3>1. ActThreeChanged(act)
      BY <1>2, <1>8 DEF act
    <3> HIDE DEF keptS, keptP
    <3> QED BY <2>2, <2>5, <3>1, Zenon DEF ActThreeChanged, TK, SI, ER
  <2>7. PICK p \in Sealings(MixKey(CryptAndHash(SentTwo(a), s), Ecdh(s.text, ER)), keptP, {"nothing"}) :
            flight' = AnActThree(version, s, p)
    <3>1. \A p : [act EXCEPT !.s = s, !.p = p] = AnActThree(version, s, p)
      <4> HIDE DEF keptS, keptP
      <4> TAKE p
      <4>1. [act EXCEPT !.s = s] = AnActThree(version, s, keptP)
        BY <2>4 DEF AnActThree
      <4>2. [AnActThree(version, s, keptP) EXCEPT !.p = p] = AnActThree(version, s, p)
        BY DEF AnActThree
      <4>3. [act EXCEPT !.s = s, !.p = p] = [[act EXCEPT !.s = s] EXCEPT !.p = p]
        OBVIOUS
      <4> QED BY <4>1, <4>2, <4>3
    <3> QED BY <2>6, <3>1, Zenon
  <2>8. /\ s \in {keptS, Garbage} \/ (a = TK /\ s \in ThirdS)
        /\ \/ p \in {keptP, Garbage}
           \/ a = TK /\ s = S3("opencx", TK, ER, SR, TK) /\ p = P3("opencx", TK, ER, SR, TK)
    <3> HIDE DEF keptS, keptP
    <3>1. s \in Sealings(SentTwo(a), keptS, ThirdTexts)
      BY <2>6 DEF ThirdTexts
    <3>2. s \in {keptS, Garbage} \/ (a = TK /\ s \in ThirdS)
      BY <3>1, SealableKey
    <3>3. \/ p \in {keptP, Garbage}
          \/ /\ a = TK /\ s.text = TK
             /\ s = S3("opencx", TK, ER, SR, TK) => p = P3("opencx", TK, ER, SR, TK)
      <4> DEFINE x == s.text
                 d == Append(D4("opencx", a, ER, SR), s)
                 m == MixKey(CryptAndHash(SentTwo(a), s), Ecdh(x, ER))
      <4>1. m = State(d, K3(a, ER, SR, x), 0, NoKey, a)
        BY ReadThree
      <4>2. p \in Sealings(m, keptP, {"nothing"})
        BY <2>7
      <4> HIDE DEF m, x, d
      <4>3. /\ m.chainingKey = K3(a, ER, SR, x)
            /\ Seal(m, "nothing") = Sealed(K3(a, ER, SR, x), 0, d, "nothing")
        BY <4>1, StateParts, StateSteps
      <4>4. Known(K3(a, ER, SR, x)) => a = TK /\ x = TK
        BY KnownSecrets, KeysDiffer
      <4>5. p \in {keptP, Garbage} \/ (Known(m.chainingKey) /\ p = Seal(m, "nothing"))
        BY <4>2 DEF Sealings
      <4>6. ASSUME a = TK, x = TK, s = S3("opencx", TK, ER, SR, TK)
            PROVE  Sealed(K3(a, ER, SR, x), 0, d, "nothing") = P3("opencx", TK, ER, SR, TK)
        BY <4>6 DEF P3, D5, d
      <4> QED BY <4>3, <4>4, <4>5, <4>6 DEF x
    <3>4. keptS.text = SI /\ Garbage.text = NoKey /\ \A text : S3("opencx", TK, ER, SR, text).text = text
      BY SealedText DEF keptS, S3
    <3>5. s.text = TK => s = S3("opencx", TK, ER, SR, TK)
      BY <3>2, <3>4, KeysDiffer DEF ThirdS
    <3> QED BY <3>2, <3>3, <3>5
  <2>9. flight'.act = 3 /\ flight'.version = version
    BY <2>7, ActParts
  <2>10. ActOK'
    BY <2>9 DEF ActOK
  <2>11. ThreeUnderWay(a, b, y)'
    BY <1>1, <1>8, <2>3, <2>7, <2>8 DEF ThreeUnderWay
  <2>12. UnderWay'
    BY <1>1, <2>1, <2>2, <2>9, <2>10, <2>11 DEF UnderWay
  <2>13. InitiatorOK' /\ ResponderOK'
    BY <1>1, <1>4, <1>8, <2>1 DEF HandshakeInv, InitiatorOK, ResponderOK
  <2> QED BY <1>5, <2>12, <2>13 DEF HandshakeInv
<1> QED BY <1>3, <1>6, <1>7, <1>8

LEMMA HandshakeInductive == HandshakeInv /\ [SessionNext]_vars => HandshakeInv'
<1> SUFFICES ASSUME HandshakeInv, [SessionNext]_vars PROVE HandshakeInv'
  OBVIOUS
<1>1. CASE HandshakeStep
  <2>1. UNCHANGED <<changed, prologue, sender>>
    BY <1>1 DEF HandshakeStep
  <2>2. CASE \E side \in Sides : ReadActFails(side)
    BY <2>1, <2>2, FailStep DEF ReadActFails
  <2> QED BY <1>1, <2>1, <2>2, GenStep, ActOneStep, ActTwoStep, ActThreeStep DEF HandshakeStep
<1>2. CASE ChangeAct
  BY <1>2, ChangeStep
<1>3. CASE StreamStep \/ UNCHANGED vars
  <2>1. UNCHANGED <<machine, pc, flight, changed, prologue, sender>>
    BY <1>3 DEF StreamStep, vars, hsVars
  <2>2. SessionType' /\ InitiatorOK' /\ ResponderOK'
    BY <2>1 DEF HandshakeInv, SessionType, MachineOK, InitiatorOK, ResponderOK
  <2>3. UnderWay'
    BY <2>1 DEF HandshakeInv, UnderWay, ActOK, OneUnderWay, TwoUnderWay, ThreeUnderWay
  <2> QED BY <2>2, <2>3 DEF HandshakeInv
<1> QED BY <1>1, <1>2, <1>3 DEF SessionNext

LEMMA HandshakeInvariant == SessionSpec => []HandshakeInv
BY HandshakeInit, HandshakeInductive, PTL DEF SessionSpec

(* Whom the sides have finished with.                                          *)
LEMMA WhoFinished ==
    ASSUME HandshakeInv
    PROVE  /\ Connected("initiator") =>
                  /\ machine["initiator"] = InitiatorEnd("opencx", ER, SR)
                  /\ prologue["initiator"] = "opencx"
                  /\ 1 \notin changed /\ 2 \notin changed
           /\ Connected("responder") =>
                  /\ machine["responder"] = ResponderEnd(EI, SI)
                  /\ machine["initiator"] = InitiatorEnd("opencx", ER, SR)
                  /\ Connected("initiator")
                  /\ 3 \notin changed
           /\ pc["initiator"] = "done" /\ ~With("initiator") =>
                  machine["initiator"] = InitiatorEnd(prologue["initiator"], TK, TK)
           /\ pc["responder"] = "done" /\ ~With("responder") =>
                  machine["responder"] = ResponderEnd(TK, TK) /\ 1 \in changed
           /\ pc["responder"] = "done" => pc["initiator"] = "done"
<1>1. Static(Other("initiator")) = SR /\ Static(Other("responder")) = SI
  BY DEF Other, SR, SI
<1>2. pc["initiator"] = "done" =>
         \/ /\ machine["initiator"] = InitiatorEnd("opencx", ER, SR)
            /\ prologue["initiator"] = "opencx" /\ 1 \notin changed /\ 2 \notin changed
         \/ machine["initiator"] = InitiatorEnd(prologue["initiator"], TK, TK)
  BY DEF HandshakeInv, InitiatorOK
<1>3. pc["responder"] = "done" =>
         /\ pc["initiator"] = "done"
         /\ \/ /\ machine["responder"] = ResponderEnd(EI, SI)
               /\ machine["initiator"] = InitiatorEnd("opencx", ER, SR)
               /\ 3 \notin changed
            \/ machine["responder"] = ResponderEnd(TK, TK) /\ 1 \in changed
  BY DEF HandshakeInv, ResponderOK
<1>4. /\ InitiatorEnd("opencx", ER, SR).remoteStatic = SR
      /\ InitiatorEnd(prologue["initiator"], TK, TK).remoteStatic = TK
      /\ ResponderEnd(EI, SI).remoteStatic = SI /\ ResponderEnd(TK, TK).remoteStatic = TK
  BY EndParts
<1> QED BY <1>1, <1>2, <1>3, <1>4, KeysDiffer DEF Connected, With

(* Whatever the network makes of the acts without the private keys of the two     *)
(* sides, a side that ends up with the other's static key has received every act   *)
(* so far as it was sent, and the prologues are the same.                      *)
THEOREM ChangesAreNoticed == SessionSpec => []ChangesNoticed
<1>1. HandshakeInv => ChangesNoticed
  <2> SUFFICES ASSUME HandshakeInv PROVE ChangesNoticed
    OBVIOUS
  <2>1. prologue["responder"] = "opencx" /\ changed \subseteq {1, 2, 3}
    BY DEF HandshakeInv, SessionType
  <2>2. \A side \in Sides : Connected(side) => prologue["initiator"] = prologue["responder"]
    BY <2>1, WhoFinished DEF Sides
  <2>3. Connected("initiator") => changed \cap {1, 2} = {}
    BY WhoFinished
  <2>4. Connected("responder") => changed = {}
    BY <2>1, WhoFinished
  <2> QED BY <2>2, <2>3, <2>4 DEF ChangesNoticed
<1> QED BY <1>1, HandshakeInvariant, PTL
-----------------------------------------------------------------------------
(* The theorems about the stream, for the ciphers as the session sees them.     *)
Proved == INSTANCE NoiseStreamProofs WITH send <- CipherOf(sender, send),
                                          recv <- CipherOf(Other(sender), recv)

LEMMA OtherSide ==
    /\ Other("initiator") = "responder" /\ Other("responder") = "initiator"
    /\ \A side \in Sides : Other(side) \in Sides /\ Other(side) # side
BY DEF Other, Sides

(* The key of a direction is the same for the two ends.                      *)
LEMMA AgreedDirection ==
    ASSUME NEW m, m.chainingKey = Agreed, NEW from
    PROVE  DirectionKey(m, from) = InitializeKey(AgreedKey(from))
BY FinalKey DEF DirectionKey, AgreedKey

(* What does not depend on the ciphers is the same in both.                    *)
LEMMA SameTerms ==
    /\ Stream!Sides = Sides
    /\ \A key : Stream!InitializeKey(key) = InitializeKey(key)
    /\ \A from : Stream!AgreedKey(from) = AgreedKey(from)
    /\ \A c : Stream!Advanced(c) = Advanced(c)
    /\ Stream!ChunkSize = ChunkSize
    /\ Stream!BufferEmpty <=> BufferEmpty
    /\ \A n : Stream!Rest(n) = Rest(n)
<1>1. Stream!Sides = Sides /\ \A key : Stream!InitializeKey(key) = InitializeKey(key)
  BY DEF Stream!Sides, Sides, Stream!InitializeKey, InitializeKey
<1>2. Stream!AgreedSecrets = AgreedSecrets
  BY DEF Stream!AgreedSecrets, AgreedSecrets, Stream!Ecdh, Ecdh, Stream!Static, Static,
         Stream!Ephemeral, Ephemeral
<1>3. \A from : Stream!AgreedKey(from) = AgreedKey(from)
  BY <1>2 DEF Stream!AgreedKey, AgreedKey
<1>4. \A c : Stream!Advanced(c) = Advanced(c)
  BY DEF Stream!Advanced, Advanced
<1>5. Stream!ChunkSize = ChunkSize /\ (Stream!BufferEmpty <=> BufferEmpty)
  BY DEF Stream!ChunkSize, ChunkSize, Stream!BufferEmpty, BufferEmpty
<1>6. \A n : Stream!Rest(n) = Rest(n)
  BY DEF Stream!Rest, Rest
<1> QED BY <1>1, <1>3, <1>4, <1>5, <1>6

LEMMA StreamBegins == SessionInit => Stream!Init
<1> SUFFICES ASSUME SessionInit PROVE Stream!Init
  OBVIOUS
<1>1. sender \in Sides /\ \A side \in Sides : pc[side] # "done"
  BY DEF SessionInit, Sides
<1>2. Other(sender) \in Sides
  BY <1>1, OtherSide
<1>3. /\ CipherOf(sender, send) = InitializeKey(AgreedKey(sender))
      /\ CipherOf(Other(sender), recv) = InitializeKey(AgreedKey(sender))
  BY <1>1, <1>2 DEF CipherOf, Connected
<1>4. InitStream
  BY DEF SessionInit
<1> QED BY <1>1, <1>3, <1>4, SameTerms DEF Stream!Init, Stream!InitStream, InitStream

(* A side that uses the stream has finished the handshake with the other: its     *)
(* cipher is the stream's.  The other's does not change.                       *)
LEMMA StreamGoesOn ==
    ASSUME StreamStep
    PROVE  Stream!Next
<1> DEFINE snd == CipherOf(sender, send)
           rcv == CipherOf(Other(sender), recv)
<1>1. UNCHANGED <<pc, machine, sender>>
  BY DEF StreamStep, hsVars
<1>2. /\ Connected(sender) => snd = send /\ snd' = send'
      /\ send' = send => snd' = snd
      /\ Connected(Other(sender)) => rcv = recv /\ rcv' = recv'
      /\ recv' = recv => rcv' = rcv
  BY <1>1 DEF CipherOf, Other, Connected, With
<1> USE SameTerms DEF ciphers, Stream!ciphers, writing, Stream!writing, reading, Stream!reading,
                      histories, Stream!histories
<1> HIDE DEF snd, rcv
<1>3. CASE Connected(sender) /\ WriterStep
  <2>1. snd = send /\ snd' = send'
    BY <1>2, <1>3
  <2>2. ASSUME NEW ct, Encrypt(ct) PROVE Stream!Encrypt(ct)
    BY <2>1, <2>2 DEF Encrypt, Stream!Encrypt, snd
  <2>3. \A n : Stream!Length(n) = Length(n) /\ Stream!Payload(n) = Payload(n)
    BY <2>1 DEF Length, Payload, Stream!Length, Stream!Payload, snd
  <2>4. ASSUME NEW n \in Sizes, Write(n) PROVE Stream!Write(n)
    BY <1>2, <2>4 DEF Write, Stream!Write, snd, rcv
  <2>5. ASSUME WriteLength PROVE Stream!WriteLength
    BY <1>2, <2>2, <2>3, <2>5 DEF WriteLength, Stream!WriteLength, rcv
  <2>6. ASSUME WritePayload PROVE Stream!WritePayload
    BY <1>2, <2>2, <2>3, <2>6 DEF WritePayload, Stream!WritePayload, rcv
  <2> QED BY <1>3, <2>4, <2>5, <2>6 DEF WriterStep, Stream!WriterStep, Stream!Next
<1>4. CASE Connected(Other(sender)) /\ ReaderStep
  <2>1. rcv = recv /\ rcv' = recv'
    BY <1>2, <1>4
  <2>2. Decrypt => Stream!Decrypt
    BY <2>1 DEF Decrypt, Stream!Decrypt, rcv
  <2>3. \A ct, kind, size : Stream!Opens(ct, kind, size) <=> Opens(ct, kind, size)
    BY <2>1 DEF Opens, Stream!Opens, rcv
  <2>4. ASSUME ReadLength PROVE Stream!ReadLength
    BY <1>2, <2>2, <2>3, <2>4 DEF ReadLength, Stream!ReadLength, snd
  <2>5. ASSUME ReadPayload PROVE Stream!ReadPayload
    BY <1>2, <2>2, <2>3, <2>5 DEF ReadPayload, Stream!ReadPayload, snd
  <2>6. ASSUME NEW n \in Buffers, ReadBuffered(n) PROVE Stream!ReadBuffered(n)
    BY <1>2, <2>6 DEF ReadBuffered, Stream!ReadBuffered, snd, rcv
  <2>7. ASSUME ReadEnds PROVE Stream!ReadEnds
    BY <1>2, <2>7 DEF ReadEnds, Stream!ReadEnds, snd, rcv
  <2> QED BY <1>4, <2>4, <2>5, <2>6, <2>7 DEF ReaderStep, Stream!ReaderStep, Stream!Next
<1>5. CASE Damage
  BY <1>2, <1>5 DEF Damage, Stream!Damage, Stream!Next, snd, rcv
<1>6. CASE Break
  BY <1>2, <1>6 DEF Break, Stream!Break, Stream!Next, snd, rcv
<1> QED BY <1>3, <1>4, <1>5, <1>6 DEF StreamStep

(* Of the steps of the handshake, only the one with which a side finishes gives  *)
(* it a cipher, that of an undisturbed handshake if it has the other's key.      *)
GetsKey(side, cipher) ==
    /\ cipher = DirectionKey(machine'[side], sender)
    /\ machine'[side].remoteStatic = Static(Other(side)) => cipher = InitializeKey(AgreedKey(sender))
Finishes(side) ==
    /\ pc[side] # "done" /\ pc'[side] = "done"
    /\ pc'[Other(side)] = pc[Other(side)] /\ machine'[Other(side)] = machine[Other(side)]
    /\ IF side = sender THEN GetsKey(side, send') /\ recv' = recv
       ELSE GetsKey(side, recv') /\ send' = send
NobodyFinishes ==
    /\ UNCHANGED ciphers
    /\ \A side \in Sides : /\ pc'[side] = "done" <=> pc[side] = "done"
                           /\ pc[side] = "done" => machine'[side] = machine[side]

ConnectedEnds ==
    /\ Connected("initiator") => machine["initiator"] = InitiatorEnd("opencx", ER, SR)
    /\ Connected("responder") => machine["responder"] = ResponderEnd(EI, SI)
LEMMA FinishedEnds == HandshakeInv => ConnectedEnds
BY WhoFinished DEF ConnectedEnds

(* A step of the handshake gives a side its ciphers, or none.                *)
LEMMA HandshakeEffect ==
    ASSUME HandshakeInv, HandshakeInv', HandshakeStep \/ ChangeAct \/ UNCHANGED vars
    PROVE  NobodyFinishes \/ \E side \in Sides : Finishes(side)
<1>1. ASSUME NEW side \in Sides, NEW m, pc[side] # "done", pc' = [pc EXCEPT ![side] = "done"],
             machine' = [machine EXCEPT ![side] = m], Split(side, m)
      PROVE  Finishes(side)
  <2>1. pc'[side] = "done" /\ pc'[Other(side)] = pc[Other(side)]
    BY <1>1, OtherSide DEF HandshakeInv, SessionType
  <2>2. machine'[side] = m /\ machine'[Other(side)] = machine[Other(side)]
    BY <1>1, OtherSide DEF HandshakeInv, SessionType
  <2>3. m.remoteStatic = Static(Other(side)) => m.chainingKey = Agreed
    <3> SUFFICES ASSUME m.remoteStatic = Static(Other(side)) PROVE m.chainingKey = Agreed
      OBVIOUS
    <3>1. Connected(side)'
      BY <2>1, <2>2 DEF Connected, With
    <3>2. /\ Connected("initiator")' => machine'["initiator"] = InitiatorEnd("opencx", ER, SR)
          /\ Connected("responder")' => machine'["responder"] = ResponderEnd(EI, SI)
      <4>1. ConnectedEnds'
        BY FinishedEnds, PTL
      <4> QED BY <4>1 DEF ConnectedEnds
    <3>3. side = "initiator" \/ side = "responder"
      BY DEF Sides
    <3>4. m = InitiatorEnd("opencx", ER, SR) \/ m = ResponderEnd(EI, SI)
      BY <2>2, <3>1, <3>2, <3>3
    <3> QED BY <3>4, EndParts DEF Agreed
  <2>4. m.remoteStatic = Static(Other(side)) => DirectionKey(m, sender) = InitializeKey(AgreedKey(sender))
    BY <2>3, AgreedDirection
  <2>5. GetsKey(side, DirectionKey(m, sender))
    BY <2>2, <2>4 DEF GetsKey
  <2> QED BY <1>1, <2>1, <2>2, <2>5 DEF Split, Finishes
<1>2. ASSUME UNCHANGED ciphers, NEW side \in Sides, pc[side] # "done", NEW s, s # "done",
             pc' = [pc EXCEPT ![side] = s], \A other \in Sides \ {side} : machine'[other] = machine[other]
      PROVE  NobodyFinishes
  BY <1>2 DEF HandshakeInv, SessionType, NobodyFinishes
<1>3. ASSUME NEW side \in Sides, pc[side] # "done", Fails(side)
      PROVE  NobodyFinishes
  BY <1>2, <1>3 DEF Fails
<1> USE DEF Sides
<1>4. CASE GenActOne
  <2>1. PICK m : machine' = [machine EXCEPT !["initiator"] = m]
    BY <1>4 DEF GenActOne
  <2>2. machine'["responder"] = machine["responder"]
    BY <2>1 DEF HandshakeInv, SessionType
  <2> QED BY <1>2, <1>4, <2>2 DEF GenActOne
<1>5. CASE RecvActOne
  <2>1. CASE Fails("responder")
    BY <1>3, <1>5, <2>1 DEF RecvActOne
  <2>2. CASE ~Fails("responder")
    <3>1. PICK m : /\ machine' = [machine EXCEPT !["responder"] = m]
                   /\ pc' = [pc EXCEPT !["responder"] = "actThree"]
                   /\ UNCHANGED ciphers
      BY <1>5, <2>2 DEF RecvActOne
    <3>2. machine'["initiator"] = machine["initiator"]
      BY <3>1 DEF HandshakeInv, SessionType
    <3> QED BY <1>2, <1>5, <3>1, <3>2 DEF RecvActOne
  <2> QED BY <2>1, <2>2
<1>6. CASE RecvActTwo
  <2>1. CASE Fails("initiator")
    BY <1>3, <1>6, <2>1 DEF RecvActTwo
  <2>2. CASE ~Fails("initiator")
    <3>1. PICK m : /\ machine' = [machine EXCEPT !["initiator"] = m]
                   /\ pc' = [pc EXCEPT !["initiator"] = "done"]
                   /\ Split("initiator", m)
      BY <1>6, <2>2 DEF RecvActTwo
    <3> QED BY <1>1, <1>6, <3>1 DEF RecvActTwo
  <2> QED BY <2>1, <2>2
<1>7. CASE RecvActThree
  <2>1. CASE Fails("responder")
    BY <1>3, <1>7, <2>1 DEF RecvActThree
  <2>2. CASE ~Fails("responder")
    <3>1. PICK m : /\ machine' = [machine EXCEPT !["responder"] = m]
                   /\ pc' = [pc EXCEPT !["responder"] = "done"]
                   /\ Split("responder", m)
      BY <1>7, <2>2 DEF RecvActThree
    <3> QED BY <1>1, <1>7, <3>1 DEF RecvActThree
  <2> QED BY <2>1, <2>2
<1>8. CASE \E side \in Sides : ReadActFails(side)
  BY <1>3, <1>8 DEF ReadActFails
<1>9. CASE ChangeAct \/ UNCHANGED vars
  BY <1>9 DEF ChangeAct, vars, hsVars, streamVars, ciphers, NobodyFinishes
<1> QED BY <1>4, <1>5, <1>6, <1>7, <1>8, <1>9 DEF HandshakeStep

(* The stream took a side to have that cipher all along.                      *)
LEMMA StreamWaits ==
    ASSUME HandshakeInv, HandshakeInv', HandshakeStep \/ ChangeAct \/ UNCHANGED vars
    PROVE  UNCHANGED Stream!streamVars
<1> DEFINE snd == CipherOf(sender, send)
           rcv == CipherOf(Other(sender), recv)
<1>1. sender' = sender /\ sender \in Sides /\ Other(sender) \in Sides
  BY OtherSide DEF HandshakeStep, ChangeAct, vars, hsVars, HandshakeInv, SessionType
<1>2. UNCHANGED <<wire, writing, reading, histories>>
  BY DEF HandshakeStep, ChangeAct, vars, streamVars
<1>3. CASE NobodyFinishes
  BY <1>1, <1>2, <1>3 DEF NobodyFinishes, CipherOf, Connected, With, Other, ciphers, Stream!streamVars, Stream!ciphers,
     writing, Stream!writing, reading, Stream!reading, histories, Stream!histories
<1>4. ASSUME NEW side \in Sides, Finishes(side)
      PROVE  snd' = snd /\ rcv' = rcv
  <2>1. side = sender \/ side = Other(sender)
    BY <1>1 DEF Other, Sides
  <2> QED BY <1>1, <1>4, <2>1, OtherSide DEF Finishes, GetsKey, CipherOf, Connected, With, Other, Sides
<1> HIDE DEF snd, rcv
<1>5. CASE \E side \in Sides : Finishes(side)
  <2>1. snd' = snd /\ rcv' = rcv
    BY <1>4, <1>5
  <2> QED BY <1>2, <2>1 DEF Stream!streamVars, Stream!ciphers, writing, Stream!writing,
             reading, Stream!reading, histories, Stream!histories, snd, rcv
<1> QED BY <1>3, <1>5, HandshakeEffect

(* The handshake and either direction of a connection together are a stream      *)
(* whose two sides begin with the key that an undisturbed handshake agrees on:   *)
(* what RecvActTwo, RecvActThree and split give to one side is what the other     *)
(* expects, although one side may write before the other has finished.          *)
THEOREM SessionIsStream == SessionSpec => ImplementsStream
<1>1. HandshakeInv /\ HandshakeInv' /\ [SessionNext]_vars => [Stream!Next]_(Stream!streamVars)
  BY StreamGoesOn, StreamWaits DEF SessionNext
<1> QED BY <1>1, StreamBegins, HandshakeInvariant, PTL DEF SessionSpec, ImplementsStream, Stream!Spec

(* The two instances say the same.                                           *)
LEMMA SameStream ==
    /\ Stream!Init => Proved!Init
    /\ [Stream!Next]_(Stream!streamVars) => [Proved!Next]_(Proved!streamVars)
BY DEF Stream!AgreedSecrets, Proved!AgreedSecrets, Stream!AgreedKey, Proved!AgreedKey,
       Stream!Ecdh, Proved!Ecdh, Stream!Static, Proved!Static, Stream!Ephemeral,
       Proved!Ephemeral, Stream!Sides, Proved!Sides, Stream!InitializeKey,
       Proved!InitializeKey, Stream!InitStream, Proved!InitStream, Stream!Init, Proved!Init,
       Stream!ciphers, Proved!ciphers, Stream!writing, Proved!writing, Stream!reading,
       Proved!reading, Stream!histories, Proved!histories, Stream!streamVars,
       Proved!streamVars, Stream!Advanced, Proved!Advanced, Stream!Length, Proved!Length,
       Stream!Payload, Proved!Payload, Stream!Encrypt, Proved!Encrypt, Stream!Opens,
       Proved!Opens, Stream!Decrypt, Proved!Decrypt, Stream!Write, Proved!Write,
       Stream!ChunkSize, Proved!ChunkSize, Stream!WriteLength, Proved!WriteLength,
       Stream!WritePayload, Proved!WritePayload, Stream!BufferEmpty, Proved!BufferEmpty,
       Stream!ReadLength, Proved!ReadLength, Stream!ReadPayload, Proved!ReadPayload,
       Stream!Rest, Proved!Rest, Stream!ReadBuffered, Proved!ReadBuffered, Stream!ReadEnds,
       Proved!ReadEnds, Stream!Damage, Proved!Damage, Stream!Break, Proved!Break,
       Stream!WriterStep, Proved!WriterStep, Stream!ReaderStep, Proved!ReaderStep, Stream!Next,
       Proved!Next

(* Hence the theorems about NoiseStream apply to the session.                *)
LEMMA StreamProved == SessionSpec => Proved!Spec
BY SessionIsStream, SameStream, PTL DEF ImplementsStream, Stream!Spec, Proved!Spec

(* A client's calls and the server's answers arrive once and in order, from the   *)
(* first byte that a side writes when Dial or doHandshake returns.              *)
THEOREM SessionInOrder == SessionSpec => []InOrder
<1>1. Proved!InOrder => InOrder
  BY DEF Proved!InOrder, InOrder
<1>2. Proved!Spec => []Proved!InOrder
  BY Proved!BytesInOrder, NoiseStreamAssumption
<1> QED BY <1>1, <1>2, StreamProved, PTL

(* ReadMessage fails on nothing but what the network damaged: not because split   *)
(* gave the sides ciphers that do not match, nor for a missed rotation.           *)
THEOREM SessionKeysInStep == SessionSpec => []KeysInStep
<1>1. Proved!KeysInStep => KeysInStep
  BY DEF Proved!KeysInStep, KeysInStep
<1>2. Proved!Spec => []Proved!KeysInStep
  BY Proved!CiphersInStep, NoiseStreamAssumption
<1> QED BY <1>1, <1>2, StreamProved, PTL

(* No key and nonce of a connection encrypt twice.                            *)
THEOREM SessionNonceOnce == SessionSpec => []NonceOnce
<1>1. Proved!NonceOnce => NonceOnce
  BY DEF Proved!NonceOnce, NonceOnce
<1>2. Proved!Spec => []Proved!NonceOnce
  BY Proved!NoncesOnce, NoiseStreamAssumption
<1> QED BY <1>1, <1>2, StreamProved, PTL

-----------------------------------------------------------------------------
(* A side that has finished with the other has the agreed key, however often it   *)
(* was rotated; one that has finished with a third party has the key of that       *)
(* handshake, and one that has not finished has none.                          *)
Holds(side, cipher) ==
    IF Connected(side) THEN cipher.base = AgreedKey(sender)
    ELSE cipher = IF pc[side] = "done" THEN DirectionKey(machine[side], sender) ELSE InitializeKey(<<>>)
CiphersOK == Holds(sender, send) /\ Holds(Other(sender), recv)

LEMMA AdvancedBase ==
    ASSUME NEW c \in Proved!Cipher
    PROVE  Advanced(c).base = c.base
BY DEF Proved!Cipher, Advanced

LEMMA CiphersInit == SessionInit => CiphersOK
<1> SUFFICES ASSUME SessionInit PROVE CiphersOK
  OBVIOUS
<1>1. sender \in Sides /\ \A side \in Sides : pc[side] # "done"
  BY DEF SessionInit, Sides
<1> QED BY <1>1, OtherSide DEF SessionInit, CiphersOK, Holds, Connected

LEMMA CiphersInductive ==
    ASSUME HandshakeInv, HandshakeInv', Proved!StreamInv, CiphersOK, [SessionNext]_vars
    PROVE  CiphersOK'
<1>1. sender' = sender /\ sender \in Sides
  BY DEF SessionNext, HandshakeStep, ChangeAct, StreamStep, vars, hsVars, HandshakeInv, SessionType
<1>2. CASE StreamStep
  <2>1. /\ UNCHANGED <<pc, machine>>
        /\ \/ send' = send
           \/ Connected(sender) /\ send' = Advanced(send)
        /\ \/ recv' = recv
           \/ Connected(Other(sender)) /\ recv' = Advanced(recv)
    BY <1>2 DEF StreamStep, hsVars, WriterStep, Write, WriteLength, WritePayload, Encrypt,
       ReaderStep, ReadLength, ReadPayload, ReadBuffered, ReadEnds, Decrypt, Damage, Break, ciphers
  <2>2. /\ Connected(sender) => send \in Proved!Cipher
        /\ Connected(Other(sender)) => recv \in Proved!Cipher
    BY DEF Proved!StreamInv, Proved!StreamTypeOK, CipherOf
  <2> QED BY <1>1, <2>1, <2>2, AdvancedBase DEF CiphersOK, Holds, Connected, With, Other
<1>3. CASE HandshakeStep \/ ChangeAct \/ UNCHANGED vars
  <2>1. InitializeKey(AgreedKey(sender)).base = AgreedKey(sender)
    BY DEF InitializeKey
  <2>2. CASE NobodyFinishes
    BY <1>1, <2>2, OtherSide DEF NobodyFinishes, CiphersOK, Holds, Connected, With, Other, ciphers
  <2>3. ASSUME NEW side \in Sides, Finishes(side) PROVE CiphersOK'
    <3>1. side = sender \/ side = Other(sender)
      BY <1>1 DEF Other, Sides
    <3> QED BY <1>1, <2>1, <2>3, <3>1, OtherSide
            DEF Finishes, GetsKey, CiphersOK, Holds, Connected, With, Other, Sides
  <2> QED BY <1>3, <2>2, <2>3, HandshakeEffect
<1> QED BY <1>2, <1>3 DEF SessionNext

LEMMA SessionStream == SessionSpec => []Proved!StreamInv /\ []Proved!SizesOK
<1>1. (Proved!Spec => []Proved!StreamInv) /\ (Proved!Spec => []Proved!SizesOK)
  BY Proved!StreamInvariant, Proved!SizesInvariant, NoiseStreamAssumption
<1> QED BY <1>1, StreamProved, PTL

LEMMA CiphersInvariant == SessionSpec => []CiphersOK
<1>1. HandshakeInv /\ HandshakeInv' /\ Proved!StreamInv /\ CiphersOK /\ [SessionNext]_vars => CiphersOK'
  BY CiphersInductive
<1> QED BY <1>1, CiphersInit, HandshakeInvariant, SessionStream, PTL DEF SessionSpec

(* Dial and doHandshake leave both sides with the same keys and digest, and each  *)
(* with the other's static key; or a third party has had its own handshake with    *)
(* each of them, and they have no key in common.                               *)
THEOREM SessionKeysAgree == SessionSpec => []KeysAgree
<1>1. HandshakeInv /\ CiphersOK => KeysAgree
  <2> SUFFICES ASSUME HandshakeInv, CiphersOK, Done = Sides PROVE KeysAgree
    BY DEF KeysAgree
  <2>1. \A side \in Sides : pc[side] = "done"
    BY DEF Done
  <2>2. sender \in Sides /\ Other(sender) \in Sides /\ "initiator" \in Sides /\ "responder" \in Sides
    BY OtherSide DEF HandshakeInv, SessionType, Sides
  <2>3. CASE With("initiator") \/ With("responder")
    <3>1. /\ machine["initiator"] = InitiatorEnd("opencx", ER, SR)
          /\ machine["responder"] = ResponderEnd(EI, SI)
          /\ Connected("initiator") /\ Connected("responder")
      BY <2>1, <2>2, <2>3, WhoFinished DEF Connected
    <3>2. \A side \in Sides : Connected(side)
      BY <3>1 DEF Sides
    <3>3. send.base = recv.base
      BY <2>2, <3>2 DEF CiphersOK, Holds
    <3>4. /\ machine["initiator"].digest = machine["responder"].digest
          /\ machine["initiator"].chainingKey = machine["responder"].chainingKey
      BY <3>1, EndParts
    <3>5. \A side \in Sides : With(side)
      BY <3>2 DEF Connected
    <3> QED BY <2>2, <3>3, <3>4, <3>5 DEF KeysAgree
  <2>4. CASE ~With("initiator") /\ ~With("responder")
    <3>1. \A side \in Sides : ~With(side)
      BY <2>4 DEF Sides
    <3>2. send = DirectionKey(machine[sender], sender) /\ recv = DirectionKey(machine[Other(sender)], sender)
      BY <2>1, <2>2, <3>1 DEF CiphersOK, Holds, Connected
    <3>3. machine["initiator"].chainingKey # machine["responder"].chainingKey
      BY <2>1, <2>2, <2>4, WhoFinished, EndParts, KeysApart
    <3>4. machine[sender].chainingKey # machine[Other(sender)].chainingKey
      BY <2>2, <3>3, OtherSide DEF Sides
    <3>5. \A m, n : m.chainingKey # n.chainingKey => DirectionKey(m, sender).base # DirectionKey(n, sender).base
      BY DEF DirectionKey, InitializeKey
    <3>6. send.base # recv.base
      BY <3>2, <3>4, <3>5
    <3>7. ~\E side \in Sides : With(side)
      BY <3>1
    <3> QED BY <3>6, <3>7 DEF KeysAgree
  <2> QED BY <2>3, <2>4
<1> QED BY <1>1, HandshakeInvariant, CiphersInvariant, PTL

(* Both Machines and the act under way have their types, nonces stay below the     *)
(* rotation interval, messages and the read buffer within what two bytes of length  *)
(* can say, for every size given to Write.                                       *)
THEOREM SessionTypeCorrect == SessionSpec => []TypeOK
<1>1. HandshakeInv /\ CiphersOK /\ Proved!StreamInv /\ Proved!SizesOK => TypeOK
  <2> SUFFICES ASSUME HandshakeInv, CiphersOK, Proved!StreamInv, Proved!SizesOK PROVE TypeOK
    OBVIOUS
  <2>1. \A c \in Proved!Cipher : c.rotations \in Nat /\ c.nonce \in 0..(KeyRotationInterval - 1)
    BY DEF Proved!Cipher
  <2>2. \A key : InitializeKey(key).rotations \in Nat /\ InitializeKey(key).nonce \in 0..(KeyRotationInterval - 1)
    BY NoiseStreamAssumption DEF InitializeKey
  <2>3. \A c \in {send, recv} : c.rotations \in Nat /\ c.nonce \in 0..(KeyRotationInterval - 1)
    <3>1. /\ Connected(sender) => send \in Proved!Cipher
          /\ Connected(Other(sender)) => recv \in Proved!Cipher
      BY DEF Proved!StreamInv, Proved!StreamTypeOK, CipherOf
    <3>2. /\ ~Connected(sender) => \E key : send = InitializeKey(key)
          /\ ~Connected(Other(sender)) => \E key : recv = InitializeKey(key)
      BY DEF CiphersOK, Holds, DirectionKey
    <3> QED BY <2>1, <2>2, <3>1, <3>2
  <2>4. /\ writer \in {"idle", "length", "payload", "failed"}
        /\ reader \in {"length", "payload", "failed", "ended"}
        /\ todo \in Nat /\ chunk \in Nat /\ written \in Nat /\ pktLen \in Nat /\ got \in Nat
        /\ readBuf.from \in Nat /\ readBuf.to \in Nat
    BY DEF Proved!StreamInv, Proved!StreamTypeOK
  <2>5. got <= written
    BY <2>4 DEF Proved!StreamInv, Proved!BufferOK
  <2>6. /\ todo <= MaxWritten /\ written <= MaxWritten /\ chunk <= MaxWritten /\ pktLen <= MaxWritten
        /\ chunk <= MaxUint16 /\ pktLen <= MaxUint16 /\ readBuf.to - readBuf.from < MaxUint16
    BY <2>4, NoiseStreamAssumption DEF Proved!SizesOK
  <2>7. got <= MaxWritten
    BY <2>4, <2>5, <2>6, NoiseStreamAssumption
  <2>8. {todo, chunk, written, pktLen, got} \subseteq 0..MaxWritten
    BY <2>4, <2>6, <2>7, NoiseStreamAssumption
  <2>9. ActOK /\ \A side \in Sides : MachineOK(side)
    BY DEF HandshakeInv, SessionType, UnderWay, Sides
  <2> QED BY <2>3, <2>4, <2>6, <2>8, <2>9 DEF TypeOK, HandshakeInv, SessionType
<1> QED BY <1>1, HandshakeInvariant, CiphersInvariant, SessionStream, PTL
=============================================================================
