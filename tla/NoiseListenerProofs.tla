------------------------ MODULE NoiseListenerProofs ------------------------
(***************************************************************************)
(* Proofs about the listener, for any finite set of connections and any     *)
(* number of slots: slots are conserved and no connection is lost while the *)
(* listener is open.                                                        *)
(***************************************************************************)
EXTENDS NoiseListener, FiniteSetTheorems, TLAPS

Holding == IF listen \in {"accepting", "rejecting"} THEN 1 ELSE 0

LEMMA TypeInit == Init => TypeOK
BY NoiseListenerAssumption DEF Init, TypeOK

LEMMA TypeStep == TypeOK /\ [Next]_vars => TypeOK'
<1> SUFFICES ASSUME TypeOK, Next \/ UNCHANGED vars PROVE TypeOK'
  OBVIOUS
<1> USE DEF TypeOK, Working, Ended, Goto, GiveSlot, DropIfQuit
<1>1. ASSUME NEW p \in Peers, Connect(p) PROVE TypeOK'
  BY <1>1 DEF Connect
<1>2. ASSUME NEW p \in Peers, TCPAccept(p) PROVE TypeOK'
  BY <1>2 DEF TCPAccept
<1>3. ASSUME NEW p \in Peers, Handshake(p) PROVE TypeOK'
  BY <1>3 DEF Handshake, DoHandshake, RecvActOne, SendActTwo, RecvActThree, ActFails
<1>4. ASSUME NEW p \in Peers, AcceptConn(p) PROVE TypeOK'
  BY <1>4 DEF AcceptConn
<1>5. ASSUME NEW p \in Peers, RejectConn(p) PROVE TypeOK'
  BY <1>5 DEF RejectConn
<1>6. ASSUME NEW p \in Peers, HandOverQuits(p) PROVE TypeOK'
  BY <1>6 DEF HandOverQuits
<1>7. CASE TakeSlot
  BY <1>7 DEF TakeSlot
<1>8. CASE ListenQuits
  BY <1>8 DEF ListenQuits
<1>9. CASE TCPAcceptFails
  BY <1>9 DEF TCPAcceptFails
<1>10. CASE ListenRejects
  BY <1>10 DEF ListenRejects
<1>11. CASE AcceptQuits \/ OffButton \/ UNCHANGED vars
  BY <1>11 DEF AcceptQuits, OffButton, vars
<1>12. CASE CloseTCP
  BY <1>12 DEF CloseTCP
<1> QED
  BY <1>1, <1>2, <1>3, <1>4, <1>5, <1>6, <1>7, <1>8, <1>9, <1>10, <1>11, <1>12 DEF Next

(* listen never takes a slot that is not there, and the goroutines of the      *)
(* listener are only ever in the places the code has.                         *)
THEOREM TypeCorrect == Spec => []TypeOK
  BY TypeInit, TypeStep, PTL DEF Spec

-----------------------------------------------------------------------------
(* What a step of one connection's goroutine does to the number of active      *)
(* ones: it enters, leaves or stays.                                          *)
LEMMA ActiveFinite == IsFiniteSet(Active) /\ Cardinality(Active) \in Nat
BY NoiseListenerAssumption, FS_Subset, FS_CardinalityType DEF Active

LEMMA Enters ==
    ASSUME TypeOK, NEW p \in Peers, NEW l \in Working, hs[p] \notin Working, hs' = [hs EXCEPT ![p] = l]
    PROVE  Cardinality(Active') = Cardinality(Active) + 1
<1>1. Active' = Active \cup {p} /\ p \notin Active
  BY DEF Active, TypeOK
<1> QED
  BY <1>1, ActiveFinite, FS_AddElement

LEMMA Leaves ==
    ASSUME TypeOK, NEW p \in Peers, NEW l, l \notin Working, hs[p] \in Working, hs' = [hs EXCEPT ![p] = l]
    PROVE  Cardinality(Active') = Cardinality(Active) - 1
<1>1. Active' = Active \ {p} /\ p \in Active
  BY DEF Active, TypeOK
<1> QED
  BY <1>1, ActiveFinite, FS_RemoveElement

LEMMA Stays ==
    ASSUME TypeOK, NEW p \in Peers, NEW l, l \in Working <=> hs[p] \in Working, hs' = [hs EXCEPT ![p] = l]
    PROVE  Cardinality(Active') = Cardinality(Active)
<1>1. Active' = Active
  BY DEF Active, TypeOK
<1> QED
  BY <1>1

(* The sum of SlotsConserved, named so that its parts can be changed.          *)
Total == handshakeSema + Cardinality(Active) + Holding

LEMMA TotalStep == TypeOK /\ [Next]_vars => Total' = Total
<1> SUFFICES ASSUME TypeOK, Next \/ UNCHANGED vars PROVE Total' = Total
  OBVIOUS
<1> USE DEF Goto, GiveSlot
<1>a. handshakeSema \in Nat /\ Cardinality(Active) \in Nat
  BY ActiveFinite DEF TypeOK
<1>1. ASSUME NEW p \in Peers, Connect(p) PROVE Total' = Total
  <2>1. Cardinality(Active') = Cardinality(Active)
    BY <1>1, Stays DEF Connect, Working
  <2> QED
    BY <1>1, <2>1 DEF Connect, Total, Holding
<1>2. ASSUME NEW p \in Peers, TCPAccept(p) PROVE Total' = Total
  <2>1. Cardinality(Active') = Cardinality(Active) + 1
    BY <1>2, Enters DEF TCPAccept, Working
  <2> QED
    BY <1>2, <1>a, <2>1 DEF TCPAccept, Total, Holding
<1>3. ASSUME NEW p \in Peers, DoHandshake(p) \/ SendActTwo(p) PROVE Total' = Total
  <2>1. CASE Quit
    <3>1. Cardinality(Active') = Cardinality(Active) - 1
      BY <1>3, <2>1, Leaves DEF DoHandshake, SendActTwo, DropIfQuit, Working
    <3> QED
      BY <1>3, <1>a, <2>1, <3>1 DEF DoHandshake, SendActTwo, DropIfQuit, Total, Holding
  <2>2. CASE ~Quit
    <3>1. Cardinality(Active') = Cardinality(Active)
      BY <1>3, <2>2, Stays DEF DoHandshake, SendActTwo, DropIfQuit, Working
    <3> QED
      BY <1>3, <2>2, <3>1 DEF DoHandshake, SendActTwo, DropIfQuit, Total, Holding
  <2> QED
    BY <2>1, <2>2
<1>4. ASSUME NEW p \in Peers, RecvActOne(p) \/ RecvActThree(p) \/ ActFails(p) PROVE Total' = Total
  <2>1. Cardinality(Active') = Cardinality(Active)
    BY <1>4, Stays DEF RecvActOne, RecvActThree, ActFails, Working
  <2> QED
    BY <1>4, <2>1 DEF RecvActOne, RecvActThree, ActFails, Total, Holding
<1>5. ASSUME NEW p \in Peers, AcceptConn(p) \/ RejectConn(p) PROVE Total' = Total
  <2>1. Cardinality(Active') = Cardinality(Active) - 1
    BY <1>5, Leaves DEF AcceptConn, RejectConn, Working
  <2> QED
    BY <1>5, <1>a, <2>1 DEF AcceptConn, RejectConn, Total, Holding
<1>6. ASSUME NEW p \in Peers, HandOverQuits(p) PROVE Total' = Total
  <2>1. Cardinality(Active') = Cardinality(Active) - 1
    <3> DEFINE l == IF hs[p] = "handing" THEN "dropped" ELSE "rejected"
    <3>1. l \notin Working /\ hs' = [hs EXCEPT ![p] = l]
      BY <1>6 DEF HandOverQuits, Working
    <3>2. hs[p] \in Working
      BY <1>6 DEF HandOverQuits, Working
    <3> HIDE DEF l
    <3> QED
      BY <3>1, <3>2, Leaves
  <2> QED
    BY <1>6, <1>a, <2>1 DEF HandOverQuits, Total, Holding
<1>7. CASE TakeSlot
  BY <1>7, <1>a DEF TakeSlot, Total, Holding, Active
<1>8. CASE ListenRejects
  BY <1>8, <1>a DEF ListenRejects, Total, Holding, Active
<1>9. CASE ListenQuits \/ TCPAcceptFails \/ AcceptQuits \/ OffButton \/ UNCHANGED vars
  BY <1>9 DEF ListenQuits, TCPAcceptFails, AcceptQuits, OffButton, vars, Total, Holding, Active
<1>10. CASE CloseTCP
  <2>1. Active' = Active
    BY <1>10 DEF CloseTCP, Active, Working
  <2> QED
    BY <1>10, <2>1 DEF CloseTCP, Total, Holding
<1> QED
  BY <1>1, <1>2, <1>3, <1>4, <1>5, <1>6, <1>7, <1>8, <1>9, <1>10 DEF Next, Handshake

LEMMA TotalInit == Init => Total = DefaultHandshakes
<1> SUFFICES ASSUME Init PROVE Total = DefaultHandshakes
  OBVIOUS
<1>1. Active = {}
  BY DEF Init, Active, Working
<1> QED
  BY <1>1, FS_EmptySet, NoiseListenerAssumption DEF Init, Total, Holding

(* listen and doHandshake give every slot back exactly once, on each of their  *)
(* paths, for any number of slots and connections.                            *)
THEOREM SlotsAreConserved == Spec => []SlotsConserved
<1>1. Init => TypeOK /\ Total = DefaultHandshakes
  BY TypeInit, TotalInit
<1>2. TypeOK /\ Total = DefaultHandshakes /\ [Next]_vars => TypeOK' /\ (Total = DefaultHandshakes)'
  BY TypeStep, TotalStep
<1>3. Total = DefaultHandshakes => SlotsConserved
  BY DEF Total, SlotsConserved, Holding
<1> QED
  BY <1>1, <1>2, <1>3, PTL DEF Spec

-----------------------------------------------------------------------------
(* A goroutine that has not failed still has its connection open, one that is  *)
(* rejecting has closed it, and a connection is dropped only after quit.       *)
ConnInv ==
    \A p \in Peers :
        /\ hs[p] \in {"backlog", "starting", "actOne", "actTwo", "actThree", "handing", "served"} => conn[p] = "open"
        /\ hs[p] \in {"rejecting", "rejected", "refused"} => conn[p] = "closed"
        /\ hs[p] = "dropped" => closing # "open"

LEMMA ConnStep == TypeOK /\ ConnInv /\ [Next]_vars => ConnInv'
<1> SUFFICES ASSUME TypeOK, ConnInv, Next \/ UNCHANGED vars PROVE ConnInv'
  OBVIOUS
<1>a. hs \in [Peers -> {"none", "backlog"} \cup Working \cup Ended] /\ conn \in [Peers -> {"none", "open", "closed"}]
  BY DEF TypeOK
<1> USE DEF ConnInv, Goto, Quit, DropIfQuit
<1>1. ASSUME NEW p \in Peers, Connect(p) PROVE ConnInv'
  BY <1>1, <1>a DEF Connect
<1>2. ASSUME NEW p \in Peers, TCPAccept(p) PROVE ConnInv'
  BY <1>2, <1>a DEF TCPAccept
<1>3. ASSUME NEW p \in Peers, DoHandshake(p) \/ SendActTwo(p) PROVE ConnInv'
  BY <1>3, <1>a DEF DoHandshake, SendActTwo
<1>4. ASSUME NEW p \in Peers, RecvActOne(p) \/ RecvActThree(p) PROVE ConnInv'
  BY <1>4, <1>a DEF RecvActOne, RecvActThree
<1>5. ASSUME NEW p \in Peers, ActFails(p) PROVE ConnInv'
  BY <1>5, <1>a DEF ActFails
<1>6. ASSUME NEW p \in Peers, AcceptConn(p) \/ RejectConn(p) PROVE ConnInv'
  BY <1>6, <1>a DEF AcceptConn, RejectConn
<1>7. ASSUME NEW p \in Peers, HandOverQuits(p) PROVE ConnInv'
  BY <1>7, <1>a DEF HandOverQuits
<1>8. CASE TakeSlot \/ ListenQuits \/ TCPAcceptFails \/ ListenRejects \/ AcceptQuits \/ UNCHANGED vars
  BY <1>8 DEF TakeSlot, ListenQuits, TCPAcceptFails, ListenRejects, AcceptQuits, vars
<1>9. CASE OffButton
  BY <1>9 DEF OffButton
<1>10. CASE CloseTCP
  BY <1>10, <1>a DEF CloseTCP
<1> QED
  BY <1>1, <1>2, <1>3, <1>4, <1>5, <1>6, <1>7, <1>8, <1>9, <1>10 DEF Next, Handshake

(* While the listener is open doHandshake does not end without having closed   *)
(* or handed over its connection, and never hands over one that it has closed. *)
THEOREM ConnectionsKept == Spec => []NoConnectionLost
<1>1. Init => TypeOK /\ ConnInv
  BY TypeInit DEF Init, ConnInv
<1>2. TypeOK /\ ConnInv /\ [Next]_vars => TypeOK' /\ ConnInv'
  BY TypeStep, ConnStep
<1>3. TypeOK /\ ConnInv => NoConnectionLost
  BY DEF TypeOK, ConnInv, NoConnectionLost, Ended, Quit
<1> QED
  BY <1>1, <1>2, <1>3, PTL DEF Spec
=============================================================================
