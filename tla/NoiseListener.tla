--------------------------- MODULE NoiseListener ---------------------------
(***************************************************************************)
(* The listener of the authenticated RPC server, and the accept loop that   *)
(* uses it.  One goroutine takes a slot from handshakeSema and accepts a    *)
(* TCP connection; each connection gets a goroutine that performs the       *)
(* handshake (module NoiseSession) with read deadlines, hands the           *)
(* connection or the error to Accept over an unbuffered channel, and gives  *)
(* the slot back.  Closing the listener closes the quit channel, which      *)
(* every blocked goroutine also waits for, and then the TCP listener.       *)
(*                                                                         *)
(* The accept loop is net/rpc's Server.Accept, which is external: it serves *)
(* each connection in a goroutine and returns when Accept returns an error. *)
(* A select with several cases that are ready takes any of them.            *)
(***************************************************************************)
EXTENDS Integers, FiniteSets

CONSTANTS Peers,             \* connections that clients dial
          DefaultHandshakes, \* handshakes in parallel (1000 in the code)
          TCPErrors          \* whether the TCP listener may fail while it is open

ASSUME NoiseListenerAssumption ==
    /\ IsFiniteSet(Peers)
    /\ DefaultHandshakes \in Nat \ {0}
    /\ TCPErrors \in BOOLEAN

VARIABLES handshakeSema,  \* slots that are free
          listen,         \* where the listen goroutine is
          hs,             \* where each connection and its goroutine are
          conn,           \* each TCP connection: "none", "open" or "closed"
          accept,         \* the accept loop: "waiting" or "returned"
          closing         \* the listener: "open", "quit" or "closed"

vars == <<handshakeSema, listen, hs, conn, accept, closing>>

Init ==
    /\ handshakeSema = DefaultHandshakes
    /\ listen = "select"
    /\ hs = [p \in Peers |-> "none"]
    /\ conn = [p \in Peers |-> "none"]
    /\ accept = "waiting"
    /\ closing = "open"

Quit == closing # "open"
Goto(p, l) == hs' = [hs EXCEPT ![p] = l]
GiveSlot == handshakeSema' = handshakeSema + 1

-----------------------------------------------------------------------------
(* A client connects and waits in the backlog of the TCP listener.           *)
Connect(p) ==
    /\ hs[p] = "none"
    /\ closing # "closed"
    /\ Goto(p, "backlog")
    /\ conn' = [conn EXCEPT ![p] = "open"]
    /\ UNCHANGED <<handshakeSema, listen, accept, closing>>

(* Mistake: not waiting for a slot.                                         *)
TakeSlotAnyway ==
    /\ listen = "select"
    /\ handshakeSema' = handshakeSema - 1
    /\ listen' = "accepting"
    /\ UNCHANGED <<hs, conn, accept, closing>>

(* The two cases of the select of listen.                                   *)
TakeSlot ==
    /\ listen = "select"
    /\ handshakeSema > 0
    /\ handshakeSema' = handshakeSema - 1
    /\ listen' = "accepting"
    /\ UNCHANGED <<hs, conn, accept, closing>>

ListenQuits ==
    /\ listen = "select"
    /\ Quit
    /\ listen' = "ended"
    /\ UNCHANGED <<handshakeSema, hs, conn, accept, closing>>

TCPAccept(p) ==
    /\ listen = "accepting"
    /\ closing # "closed"
    /\ hs[p] = "backlog"
    /\ Goto(p, "starting")
    /\ listen' = "select"
    /\ UNCHANGED <<handshakeSema, conn, accept, closing>>

TCPAcceptFails ==
    /\ listen = "accepting"
    /\ TCPErrors \/ closing = "closed"
    /\ listen' = "rejecting"
    /\ UNCHANGED <<handshakeSema, hs, conn, accept, closing>>

(* Mistake: the slot is not given back after an error.                      *)
ListenRejectsKeeping ==
    /\ listen = "rejecting"
    /\ \/ Quit /\ UNCHANGED accept
       \/ accept = "waiting" /\ accept' = "returned"
    /\ listen' = "select"
    /\ UNCHANGED <<handshakeSema, hs, conn, closing>>

(* rejectConn hands the error to Accept, or finds the listener closed.       *)
ListenRejects ==
    /\ listen = "rejecting"
    /\ \/ Quit /\ UNCHANGED accept
       \/ accept = "waiting" /\ accept' = "returned"
    /\ GiveSlot
    /\ listen' = "select"
    /\ UNCHANGED <<hs, conn, closing>>

-----------------------------------------------------------------------------
(* The handshake goroutine looks at quit before the first act and after the  *)
(* second one, and returns if it is closed, leaving the connection as it is. *)
DropIfQuit(p, l) ==
    IF Quit THEN Goto(p, "dropped") /\ GiveSlot
            ELSE Goto(p, l) /\ UNCHANGED handshakeSema

DoHandshake(p) ==
    /\ hs[p] = "starting"
    /\ DropIfQuit(p, "actOne")
    /\ UNCHANGED <<listen, conn, accept, closing>>

RecvActOne(p) ==
    /\ hs[p] = "actOne"
    /\ Goto(p, "actTwo")
    /\ UNCHANGED <<handshakeSema, listen, conn, accept, closing>>

SendActTwo(p) ==
    /\ hs[p] = "actTwo"
    /\ DropIfQuit(p, "actThree")
    /\ UNCHANGED <<listen, conn, accept, closing>>

RecvActThree(p) ==
    /\ hs[p] = "actThree"
    /\ Goto(p, "handing")
    /\ UNCHANGED <<handshakeSema, listen, conn, accept, closing>>

(* Mistakes: reads without a deadline, of a peer that sends nothing; not       *)
(* closing the connection.                                                   *)
ActFailsNoDeadline(p) ==
    /\ hs[p] = "actTwo"
    /\ conn' = [conn EXCEPT ![p] = "closed"]
    /\ Goto(p, "rejecting")
    /\ UNCHANGED <<handshakeSema, listen, accept, closing>>

ActFailsOpen(p) ==
    /\ hs[p] \in {"actOne", "actTwo", "actThree"}
    /\ Goto(p, "rejecting")
    /\ UNCHANGED <<handshakeSema, listen, conn, accept, closing>>

(* The read deadline passes, the connection breaks, or an act is wrong.      *)
ActFails(p) ==
    /\ hs[p] \in {"actOne", "actTwo", "actThree"}
    /\ conn' = [conn EXCEPT ![p] = "closed"]
    /\ Goto(p, "rejecting")
    /\ UNCHANGED <<handshakeSema, listen, accept, closing>>

(* acceptConn: the loop takes the connection and serves it.                 *)
AcceptConn(p) ==
    /\ hs[p] = "handing"
    /\ accept = "waiting"
    /\ Goto(p, "served")
    /\ GiveSlot
    /\ UNCHANGED <<listen, conn, accept, closing>>

(* rejectConn: the loop takes the error and returns.                        *)
RejectConn(p) ==
    /\ hs[p] = "rejecting"
    /\ accept = "waiting"
    /\ accept' = "returned"
    /\ Goto(p, "rejected")
    /\ GiveSlot
    /\ UNCHANGED <<listen, conn, closing>>

(* Mistake: waiting for Accept alone.                                       *)
HandOverQuitsNever(p) == FALSE

(* acceptConn and rejectConn when the listener is closed.                   *)
HandOverQuits(p) ==
    /\ hs[p] \in {"handing", "rejecting"}
    /\ Quit
    /\ Goto(p, IF hs[p] = "handing" THEN "dropped" ELSE "rejected")
    /\ GiveSlot
    /\ UNCHANGED <<listen, conn, accept, closing>>

-----------------------------------------------------------------------------
(* Accept returns an error because the listener is closed.                  *)
AcceptQuits ==
    /\ accept = "waiting"
    /\ Quit
    /\ accept' = "returned"
    /\ UNCHANGED <<handshakeSema, listen, hs, conn, closing>>

(* OffButtonCloseListener calls Close, which closes quit and then tcp; what   *)
(* waits in the backlog is refused.                                          *)
OffButton ==
    /\ closing = "open"
    /\ closing' = "quit"
    /\ UNCHANGED <<handshakeSema, listen, hs, conn, accept>>

CloseTCP ==
    /\ closing = "quit"
    /\ closing' = "closed"
    /\ hs' = [p \in Peers |-> IF hs[p] = "backlog" THEN "refused" ELSE hs[p]]
    /\ conn' = [p \in Peers |-> IF hs[p] = "backlog" THEN "closed" ELSE conn[p]]
    /\ UNCHANGED <<handshakeSema, listen, accept>>

Handshake(p) ==
    \/ DoHandshake(p)
    \/ RecvActOne(p)
    \/ SendActTwo(p)
    \/ RecvActThree(p)
    \/ ActFails(p)

Next ==
    \/ \E p \in Peers : \/ Connect(p)
                        \/ TCPAccept(p)
                        \/ Handshake(p)
                        \/ AcceptConn(p)
                        \/ RejectConn(p)
                        \/ HandOverQuits(p)
    \/ TakeSlot
    \/ ListenQuits
    \/ TCPAcceptFails
    \/ ListenRejects
    \/ AcceptQuits
    \/ OffButton
    \/ CloseTCP

Spec == Init /\ [][Next]_vars

(* Reads have deadlines, so they fail if nothing comes; senders queue at a    *)
(* channel; a select that finds quit closed again and again takes that case   *)
(* some time; a closed TCP listener refuses at once.  Clients owe nothing,    *)
(* not even the acts of the handshake, nor is the off button ever pressed.    *)
FairSpec ==
    /\ Spec
    /\ \A p \in Peers : /\ WF_vars(DoHandshake(p) \/ SendActTwo(p) \/ ActFails(p))
                        /\ SF_vars(AcceptConn(p))
                        /\ SF_vars(RejectConn(p))
                        /\ WF_vars(HandOverQuits(p))
    /\ WF_vars(TakeSlot)
    /\ SF_vars(ListenQuits)
    /\ WF_vars(\E p \in Peers : TCPAccept(p))
    /\ WF_vars(closing = "closed" /\ TCPAcceptFails)
    /\ WF_vars(ListenRejects)
    /\ WF_vars(AcceptQuits)
    /\ WF_vars(CloseTCP)

-----------------------------------------------------------------------------
Working == {"starting", "actOne", "actTwo", "actThree", "handing", "rejecting"}
Active == {p \in Peers : hs[p] \in Working}
Ended == {"served", "rejected", "dropped", "refused"}

(* The goroutines are where they can be and the slots are no negative number. *)
TypeOK ==
    /\ handshakeSema \in Nat
    /\ listen \in {"select", "accepting", "rejecting", "ended"}
    /\ hs \in [Peers -> {"none", "backlog"} \cup Working \cup Ended]
    /\ conn \in [Peers -> {"none", "open", "closed"}]
    /\ accept \in {"waiting", "returned"}
    /\ closing \in {"open", "quit", "closed"}

(* Every path gives its slot back exactly once: the slots that are free, the  *)
(* one listen holds and those of the handshakes are the ones NewListener put  *)
(* in, so a send to handshakeSema never blocks, and never are more than that  *)
(* many handshakes under way.                                                *)
SlotsConserved ==
    handshakeSema + Cardinality(Active) + (IF listen \in {"accepting", "rejecting"} THEN 1 ELSE 0)
        = DefaultHandshakes

(* While the listener is open, a connection whose goroutine has ended is       *)
(* either served or closed, and a connection that is served was not closed     *)
(* before.  A goroutine that still waits in acceptConn has not ended, also if   *)
(* nobody calls Accept any more (OthersServed is about that), and one that      *)
(* ends because quit is closed may leave its connection open.                 *)
NoConnectionLost ==
    \A p \in Peers :
        /\ hs[p] \in Ended /\ conn[p] = "open" /\ hs[p] # "served" => Quit
        /\ hs[p] \in {"handing", "served"} => conn[p] = "open"

(* "Any blocked Accept operations will be unblocked and return errors": once   *)
(* the listener is closed, the accept loop, the listening goroutine and every *)
(* handshake end.                                                            *)
ShutsDown ==
    closing = "closed" ~> /\ accept = "returned"
                          /\ listen = "ended"
                          /\ Active = {}

(* A peer that delays its acts does not keep its slot, as long as the accept   *)
(* loop runs.  Once that has returned a handshake that fails waits for ever to *)
(* report it, and keeps its slot.                                            *)
HandshakesEnd ==
    \A p \in Peers : hs[p] = "starting" ~> (hs[p] \in Ended \/ accept = "returned")

(* "This prevents peers that delay writing to the connection from block other *)
(* connection attempts": a peer that has completed the handshake is served,   *)
(* whatever becomes of the others, unless the listener is closed.            *)
OthersServed ==
    \A p \in Peers : hs[p] = "handing" ~> (hs[p] = "served" \/ Quit)
=============================================================================
