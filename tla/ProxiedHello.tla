----------------------------- MODULE ProxiedHello -----------------------------
(***************************************************************************)
(* One connection from end to end: proxy/listener.go reads the PROXY       *)
(* header (ProxyHeader) and hands the connection to its caller, who peeks  *)
(* at the ClientHello (PeekHello) and then reads the connection with the   *)
(* reader that PeekClientHello returned.  Both read the same stream, whose *)
(* segments respect the boundary between them no more than any other.      *)
(***************************************************************************)
EXTENDS ProxyHeader

CONSTANT HelloSize   \* bytes of the client's data that are its ClientHello

ASSUME ProxiedHelloAssumption == HelloSize \in 1..Len(Data)

VARIABLES isHello, peeked, peekPc, replayed, ended   \* as in PeekHello

helloVars == <<isHello, peeked, peekPc, replayed, ended>>
allVars == <<vars, helloVars>>

Hello == INSTANCE PeekHello WITH
  consumed <- taken, origin <- MessageSize, eof <- closed, pc <- peekPc

WireInit == Init /\ Hello!Init
-----------------------------------------------------------------------------
\* The network and the peer.
Network ==
  /\ (\E n \in Segments : Arrive(n)) \/ Hangup
  /\ UNCHANGED helloVars

Handshake == ReadHeader /\ UNCHANGED helloVars

\* The caller has the connection when Accept returned it.
Peek == pc = "ok" /\ Hello!Peek /\ UNCHANGED <<peer, pc, result>>

UseReader == pc = "ok" /\ Hello!UseReader /\ UNCHANGED <<peer, pc, result>>

WireNext == Network \/ Handshake \/ Peek \/ UseReader

WireSpec == WireInit /\ [][WireNext]_allVars

\* Reads return when there is something to return, and the caller reads on.
\* The peer owes nothing.
FairWireSpec ==
  WireSpec /\ WF_allVars(Handshake) /\ WF_allVars(Peek) /\ WF_allVars(UseReader)
-----------------------------------------------------------------------------
(* Properties, besides those of ProxyHeader.                               *)

\* Whatever header preceded it, TLVs included, however the stream was split,
\* and whatever became of the peeking: the caller's own handshake reads the
\* client's data from its first byte on, each byte once and in order, and
\* io.EOF only after the last that arrived.  Every byte taken off the
\* connection after the header has reached it or waits in peekedBytes
\* (proxy/header.go:61-95, tlsutil/hello.go:48-55).
Replayed ==
  /\ replayed = SubSeq(Data, 1, Len(replayed))
  /\ ended => Len(replayed) = sent - MessageSize
  /\ pc = "ok" => taken = MessageSize + Len(replayed) + Len(peeked)

\* Peeking ends as soon as the ClientHello has arrived, although the client
\* sends nothing more before it has an answer, and everything the client
\* sends reaches the caller (tlsutil/hello.go:57-73).
Progress ==
  /\ pc = "ok" /\ sent >= MessageSize + HelloSize ~> peekPc # "peek"
  /\ \A n \in HelloSize..Len(Data) :
       pc = "ok" /\ sent >= MessageSize + n ~> Len(replayed) >= n
================================================================================
