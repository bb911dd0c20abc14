------------------------------ MODULE ProxyHeader ------------------------------
(***************************************************************************)
(* The codec of proxy/header.go: Format writes a PROXY v2 header, and      *)
(* ReadHeader reads one from a connection on which bytes arrive in         *)
(* segments of any size and which the peer may close at any time.  What    *)
(* becomes of the connection afterwards, and the next-state relation, are  *)
(* in ProxiedHello.                                                        *)
(*                                                                         *)
(* A byte is a number, an IP address a sequence of 4 or 16 bytes.  One     *)
(* behavior is one connection: the peer sends a message, which is what     *)
(* Format returns for some header or a damaged form of it, and then the    *)
(* data of the client.                                                     *)
(***************************************************************************)
EXTENDS Integers, Sequences

CONSTANTS
  Headers,   \* headers that peers format
  Extras,    \* what may follow the addresses in the payload (TLVs)
  Data,      \* what the client sends after the header
  Segments,  \* bound: numbers of bytes that the network delivers at once
  ConnAddrs  \* the addresses of the connection itself

Byte == 0..255
Nets == {"TCP", "UDP", "UNIX", "nil"}

\* A net.Addr: its Go type, its IP address and its port.  The addresses of
\* a connection over TCP or UDP have an IP address.
IsAddr(addr) ==
  /\ addr.net \in Nets
  /\ addr.ip \in Seq(Byte)
  /\ Len(addr.ip) \in IF addr.net \in {"TCP", "UDP"} THEN {4, 16} ELSE {0}
  /\ addr.port \in Nat /\ addr.port <= 65535

NoAddr == [net |-> "nil", ip |-> <<>>, port |-> 0]
NoHeader == [remote |-> NoAddr, local |-> NoAddr]

\* A length has 16 bits, and the addresses take up to 36 bytes of a payload.
\* Format asserts that both addresses have the same type.
ASSUME ProxyHeaderAssumption ==
  /\ \A h \in Headers \cup {ConnAddrs} :
       /\ IsAddr(h.remote) /\ IsAddr(h.local)
       /\ h.remote.net = h.local.net
  /\ ConnAddrs.remote.net # "nil"
  /\ \A extra \in Extras : extra \in Seq(Byte) /\ Len(extra) + 36 <= 65535
  /\ Data \in Seq(Byte)
  /\ Segments \subseteq Nat \ {0}

VARIABLES
  peer,      \* what the peer sends: a header, its TLVs, and what is wrong
  stream,    \* the bytes it sends, the client's data included
  sent,      \* how many bytes of the stream have arrived
  closed,    \* has the peer closed the connection?
  taken,     \* how many bytes ReadHeader has read
  pc,        \* where ReadHeader is
  result     \* the header it returns

vars == <<peer, stream, sent, closed, taken, pc, result>>

protocolSignature == <<13, 10, 13, 10, 0, 13, 10, 81, 85, 73, 84, 10>>
protocolVersion == 2
commandLocal == 0
commandProxy == 1
familyUnspecified == 0
familyTCP4 == 17
familyUDP4 == 18
familyTCP6 == 33
familyUDP6 == 34

-----------------------------------------------------------------------------
(* Helpers of the code and of the standard library.                        *)

\* net.IP.To4: an IPv4 address may also be stored in 16 bytes.
MappedPrefix == <<0, 0, 0, 0, 0, 0, 0, 0, 0, 0, 255, 255>>
To4(ip) ==
  IF Len(ip) = 4 THEN ip
  ELSE IF Len(ip) = 16 /\ SubSeq(ip, 1, 12) = MappedPrefix THEN SubSeq(ip, 13, 16)
  ELSE <<>>

\* A PROXY header has room for addresses of one family.
ASSUME OneFamily ==
  \A h \in Headers : To4(h.remote.ip) = <<>> <=> To4(h.local.ip) = <<>>

\* copy into n bytes that were zero.
Copied(bytes, n) == [i \in 1..n |-> IF i <= Len(bytes) THEN bytes[i] ELSE 0]

\* binary.BigEndian.PutUint16(..., uint16(x)), and Uint16 of the bytes at i.
BigEndian(x) == <<(x \div 256) % 256, x % 256>>
Uint16(bytes, i) == 256 * bytes[i] + bytes[i + 1]
-----------------------------------------------------------------------------
(* Faulty variants of definitions below, each a plausible slip in the      *)
(* code.  No action uses them: putting one in the place of the definition  *)
(* it is a variant of shows that a property can fail.                      *)

\* formatIPv4Header copies the address without calling To4.
formatIPv4Header_NoTo4(family, remote, local) ==
  protocolSignature \o <<16 * protocolVersion + commandProxy, family>> \o BigEndian(12)
    \o Copied(remote.ip, 4) \o Copied(local.ip, 4)
    \o BigEndian(remote.port) \o BigEndian(local.port)

\* ReadHeader does not look at the version.
Recognized_AnyVersion(preamble) == SubSeq(preamble, 1, 12) = protocolSignature

\* ReadHeader reads as many bytes as the addresses of the family take, and
\* leaves TLVs to the application.
PayloadLength_AddressesOnly(preamble) ==
  IF preamble[14] \in {familyTCP4, familyUDP4} THEN 12 ELSE 36

\* The length is read in the wrong byte order.
PayloadLength_LittleEndian(preamble) == preamble[15] + 256 * preamble[16]

-----------------------------------------------------------------------------
(* Format.                                                                 *)

formatIPv4Header(family, remote, local) ==
  protocolSignature \o <<16 * protocolVersion + commandProxy, family>> \o BigEndian(12)
    \o Copied(To4(remote.ip), 4) \o Copied(To4(local.ip), 4)
    \o BigEndian(remote.port) \o BigEndian(local.port)

formatIPv6Header(family, remote, local) ==
  protocolSignature \o <<16 * protocolVersion + commandProxy, family>> \o BigEndian(36)
    \o Copied(remote.ip, 16) \o Copied(local.ip, 16)
    \o BigEndian(remote.port) \o BigEndian(local.port)

formatUnspecifiedHeader ==
  protocolSignature \o <<16 * protocolVersion + commandProxy, familyUnspecified>> \o <<0, 0>>

IsIPv4(header) == To4(header.remote.ip) # <<>>

Format(header) ==
  CASE header.remote.net = "TCP" /\ IsIPv4(header) ->
         formatIPv4Header(familyTCP4, header.remote, header.local)
    [] header.remote.net = "TCP" /\ ~IsIPv4(header) ->
         formatIPv6Header(familyTCP6, header.remote, header.local)
    [] header.remote.net = "UDP" /\ IsIPv4(header) ->
         formatIPv4Header(familyUDP4, header.remote, header.local)
    [] header.remote.net = "UDP" /\ ~IsIPv4(header) ->
         formatIPv6Header(familyUDP6, header.remote, header.local)
    [] OTHER -> formatUnspecifiedHeader
-----------------------------------------------------------------------------
(* The peer and the network.                                               *)

Spoken(header) == header.remote.net \in {"TCP", "UDP"}

Faults == {"none", "local", "signature", "version", "command", "family", "short"}

Peers ==
  {p \in [header : Headers, extra : Extras, fault : Faults] :
     p.fault = "short" => p.extra = <<>> /\ Spoken(p.header)}

\* The message of peer p: the header it formats, with its TLVs; if there is
\* a fault, with one field of the preamble replaced, or one byte missing.
Message(p) ==
  LET header == Format(p.header)
      address == SubSeq(header, 17, Len(header))
      payload == IF p.fault = "short" THEN SubSeq(address, 1, Len(address) - 1)
                 ELSE address \o p.extra
      preamble == SubSeq(header, 1, 14) \o BigEndian(Len(payload))
      changed == CASE p.fault = "signature" -> [preamble EXCEPT ![12] = 13]
                   [] p.fault = "version"   -> [preamble EXCEPT ![13] = 16 + commandProxy]
                   [] p.fault = "command"   -> [preamble EXCEPT ![13] = 32 + 2]
                   [] p.fault = "local"     -> [preamble EXCEPT ![13] = 32 + commandLocal]
                   [] p.fault = "family"    -> [preamble EXCEPT ![14] = 49]
                   [] OTHER                 -> preamble
  IN changed \o payload

\* How many bytes of the stream belong to the message.
MessageSize == Len(stream) - Len(Data)

Init ==
  /\ peer \in Peers
  /\ stream = Message(peer) \o Data
  /\ sent = 0 /\ taken = 0
  /\ closed = FALSE
  /\ pc = "preamble"
  /\ result = NoHeader

\* n more bytes arrive, or all that are left.
Arrive(n) ==
  /\ ~closed /\ sent < Len(stream)
  /\ sent' = IF sent + n <= Len(stream) THEN sent + n ELSE Len(stream)
  /\ UNCHANGED <<peer, stream, closed, taken, pc, result>>

\* The peer closes the connection, perhaps in the middle of its header.
Hangup ==
  /\ ~closed
  /\ closed' = TRUE
  /\ UNCHANGED <<peer, stream, sent, taken, pc, result>>
-----------------------------------------------------------------------------
(* ReadHeader.                                                             *)

preambleSize == 16
Preamble == SubSeq(stream, 1, preambleSize)

\* The signature and the version are those of PROXY v2.
Recognized(preamble) ==
  /\ SubSeq(preamble, 1, 12) = protocolSignature
  /\ preamble[13] \div 16 = protocolVersion

PayloadLength(preamble) == Uint16(preamble, 15)

\* How many bytes the current io.ReadFull has to have read at its end.
Wanted ==
  IF pc = "preamble" THEN preambleSize ELSE preambleSize + PayloadLength(Preamble)

\* One Read of conn by io.ReadFull returns what is there, up to its need.
ReadSome ==
  /\ pc \in {"preamble", "payload"}
  /\ taken < sent /\ taken < Wanted
  /\ taken' = IF sent <= Wanted THEN sent ELSE Wanted
  /\ UNCHANGED <<peer, stream, sent, closed, pc, result>>

\* A Read returns io.EOF before io.ReadFull has enough.
ReadEnds ==
  /\ pc \in {"preamble", "payload"}
  /\ closed /\ taken = sent /\ taken < Wanted
  /\ pc' = "error"
  /\ UNCHANGED <<peer, stream, sent, closed, taken, result>>

\* io.ReadFull returned the preamble, which ReadHeader checks.
CheckPreamble ==
  /\ pc = "preamble" /\ taken = Wanted
  /\ pc' = IF Recognized(Preamble) THEN "payload" ELSE "error"
  /\ UNCHANGED <<peer, stream, sent, closed, taken, result>>

PortAt(payload, i) == Uint16(payload, i)

\* The header in a payload with addresses of the given type and size.
Parsed(net, size, payload) ==
  IF Len(payload) < 2 * size + 4 THEN NoHeader
  ELSE [remote |-> [net |-> net, ip |-> SubSeq(payload, 1, size),
                    port |-> PortAt(payload, 2 * size + 1)],
        local  |-> [net |-> net, ip |-> SubSeq(payload, size + 1, 2 * size),
                    port |-> PortAt(payload, 2 * size + 3)]]

parseProxyHeader(family, payload) ==
  CASE family = familyTCP4 -> Parsed("TCP", 4, payload)
    [] family = familyUDP4 -> Parsed("UDP", 4, payload)
    [] family = familyTCP6 -> Parsed("TCP", 16, payload)
    [] family = familyUDP6 -> Parsed("UDP", 16, payload)
    [] OTHER -> NoHeader

\* io.ReadFull returned the payload: ReadHeader interprets the command.
Interpret ==
  /\ pc = "payload" /\ taken = Wanted
  /\ LET command == Preamble[13] % 16
         payload == SubSeq(stream, preambleSize + 1, taken)
     IN result' = CASE command = commandLocal -> ConnAddrs
                    [] command = commandProxy -> parseProxyHeader(Preamble[14], payload)
                    [] OTHER -> NoHeader
  /\ pc' = IF result' = NoHeader THEN "error" ELSE "ok"
  /\ UNCHANGED <<peer, stream, sent, closed, taken>>

ReadHeader == ReadSome \/ ReadEnds \/ CheckPreamble \/ Interpret

\* The addresses that the connection returned by Accept has.
proxyConn(header) == [local |-> header.local, remote |-> header.remote]
-----------------------------------------------------------------------------
(* Properties.                                                             *)

\* The same address, in whichever of its forms it is stored (net.IP.Equal).
To16(ip) == IF Len(ip) = 4 THEN MappedPrefix \o ip ELSE ip
Equal(addr, other) ==
  addr.net = other.net /\ addr.port = other.port /\ To16(addr.ip) = To16(other.ip)

\* What one side formats the other side reads: the connection that Accept
\* returns (proxy/listener.go:124-128) has the client's address as its remote
\* and the proxy's as its local address, however the bytes were split and
\* whatever TLVs follow; a health check of the proxy itself (command LOCAL)
\* has the connection's own addresses.
RoundTrip ==
  pc = "ok" =>
    LET conn == proxyConn(result)
        truth == IF peer.fault = "local" THEN ConnAddrs ELSE peer.header
    IN Equal(conn.remote, truth.remote) /\ Equal(conn.local, truth.local)

\* ReadHeader returns either a header or an error.  It accepts nothing but a
\* header it understands completely, and
\* refuses such a header only if the connection ended within it.  Headers
\* that Format writes for addresses other than TCP and UDP are not understood.
Verdict ==
  LET understood == \/ peer.fault = "local"
                    \/ peer.fault = "none" /\ Spoken(peer.header)
  IN /\ pc = "ok" <=> result # NoHeader
     /\ pc = "ok" => understood
     /\ pc = "error" => ~understood \/ (closed /\ sent < MessageSize)

\* ReadHeader returns once the whole header has arrived, without waiting for
\* the client's data; a peer that does not speak PROXY v2 is refused after 16
\* bytes, whatever length these seem to announce; and a closed connection
\* ends it in any case.
Answered ==
  (\/ sent >= MessageSize
   \/ peer.fault \in {"signature", "version"} /\ sent >= preambleSize
   \/ closed) ~> pc \in {"ok", "error"}
================================================================================
