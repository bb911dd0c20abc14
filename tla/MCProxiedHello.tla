---------------------------- MODULE MCProxiedHello ----------------------------
(* Headers for checking ProxiedHello: IPv4 in 4 and in 16 bytes, IPv6, TCP   *)
(* and UDP, boundary ports, and addresses that are neither.                *)
EXTENDS ProxiedHello

Addr(n, i, p) == [net |-> n, ip |-> i, port |-> p]
v4a == <<192, 0, 2, 1>>
v4b == <<198, 51, 100, 255>>
v6a == <<32, 1, 13, 184, 0, 0, 0, 0, 0, 0, 0, 0, 0, 0, 0, 1>>
v6b == <<32, 1, 13, 184, 0, 0, 0, 0, 0, 0, 255, 255, 0, 0, 0, 2>>
mapped == MappedPrefix \o v4a

MCHeaders == {
  [remote |-> Addr("TCP", v4a, 65535), local |-> Addr("TCP", v4b, 443)],
  [remote |-> Addr("TCP", mapped, 255), local |-> Addr("TCP", v4b, 256)],
  [remote |-> Addr("UDP", v4b, 0), local |-> Addr("UDP", v4a, 32768)],
  [remote |-> Addr("TCP", v6a, 50000), local |-> Addr("TCP", v6b, 1)],
  [remote |-> Addr("UDP", v6b, 1), local |-> Addr("UDP", v6a, 65280)],
  [remote |-> Addr("UNIX", <<>>, 0), local |-> Addr("UNIX", <<>>, 0)]}
MCExtras == {<<>>, <<4, 0, 1, 0>>}
MCData == <<22, 3, 1, 9>>
MCSegments == {1, 5, 16, 60}
MCConnAddrs == [remote |-> Addr("TCP", v4b, 40000), local |-> Addr("TCP", v4b, 80)]
================================================================================
