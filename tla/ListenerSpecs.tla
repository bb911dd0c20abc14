----------------------------- MODULE ListenerSpecs -----------------------------
(***************************************************************************)
(* Specifications of listeners: what they mean, and what the opening       *)
(* functions of builtin.go, tls/listener.go and cert/auto.go read in them. *)
(*                                                                         *)
(* A specification such as "tls:/CERT:proxy:tcp:80" is the sequence of its *)
(* elements, from the outermost wrapping type to the socket.  An element   *)
(* has a type and is given some parameters.  In string notation they are   *)
(* the parts of its argument (an empty argument gives none); in the        *)
(* notation of OpenJSON they are members of an object, which was decoded   *)
(* from JSON ("json") or built by the program itself ("map").  "8080" is   *)
(* one element of type "bare", an object without a type is "untyped".      *)
(***************************************************************************)
EXTENDS Naturals, Sequences

CONSTANTS
  BadArgs,   \* values that do not parse as what they are given for
  IPv6,      \* the values that are IPv6 addresses; others are IPv4
  Passed,    \* the sequence of descriptors open at the start (3, 4, ...)
  FdNames    \* $LISTEN_FDNAMES, as a sequence

Given(e, name) == IF name \in DOMAIN e.given THEN e.given[name] ELSE ""
Innermost(spec) == spec[Len(spec)]
-----------------------------------------------------------------------------
(* Sockets: the innermost element.                                         *)

Socket(kind, id) == [kind |-> kind, id |-> id]
Free == Socket("free", <<>>)

\* A network of its own for each family, so that 0.0.0.0 and :: are the
\* interfaces of one family only.
Network(ip) == IF ip = "" THEN "tcp" ELSE IF ip \in IPv6 THEN "tcp6" ELSE "tcp4"

TCPSocket(ip, port) ==
  IF port = "" \/ {ip, port} \cap BadArgs # {} THEN Free
  ELSE Socket(Network(ip), <<ip, port>>)

\* The first of a set of positions.
First(positions) == CHOOSE i \in positions : \A j \in positions : i <= j

\* The descriptor that has a name: the first one.
NamedFd(name) ==
  LET hits == {i \in DOMAIN FdNames : FdNames[i] = name}
  IN IF hits = {} THEN Free
     ELSE Socket("passed", <<Passed[First(hits)]>>)

\* The socket of element e, if its TCP port is port.
SocketAt(e, port) ==
  CASE e.type \in {"tcp", "bare"} -> TCPSocket(Given(e, "address"), port)
    [] e.type = "unix" -> IF Given(e, "path") \in BadArgs \cup {""} THEN Free
                          ELSE Socket("unix", <<e.given.path>>)
    [] e.type = "fd" -> IF Given(e, "fd") \in BadArgs \cup {""} THEN Free
                        ELSE Socket("passed", <<e.given.fd>>)
    [] e.type = "fdname" -> NamedFd(Given(e, "name"))
    [] OTHER -> Free

\* What the element means ...
Requested(e) == SocketAt(e, Given(e, "port"))

\* ... and what the code reads: in an object that has an address it does not
\* look for a port.
PortRead(e) ==
  IF e.notation # "string" /\ "address" \in DOMAIN e.given THEN "" ELSE Given(e, "port")

Read(e) == SocketAt(e, PortRead(e))

\* The sockets that the argument list of OpenAll asks for.
Asked(list) == {Requested(Innermost(list[i])) : i \in DOMAIN list} \ {Free}
-----------------------------------------------------------------------------
(* Certificates: elements of type "tls".                                   *)

Certs(source, of) == [source |-> source, of |-> of]
NoCerts == Certs("none", <<>>)

\* Where the certificates come from, if the parameters count that are in
\* names.  In string notation the form of CERT_SPEC (its slashes) says which
\* parameter it is.  No other type looks at these parameters.
CertsAmong(e, names) ==
  IF e.type # "tls" THEN NoCerts ELSE
  CASE "cert" \in names -> Certs("file", <<e.given.cert>>)
    [] "cert" \notin names /\ "cert_directory" \in names ->
         Certs("directory", <<e.given.cert_directory>>)
    [] names \cap {"cert", "cert_directory"} = {} /\ "autocert_hostnames" \in names ->
         Certs("autocert", e.given.autocert_hostnames)
    [] OTHER -> NoCerts

CertsMeant(e) == CertsAmong(e, DOMAIN e.given)

\* encoding/json makes an []interface{} of a list: no []string.
CertsRead(e) ==
  CertsAmong(e, DOMAIN e.given \ (IF e.notation = "json" THEN {"autocert_hostnames"} ELSE {}))

\* getAutocertCache: the first of these directories that is known.
AutocertCache(env) ==
  LET dirs == << <<env.AUTOCERT_CACHE_DIR>>,
                 <<IF env.root THEN "/var/lib/autocert-cache" ELSE "">>,
                 <<env.XDG_DATA_HOME, "autocert-cache">>,
                 <<env.HOME, ".local/share/autocert-cache">> >>
      known == {i \in 1..4 : dirs[i][1] # ""}
  IN IF known = {} THEN <<>> ELSE dirs[First(known)]

\* getAutocertEAB: a key that is not base64url is dropped without an error.
AutocertEAB(env) ==
  IF "" \in {env.AUTOCERT_EAB_KID, env.AUTOCERT_EAB_KEY} \/ env.AUTOCERT_EAB_KEY \in BadArgs
  THEN <<>> ELSE <<env.AUTOCERT_EAB_KID, env.AUTOCERT_EAB_KEY>>

\* What an element wraps around a listener: proxy.NewListener, or
\* tls.NewListener with its configuration.
Layer(e, certs, env) ==
  LET auto == certs.source = "autocert"
  IN [type |-> e.type, certs |-> certs,
      protos |-> IF auto THEN {"h2", "http/1.1", "acme-tls/1"} ELSE {"h2", "http/1.1"},
      sni |-> IF e.notation = "string" THEN "" ELSE Given(e, "default_server_name"),
      cache |-> IF auto THEN AutocertCache(env) ELSE <<>>,
      eab |-> IF auto THEN AutocertEAB(env) ELSE <<>>]
================================================================================
