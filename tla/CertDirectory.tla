----------------------------- MODULE CertDirectory -----------------------------
(***************************************************************************)
(* GetCertificateFromDirectory of cert/dir.go, with the key types of       *)
(* cert/keytype.go and the default server name of cert/sni.go, on top of   *)
(* the file cache (module FileCache), while files of the directory change. *)
(*                                                                         *)
(* Each TLS handshake calls GetCertificate, which tries up to six files.   *)
(* Each try is a call of the cache's Load, whose steps interleave with     *)
(* changes of the files and with the other handshakes.                     *)
(*                                                                         *)
(* A server name is the sequence of its labels: the empty name is <<"">>,  *)
(* and a name with a leading dot has an empty first label of several.      *)
(***************************************************************************)
EXTENDS Naturals, Sequences, FiniteSets

CONSTANTS
  Handshakes,         \* goroutines that call GetCertificate
  Hellos,             \* ClientHellos: [serverName, schemes, suites]
  DefaultServerName,  \* the argument of GetCertificateDefaultServerName
  SlashLabels,        \* labels that contain a slash
  MaxPresent,         \* bound: files in the directory at the beginning
  Certs, Broken, Missing, None, CoarseTime, MaxTime  \* see FileCache

VARIABLES
  content, modTime, now, changes, expired, certs, cachedAt,
  pc, filename, statTime, cert, result, seen,  \* see FileCache
  at,       \* where each call of GetCertificate is, or how it returned
  hello,    \* its argument
  todo,     \* the files it has still to try
  observed  \* history: what each file has contained since the call began

cacheState == <<content, modTime, now, changes, expired, certs, cachedAt,
                pc, filename, statTime, cert, result, seen>>
dirVars == <<at, hello, todo, observed>>
-----------------------------------------------------------------------------
Exts == {".pem.ecdsa", ".pem.rsa", ".pem"}
EmptyName == <<"">>

\* "_" + serverNameSuffix
Wildcard(serverName) == <<"_">> \o Tail(serverName)

File(name, ext) == [name |-> name, ext |-> ext]

\* GetCertificate refuses these names.
Invalid(serverName) ==
  \/ serverName = EmptyName
  \/ serverName[1] = ""
  \/ \E i \in 1..Len(serverName) : serverName[i] \in SlashLabels

\* The files of the directory that concern one of the clients.
Files ==
  LET names == {n \in {h.serverName : h \in Hellos} \cup {DefaultServerName} : ~Invalid(n)} IN
  {File(n, e) : n \in names \cup {Wildcard(s) : s \in names}, e \in Exts}

\* Somebody may ask for some file; the rest is as in FileCache.
ASSUME CertDirectoryAssumption ==
  /\ \A h \in Hellos :
       h = [serverName |-> h.serverName, schemes |-> h.schemes, suites |-> h.suites]
  /\ Files # {}
  /\ MaxTime \in Nat
  /\ CoarseTime \in BOOLEAN
  /\ {Broken, Missing, None} \cap Certs = {}
  /\ Broken # Missing /\ Broken # None /\ Missing # None

Cache == INSTANCE FileCache WITH Loaders <- Handshakes
-----------------------------------------------------------------------------
(* Faulty variants of definitions below, each a plausible slip in the      *)
(* code.  No action uses them: putting one in the place of the definition  *)
(* it is a variant of shows that a property can fail.                      *)

\* getSupportedKeyTypes looks at the cipher suites only, which say nothing
\* in TLS 1.3.
getSupportedKeyTypes_Suites(h) == h.suites \cap {"ecdsa", "rsa"}
-----------------------------------------------------------------------------
(* GetCertificate.                                                         *)

\* The key types that the client's signature schemes (or, if it sent none,
\* its cipher suites) are for; both are given as sets of kinds.
getSupportedKeyTypes(h) ==
  (IF h.schemes # None THEN h.schemes ELSE h.suites) \cap {"ecdsa", "rsa"}

\* GetCertificateDefaultServerName; an empty default is no default.
WithDefault(h) ==
  IF h.serverName = EmptyName THEN [h EXCEPT !.serverName = DefaultServerName] ELSE h

\* The files in the order in which GetCertificate tries them.
SearchOrder(h) ==
  LET both(ext) == <<File(h.serverName, ext), File(Wildcard(h.serverName), ext)>>
      types == getSupportedKeyTypes(h)
  IN (IF "ecdsa" \in types THEN both(".pem.ecdsa") ELSE <<>>)
       \o (IF "rsa" \in types THEN both(".pem.rsa") ELSE <<>>)
       \o both(".pem")

\* A handshake calls GetCertificate, which refuses bad names at once.
Call(p, h) ==
  /\ at[p] \in {"idle", "cert", "error"}
  /\ hello' = [hello EXCEPT ![p] = h]
  /\ LET name == WithDefault(h).serverName IN
       /\ at' = [at EXCEPT ![p] = IF Invalid(name) THEN "error" ELSE "search"]
       /\ todo' = [todo EXCEPT ![p] = IF Invalid(name) THEN <<>> ELSE SearchOrder(WithDefault(h))]
  /\ observed' = [observed EXCEPT ![p] = [f \in Files |-> {content[f]}]]
  /\ UNCHANGED cacheState

\* It calls dir.loadCertificate for the next file.
Try(p) ==
  /\ at[p] = "search" /\ todo[p] # <<>>
  /\ Cache!LoadCall(p, Head(todo[p]))
  /\ at' = [at EXCEPT ![p] = "load"]
  /\ UNCHANGED <<hello, todo, observed>>

Loading(p) ==
  /\ at[p] = "load"
  /\ Cache!LoadStep(p)
  /\ UNCHANGED dirVars

\* err == nil
Success(r) == r \in Certs

\* dir.loadCertificate returned.
Tried(p) ==
  /\ at[p] = "load" /\ pc[p] = "idle"
  /\ IF Success(result[p])
     THEN at' = [at EXCEPT ![p] = "cert"] /\ UNCHANGED todo
     ELSE at' = [at EXCEPT ![p] = "search"] /\ todo' = [todo EXCEPT ![p] = Tail(@)]
  /\ UNCHANGED <<hello, observed>> /\ UNCHANGED cacheState

\* Nothing is left to try.
NotFound(p) ==
  /\ at[p] = "search" /\ todo[p] = <<>>
  /\ at' = [at EXCEPT ![p] = "error"]
  /\ UNCHANGED <<hello, todo, observed>> /\ UNCHANGED cacheState

\* A file is installed, replaced, damaged or removed.
Change(f, v) ==
  /\ Cache!Change(f, v)
  /\ observed' = [p \in Handshakes |-> [observed[p] EXCEPT ![f] = @ \cup {v}]]
  /\ UNCHANGED <<at, hello, todo>>

\* Certificates expire, and the cleaner of the cache runs.
Expire(c) == Cache!Expire(c) /\ UNCHANGED dirVars
Clean == Cache!Clean /\ UNCHANGED dirVars
-----------------------------------------------------------------------------
Init ==
  /\ \E S \in SUBSET Files :
       /\ Cardinality(S) <= MaxPresent
       /\ \E c \in [S -> Certs \cup {Broken}] :
            content = [f \in Files |-> IF f \in S THEN c[f] ELSE Missing]
  /\ filename = [p \in Handshakes |-> CHOOSE f \in Files : TRUE]
  /\ Cache!Init
  /\ at = [p \in Handshakes |-> "idle"]
  /\ hello = [p \in Handshakes |-> CHOOSE h \in Hellos : TRUE]
  /\ todo = [p \in Handshakes |-> <<>>]
  /\ observed = [p \in Handshakes |-> [f \in Files |-> {content[f]}]]

Next ==
  \/ \E p \in Handshakes, h \in Hellos : Call(p, h)
  \/ \E p \in Handshakes : Try(p)
  \/ \E p \in Handshakes : Loading(p)
  \/ \E p \in Handshakes : Tried(p)
  \/ \E p \in Handshakes : NotFound(p)
  \/ \E f \in Files, v \in Cache!Contents : Change(f, v)
  \/ \E c \in Certs : Expire(c)
  \/ Clean

Spec == Init /\ [][Next]_<<cacheState, dirVars>>
-----------------------------------------------------------------------------
(* Properties.                                                             *)

\* The documentation of GetCertificateFromDirectory (cert/dir.go:107-130):
\* the files that may be used for h, and which of two is preferred.
Supports(h, type) == type \in (IF h.schemes # None THEN h.schemes ELSE h.suites)
Eligible(h) ==
  {f \in Files : /\ f.name \in {h.serverName, Wildcard(h.serverName)}
                 /\ f.ext = ".pem.ecdsa" => Supports(h, "ecdsa")
                 /\ f.ext = ".pem.rsa" => Supports(h, "rsa")}
Place == [e \in Exts |-> CASE e = ".pem.ecdsa" -> 1 [] e = ".pem.rsa" -> 2 [] OTHER -> 3]
Preferred(g, f, h) ==
  \/ Place[g.ext] < Place[f.ext]
  \/ g.ext = f.ext /\ g.name = h.serverName /\ f.name # h.serverName

\* GetCertificate returns what an eligible file contained during the call.
\* It passes over a preferred file, or reports that there is none, only if
\* that file was missing or damaged at some moment of the call; neither the
\* changes nor the entries that other handshakes left in the cache can make
\* it use an outdated or a less preferred certificate.
Best ==
  \A p \in Handshakes :
    LET h == WithDefault(hello[p])
        usable(f) == observed[p][f] \subseteq Certs
    IN /\ at[p] = "cert" =>
            LET f == Head(todo[p]) IN
            /\ ~Invalid(h.serverName)
            /\ f \in Eligible(h)
            /\ result[p] \in Certs \cap observed[p][f]
            /\ \A g \in Eligible(h) : Preferred(g, f, h) => ~usable(g)
       /\ at[p] = "error" =>
            Invalid(h.serverName) \/ \A g \in Eligible(h) : ~usable(g)
================================================================================
