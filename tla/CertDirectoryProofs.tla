-------------------------- MODULE CertDirectoryProofs --------------------------
(***************************************************************************)
(* Theorems about CertDirectory for all sets of handshakes, clients and    *)
(* files, provided that two changes never give the same modification time: *)
(* whatever happens to the files during its six lookups, GetCertificate    *)
(* returns the best certificate in the sense of the documentation.  What   *)
(* the lookups of the cache return is taken from FileCacheProofs.          *)
(*                                                                         *)
(* And about PemFile, the loading of one file, which has a specification   *)
(* of its own (LoadSpec): whatever the blocks and their number,            *)
(* LoadCertificate accepts the documented format, refuses what could not   *)
(* be served, and returns the blocks in their order.                       *)
(***************************************************************************)
EXTENDS CertDirectory, PemFile, SequenceTheorems, FiniteSetTheorems, TLAPS

CacheProofs == INSTANCE FileCacheProofs WITH Loaders <- Handshakes

\* The ClientHello of a handshake as GetCertificate uses it.
HelloOf(p) == WithDefault(hello[p])

\* File g has been good during all of the call.
Intact(p, g) == observed[p][g] \subseteq Certs

\* Where the handshakes are, and which files they have still to try.
TodoInv ==
  /\ at \in [Handshakes -> {"idle", "search", "load", "cert", "error"}]
  /\ DOMAIN hello = Handshakes
  /\ todo \in [Handshakes -> Seq(Files)]
  /\ \A p \in Handshakes :
       /\ at[p] # "idle" => hello[p] \in Hellos
       /\ at[p] \in {"load", "cert"} => todo[p] # <<>>

\* What was observed are contents of files, the present one among them.
ObservedInv ==
  /\ observed \in [Handshakes -> [Files -> SUBSET Cache!Contents]]
  /\ \A p \in Handshakes, f \in Files : content[f] \in observed[p][f]

\* A call is in Load exactly if it says so, and Load sees what the call sees.
InLoad(p) ==
  /\ at[p] # "load" => pc[p] = "idle"
  /\ at[p] = "load" =>
       /\ filename[p] = Head(todo[p])
       /\ seen[p] \subseteq observed[p][filename[p]]
       /\ pc[p] = "idle" => result[p] # None

\* A list of files is one of eligible files, the preferred ones first.
Ordered(list, h) ==
  /\ \A i \in 1..Len(list) : list[i] \in Eligible(h)
  /\ \A i, j \in 1..Len(list) : i < j => ~Preferred(list[j], list[i], h)

Listed(g, list) == \E i \in 1..Len(list) : list[i] = g

\* A search goes through the eligible files in the order of preference; those
\* that are no longer to be tried were missing or damaged at some moment.
InOrder(p) ==
  at[p] \in {"search", "load", "cert"} =>
    /\ ~Invalid(HelloOf(p).serverName)
    /\ Ordered(todo[p], HelloOf(p))
    /\ \A g \in Eligible(HelloOf(p)) : Listed(g, todo[p]) \/ ~Intact(p, g)

\* It ends with the certificate of the first file left, or with none.
Found(p) ==
  /\ at[p] = "cert" => result[p] \in Certs \cap observed[p][Head(todo[p])]
  /\ at[p] = "error" =>
       \/ Invalid(HelloOf(p).serverName)
       \/ \A g \in Eligible(HelloOf(p)) : ~Intact(p, g)

\* The inductive invariant is this with TodoInv and the one of the cache.
SearchInv ==
  /\ ObservedInv
  /\ \A p \in Handshakes : InLoad(p) /\ InOrder(p) /\ Found(p)
-----------------------------------------------------------------------------
(* The order of the search is the documented one.                          *)

\* Which type of key is preferred to which.
LEMMA Places == Place[".pem.ecdsa"] = 1 /\ Place[".pem.rsa"] = 2 /\ Place[".pem"] = 3
  BY DEF Place, Exts

\* Of the six files that concern a client, none is preferred to itself, to the
\* one without wildcard, or to one with a preferred type of key.
LEMMA NotPreferred ==
  ASSUME NEW h
  PROVE  /\ \A e \in Exts : \A x :
              ~Preferred(File(x, e), File(h.serverName, e), h)
         /\ \A x, y :
              /\ ~Preferred(File(y, ".pem.rsa"), File(x, ".pem.ecdsa"), h)
              /\ ~Preferred(File(y, ".pem"), File(x, ".pem.ecdsa"), h)
              /\ ~Preferred(File(y, ".pem"), File(x, ".pem.rsa"), h)
  BY Places DEF Preferred, File, Exts

\* GetCertificate's argument with the default filled in.
LEMMA HelloIs ==
  ASSUME NEW h \in Hellos
  PROVE  /\ WithDefault(h).serverName \in {g.serverName : g \in Hellos} \cup {DefaultServerName}
         /\ WithDefault(h).schemes = h.schemes /\ WithDefault(h).suites = h.suites
  BY CertDirectoryAssumption DEF WithDefault

\* The files that may be used for h are those of its name and of its wildcard.
LEMMA EligibleIs ==
  ASSUME NEW h, h.serverName \in {g.serverName : g \in Hellos} \cup {DefaultServerName},
         ~Invalid(h.serverName)
  PROVE  \A f : f \in Eligible(h) <=>
           \E n \in {h.serverName, Wildcard(h.serverName)}, e \in Exts :
             /\ f = File(n, e)
             /\ e = ".pem.ecdsa" => "ecdsa" \in getSupportedKeyTypes(h)
             /\ e = ".pem.rsa" => "rsa" \in getSupportedKeyTypes(h)
<1> DEFINE n == h.serverName
           w == Wildcard(h.serverName)
<1>1. \A e \in Exts : File(n, e) \in Files /\ File(w, e) \in Files
  BY DEF Files
<1>2. \A f \in Files : \E x, e : e \in Exts /\ f = File(x, e)
  BY DEF Files
<1>3. \A x, e : File(x, e).name = x /\ File(x, e).ext = e
  BY DEF File
<1>4. \A type \in {"ecdsa", "rsa"} : Supports(h, type) <=> type \in getSupportedKeyTypes(h)
  BY DEF Supports, getSupportedKeyTypes
<1> HIDE DEF n, w
<1>5. \A f : f \in Eligible(h) <=>
        /\ f \in Files /\ f.name \in {n, w}
        /\ f.ext = ".pem.ecdsa" => "ecdsa" \in getSupportedKeyTypes(h)
        /\ f.ext = ".pem.rsa" => "rsa" \in getSupportedKeyTypes(h)
  BY <1>4 DEF Eligible, n, w
<1>6. QED
  BY <1>1, <1>2, <1>3, <1>5 DEF n, w

\* Two lists one after the other, where the second has nothing to be preferred.
LEMMA Joined ==
  ASSUME NEW h, NEW s \in Seq(Files), NEW t \in Seq(Files), Ordered(s, h), Ordered(t, h),
         \A f, g : Listed(f, s) /\ Listed(g, t) => ~Preferred(g, f, h)
  PROVE  /\ s \o t \in Seq(Files)
         /\ Ordered(s \o t, h)
         /\ \A g : Listed(g, s \o t) <=> Listed(g, s) \/ Listed(g, t)
<1>1. /\ s \o t \in Seq(Files) /\ Len(s \o t) = Len(s) + Len(t)
      /\ Len(s) \in Nat /\ Len(t) \in Nat
  BY ConcatProperties, LenProperties
<1>2. \A i \in 1..Len(s) : (s \o t)[i] = s[i]
  BY <1>1, ConcatProperties
<1>3. \A i \in 1..Len(t) : (s \o t)[Len(s) + i] = t[i]
  <2>1. TAKE i \in 1..Len(t)
  <2>2. Len(s) + i \in 1..Len(s) + Len(t) /\ ~(Len(s) + i <= Len(s)) /\ (Len(s) + i) - Len(s) = i
    BY <1>1
  <2>3. QED
    BY <2>2, ConcatProperties
<1>4. \A i \in 1..Len(s \o t) : \/ i \in 1..Len(s)
                                \/ \E j \in 1..Len(t) : i = Len(s) + j
  <2>1. \A i \in 1..Len(s \o t) : \/ i \in 1..Len(s)
                                  \/ i - Len(s) \in 1..Len(t) /\ i = Len(s) + (i - Len(s))
    BY <1>1
  <2>2. QED
    BY <2>1
<1> DEFINE u == s \o t
           m == Len(s)
<1> HIDE DEF u, m
<1>5. \A g : Listed(g, u) <=> Listed(g, s) \/ Listed(g, t)
  <2>1. ASSUME NEW g, Listed(g, u) PROVE Listed(g, s) \/ Listed(g, t)
    BY <2>1, <1>2, <1>3, <1>4 DEF Listed, u
  <2>2. ASSUME NEW g, Listed(g, s) PROVE Listed(g, u)
    BY <2>2, <1>1, <1>2 DEF Listed, u
  <2>3. ASSUME NEW g, Listed(g, t) PROVE Listed(g, u)
    <3>1. PICK j \in 1..Len(t) : t[j] = g
      BY <2>3 DEF Listed
    <3>2. Len(s) + j \in 1..Len(u)
      BY <1>1 DEF u
    <3>3. QED
      BY <3>1, <3>2, <1>3 DEF Listed, u
  <2>4. QED
    BY <2>1, <2>2, <2>3
<1>6. Ordered(u, h)
  <2>1. \A i \in 1..Len(u) : u[i] \in Eligible(h)
    BY <1>2, <1>3, <1>4 DEF Ordered, u
  <2>2. ASSUME NEW i \in 1..Len(u), NEW j \in 1..Len(u), i < j
        PROVE  ~Preferred(u[j], u[i], h)
    <3>1. CASE j \in 1..m
      <4>1. i \in 1..m
        BY <2>2, <3>1, <1>1 DEF m
      <4>2. u[i] = s[i] /\ u[j] = s[j]
        BY <3>1, <4>1, <1>2 DEF u, m
      <4>3. QED
        BY <2>2, <3>1, <4>1, <4>2 DEF Ordered, m
    <3>2. CASE j \notin 1..m
      <4>1. PICK k \in 1..Len(t) : j = m + k
        BY <3>2, <1>4 DEF u, m
      <4>2. u[j] = t[k]
        BY <4>1, <1>3 DEF u, m
      <4>3. CASE i \in 1..m
        BY <4>2, <4>3, <1>2 DEF Listed, u, m
      <4>4. CASE i \notin 1..m
        <5>1. PICK l \in 1..Len(t) : i = m + l
          BY <4>4, <1>4 DEF u, m
        <5>2. u[i] = t[l] /\ l < k
          BY <2>2, <4>1, <5>1, <1>1, <1>3 DEF u, m
        <5>3. QED
          BY <4>2, <5>2 DEF Ordered
      <4>5. QED
        BY <4>3, <4>4
    <3>3. QED
      BY <3>1, <3>2
  <2>3. QED
    BY <2>1, <2>2 DEF Ordered
<1>7. QED
  BY <1>1, <1>5, <1>6 DEF u

\* The two files for a type of key, if the client supports it.
LEMMA OfOneType ==
  ASSUME NEW h, NEW a \in Files, NEW b \in Files, NEW c \in BOOLEAN,
         c => a \in Eligible(h) /\ b \in Eligible(h), ~Preferred(b, a, h)
  PROVE  LET s == IF c THEN <<a, b>> ELSE <<>>
         IN /\ s \in Seq(Files)
            /\ Ordered(s, h)
            /\ \A g : Listed(g, s) <=> c /\ g \in {a, b}
<1>1. CASE c
  BY <1>1 DEF Ordered, Listed
<1>2. CASE ~c
  BY <1>2 DEF Ordered, Listed
<1>3. QED
  BY <1>1, <1>2

\* GetCertificate tries all files that may be used, and in the right order.
LEMMA SearchOrderIs ==
  ASSUME NEW h, h.serverName \in {g.serverName : g \in Hellos} \cup {DefaultServerName},
         ~Invalid(h.serverName)
  PROVE  /\ SearchOrder(h) \in Seq(Files)
         /\ Ordered(SearchOrder(h), h)
         /\ \A g \in Eligible(h) : Listed(g, SearchOrder(h))
<1> DEFINE a1 == File(h.serverName, ".pem.ecdsa")
           a2 == File(Wildcard(h.serverName), ".pem.ecdsa")
           b1 == File(h.serverName, ".pem.rsa")
           b2 == File(Wildcard(h.serverName), ".pem.rsa")
           c1 == File(h.serverName, ".pem")
           c2 == File(Wildcard(h.serverName), ".pem")
           types == getSupportedKeyTypes(h)
           s == IF "ecdsa" \in types THEN <<a1, a2>> ELSE <<>>
           t == IF "rsa" \in types THEN <<b1, b2>> ELSE <<>>
           u == IF TRUE THEN <<c1, c2>> ELSE <<>>
<1>1. \A f : f \in Eligible(h) <=> \/ f \in {a1, a2} /\ "ecdsa" \in types
                                   \/ f \in {b1, b2} /\ "rsa" \in types
                                   \/ f \in {c1, c2}
  BY EligibleIs DEF Exts
<1>2. SearchOrder(h) = s \o t \o u
  BY DEF SearchOrder
<1>3. {a1, a2, b1, b2, c1, c2} \subseteq Files
  BY DEF Files, Exts
<1>4. /\ ~Preferred(a2, a1, h) /\ ~Preferred(b2, b1, h) /\ ~Preferred(c2, c1, h)
      /\ \A x \in {a1, a2}, y \in {b1, b2}, z \in {c1, c2} :
           ~Preferred(y, x, h) /\ ~Preferred(z, x, h) /\ ~Preferred(z, y, h)
  BY NotPreferred DEF Exts
<1> HIDE DEF a1, a2, b1, b2, c1, c2, types
<1>5. s \in Seq(Files) /\ Ordered(s, h) /\ \A g : Listed(g, s) <=> "ecdsa" \in types /\ g \in {a1, a2}
  BY <1>1, <1>3, <1>4, OfOneType
<1>6. t \in Seq(Files) /\ Ordered(t, h) /\ \A g : Listed(g, t) <=> "rsa" \in types /\ g \in {b1, b2}
  BY <1>1, <1>3, <1>4, OfOneType
<1>7. u \in Seq(Files) /\ Ordered(u, h) /\ \A g : Listed(g, u) <=> g \in {c1, c2}
  BY <1>1, <1>3, <1>4, OfOneType
<1> HIDE DEF s, t, u
<1>8. s \o t \in Seq(Files) /\ Ordered(s \o t, h)
      /\ \A g : Listed(g, s \o t) <=> Listed(g, s) \/ Listed(g, t)
  BY <1>4, <1>5, <1>6, Joined
<1>9. /\ (s \o t) \o u \in Seq(Files) /\ Ordered((s \o t) \o u, h)
      /\ \A g : Listed(g, (s \o t) \o u) <=> Listed(g, s \o t) \/ Listed(g, u)
  <2>1. \A f, g : Listed(f, s \o t) /\ Listed(g, u) => ~Preferred(g, f, h)
    BY <1>4, <1>5, <1>6, <1>7, <1>8
  <2>2. QED
    BY <1>7, <1>8, <2>1, Joined
<1>10. QED
  BY <1>1, <1>2, <1>5, <1>6, <1>7, <1>8, <1>9
-----------------------------------------------------------------------------
(* The directory only calls Load for files of the directory, so that it    *)
(* uses the cache as FileCache allows.                                     *)

\* What is left to try after the first of the files.
LEMMA TailIs ==
  ASSUME NEW s \in Seq(Files), s # <<>>
  PROVE  /\ Head(s) \in Files /\ Tail(s) \in Seq(Files)
         /\ Len(s) \in Nat /\ Len(s) > 0 /\ Head(s) = s[1]
         /\ Len(Tail(s)) = Len(s) - 1
         /\ \A i \in 1..Len(s) - 1 : Tail(s)[i] = s[i + 1]
  BY HeadTailProperties, LenProperties, EmptySeq

\* A search begins with the files of SearchOrder, all in the directory.
LEMMA TodoInvariance == Spec => []TodoInv
<1>1. Init => TodoInv
  <2> SUFFICES ASSUME Init PROVE TodoInv
    OBVIOUS
  <2>1. <<>> \in Seq(Files)
    BY EmptySeq
  <2>2. QED
    BY <2>1 DEF Init, TodoInv
<1>2. TodoInv /\ [Next]_<<cacheState, dirVars>> => TodoInv'
  <2> SUFFICES ASSUME TodoInv, [Next]_<<cacheState, dirVars>> PROVE TodoInv'
    OBVIOUS
  <2>1. ASSUME NEW p \in Handshakes, NEW h \in Hellos, Call(p, h) PROVE TodoInv'
    <3> DEFINE name == WithDefault(h).serverName
               list == IF Invalid(name) THEN <<>> ELSE SearchOrder(WithDefault(h))
    <3>1. list \in Seq(Files)
      BY HelloIs, SearchOrderIs, EmptySeq
    <3> HIDE DEF list
    <3>2. todo' = [todo EXCEPT ![p] = list] /\ hello' = [hello EXCEPT ![p] = h]
          /\ at' = [at EXCEPT ![p] = IF Invalid(name) THEN "error" ELSE "search"]
      BY <2>1 DEF Call, list
    <3>3. QED
      BY <3>1, <3>2 DEF TodoInv
  <2>2. ASSUME NEW p \in Handshakes, Try(p) \/ NotFound(p) PROVE TodoInv'
    BY <2>2 DEF TodoInv, Try, NotFound
  <2>3. ASSUME NEW p \in Handshakes, Tried(p) PROVE TodoInv'
    <3>1. at[p] = "load" /\ hello' = hello
          /\ \/ at' = [at EXCEPT ![p] = "cert"] /\ todo' = todo
             \/ at' = [at EXCEPT ![p] = "search"] /\ todo' = [todo EXCEPT ![p] = Tail(@)]
      BY <2>3 DEF Tried
    <3>2. Tail(todo[p]) \in Seq(Files)
      BY <3>1, TailIs DEF TodoInv
    <3>3. QED
      BY <3>1, <3>2 DEF TodoInv
  <2>4. CASE UNCHANGED <<at, hello, todo>>
    BY <2>4 DEF TodoInv
  <2>5. QED
    BY <2>1, <2>2, <2>3, <2>4 DEF Next, Loading, Change, Expire, Clean, dirVars
<1>3. QED
  BY <1>1, <1>2, PTL DEF Spec

\* Each step is one of the cache, its loaders and the files, or none of it.
THEOREM ImplementsCache == Spec => Cache!Spec
<1>1. Init => Cache!Init
  BY DEF Init
<1>2. TodoInv /\ [Next]_<<cacheState, dirVars>> => [Cache!Next]_Cache!vars
  <2> SUFFICES ASSUME TodoInv, [Next]_<<cacheState, dirVars>> PROVE [Cache!Next]_Cache!vars
    OBVIOUS
  <2>1. ASSUME NEW p \in Handshakes, Try(p) PROVE Cache!Next
    <3>1. todo[p] \in Seq(Files) /\ todo[p] # <<>> /\ Cache!LoadCall(p, Head(todo[p]))
      BY <2>1 DEF TodoInv, Try
    <3>2. Head(todo[p]) \in Files
      BY <3>1, TailIs
    <3>3. QED
      BY <3>1, <3>2 DEF Cache!Next
  <2>2. ASSUME NEW p \in Handshakes, Loading(p) PROVE Cache!Next
    BY <2>2 DEF Loading, Cache!Next
  <2>3. ASSUME NEW f \in Files, NEW v \in Cache!Contents, Change(f, v) PROVE Cache!Next
    BY <2>3 DEF Change, Cache!Next
  <2>4. ASSUME \/ \E c \in Certs : Expire(c)
               \/ Clean
        PROVE  Cache!Next
    BY <2>4 DEF Expire, Clean, Cache!Next
  <2>5. ASSUME UNCHANGED cacheState PROVE UNCHANGED Cache!vars
    BY <2>5 DEF cacheState, Cache!vars
  <2>6. QED
    BY <2>1, <2>2, <2>3, <2>4, <2>5 DEF Next, Call, Tried, NotFound
<1>3. QED
  BY <1>1, <1>2, TodoInvariance, PTL DEF Spec, Cache!Spec

\* The two instances of FileCache are the same specification.
LEMMA SameCache == Cache!Spec => CacheProofs!Spec
  BY DEF
      Cache!Spec, Cache!Init, Cache!Next, Cache!Change, Cache!Expire, Cache!LoadCall,
      Cache!LoadStep, Cache!Stat, Cache!Get, Cache!Read, Cache!Add, Cache!Return,
      Cache!IsFresh, Cache!Accepted, Cache!EntryTime, Cache!Clean, Cache!Outdated,
      Cache!Contents, Cache!vars, Cache!fileVars, Cache!cacheVars,
      CacheProofs!Spec, CacheProofs!Init, CacheProofs!Next, CacheProofs!Change,
      CacheProofs!Expire, CacheProofs!LoadCall, CacheProofs!LoadStep, CacheProofs!Stat,
      CacheProofs!Get, CacheProofs!Read, CacheProofs!Add, CacheProofs!Return,
      CacheProofs!IsFresh, CacheProofs!Accepted, CacheProofs!EntryTime, CacheProofs!Clean,
      CacheProofs!Outdated, CacheProofs!Contents, CacheProofs!vars, CacheProofs!fileVars,
      CacheProofs!cacheVars

\* So what Load returns is what the file contained during Load.
LEMMA CacheInvariance ==
  ASSUME CoarseTime = FALSE
  PROVE  Spec => []CacheProofs!IInv
<1>1. CacheProofs!FileCacheAssumption
  BY CertDirectoryAssumption DEF CacheProofs!FileCacheAssumption
<1>2. Spec => CacheProofs!Spec
  BY ImplementsCache, SameCache
<1>3. QED
  BY <1>1, <1>2, CacheProofs!Invariance
-----------------------------------------------------------------------------
(* The steps of the search.                                                *)

\* What GetCertificate sees of a step of Load.
LEMMA LoadStepIs ==
  ASSUME CacheProofs!IInv, NEW p \in Handshakes, Cache!LoadStep(p)
  PROVE  /\ UNCHANGED <<content, filename, seen>>
         /\ \A q \in Handshakes \ {p} : pc'[q] = pc[q] /\ result'[q] = result[q]
         /\ pc[p] # "idle"
         /\ pc'[p] = "idle" => result'[p] # None
<1> USE DEF CacheProofs!IInv, CacheProofs!TypeOK
<1>1. None \notin Certs /\ None # Missing /\ None # Broken
  BY CertDirectoryAssumption
<1>2. CASE Cache!Stat(p)
  BY <1>1, <1>2 DEF Cache!Stat, Cache!Return, Cache!fileVars, Cache!cacheVars
<1>3. CASE Cache!Get(p)
  BY <1>3 DEF Cache!Get, Cache!Return, Cache!IsFresh, Cache!fileVars, Cache!cacheVars
<1>4. CASE Cache!Read(p)
  BY <1>1, <1>4
  DEF Cache!Read, Cache!Return, Cache!fileVars, Cache!cacheVars, CacheProofs!Contents
<1>5. CASE Cache!Add(p)
  BY <1>5 DEF Cache!Add, Cache!Return, Cache!fileVars, CacheProofs!CarryInv
<1>6. QED
  BY <1>2, <1>3, <1>4, <1>5 DEF Cache!LoadStep

\* A handshake keeps what is said about it while others go on, and while more
\* is observed.
LEMMA Keeps ==
  ASSUME NEW p \in Handshakes, InOrder(p), Found(p), TodoInv,
         at'[p] = at[p], hello'[p] = hello[p], todo'[p] = todo[p],
         at[p] = "cert" => result'[p] = result[p],
         \A f \in Files : observed[p][f] \subseteq observed'[p][f]
  PROVE  InOrder(p)' /\ Found(p)'
<1>1. HelloOf(p)' = HelloOf(p)
  BY DEF HelloOf, WithDefault
<1>2. \A g \in Eligible(HelloOf(p)) : ~Intact(p, g) => ~Intact(p, g)'
  BY DEF Eligible, Intact
<1>3. InOrder(p)'
  BY <1>1, <1>2 DEF InOrder
<1>4. at[p] = "cert" => Head(todo[p]) \in Files
  BY TailIs DEF TodoInv
<1>5. Found(p)'
  BY <1>1, <1>2, <1>4 DEF Found
<1>6. QED
  BY <1>3, <1>5

\* All other handshakes keep what is said about them.
LEMMA OthersKeep ==
  ASSUME SearchInv, TodoInv, NEW p \in Handshakes,
         \A q \in Handshakes \ {p} :
           /\ at'[q] = at[q] /\ hello'[q] = hello[q] /\ todo'[q] = todo[q]
           /\ pc'[q] = pc[q] /\ result'[q] = result[q]
           /\ filename'[q] = filename[q] /\ seen'[q] = seen[q]
           /\ observed'[q] = observed[q]
  PROVE  \A q \in Handshakes \ {p} : InLoad(q)' /\ InOrder(q)' /\ Found(q)'
<1>1. TAKE q \in Handshakes \ {p}
<1>2. InLoad(q)'
  BY DEF SearchInv, InLoad
<1>3. InOrder(q)' /\ Found(q)'
  <2>1. InOrder(q) /\ Found(q)
    BY DEF SearchInv
  <2>2. QED
    BY <2>1, Keeps
<1>4. QED
  BY <1>2, <1>3

\* A call begins with all eligible files before it.
LEMMA CallStep ==
  ASSUME SearchInv, TodoInv, NEW p \in Handshakes, NEW h \in Hellos, Call(p, h),
         CacheProofs!IInv
  PROVE  SearchInv'
<1> DEFINE name == WithDefault(h).serverName
<1>1. /\ at[p] \in {"idle", "cert", "error"}
      /\ hello' = [hello EXCEPT ![p] = h]
      /\ at' = [at EXCEPT ![p] = IF Invalid(name) THEN "error" ELSE "search"]
      /\ todo' = [todo EXCEPT ![p] = IF Invalid(name) THEN <<>> ELSE SearchOrder(WithDefault(h))]
      /\ observed' = [observed EXCEPT ![p] = [f \in Files |-> {content[f]}]]
      /\ UNCHANGED <<content, pc, filename, seen, result>>
  BY DEF Call, cacheState
<1>2. ObservedInv'
  BY <1>1 DEF SearchInv, ObservedInv, CacheProofs!IInv, CacheProofs!TypeOK,
              CacheProofs!Contents, Cache!Contents
<1>3. \A q \in Handshakes \ {p} : InLoad(q)' /\ InOrder(q)' /\ Found(q)'
  <2>1. \A q \in Handshakes \ {p} : observed'[q] = observed[q]
    BY <1>1 DEF SearchInv, ObservedInv
  <2>2. \A q \in Handshakes \ {p} : at'[q] = at[q] /\ hello'[q] = hello[q] /\ todo'[q] = todo[q]
    BY <1>1 DEF TodoInv
  <2>3. QED
    BY <1>1, <2>1, <2>2, OthersKeep
<1>4. HelloOf(p)' = WithDefault(h)
  BY <1>1 DEF TodoInv, HelloOf, WithDefault
<1>5. CASE Invalid(name)
  <2>1. at'[p] = "error" /\ pc'[p] = "idle"
    BY <1>1, <1>5 DEF TodoInv, SearchInv, InLoad
  <2>2. InLoad(p)' /\ InOrder(p)' /\ Found(p)'
    BY <1>4, <1>5, <2>1 DEF InLoad, InOrder, Found
  <2>3. QED
    BY <1>2, <1>3, <2>2 DEF SearchInv
<1>6. CASE ~Invalid(name)
  <2>1. at'[p] = "search" /\ pc'[p] = "idle" /\ todo'[p] = SearchOrder(WithDefault(h))
    BY <1>1, <1>6 DEF TodoInv, SearchInv, InLoad
  <2>2. /\ Ordered(SearchOrder(WithDefault(h)), WithDefault(h))
        /\ \A g \in Eligible(WithDefault(h)) : Listed(g, SearchOrder(WithDefault(h)))
    BY <1>6, HelloIs, SearchOrderIs
  <2>3. InLoad(p)' /\ InOrder(p)' /\ Found(p)'
    BY <1>4, <1>6, <2>1, <2>2 DEF InLoad, InOrder, Found
  <2>4. QED
    BY <1>2, <1>3, <2>3 DEF SearchInv
<1>7. QED
  BY <1>5, <1>6

\* Load is called for the first of the files, whose present content the call
\* has observed.
LEMMA TryStep ==
  ASSUME SearchInv, TodoInv, NEW p \in Handshakes, Try(p), CacheProofs!IInv
  PROVE  SearchInv'
<1>1. /\ at[p] = "search" /\ todo[p] # <<>>
      /\ pc' = [pc EXCEPT ![p] = "stat"]
      /\ filename' = [filename EXCEPT ![p] = Head(todo[p])]
      /\ seen' = [seen EXCEPT ![p] = {content[Head(todo[p])]}]
      /\ result' = [result EXCEPT ![p] = None]
      /\ at' = [at EXCEPT ![p] = "load"]
      /\ UNCHANGED <<content, hello, todo, observed>>
  BY DEF Try, Cache!LoadCall, Cache!fileVars
<1>2. /\ DOMAIN pc = Handshakes /\ DOMAIN filename = Handshakes
      /\ DOMAIN seen = Handshakes /\ DOMAIN result = Handshakes
  BY DEF CacheProofs!IInv, CacheProofs!TypeOK
<1>3. Head(todo[p]) \in Files
  BY <1>1, TailIs DEF TodoInv
<1>4. ObservedInv'
  BY <1>1 DEF SearchInv, ObservedInv
<1>5. \A q \in Handshakes \ {p} : InLoad(q)' /\ InOrder(q)' /\ Found(q)'
  <2>1. \A q \in Handshakes \ {p} :
          /\ at'[q] = at[q] /\ pc'[q] = pc[q] /\ result'[q] = result[q]
          /\ filename'[q] = filename[q] /\ seen'[q] = seen[q]
    BY <1>1, <1>2 DEF TodoInv
  <2>2. QED
    BY <1>1, <2>1, OthersKeep
<1>6. at'[p] = "load" /\ HelloOf(p)' = HelloOf(p)
  BY <1>1 DEF TodoInv, HelloOf, WithDefault
<1>7. InLoad(p)'
  BY <1>1, <1>2, <1>3, <1>6 DEF SearchInv, ObservedInv, InLoad
<1>8. InOrder(p)' /\ Found(p)'
  BY <1>1, <1>6 DEF SearchInv, InOrder, Found, Intact
<1>9. QED
  BY <1>4, <1>5, <1>7, <1>8 DEF SearchInv

\* A step of Load does not show until Load returns.
LEMMA LoadingStep ==
  ASSUME SearchInv, TodoInv, NEW p \in Handshakes, Loading(p), CacheProofs!IInv
  PROVE  SearchInv'
<1>1. at[p] = "load" /\ Cache!LoadStep(p) /\ UNCHANGED <<at, hello, todo, observed>>
  BY DEF Loading, dirVars
<1>2. /\ UNCHANGED <<content, filename, seen>>
      /\ \A q \in Handshakes \ {p} : pc'[q] = pc[q] /\ result'[q] = result[q]
      /\ pc'[p] = "idle" => result'[p] # None
  BY <1>1, LoadStepIs
<1>3. ObservedInv'
  BY <1>1, <1>2 DEF SearchInv, ObservedInv
<1>4. \A q \in Handshakes \ {p} : InLoad(q)' /\ InOrder(q)' /\ Found(q)'
  BY <1>1, <1>2, OthersKeep
<1>5. InLoad(p)'
  BY <1>1, <1>2 DEF SearchInv, InLoad
<1>6. InOrder(p)' /\ Found(p)'
  <2>1. InOrder(p) /\ Found(p)
    BY DEF SearchInv
  <2>2. QED
    BY <1>1, <2>1, Keeps
<1>7. QED
  BY <1>3, <1>4, <1>5, <1>6 DEF SearchInv

\* Without its first file an ordered list is ordered.
LEMMA TailOrdered ==
  ASSUME NEW h, NEW s \in Seq(Files), s # <<>>, Ordered(s, h)
  PROVE  /\ Ordered(Tail(s), h)
         /\ \A g : Listed(g, s) <=> g = Head(s) \/ Listed(g, Tail(s))
<1>1. /\ Len(s) \in Nat /\ Len(s) > 0 /\ Head(s) = s[1] /\ Len(Tail(s)) = Len(s) - 1
      /\ \A i \in 1..Len(s) - 1 : Tail(s)[i] = s[i + 1]
  BY TailIs
<1> DEFINE t == Tail(s)
<1> HIDE DEF t
<1>2. Ordered(t, h)
  BY <1>1 DEF Ordered, t
<1>3. ASSUME NEW g, Listed(g, s) PROVE g = Head(s) \/ Listed(g, t)
  <2>1. PICK i \in 1..Len(s) : s[i] = g
    BY <1>3 DEF Listed
  <2>2. CASE i = 1
    BY <1>1, <2>1, <2>2
  <2>3. CASE i # 1
    <3>1. i - 1 \in 1..Len(t) /\ t[i - 1] = g
      BY <1>1, <2>1, <2>3 DEF t
    <3>2. QED
      BY <3>1 DEF Listed
  <2>4. QED
    BY <2>2, <2>3
<1>4. ASSUME NEW g, g = Head(s) \/ Listed(g, t) PROVE Listed(g, s)
  <2>1. CASE g = Head(s)
    BY <1>1, <2>1 DEF Listed
  <2>2. CASE Listed(g, t)
    <3>1. PICK i \in 1..Len(t) : t[i] = g
      BY <2>2 DEF Listed
    <3>2. i + 1 \in 1..Len(s) /\ s[i + 1] = g
      BY <1>1, <3>1 DEF t
    <3>3. QED
      BY <3>2 DEF Listed
  <2>3. QED
    BY <1>4, <2>1, <2>2
<1>5. QED
  BY <1>2, <1>3, <1>4 DEF t

\* The certificate was in the file during the call; without one, the file was
\* missing or damaged at some moment of it.
LEMMA TriedStep ==
  ASSUME SearchInv, TodoInv, NEW p \in Handshakes, Tried(p), CacheProofs!IInv
  PROVE  SearchInv'
<1>1. /\ at[p] = "load" /\ pc[p] = "idle"
      /\ UNCHANGED <<hello, observed, content, pc, filename, seen, result>>
  BY DEF Tried, cacheState
<1>2. todo[p] \in Seq(Files) /\ todo[p] # <<>> /\ Head(todo[p]) \in Files
  BY <1>1, TailIs DEF TodoInv
<1>3. result[p] \in observed[p][Head(todo[p])]
  BY <1>1 DEF SearchInv, InLoad, CacheProofs!IInv, CacheProofs!Reloaded
<1>4. \A q \in Handshakes \ {p} : at'[q] = at[q] /\ todo'[q] = todo[q]
  BY <1>1 DEF Tried, TodoInv
<1>5. \A q \in Handshakes \ {p} : InLoad(q)' /\ InOrder(q)' /\ Found(q)'
  BY <1>1, <1>4, OthersKeep
<1>6. ObservedInv'
  BY <1>1 DEF SearchInv, ObservedInv
<1>7. HelloOf(p)' = HelloOf(p)
  BY <1>1 DEF HelloOf, WithDefault
<1>8. /\ ~Invalid(HelloOf(p).serverName)
      /\ Ordered(todo[p], HelloOf(p))
      /\ \A g \in Eligible(HelloOf(p)) : Listed(g, todo[p]) \/ ~Intact(p, g)
  BY <1>1 DEF SearchInv, InOrder
<1>9. CASE Success(result[p])
  <2>1. at'[p] = "cert" /\ todo'[p] = todo[p] /\ result[p] \in Certs
    BY <1>1, <1>9 DEF Tried, Success, TodoInv
  <2>2. InLoad(p)' /\ InOrder(p)' /\ Found(p)'
    BY <1>1, <1>3, <1>7, <1>8, <2>1 DEF InLoad, InOrder, Found, Intact
  <2>3. QED
    BY <1>5, <1>6, <2>2 DEF SearchInv
<1>10. CASE ~Success(result[p])
  <2>1. at'[p] = "search" /\ todo'[p] = Tail(todo[p]) /\ ~Intact(p, Head(todo[p]))
    BY <1>1, <1>3, <1>10 DEF Tried, Success, TodoInv, Intact
  <2>2. /\ Ordered(Tail(todo[p]), HelloOf(p))
        /\ \A g \in Eligible(HelloOf(p)) : Listed(g, Tail(todo[p])) \/ ~Intact(p, g)
    BY <1>2, <1>8, <2>1, TailOrdered
  <2>3. InLoad(p)' /\ InOrder(p)' /\ Found(p)'
    BY <1>1, <1>7, <1>8, <2>1, <2>2 DEF InLoad, InOrder, Found, Intact
  <2>4. QED
    BY <1>5, <1>6, <2>3 DEF SearchInv
<1>11. QED
  BY <1>9, <1>10

\* When nothing is left, no eligible file was good during all of the call.
LEMMA NotFoundStep ==
  ASSUME SearchInv, TodoInv, NEW p \in Handshakes, NotFound(p)
  PROVE  SearchInv'
<1>1. /\ at[p] = "search" /\ todo[p] = <<>> /\ at' = [at EXCEPT ![p] = "error"]
      /\ UNCHANGED <<hello, todo, observed, content, pc, filename, seen, result>>
  BY DEF NotFound, cacheState
<1>2. ObservedInv'
  BY <1>1 DEF SearchInv, ObservedInv
<1>3. \A q \in Handshakes \ {p} : InLoad(q)' /\ InOrder(q)' /\ Found(q)'
  <2>1. \A q \in Handshakes \ {p} : at'[q] = at[q]
    BY <1>1 DEF TodoInv
  <2>2. QED
    BY <1>1, <2>1, OthersKeep
<1>4. \A g \in Eligible(HelloOf(p)) : ~Intact(p, g)
  BY <1>1 DEF SearchInv, InOrder, Listed
<1>5. at'[p] = "error" /\ HelloOf(p)' = HelloOf(p)
  BY <1>1 DEF TodoInv, HelloOf, WithDefault
<1>6. InLoad(p)' /\ InOrder(p)' /\ Found(p)'
  BY <1>1, <1>4, <1>5 DEF SearchInv, InLoad, InOrder, Found, Intact
<1>7. QED
  BY <1>2, <1>3, <1>6 DEF SearchInv

\* What a file changes to is observed by all calls.
LEMMA ChangeStep ==
  ASSUME SearchInv, TodoInv, NEW f \in Files, NEW v \in Cache!Contents, Change(f, v),
         CacheProofs!IInv
  PROVE  SearchInv'
<1>1. /\ content' = [content EXCEPT ![f] = v]
      /\ seen' = [p \in Handshakes |->
                    IF pc[p] # "idle" /\ filename[p] = f THEN seen[p] \cup {v} ELSE seen[p]]
      /\ observed' = [p \in Handshakes |-> [observed[p] EXCEPT ![f] = @ \cup {v}]]
      /\ UNCHANGED <<at, hello, todo, pc, filename, result>>
  BY DEF Change, Cache!Change
<1>2. /\ content \in [Files -> Cache!Contents]
      /\ filename \in [Handshakes -> Files]
  BY DEF CacheProofs!IInv, CacheProofs!TypeOK, CacheProofs!Contents, Cache!Contents
<1>3. \A p \in Handshakes : \A g \in Files :
        observed'[p][g] = IF g = f THEN observed[p][g] \cup {v} ELSE observed[p][g]
  BY <1>1 DEF SearchInv, ObservedInv
<1>4. ObservedInv'
  <2>1. observed' \in [Handshakes -> [Files -> SUBSET Cache!Contents]]
    BY <1>1 DEF SearchInv, ObservedInv
  <2>2. \A p \in Handshakes, g \in Files : content'[g] \in observed'[p][g]
    BY <1>1, <1>2, <1>3 DEF SearchInv, ObservedInv
  <2>3. QED
    BY <2>1, <2>2 DEF ObservedInv, Cache!Contents
<1>5. ASSUME NEW p \in Handshakes PROVE InLoad(p)' /\ InOrder(p)' /\ Found(p)'
  <2>1. at[p] = "load" => seen'[p] \subseteq observed'[p][filename[p]]
    <3>1. seen'[p] = IF pc[p] # "idle" /\ filename[p] = f THEN seen[p] \cup {v} ELSE seen[p]
      BY <1>1
    <3>2. at[p] = "load" => seen[p] \subseteq observed[p][filename[p]]
      BY DEF SearchInv, InLoad
    <3>3. QED
      BY <1>2, <1>3, <3>1, <3>2
  <2>2. InLoad(p)'
    BY <1>1, <2>1 DEF SearchInv, InLoad
  <2>3. InOrder(p) /\ Found(p)
    BY DEF SearchInv
  <2>4. QED
    BY <1>1, <1>3, <2>2, <2>3, Keeps
<1>6. QED
  BY <1>4, <1>5 DEF SearchInv

\* Nothing else concerns the search.
LEMMA QuietStep ==
  ASSUME SearchInv, UNCHANGED <<dirVars, content, pc, filename, seen, result>>
  PROVE  SearchInv'
<1>1. ObservedInv'
  BY DEF SearchInv, ObservedInv, dirVars
<1>2. \A p \in Handshakes : InLoad(p)' /\ InOrder(p)' /\ Found(p)'
  BY DEF SearchInv, InLoad, InOrder, Found, HelloOf, WithDefault, Intact, dirVars
<1>3. QED
  BY <1>1, <1>2 DEF SearchInv

\* At first nobody searches.
LEMMA InitSearch == Init /\ CacheProofs!IInv => SearchInv
<1> SUFFICES ASSUME Init, CacheProofs!IInv PROVE SearchInv
  OBVIOUS
<1>1. content \in [Files -> Cache!Contents]
  BY DEF CacheProofs!IInv, CacheProofs!TypeOK, CacheProofs!Contents, Cache!Contents
<1>2. ObservedInv
  BY <1>1 DEF Init, ObservedInv
<1>3. \A p \in Handshakes : at[p] = "idle" /\ pc[p] = "idle"
  BY DEF Init, Cache!Init
<1>4. \A p \in Handshakes : InLoad(p) /\ InOrder(p) /\ Found(p)
  BY <1>3 DEF InLoad, InOrder, Found
<1>5. QED
  BY <1>2, <1>4 DEF SearchInv

\* The invariant: a search is in order, and it passes over a file only if
\* that was missing or damaged at some moment of the call.
THEOREM Invariance ==
  ASSUME CoarseTime = FALSE
  PROVE  Spec => []SearchInv
<1>1. ASSUME SearchInv, TodoInv, CacheProofs!IInv, [Next]_<<cacheState, dirVars>>
      PROVE  SearchInv'
  <2>1. CASE \E p \in Handshakes, h \in Hellos : Call(p, h)
    BY <1>1, <2>1, CallStep
  <2>2. CASE \E p \in Handshakes : Try(p)
    BY <1>1, <2>2, TryStep
  <2>3. CASE \E p \in Handshakes : Loading(p)
    BY <1>1, <2>3, LoadingStep
  <2>4. CASE \E p \in Handshakes : Tried(p)
    BY <1>1, <2>4, TriedStep
  <2>5. CASE \E p \in Handshakes : NotFound(p)
    BY <1>1, <2>5, NotFoundStep
  <2>6. CASE \E f \in Files, v \in Cache!Contents : Change(f, v)
    BY <1>1, <2>6, ChangeStep
  <2>7. CASE \E c \in Certs : Expire(c)
    BY <1>1, <2>7, QuietStep DEF Expire, Cache!Expire
  <2>8. CASE Clean
    BY <1>1, <2>8, QuietStep DEF Clean, Cache!Clean, Cache!fileVars
  <2>9. CASE UNCHANGED <<cacheState, dirVars>>
    BY <1>1, <2>9, QuietStep DEF cacheState
  <2>10. QED
    BY <1>1, <2>1, <2>2, <2>3, <2>4, <2>5, <2>6, <2>7, <2>8, <2>9 DEF Next
<1>2. Spec => []CacheProofs!IInv
  BY CacheInvariance
<1>3. QED
  BY <1>1, <1>2, InitSearch, TodoInvariance, PTL DEF Spec

\* Best, the documentation of GetCertificateFromDirectory, holds for all
\* handshakes, files and changes: what GetCertificate returns was in an
\* eligible file during the call, and every file that is preferred to it was
\* missing or damaged at some moment of the call.
THEOREM ReturnsBest ==
  ASSUME CoarseTime = FALSE
  PROVE  Spec => []Best
<1>1. ASSUME SearchInv, TodoInv PROVE Best
  <2> SUFFICES ASSUME NEW p \in Handshakes
               PROVE  /\ at[p] = "cert" =>
                           /\ ~Invalid(HelloOf(p).serverName)
                           /\ Head(todo[p]) \in Eligible(HelloOf(p))
                           /\ result[p] \in Certs \cap observed[p][Head(todo[p])]
                           /\ \A g \in Eligible(HelloOf(p)) :
                                Preferred(g, Head(todo[p]), HelloOf(p)) => ~Intact(p, g)
                      /\ at[p] = "error" =>
                           \/ Invalid(HelloOf(p).serverName)
                           \/ \A g \in Eligible(HelloOf(p)) : ~Intact(p, g)
    BY DEF Best, HelloOf, Intact
  <2>1. Found(p) /\ InOrder(p)
    BY <1>1 DEF SearchInv
  <2>2. CASE at[p] = "cert"
    <3>1. todo[p] \in Seq(Files) /\ todo[p] # <<>>
      BY <1>1, <2>2 DEF TodoInv
    <3>2. Len(todo[p]) \in Nat /\ Len(todo[p]) > 0 /\ Head(todo[p]) = todo[p][1]
      BY <3>1, TailIs
    <3>3. ASSUME NEW g \in Eligible(HelloOf(p)), Preferred(g, Head(todo[p]), HelloOf(p))
          PROVE  ~Intact(p, g)
      <4>1. ~Preferred(todo[p][1], todo[p][1], HelloOf(p))
        <5>1. PICK e \in Exts : \E n : todo[p][1] = File(n, e)
          BY <3>1, <3>2, TailIs DEF Files
        <5>2. todo[p][1].ext = e /\ Place[e] \in Nat
          BY <5>1, Places DEF Exts, File
        <5>3. QED
          BY <5>2 DEF Preferred
      <4>2. \A i \in 1..Len(todo[p]) : i # 1 => ~Preferred(todo[p][i], todo[p][1], HelloOf(p))
        BY <2>1, <2>2, <3>2 DEF InOrder, Ordered
      <4>3. ~Listed(g, todo[p])
        BY <3>2, <3>3, <4>1, <4>2 DEF Listed
      <4>4. QED
        BY <2>1, <2>2, <4>3 DEF InOrder
    <3>4. Head(todo[p]) \in Eligible(HelloOf(p))
      BY <2>1, <2>2, <3>2 DEF InOrder, Ordered
    <3>5. QED
      BY <2>1, <2>2, <3>3, <3>4 DEF Found, InOrder
  <2>3. CASE at[p] # "cert"
    BY <2>1, <2>3 DEF Found
  <2>4. QED
    BY <2>2, <2>3
<1>2. QED
  BY <1>1, Invariance, TodoInvariance, PTL
-----------------------------------------------------------------------------
(* LoadCertificate: what it returns for a file.                            *)

\* The blocks of list up to block k that have one of these types.
BlocksOf(list, types, k) == {i \in 1..k : list[i].type \in types}

\* seq is those blocks, in their order.
Collected(seq, list, types, k) ==
  /\ seq \in Seq(Blocks)
  /\ Len(seq) = Cardinality(BlocksOf(list, types, k))
  /\ \A i \in BlocksOf(list, types, k) : seq[Cardinality(BlocksOf(list, types, i))] = list[i]

\* The chain starts with the first certificate.
LeafRead(chain, list, k) ==
  /\ chain = <<>> <=> BlocksOf(list, {"CERTIFICATE"}, k) = {}
  /\ chain # <<>> =>
       \E i \in BlocksOf(list, {"CERTIFICATE"}, k) :
         /\ chain[1] = list[i]
         /\ \A j \in BlocksOf(list, {"CERTIFICATE"}, k) : i <= j

\* block is the only one of these types, or Nil if there is none.
OnlyOne(block, list, types, k) ==
  /\ block = Nil <=> BlocksOf(list, types, k) = {}
  /\ \A i \in BlocksOf(list, types, k) : block = list[i]
  /\ One(BlocksOf(list, types, k))

Recognized == KeyTypes \cup OtherTypes

\* The fields of a tls.Certificate.
IsCert(c, key, chain, staple, timestamps) ==
  c = [PrivateKey |-> key, Certificate |-> chain, OCSPStaple |-> staple,
       SignedCertificateTimestamps |-> timestamps]

\* What the loop has made of the first k blocks of the file.
Loaded(c, list, k) ==
  /\ \A i \in 1..k : list[i].type \in Recognized
  /\ OnlyOne(c.PrivateKey, list, KeyTypes, k)
  /\ \A i \in BlocksOf(list, KeyTypes, k) : Usable(list[i])
  /\ Collected(c.Certificate, list, {"CERTIFICATE"}, k)
  /\ LeafRead(c.Certificate, list, k)
  /\ OnlyOne(c.OCSPStaple, list, {"OCSP RESPONSE"}, k)
  /\ Collected(c.SignedCertificateTimestamps, list, {"SIGNED CERTIFICATE TIMESTAMP"}, k)

\* The rest of the file is still to be decoded.
RestInv ==
  /\ file \in Seq(Blocks) /\ data \in Seq(Blocks)
  /\ Len(data) <= Len(file)
  /\ \A i \in 1..Len(data) : data[i] = file[Len(file) - Len(data) + i]

\* The inductive invariant of the pass over the blocks.
PassInv ==
  /\ RestInv
  /\ returned \in {"loop", "ok", "error"}
  /\ \E key, chain, staple, timestamps : IsCert(loaded, key, chain, staple, timestamps)
  /\ returned # "error" => Loaded(loaded, file, Len(file) - Len(data))
  /\ returned = "ok" =>
       /\ data = <<>>
       /\ loaded.PrivateKey # Nil
       /\ loaded.Certificate # <<>> /\ Leaf(loaded.Certificate).valid
  /\ returned = "error" => ~Serviceable
-----------------------------------------------------------------------------
(* The blocks of a type, and those of them that come first.                *)

\* One more block is one more of its type.
LEMMA BlocksNext ==
  ASSUME NEW list, NEW types, NEW k \in Nat
  PROVE  /\ BlocksOf(list, types, 0) = {}
         /\ BlocksOf(list, types, k) \subseteq 1..k
         /\ k + 1 \notin BlocksOf(list, types, k)
         /\ BlocksOf(list, types, k + 1) =
              IF list[k + 1].type \in types
              THEN BlocksOf(list, types, k) \cup {k + 1} ELSE BlocksOf(list, types, k)
<1>1. 1..(k + 1) = 1..k \cup {k + 1} /\ k + 1 \notin 1..k /\ 1..0 = {}
  OBVIOUS
<1>2. QED
  BY <1>1 DEF BlocksOf

\* How many there are.
LEMMA BlocksCount ==
  ASSUME NEW list, NEW types, NEW k \in Nat
  PROVE  /\ IsFiniteSet(BlocksOf(list, types, k))
         /\ Cardinality(BlocksOf(list, types, k)) \in Nat
         /\ Cardinality(BlocksOf(list, types, 0)) = 0
         /\ Cardinality(BlocksOf(list, types, k)) = 0 <=> BlocksOf(list, types, k) = {}
         /\ list[k + 1].type \in types =>
              Cardinality(BlocksOf(list, types, k + 1)) = Cardinality(BlocksOf(list, types, k)) + 1
<1> DEFINE P == BlocksOf(list, types, k)
<1>1. IsFiniteSet(1..k)
  BY FS_Interval
<1>2. P \in SUBSET (1..k) /\ k + 1 \notin P
  BY BlocksNext
<1>3. IsFiniteSet(P)
  BY <1>1, <1>2, FS_Subset
<1>4. Cardinality(P) \in Nat
  BY <1>3, FS_CardinalityType
<1>5. Cardinality(P) = 0 <=> P = {}
  BY <1>3, FS_EmptySet
<1>6. Cardinality(P \cup {k + 1}) = Cardinality(P) + 1
  BY <1>2, <1>3, FS_AddElement
<1>7. Cardinality(BlocksOf(list, types, 0)) = 0
  BY BlocksNext, FS_EmptySet
<1>8. list[k + 1].type \in types => BlocksOf(list, types, k + 1) = P \cup {k + 1}
  BY BlocksNext
<1>9. QED
  BY <1>3, <1>4, <1>5, <1>6, <1>7, <1>8

\* Each has its place among those of its type.
LEMMA BlockInside ==
  ASSUME NEW list, NEW types, NEW k \in Nat, NEW i \in BlocksOf(list, types, k)
  PROVE  Cardinality(BlocksOf(list, types, i)) \in 1..Cardinality(BlocksOf(list, types, k))
<1>1. i \in 1..k /\ i \in BlocksOf(list, types, i)
  BY DEF BlocksOf
<1>2. BlocksOf(list, types, i) \in SUBSET BlocksOf(list, types, k)
  BY <1>1 DEF BlocksOf
<1>3. IsFiniteSet(BlocksOf(list, types, k)) /\ Cardinality(BlocksOf(list, types, k)) \in Nat
  BY BlocksCount
<1>4. Cardinality(BlocksOf(list, types, i)) <= Cardinality(BlocksOf(list, types, k))
  BY <1>2, <1>3, FS_Subset
<1>5. /\ Cardinality(BlocksOf(list, types, i)) \in Nat
      /\ Cardinality(BlocksOf(list, types, i)) # 0
  BY <1>1, BlocksCount
<1>6. QED
  BY <1>3, <1>4, <1>5

\* The next block, if it has the type, is put at the end; if not, none is.
LEMMA CollectedNext ==
  ASSUME NEW list, NEW types, NEW k \in Nat, NEW seq,
         Collected(seq, list, types, k), list[k + 1] \in Blocks
  PROVE  Collected(IF list[k + 1].type \in types THEN Append(seq, list[k + 1]) ELSE seq,
                   list, types, k + 1)
<1>1. CASE list[k + 1].type \notin types
  <2>1. BlocksOf(list, types, k + 1) = BlocksOf(list, types, k)
    BY <1>1, BlocksNext
  <2>2. QED
    BY <1>1, <2>1 DEF Collected
<1>2. CASE list[k + 1].type \in types
  <2>1. seq \in Seq(Blocks) /\ Len(seq) = Cardinality(BlocksOf(list, types, k)) /\ Len(seq) \in Nat
    BY BlocksCount DEF Collected
  <2>2. PICK new : new = Append(seq, list[k + 1])
    BY Zenon
  <2>3. /\ new \in Seq(Blocks) /\ Len(new) = Len(seq) + 1
        /\ \A j \in 1..Len(seq) : new[j] = seq[j]
        /\ new[Len(seq) + 1] = list[k + 1]
    BY <2>1, <2>2, AppendProperties
  <2>4. Cardinality(BlocksOf(list, types, k + 1)) = Len(seq) + 1
    BY <1>2, <2>1, BlocksCount
  <2>5. new[Cardinality(BlocksOf(list, types, k + 1))] = list[k + 1]
    BY <2>3, <2>4
  <2>6. ASSUME NEW i \in BlocksOf(list, types, k)
        PROVE  new[Cardinality(BlocksOf(list, types, i))] = list[i]
    <3>1. Cardinality(BlocksOf(list, types, i)) \in 1..Len(seq)
      BY <2>1, BlockInside
    <3>2. seq[Cardinality(BlocksOf(list, types, i))] = list[i]
      BY DEF Collected
    <3>3. QED
      BY <2>3, <3>1, <3>2
  <2>7. BlocksOf(list, types, k + 1) = BlocksOf(list, types, k) \cup {k + 1}
    BY <1>2, BlocksNext
  <2>8. Collected(new, list, types, k + 1)
    BY <2>3, <2>4, <2>5, <2>6, <2>7 DEF Collected
  <2>9. QED
    BY <1>2, <2>2, <2>8
<1>3. QED
  BY <1>1, <1>2

\* The first certificate is the leaf.
LEMMA LeafNext ==
  ASSUME NEW list, NEW k \in Nat, NEW chain \in Seq(Blocks),
         LeafRead(chain, list, k), list[k + 1] \in Blocks
  PROVE  LeafRead(IF list[k + 1].type \in {"CERTIFICATE"}
                  THEN Append(chain, list[k + 1]) ELSE chain,
                  list, k + 1)
<1> DEFINE P == BlocksOf(list, {"CERTIFICATE"}, k)
           Q == BlocksOf(list, {"CERTIFICATE"}, k + 1)
<1>1. P \subseteq 1..k
  BY BlocksNext
<1>2. CASE list[k + 1].type \notin {"CERTIFICATE"}
  <2>1. Q = P
    BY <1>2, BlocksNext
  <2>2. QED
    BY <1>2, <2>1 DEF LeafRead
<1>3. CASE list[k + 1].type \in {"CERTIFICATE"}
  <2>1. Q = P \cup {k + 1}
    BY <1>3, BlocksNext
  <2>2. PICK new : new = Append(chain, list[k + 1])
    BY Zenon
  <2>3. /\ new # <<>> /\ Len(chain) \in Nat
        /\ \A j \in 1..Len(chain) : new[j] = chain[j]
        /\ new[Len(chain) + 1] = list[k + 1]
    BY <2>2, AppendProperties, LenProperties
  <2>4. \E i \in Q : new[1] = list[i] /\ \A j \in Q : i <= j
    <3>1. CASE chain = <<>>
      <4>1. P = {} /\ Len(chain) = 0
        BY <3>1, EmptySeq DEF LeafRead
      <4>2. new[1] = list[k + 1]
        BY <2>3, <4>1
      <4>3. k + 1 \in Q /\ \A j \in Q : k + 1 <= j
        BY <2>1, <4>1
      <4>4. QED
        BY <4>2, <4>3
    <3>2. CASE chain # <<>>
      <4>1. PICK i \in P : chain[1] = list[i] /\ \A j \in P : i <= j
        BY <3>2 DEF LeafRead
      <4>2. Len(chain) \in Nat \ {0}
        BY <3>2, EmptySeq
      <4>3. new[1] = chain[1]
        BY <2>3, <4>2
      <4>4. i \in Q /\ \A j \in Q : i <= j
        BY <1>1, <2>1, <4>1
      <4>5. QED
        BY <4>1, <4>3, <4>4
    <3>3. QED
      BY <3>1, <3>2
  <2>5. Q # {}
    BY <2>1
  <2>6. LeafRead(new, list, k + 1)
    BY <2>3, <2>4, <2>5 DEF LeafRead
  <2>7. QED
    BY <1>3, <2>2, <2>6
<1>4. QED
  BY <1>2, <1>3

\* A block that may come only once comes the first time, or another comes.
LEMMA OnlyOneNext ==
  ASSUME NEW list, NEW types, NEW k \in Nat, NEW block, OnlyOne(block, list, types, k)
  PROVE  /\ list[k + 1].type \notin types => OnlyOne(block, list, types, k + 1)
         /\ list[k + 1].type \in types /\ block = Nil /\ "nil" \notin types =>
              OnlyOne(list[k + 1], list, types, k + 1)
<1> DEFINE P == BlocksOf(list, types, k)
           Q == BlocksOf(list, types, k + 1)
<1>1. CASE list[k + 1].type \notin types
  <2>1. Q = P
    BY <1>1, BlocksNext
  <2>2. QED
    BY <1>1, <2>1 DEF OnlyOne
<1>2. CASE list[k + 1].type \in types /\ block = Nil /\ "nil" \notin types
  <2>1. P = {}
    BY <1>2 DEF OnlyOne
  <2>2. Q = {k + 1}
    BY <1>2, <2>1, BlocksNext
  <2>3. list[k + 1] # Nil
    <3>1. Nil.type = "nil"
      BY DEF Nil
    <3>2. QED
      BY <1>2, <3>1
  <2>4. OnlyOne(list[k + 1], list, types, k + 1)
    <3>1. One(Q) /\ Q # {} /\ \A i \in Q : list[k + 1] = list[i]
      BY <2>2 DEF One
    <3>2. QED
      BY <2>3, <3>1 DEF OnlyOne
  <2>5. QED
    BY <1>2, <2>4
<1>3. QED
  BY <1>1, <1>2

\* The blocks of a file.
LEMMA HavingIs ==
  ASSUME file \in Seq(Blocks)
  PROVE  /\ Len(file) \in Nat /\ DOMAIN file = 1..Len(file)
         /\ \A types : Having(types) = BlocksOf(file, types, Len(file))
         /\ \A types : \A i \in 1..Len(file) :
              Having(types) \cap 1..i = BlocksOf(file, types, i)
<1>1. Len(file) \in Nat /\ DOMAIN file = 1..Len(file)
  BY LenProperties
<1>2. \A types : Having(types) = BlocksOf(file, types, Len(file))
  BY <1>1 DEF Having, BlocksOf
<1>3. ASSUME NEW types, NEW i \in 1..Len(file)
      PROVE  Having(types) \cap 1..i = BlocksOf(file, types, i)
  <2>1. 1..i \subseteq 1..Len(file)
    BY <1>1
  <2>2. QED
    BY <1>2, <2>1 DEF BlocksOf
<1>4. QED
  BY <1>1, <1>2, <1>3

\* Those that come first are among those of the file.
LEMMA BlocksAreHad ==
  ASSUME file \in Seq(Blocks), NEW types, NEW k \in Nat, k <= Len(file)
  PROVE  BlocksOf(file, types, k) \subseteq Having(types)
<1>1. Len(file) \in Nat /\ Having(types) = BlocksOf(file, types, Len(file))
  BY HavingIs
<1>2. QED
  BY <1>1 DEF BlocksOf

\* A file whose blocks have all been stored is serviceable if it has passed the
\* checks after the loop, and only then.
LEMMA LoadedIsServiceable ==
  ASSUME file \in Seq(Blocks), NEW c, Loaded(c, file, Len(file))
  PROVE  Serviceable <=>
           /\ c.PrivateKey # Nil
           /\ c.Certificate # <<>>
           /\ Leaf(c.Certificate).valid
<1> DEFINE keys == Having(KeyTypes)
           chain == Having({"CERTIFICATE"})
           stapled == Having({"OCSP RESPONSE"})
<1>1. \A types : BlocksOf(file, types, Len(file)) = Having(types)
  BY HavingIs
<1>2. DOMAIN file = 1..Len(file) /\ Len(file) \in Nat
  BY HavingIs
<1>3. /\ c.PrivateKey # Nil <=> keys # {}
      /\ One(keys) /\ \A i \in keys : Usable(file[i])
      /\ One(stapled)
  BY <1>1 DEF Loaded, OnlyOne
<1>4. \A i \in DOMAIN file : file[i].type \in Recognized
  BY <1>2 DEF Loaded
<1>5. /\ c.Certificate # <<>> <=> chain # {}
      /\ c.Certificate # <<>> =>
           \E i \in chain : c.Certificate[1] = file[i] /\ \A j \in chain : i <= j
  BY <1>1 DEF Loaded, LeafRead
<1>6. c.Certificate # <<>> =>
        (Leaf(c.Certificate).valid <=>
           \A i \in chain : (\A j \in chain : i <= j) => file[i].valid)
  <2> SUFFICES ASSUME c.Certificate # <<>>
               PROVE  Leaf(c.Certificate).valid <=>
                        \A i \in chain : (\A j \in chain : i <= j) => file[i].valid
    OBVIOUS
  <2>1. PICK i \in chain : c.Certificate[1] = file[i] /\ \A j \in chain : i <= j
    BY <1>5
  <2>2. \A j \in chain : (\A m \in chain : j <= m) => j = i
    <3>1. chain \subseteq Nat
      BY <1>2 DEF Having
    <3>2. QED
      BY <2>1, <3>1
  <2>3. Leaf(c.Certificate) = file[i]
    BY <2>1 DEF Leaf
  <2>4. QED
    BY <2>1, <2>2, <2>3
<1>7. Serviceable <=>
        /\ keys # {} /\ One(keys) /\ \A i \in keys : Usable(file[i])
        /\ chain # {} /\ \A i \in chain : (\A j \in chain : i <= j) => file[i].valid
        /\ One(stapled)
        /\ \A i \in DOMAIN file : file[i].type \in Recognized
  BY DEF Serviceable, OtherTypes, Recognized
<1> HIDE DEF keys, chain, stapled
<1>8. QED
  BY <1>3, <1>4, <1>5, <1>6, <1>7
-----------------------------------------------------------------------------
(* The pass over the blocks.                                               *)

\* The block that the loop has decoded, and the rest.
LEMMA NextBlock ==
  ASSUME RestInv, data # <<>>, NEW k, k = Len(file) - Len(data)
  PROVE  /\ k \in Nat /\ k + 1 \in 1..Len(file) /\ Len(file) \in Nat
         /\ Head(data) = file[k + 1] /\ file[k + 1] \in Blocks
         /\ data' = Tail(data) /\ UNCHANGED file =>
              RestInv' /\ Len(file') - Len(data') = k + 1
<1>1. /\ Len(file) \in Nat /\ Len(data) \in Nat \ {0} /\ Len(data) <= Len(file)
      /\ DOMAIN file = 1..Len(file)
  BY EmptySeq, LenProperties DEF RestInv
<1>2. k \in Nat /\ k + 1 \in 1..Len(file) /\ 1 \in 1..Len(data)
  BY <1>1
<1>3. Head(data) = data[1]
  BY DEF RestInv
<1>4. data[1] = file[k + 1]
  BY <1>2 DEF RestInv
<1>5. file[k + 1] \in Blocks
  BY <1>2 DEF RestInv
<1>6. ASSUME data' = Tail(data), UNCHANGED file
      PROVE  RestInv' /\ Len(file') - Len(data') = k + 1
  <2>1. PICK rest : rest = Tail(data)
    BY Zenon
  <2>2. /\ rest \in Seq(Blocks) /\ Len(rest) = Len(data) - 1
        /\ \A i \in 1..Len(rest) : rest[i] = data[i + 1]
    BY <2>1, HeadTailProperties DEF RestInv
  <2>3. Len(file) - Len(rest) = k + 1
    BY <1>1, <2>2
  <2>4. ASSUME NEW i \in 1..Len(rest)
        PROVE  rest[i] = file[Len(file) - Len(rest) + i]
    <3>1. i + 1 \in 1..Len(data) /\ Len(file) - Len(data) + (i + 1) = Len(file) - Len(rest) + i
      BY <1>1, <2>2
    <3>2. rest[i] = data[i + 1]
      BY <2>2
    <3>3. data[i + 1] = file[Len(file) - Len(data) + (i + 1)]
      BY <3>1 DEF RestInv
    <3>4. QED
      BY <3>1, <3>2, <3>3
  <2>5. Len(rest) <= Len(file)
    BY <1>1, <2>2
  <2>6. data' = rest /\ file' = file
    BY <1>6, <2>1
  <2>7. QED
    BY <2>2, <2>3, <2>4, <2>5, <2>6 DEF RestInv
<1>7. QED
  BY <1>2, <1>1, <1>3, <1>4, <1>5, <1>6

\* Before the first block.
LEMMA PassInit ==
  ASSUME LoadInit
  PROVE  PassInv
<1>1. file \in Seq(Blocks)
  BY IsASeq, PemFileAssumption DEF LoadInit
<1>2. Len(file) \in Nat /\ Len(file) - Len(data) = 0 /\ data = file
  BY <1>1, LenProperties DEF LoadInit
<1>3. RestInv
  BY <1>1, <1>2 DEF RestInv
<1>4. \A types : BlocksOf(file, types, 0) = {} /\ Cardinality(BlocksOf(file, types, 0)) = 0
  BY BlocksNext, BlocksCount
<1>5. <<>> \in Seq(Blocks) /\ Len(<<>>) = 0
  BY EmptySeq
<1>6. \A types : Collected(<<>>, file, types, 0)
  BY <1>4, <1>5 DEF Collected
<1>7. LeafRead(<<>>, file, 0)
  BY <1>4 DEF LeafRead
<1>8. \A types : OnlyOne(Nil, file, types, 0)
  BY <1>4 DEF OnlyOne, One
<1>9. IsCert(loaded, Nil, <<>>, Nil, <<>>)
  BY DEF LoadInit, IsCert
<1>10. Loaded(loaded, file, 0)
  <2>1. /\ loaded.PrivateKey = Nil /\ loaded.Certificate = <<>>
        /\ loaded.OCSPStaple = Nil /\ loaded.SignedCertificateTimestamps = <<>>
    BY <1>9 DEF IsCert
  <2>2. \A i \in 1..0 : FALSE
    OBVIOUS
  <2>3. QED
    BY <1>4, <1>6, <1>7, <1>8, <2>1, <2>2 DEF Loaded
<1>11. returned = "loop"
  BY DEF LoadInit
<1>12. QED
  BY <1>2, <1>3, <1>9, <1>10, <1>11 DEF PassInv

\* LoadCertificate gives up, for a reason that the format gives.
LEMMA GivesUp ==
  ASSUME PassInv, Return("error"), ~Serviceable
  PROVE  PassInv'
<1>1. UNCHANGED <<file, data, loaded>> /\ returned' = "error"
  BY DEF Return
<1>2. RestInv' /\ ~Serviceable'
  <2>1. RestInv'
    BY <1>1 DEF PassInv, RestInv
  <2>2. \A types : Having(types)' = Having(types)
    BY <1>1 DEF Having
  <2>3. Serviceable' <=> Serviceable
    BY <1>1, <2>2 DEF Serviceable, OtherTypes, One, Usable
  <2>4. QED
    BY <2>1, <2>3
<1>3. (\E key, chain, staple, timestamps : IsCert(loaded, key, chain, staple, timestamps))'
  BY <1>1 DEF PassInv, IsCert
<1>4. QED
  BY <1>1, <1>2, <1>3 DEF PassInv

\* The block is stored.
LEMMA GoesOn ==
  ASSUME PassInv, returned = "loop", data # <<>>, NEW value, Store(value),
         Loaded(value, file, Len(file) - Len(data) + 1),
         \E key, chain, staple, timestamps : IsCert(value, key, chain, staple, timestamps)
  PROVE  PassInv'
<1>1. loaded' = value /\ data' = Tail(data) /\ UNCHANGED <<file, returned>>
  BY DEF Store
<1>2. PICK k : k = Len(file) - Len(data)
  OBVIOUS
<1>3. RestInv' /\ Len(file') - Len(data') = k + 1
  BY <1>1, <1>2, NextBlock DEF PassInv
<1>4. Loaded(loaded', file', k + 1)
  BY <1>1, <1>2
<1>5. Loaded(loaded', file', Len(file') - Len(data'))
  BY <1>3, <1>4
<1>6. \E key, chain, staple, timestamps : IsCert(loaded', key, chain, staple, timestamps)
  BY <1>1
<1>7. QED
  BY <1>1, <1>3, <1>5, <1>6 DEF PassInv, Loaded, OnlyOne, Collected, LeafRead, IsCert

\* The loop has decoded a block of one of these types.
LEMMA DecodedIs ==
  ASSUME PassInv, NEW types, Decoded(types)
  PROVE  \E k \in Nat :
           /\ k = Len(file) - Len(data) /\ k + 1 \in 1..Len(file)
           /\ Head(data) = file[k + 1] /\ file[k + 1] \in Blocks
           /\ file[k + 1].type \in types /\ k + 1 \in Having(types)
           /\ Loaded(loaded, file, k)
           /\ returned = "loop" /\ data # <<>>
<1>1. returned = "loop" /\ data # <<>> /\ Head(data).type \in types
  BY DEF Decoded
<1>2. PICK k : k = Len(file) - Len(data)
  OBVIOUS
<1>3. /\ k \in Nat /\ k + 1 \in 1..Len(file)
      /\ Head(data) = file[k + 1] /\ file[k + 1] \in Blocks
  BY <1>1, <1>2, NextBlock DEF PassInv
<1>4. DOMAIN file = 1..Len(file)
  BY LenProperties DEF PassInv, RestInv
<1>5. k + 1 \in Having(types)
  BY <1>1, <1>3, <1>4 DEF Having
<1>6. Loaded(loaded, file, k)
  BY <1>1, <1>2 DEF PassInv
<1>7. QED
  BY <1>1, <1>2, <1>3, <1>5, <1>6

\* A block that may come only once and has come already.
LEMMA ComesTwice ==
  ASSUME PassInv, NEW types, NEW k \in Nat, k + 1 \in Having(types), k < Len(file),
         NEW block, OnlyOne(block, file, types, k), block # Nil
  PROVE  ~One(Having(types))
<1>1. BlocksOf(file, types, k) \subseteq Having(types) /\ BlocksOf(file, types, k) # {}
  BY BlocksAreHad DEF PassInv, RestInv, OnlyOne
<1>2. k + 1 \notin BlocksOf(file, types, k)
  BY BlocksNext
<1>3. QED
  BY <1>1, <1>2 DEF One

\* The types differ.
LEMMA TypesDiffer ==
  /\ "nil" \notin KeyTypes /\ "CERTIFICATE" \notin KeyTypes
  /\ "OCSP RESPONSE" \notin KeyTypes /\ "SIGNED CERTIFICATE TIMESTAMP" \notin KeyTypes
  BY DEF KeyTypes

\* All parts but the one that the block is stored in are what they were.
LEMMA PartsKept ==
  ASSUME NEW list, NEW c, NEW k \in Nat, Loaded(c, list, k), list[k + 1] \in Blocks
  PROVE  /\ list[k + 1].type \in Recognized => \A i \in 1..(k + 1) : list[i].type \in Recognized
         /\ list[k + 1].type \notin KeyTypes =>
              /\ OnlyOne(c.PrivateKey, list, KeyTypes, k + 1)
              /\ \A i \in BlocksOf(list, KeyTypes, k + 1) : Usable(list[i])
         /\ list[k + 1].type # "CERTIFICATE" =>
              /\ Collected(c.Certificate, list, {"CERTIFICATE"}, k + 1)
              /\ LeafRead(c.Certificate, list, k + 1)
         /\ list[k + 1].type # "OCSP RESPONSE" =>
              OnlyOne(c.OCSPStaple, list, {"OCSP RESPONSE"}, k + 1)
         /\ list[k + 1].type # "SIGNED CERTIFICATE TIMESTAMP" =>
              Collected(c.SignedCertificateTimestamps, list, {"SIGNED CERTIFICATE TIMESTAMP"}, k + 1)
<1>1. list[k + 1].type \in Recognized => \A i \in 1..(k + 1) : list[i].type \in Recognized
  <2>1. \A i \in 1..(k + 1) : i \in 1..k \/ i = k + 1
    OBVIOUS
  <2>2. QED
    BY <2>1 DEF Loaded
<1>2. list[k + 1].type \notin KeyTypes =>
        /\ OnlyOne(c.PrivateKey, list, KeyTypes, k + 1)
        /\ \A i \in BlocksOf(list, KeyTypes, k + 1) : Usable(list[i])
  <2>1. /\ OnlyOne(c.PrivateKey, list, KeyTypes, k)
        /\ \A i \in BlocksOf(list, KeyTypes, k) : Usable(list[i])
    BY DEF Loaded
  <2>2. SUFFICES ASSUME list[k + 1].type \notin KeyTypes
                 PROVE  /\ OnlyOne(c.PrivateKey, list, KeyTypes, k + 1)
                        /\ \A i \in BlocksOf(list, KeyTypes, k + 1) : Usable(list[i])
    OBVIOUS
  <2>3. BlocksOf(list, KeyTypes, k + 1) = BlocksOf(list, KeyTypes, k)
    BY <2>2, BlocksNext
  <2>4. OnlyOne(c.PrivateKey, list, KeyTypes, k + 1)
    BY <2>1, <2>2, OnlyOneNext
  <2>5. QED
    BY <2>1, <2>3, <2>4
<1>3. list[k + 1].type # "CERTIFICATE" =>
        /\ Collected(c.Certificate, list, {"CERTIFICATE"}, k + 1)
        /\ LeafRead(c.Certificate, list, k + 1)
  <2>1. /\ Collected(c.Certificate, list, {"CERTIFICATE"}, k)
        /\ LeafRead(c.Certificate, list, k)
        /\ c.Certificate \in Seq(Blocks)
    BY DEF Loaded, Collected
  <2>2. SUFFICES ASSUME list[k + 1].type \notin {"CERTIFICATE"}
                 PROVE  /\ Collected(c.Certificate, list, {"CERTIFICATE"}, k + 1)
                        /\ LeafRead(c.Certificate, list, k + 1)
    OBVIOUS
  <2>3. QED
    BY <2>1, <2>2, CollectedNext, LeafNext
<1>4. list[k + 1].type # "OCSP RESPONSE" =>
        OnlyOne(c.OCSPStaple, list, {"OCSP RESPONSE"}, k + 1)
  BY OnlyOneNext DEF Loaded
<1>5. list[k + 1].type # "SIGNED CERTIFICATE TIMESTAMP" =>
        Collected(c.SignedCertificateTimestamps, list, {"SIGNED CERTIFICATE TIMESTAMP"}, k + 1)
  <2>1. Collected(c.SignedCertificateTimestamps, list, {"SIGNED CERTIFICATE TIMESTAMP"}, k)
    BY DEF Loaded
  <2>2. QED
    BY <2>1, CollectedNext
<1>6. QED
  BY <1>1, <1>2, <1>3, <1>4, <1>5

\* A private key is stored, or is the second one, or cannot be used.
LEMMA PrivateKeyStep ==
  ASSUME PassInv, PrivateKey
  PROVE  PassInv'
<1>1. Decoded(KeyTypes)
  BY DEF PrivateKey
<1>2. PICK k \in Nat :
        /\ k = Len(file) - Len(data) /\ k + 1 \in 1..Len(file)
        /\ Head(data) = file[k + 1] /\ file[k + 1] \in Blocks
        /\ file[k + 1].type \in KeyTypes /\ k + 1 \in Having(KeyTypes)
        /\ Loaded(loaded, file, k)
        /\ returned = "loop" /\ data # <<>>
  BY <1>1, DecodedIs
<1>3. CASE SecondKey \/ ~Usable(Head(data))
  <2>1. Return("error")
    BY <1>3 DEF PrivateKey
  <2>2. ~Serviceable
    <3>1. CASE SecondKey
      <4>1. loaded.PrivateKey # Nil /\ OnlyOne(loaded.PrivateKey, file, KeyTypes, k)
        BY <1>2, <3>1 DEF SecondKey, Loaded
      <4>2. k < Len(file)
        <5>1. Len(file) \in Nat
          BY LenProperties DEF PassInv, RestInv
        <5>2. k + 1 \in 1..Len(file)
          BY <1>2, Zenon
        <5>3. QED
          BY <5>1, <5>2
      <4>3. ~One(Having(KeyTypes))
        BY <1>2, <4>1, <4>2, ComesTwice
      <4>4. QED
        BY <4>3 DEF Serviceable, OtherTypes
    <3>2. CASE ~Usable(Head(data))
      BY <1>2, <3>2 DEF Serviceable, OtherTypes
    <3>3. QED
      BY <1>3, <3>1, <3>2
  <2>3. QED
    BY <2>1, <2>2, GivesUp
<1>4. CASE ~(SecondKey \/ ~Usable(Head(data)))
  <2>1. PICK key, chain, staple, timestamps : IsCert(loaded, key, chain, staple, timestamps)
    BY DEF PassInv
  <2>2. PICK value : value = [loaded EXCEPT !.PrivateKey = Head(data)]
    BY Zenon
  <2>3. Store(value)
    BY <1>4, <2>2 DEF PrivateKey
  <2>4. IsCert(value, file[k + 1], chain, staple, timestamps)
    BY <1>2, <2>1, <2>2 DEF IsCert
  <2>5. /\ value.PrivateKey = file[k + 1] /\ value.Certificate = loaded.Certificate
        /\ value.OCSPStaple = loaded.OCSPStaple
        /\ value.SignedCertificateTimestamps = loaded.SignedCertificateTimestamps
    BY <2>1, <2>4 DEF IsCert
  <2>6. /\ file[k + 1].type \in Recognized
        /\ file[k + 1].type \notin {"CERTIFICATE", "OCSP RESPONSE", "SIGNED CERTIFICATE TIMESTAMP"}
    BY <1>2, TypesDiffer DEF Recognized, OtherTypes
  <2>7. OnlyOne(file[k + 1], file, KeyTypes, k + 1)
    <3>1. loaded.PrivateKey = Nil /\ OnlyOne(loaded.PrivateKey, file, KeyTypes, k)
      BY <1>2, <1>4 DEF SecondKey, Loaded
    <3>2. QED
      BY <1>2, <3>1, OnlyOneNext, TypesDiffer
  <2>8. \A i \in BlocksOf(file, KeyTypes, k + 1) : Usable(file[i])
    <3>1. BlocksOf(file, KeyTypes, k + 1) = BlocksOf(file, KeyTypes, k) \cup {k + 1}
      BY <1>2, BlocksNext
    <3>2. \A i \in BlocksOf(file, KeyTypes, k) : Usable(file[i])
      BY <1>2 DEF Loaded
    <3>3. Usable(file[k + 1])
      BY <1>2, <1>4, Zenon
    <3>4. QED
      BY <3>1, <3>2, <3>3
  <2>9. Loaded(value, file, k + 1)
    BY <1>2, <2>5, <2>6, <2>7, <2>8, PartsKept DEF Loaded
  <2>10. QED
    BY <1>2, <2>3, <2>4, <2>9, GoesOn
<1>5. QED
  BY <1>3, <1>4

\* A certificate is stored.
LEMMA CertificateStep ==
  ASSUME PassInv, Certificate
  PROVE  PassInv'
<1>1. Decoded({"CERTIFICATE"})
  BY DEF Certificate
<1>2. PICK k \in Nat :
        /\ k = Len(file) - Len(data) /\ k + 1 \in 1..Len(file)
        /\ Head(data) = file[k + 1] /\ file[k + 1] \in Blocks
        /\ file[k + 1].type \in {"CERTIFICATE"}
        /\ Loaded(loaded, file, k)
        /\ returned = "loop" /\ data # <<>>
  BY <1>1, DecodedIs
<1>3. PICK key, chain, staple, timestamps : IsCert(loaded, key, chain, staple, timestamps)
  BY DEF PassInv
<1>4. PICK longer : longer = Append(loaded.Certificate, file[k + 1])
  BY Zenon
<1>5. PICK value : value = [loaded EXCEPT !.Certificate = longer]
  BY Zenon
<1>6. Store(value)
  BY <1>2, <1>4, <1>5 DEF Certificate, Chained
<1>7. IsCert(value, key, longer, staple, timestamps)
  BY <1>3, <1>5 DEF IsCert
<1>8. /\ value.PrivateKey = loaded.PrivateKey /\ value.Certificate = longer
      /\ value.OCSPStaple = loaded.OCSPStaple
      /\ value.SignedCertificateTimestamps = loaded.SignedCertificateTimestamps
  BY <1>3, <1>7 DEF IsCert
<1>9. /\ file[k + 1].type \in Recognized /\ file[k + 1].type \notin KeyTypes
      /\ file[k + 1].type # "OCSP RESPONSE" /\ file[k + 1].type # "SIGNED CERTIFICATE TIMESTAMP"
  BY <1>2, TypesDiffer DEF Recognized, OtherTypes
<1>10. Collected(longer, file, {"CERTIFICATE"}, k + 1) /\ LeafRead(longer, file, k + 1)
  <2>1. /\ Collected(loaded.Certificate, file, {"CERTIFICATE"}, k)
        /\ LeafRead(loaded.Certificate, file, k)
        /\ loaded.Certificate \in Seq(Blocks)
    BY <1>2 DEF Loaded, Collected
  <2>2. Collected(longer, file, {"CERTIFICATE"}, k + 1)
    BY <1>2, <1>4, <2>1, CollectedNext
  <2>3. LeafRead(longer, file, k + 1)
    BY <1>2, <1>4, <2>1, LeafNext
  <2>4. QED
    BY <2>2, <2>3
<1>11. Loaded(value, file, k + 1)
  BY <1>2, <1>8, <1>9, <1>10, PartsKept DEF Loaded
<1>12. QED
  BY <1>2, <1>6, <1>7, <1>11, GoesOn

\* An OCSP response is stored, or is the second one.
LEMMA OCSPResponseStep ==
  ASSUME PassInv, OCSPResponse
  PROVE  PassInv'
<1>1. Decoded({"OCSP RESPONSE"})
  BY DEF OCSPResponse
<1>2. PICK k \in Nat :
        /\ k = Len(file) - Len(data) /\ k + 1 \in 1..Len(file)
        /\ Head(data) = file[k + 1] /\ file[k + 1] \in Blocks
        /\ file[k + 1].type \in {"OCSP RESPONSE"} /\ k + 1 \in Having({"OCSP RESPONSE"})
        /\ Loaded(loaded, file, k)
        /\ returned = "loop" /\ data # <<>>
  BY <1>1, DecodedIs
<1>3. OnlyOne(loaded.OCSPStaple, file, {"OCSP RESPONSE"}, k)
  BY <1>2 DEF Loaded
<1>4. CASE loaded.OCSPStaple # Nil
  <2>1. Return("error")
    BY <1>4 DEF OCSPResponse
  <2>2. k < Len(file)
    <3>1. Len(file) \in Nat
      BY LenProperties DEF PassInv, RestInv
    <3>2. k + 1 \in 1..Len(file)
      BY <1>2, Zenon
    <3>3. QED
      BY <3>1, <3>2
  <2>3. ~One(Having({"OCSP RESPONSE"}))
    BY <1>2, <1>3, <1>4, <2>2, ComesTwice
  <2>4. QED
    BY <2>1, <2>3, GivesUp DEF Serviceable, OtherTypes
<1>5. CASE loaded.OCSPStaple = Nil
  <2>1. PICK key, chain, staple, timestamps : IsCert(loaded, key, chain, staple, timestamps)
    BY DEF PassInv
  <2>2. PICK value : value = [loaded EXCEPT !.OCSPStaple = Head(data)]
    BY Zenon
  <2>3. Store(value)
    BY <1>5, <2>2 DEF OCSPResponse
  <2>4. IsCert(value, key, chain, file[k + 1], timestamps)
    BY <1>2, <2>1, <2>2 DEF IsCert
  <2>5. /\ value.PrivateKey = loaded.PrivateKey /\ value.Certificate = loaded.Certificate
        /\ value.OCSPStaple = file[k + 1]
        /\ value.SignedCertificateTimestamps = loaded.SignedCertificateTimestamps
    BY <2>1, <2>4 DEF IsCert
  <2>6. /\ file[k + 1].type \in Recognized /\ file[k + 1].type \notin KeyTypes
        /\ file[k + 1].type # "CERTIFICATE" /\ file[k + 1].type # "SIGNED CERTIFICATE TIMESTAMP"
    BY <1>2, TypesDiffer DEF Recognized, OtherTypes
  <2>7. OnlyOne(file[k + 1], file, {"OCSP RESPONSE"}, k + 1)
    BY <1>2, <1>3, <1>5, OnlyOneNext
  <2>8. Loaded(value, file, k + 1)
    BY <1>2, <2>5, <2>6, <2>7, PartsKept DEF Loaded
  <2>9. QED
    BY <1>2, <2>3, <2>4, <2>8, GoesOn
<1>6. QED
  BY <1>4, <1>5

\* A timestamp is stored.
LEMMA TimestampStep ==
  ASSUME PassInv, Timestamp
  PROVE  PassInv'
<1>1. Decoded({"SIGNED CERTIFICATE TIMESTAMP"})
  BY DEF Timestamp
<1>2. PICK k \in Nat :
        /\ k = Len(file) - Len(data) /\ k + 1 \in 1..Len(file)
        /\ Head(data) = file[k + 1] /\ file[k + 1] \in Blocks
        /\ file[k + 1].type \in {"SIGNED CERTIFICATE TIMESTAMP"}
        /\ Loaded(loaded, file, k)
        /\ returned = "loop" /\ data # <<>>
  BY <1>1, DecodedIs
<1>3. PICK key, chain, staple, timestamps : IsCert(loaded, key, chain, staple, timestamps)
  BY DEF PassInv
<1>4. PICK longer : longer = Append(loaded.SignedCertificateTimestamps, file[k + 1])
  BY Zenon
<1>5. PICK value : value = [loaded EXCEPT !.SignedCertificateTimestamps = longer]
  BY Zenon
<1>6. Store(value)
  BY <1>2, <1>4, <1>5 DEF Timestamp
<1>7. IsCert(value, key, chain, staple, longer)
  BY <1>3, <1>5 DEF IsCert
<1>8. /\ value.PrivateKey = loaded.PrivateKey /\ value.Certificate = loaded.Certificate
      /\ value.OCSPStaple = loaded.OCSPStaple
      /\ value.SignedCertificateTimestamps = longer
  BY <1>3, <1>7 DEF IsCert
<1>9. /\ file[k + 1].type \in Recognized /\ file[k + 1].type \notin KeyTypes
      /\ file[k + 1].type # "CERTIFICATE" /\ file[k + 1].type # "OCSP RESPONSE"
  BY <1>2, TypesDiffer DEF Recognized, OtherTypes
<1>10. Collected(longer, file, {"SIGNED CERTIFICATE TIMESTAMP"}, k + 1)
  <2>1. Collected(loaded.SignedCertificateTimestamps, file, {"SIGNED CERTIFICATE TIMESTAMP"}, k)
    BY <1>2 DEF Loaded
  <2>2. QED
    BY <1>2, <1>4, <2>1, CollectedNext
<1>11. Loaded(value, file, k + 1)
  BY <1>2, <1>8, <1>9, <1>10, PartsKept DEF Loaded
<1>12. QED
  BY <1>2, <1>6, <1>7, <1>11, GoesOn

\* A block of another type is refused.
LEMMA UnrecognizedStep ==
  ASSUME PassInv, Unrecognized
  PROVE  PassInv'
<1>1. /\ returned = "loop" /\ data # <<>> /\ Head(data).type \notin Recognized
      /\ Return("error")
  BY DEF Unrecognized, OtherTypes, Recognized
<1>2. PICK k : k = Len(file) - Len(data)
  OBVIOUS
<1>3. k + 1 \in 1..Len(file) /\ Head(data) = file[k + 1]
  BY <1>1, <1>2, NextBlock DEF PassInv
<1>4. k + 1 \in DOMAIN file
  BY <1>3, LenProperties DEF PassInv, RestInv
<1>5. ~Serviceable
  BY <1>1, <1>3, <1>4 DEF Serviceable, OtherTypes, Recognized
<1>6. QED
  BY <1>1, <1>5, GivesUp

\* All blocks are stored: what they are decides.
LEMMA FinishStep ==
  ASSUME PassInv, Finish
  PROVE  PassInv'
<1>1. returned = "loop" /\ data = <<>>
  BY DEF Finish
<1>2. Len(file) - Len(data) = Len(file) /\ file \in Seq(Blocks)
  BY <1>1, EmptySeq, LenProperties DEF PassInv, RestInv
<1>3. Loaded(loaded, file, Len(file))
  BY <1>1, <1>2 DEF PassInv
<1> DEFINE bad == \/ loaded.PrivateKey = Nil
                  \/ loaded.Certificate = <<>>
                  \/ ~Leaf(loaded.Certificate).valid
<1>4. CASE bad
  <2>1. Return("error")
    BY <1>4 DEF Finish
  <2>2. ~Serviceable
    BY <1>2, <1>3, <1>4, LoadedIsServiceable
  <2>3. QED
    BY <2>1, <2>2, GivesUp
<1>5. CASE ~bad
  <2>1. returned' = "ok" /\ UNCHANGED <<file, data, loaded>>
    BY <1>5 DEF Finish, Return
  <2>2. RestInv'
    BY <2>1 DEF PassInv, RestInv
  <2>3. Loaded(loaded', file', Len(file') - Len(data'))
    BY <1>2, <1>3, <2>1
  <2>4. /\ data' = <<>> /\ loaded'.PrivateKey # Nil
        /\ loaded'.Certificate # <<>> /\ Leaf(loaded'.Certificate).valid
    BY <1>1, <1>5, <2>1
  <2>5. \E key, chain, staple, timestamps : IsCert(loaded', key, chain, staple, timestamps)
    BY <2>1 DEF PassInv
  <2>6. QED
    BY <2>1, <2>2, <2>3, <2>4, <2>5
       DEF PassInv, Loaded, OnlyOne, Collected, LeafRead, IsCert, Leaf
<1>6. QED
  BY <1>4, <1>5

\* PassInv holds all along.
LEMMA PassInvariance == LoadSpec => []PassInv
<1>1. LoadInit => PassInv
  BY PassInit
<1>2. PassInv /\ [LoadNext]_loadVars => PassInv'
  <2> SUFFICES ASSUME PassInv, [LoadNext]_loadVars
               PROVE  PassInv'
    OBVIOUS
  <2>1. CASE PrivateKey
    BY <2>1, PrivateKeyStep
  <2>2. CASE Certificate
    BY <2>2, CertificateStep
  <2>3. CASE OCSPResponse
    BY <2>3, OCSPResponseStep
  <2>4. CASE Timestamp
    BY <2>4, TimestampStep
  <2>5. CASE Unrecognized
    BY <2>5, UnrecognizedStep
  <2>6. CASE Finish
    BY <2>6, FinishStep
  <2>7. CASE UNCHANGED loadVars
    <3>1. UNCHANGED <<file, data, loaded, returned>>
      BY <2>7 DEF loadVars
    <3>2. \A types : Having(types)' = Having(types)
      BY <3>1 DEF Having
    <3>3. Serviceable' <=> Serviceable
      BY <3>1, <3>2 DEF Serviceable, OtherTypes, One, Usable
    <3>4. QED
      BY <3>1, <3>3 DEF PassInv, RestInv, Loaded, OnlyOne, Collected, LeafRead, IsCert, Leaf
  <2>8. QED
    BY <2>1, <2>2, <2>3, <2>4, <2>5, <2>6, <2>7 DEF LoadNext
<1>3. QED
  BY <1>1, <1>2, PTL DEF LoadSpec

\* A file of the documented format has what the code asks of it: the blocks
\* PRIVATE KEY are all its keys, as no other key type is documented.
LEMMA DocumentedIsServiceable == Documented => Serviceable
<1> SUFFICES ASSUME Documented PROVE Serviceable
  OBVIOUS
<1> DEFINE keys == Having({"PRIVATE KEY"})
           chain == Having({"CERTIFICATE"})
<1>1. /\ keys # {} /\ One(keys)
      /\ chain # {}
      /\ One(Having({"OCSP RESPONSE"}))
      /\ \A i \in DOMAIN file : file[i].type \in {"PRIVATE KEY"} \cup OtherTypes
      /\ \A i \in keys \cup chain : file[i].valid /\ file[i].usage = ""
  BY DEF Documented
<1>2. Having(KeyTypes) = keys
  BY <1>1 DEF Having, KeyTypes, OtherTypes
<1> HIDE DEF keys, chain
<1>3. \A i \in keys : Usable(file[i])
  BY <1>1 DEF Usable
<1>4. \A i \in DOMAIN file : file[i].type \in KeyTypes \cup OtherTypes
  BY <1>1 DEF KeyTypes
<1>5. QED
  BY <1>1, <1>2, <1>3, <1>4 DEF Serviceable, chain

\* LoadCertificate accepts every file of the documented format, in whatever
\* order its blocks come, and refuses every file with two keys, with a key that
\* cannot do what it is marked for, without a leaf certificate that parses, or
\* with anything unknown, wherever in the file that is (cert/cert.go:42-135,
\* README.md:132-137).
THEOREM VerdictIsJust == LoadSpec => []FileVerdict
<1>1. PassInv => FileVerdict
  <2> SUFFICES ASSUME PassInv PROVE FileVerdict
    OBVIOUS
  <2>1. returned = "error" => ~Documented
    BY DocumentedIsServiceable DEF PassInv
  <2>2. ASSUME returned = "ok" PROVE Serviceable
    <3>1. Len(file) - Len(data) = Len(file) /\ file \in Seq(Blocks)
      BY <2>2, EmptySeq, LenProperties DEF PassInv, RestInv
    <3>2. Loaded(loaded, file, Len(file))
      BY <2>2, <3>1 DEF PassInv
    <3>3. QED
      BY <2>2, <3>1, <3>2, LoadedIsServiceable DEF PassInv
  <2>3. QED
    BY <2>1, <2>2 DEF FileVerdict
<1>2. QED
  BY <1>1, PassInvariance, PTL

\* The chain and the timestamps are those of the file, in its order, and the
\* OCSP response is the file's (cert/cert.go:69-79).
THEOREM LoadsInOrder == LoadSpec => []ChainInOrder
<1>1. PassInv => ChainInOrder
  <2> SUFFICES ASSUME PassInv, returned = "ok"
               PROVE  /\ InFileOrder(loaded.Certificate, {"CERTIFICATE"})
                      /\ InFileOrder(loaded.SignedCertificateTimestamps,
                                     {"SIGNED CERTIFICATE TIMESTAMP"})
                      /\ \A i \in DOMAIN file :
                           file[i].type = "OCSP RESPONSE" => loaded.OCSPStaple = file[i]
    BY DEF ChainInOrder
  <2>1. Len(file) - Len(data) = Len(file) /\ file \in Seq(Blocks)
    BY EmptySeq, LenProperties DEF PassInv, RestInv
  <2>2. Loaded(loaded, file, Len(file))
    BY <2>1 DEF PassInv
  <2>3. ASSUME NEW seq, NEW types, Collected(seq, file, types, Len(file))
        PROVE  InFileOrder(seq, types)
    <3>1. Having(types) = BlocksOf(file, types, Len(file))
      BY <2>1, HavingIs
    <3>2. \A i \in Having(types) : Having(types) \cap 1..i = BlocksOf(file, types, i)
      BY <2>1, HavingIs DEF Having
    <3>3. Len(seq) = Cardinality(Having(types))
      BY <2>3, <3>1 DEF Collected
    <3>4. ASSUME NEW i \in Having(types)
          PROVE  seq[Cardinality(Having(types) \cap 1..i)] = file[i]
      <4>1. seq[Cardinality(BlocksOf(file, types, i))] = file[i]
        BY <2>3, <3>1 DEF Collected
      <4>2. Having(types) \cap 1..i = BlocksOf(file, types, i)
        BY <3>2
      <4>3. QED
        BY <4>1, <4>2, Zenon
    <3>5. QED
      BY <3>3, <3>4 DEF InFileOrder
  <2>4. InFileOrder(loaded.Certificate, {"CERTIFICATE"})
    BY <2>2, <2>3 DEF Loaded
  <2>5. InFileOrder(loaded.SignedCertificateTimestamps, {"SIGNED CERTIFICATE TIMESTAMP"})
    BY <2>2, <2>3 DEF Loaded
  <2>6. ASSUME NEW i \in DOMAIN file, file[i].type = "OCSP RESPONSE"
        PROVE  loaded.OCSPStaple = file[i]
    <3>1. i \in BlocksOf(file, {"OCSP RESPONSE"}, Len(file))
      BY <2>1, <2>6, HavingIs DEF BlocksOf
    <3>2. QED
      BY <2>2, <3>1 DEF Loaded, OnlyOne
  <2>7. QED
    BY <2>4, <2>5, <2>6
<1>2. QED
  BY <1>1, PassInvariance, PTL
================================================================================
