-------------------------- MODULE OpenListenersProofs --------------------------
(***************************************************************************)
(* Theorems about OpenListeners, for any number of goroutines that open    *)
(* and register, any specifications and any number of descriptors: the     *)
(* lock of the table of types, the one certificate cache, and what becomes *)
(* of the file descriptors.                                                *)
(***************************************************************************)
EXTENDS OpenListeners, TLAPS, WellFoundedInduction, SequenceTheorems

\* Where an opener is while it opens arg[index].
Busy == {"open", "lookup", "call", "cache", "make", "inner", "close"}
-----------------------------------------------------------------------------
(* The lock of the table of types.                                         *)

\* Readers are those that look a type up, at least; a writer is alone.
LockInv ==
  /\ at \in [Openers -> Busy \cup {"next", "fail", "ok", "error"}]
  /\ reg \in [Registrars -> {"call", "wait", "write", "done", "panic"}]
  /\ \A o \in Openers : at[o] = "lookup" => o \in readers
  /\ \A r \in Registrars :
       /\ reg[r] \in {"wait", "write"} <=> writer = r
       /\ reg[r] = "write" => readers = {}

\* Every step of a registrar preserves it.
LEMMA RegistrarLock ==
  ASSUME LockInv, NEW r \in Registrars, RegistrarStep(r)
  PROVE  LockInv'
<1>1. CASE Lock(r)
  BY <1>1, OpenListenersAssumption DEF LockInv, Lock
<1>2. CASE Locked(r)
  BY <1>2 DEF LockInv, Locked
<1>3. CASE Register(r)
  BY <1>3, OpenListenersAssumption DEF LockInv, Register
<1>4. QED
  BY <1>1, <1>2, <1>3 DEF RegistrarStep

\* An opener that does not lock or unlock moves somewhere else than to the
\* lookup.
LEMMA QuietLock ==
  ASSUME LockInv, UNCHANGED regVars, NEW o \in Openers, NEW s,
         s \in Busy \cup {"next", "fail", "ok", "error"}, s # "lookup",
         at' = [at EXCEPT ![o] = s]
  PROVE  LockInv'
  BY DEF LockInv, regVars

\* Every step of an opener preserves it.
LEMMA OpenerLock ==
  ASSUME LockInv, NEW o \in Openers, OpenerStep(o)
  PROVE  LockInv'
<1>1. CASE RLock(o)
  BY <1>1, OpenListenersAssumption DEF LockInv, RLock, MayRead, Busy
<1>2. CASE Lookup(o)
  BY <1>2 DEF LockInv, Lookup, AfterLookup, Busy
<1>3. CASE ~RLock(o) /\ ~Lookup(o)
  <2>1. UNCHANGED regVars
    BY <1>3 DEF OpenerStep, NextSpec, OpenBare, OpenUntyped, ChooseCerts, EnterOnce, MakeCache,
                UseCache, OpenInner, Listen, NoFile, FileListener, CloseFile, CloseAll
  <2>2. PICK s \in (Busy \cup {"next", "fail", "ok", "error"}) \ {"lookup"} : at' = [at EXCEPT ![o] = s]
    BY <1>3 DEF OpenerStep, NextSpec, OpenBare, OpenUntyped, ChooseCerts, EnterOnce, MakeCache,
                UseCache, OpenInner, Listen, NoFile, FileListener, CloseFile, CloseAll, Failed, Busy
  <2>3. QED
    BY <2>1, <2>2, QuietLock
<1>4. QED
  BY <1>1, <1>2, <1>3

\* The lock's invariant.
THEOREM LockInvariance == Spec => []LockInv
<1>1. Init => LockInv
  BY OpenListenersAssumption DEF Init, LockInv, Busy
<1>2. LockInv /\ [Next]_vars => LockInv'
  <2> SUFFICES ASSUME LockInv, [Next]_vars
               PROVE  LockInv'
    OBVIOUS
  <2>1. CASE UNCHANGED vars
    BY <2>1 DEF vars, LockInv
  <2>2. QED
    BY <2>1, OpenerLock, RegistrarLock DEF Next
<1>3. QED
  BY <1>1, <1>2, PTL DEF Spec

\* The map of types is never written while anybody else reads or writes it
\* (listener.go:54-71).
THEOREM NoRaceOnMap == Spec => []NoMapRace
<1>1. LockInv => NoMapRace
  BY OpenListenersAssumption DEF LockInv, NoMapRace
<1>2. QED
  BY <1>1, LockInvariance, PTL
-----------------------------------------------------------------------------
(* The certificate cache.                                                  *)

\* sync.Once: one goroutine makes the cache, while nobody uses it.
CacheInv ==
  /\ at \in [Openers -> Busy \cup {"next", "fail", "ok", "error"}]
  /\ uses \in [Openers -> SUBSET {1}]
  /\ \A o, p \in Openers : at[o] = "make" /\ at[p] = "make" => o = p
  /\ \A o \in Openers : at[o] = "make" => once = "running"
  /\ \/ /\ once \in {"new", "running"}
        /\ caches = 0 /\ cleaners = 0
        /\ \A o \in Openers : uses[o] = {}
     \/ once = "done" /\ caches = 1 /\ cleaners = 1

\* An opener that does not touch the cache moves somewhere else than into the
\* function that makes it.
LEMMA QuietCache ==
  ASSUME CacheInv, UNCHANGED cacheVars, NEW o \in Openers, NEW s,
         s \in Busy \cup {"next", "fail", "ok", "error"}, s # "make",
         at' = [at EXCEPT ![o] = s]
  PROVE  CacheInv'
  BY DEF CacheInv, cacheVars

\* Every step of an opener preserves the invariant.
LEMMA OpenerCache ==
  ASSUME CacheInv, NEW o \in Openers, OpenerStep(o)
  PROVE  CacheInv'
<1>1. CASE EnterOnce(o)
  BY <1>1 DEF CacheInv, EnterOnce, Uninitialized, Busy
<1>2. CASE MakeCache(o)
  BY <1>2 DEF CacheInv, MakeCache, Busy
<1>3. CASE UseCache(o)
  BY <1>3 DEF CacheInv, UseCache, Uninitialized, Busy
<1>4. CASE ~EnterOnce(o) /\ ~MakeCache(o) /\ ~UseCache(o)
  <2>1. UNCHANGED cacheVars
    BY <1>4 DEF OpenerStep, NextSpec, OpenBare, OpenUntyped, RLock, Lookup, ChooseCerts,
                OpenInner, Listen, NoFile, FileListener, CloseFile, CloseAll
  <2>2. PICK s \in (Busy \cup {"next", "fail", "ok", "error"}) \ {"make"} : at' = [at EXCEPT ![o] = s]
    BY <1>4 DEF OpenerStep, NextSpec, OpenBare, OpenUntyped, RLock, Lookup, ChooseCerts,
                OpenInner, Listen, NoFile, FileListener, CloseFile, CloseAll, Failed, Busy
  <2>3. QED
    BY <2>1, <2>2, QuietCache
<1>5. QED
  BY <1>1, <1>2, <1>3, <1>4

\* The invariant of the cache.
THEOREM CacheInvariance == Spec => []CacheInv
<1>1. Init => CacheInv
  BY DEF Init, CacheInv, Busy
<1>2. CacheInv /\ [Next]_vars => CacheInv'
  <2> SUFFICES ASSUME CacheInv, [Next]_vars
               PROVE  CacheInv'
    OBVIOUS
  <2>1. ASSUME NEW r \in Registrars, RegistrarStep(r)
        PROVE  CacheInv'
    BY <2>1 DEF CacheInv, RegistrarStep, Lock, Locked, Register, cacheVars
  <2>2. CASE UNCHANGED vars
    BY <2>2 DEF vars, cacheVars, CacheInv
  <2>3. QED
    BY <2>1, <2>2, OpenerCache DEF Next
<1>3. QED
  BY <1>1, <1>2, PTL DEF Spec

\* All TLS listeners use one cache, which one goroutine cleans, whoever opens
\* the first of them (cert/globalcache.go:38-50).
THEOREM CacheIsOne == Spec => []OneCache
<1>1. CacheInv => OneCache
  BY DEF CacheInv, OneCache
<1>2. QED
  BY <1>1, CacheInvariance, PTL
-----------------------------------------------------------------------------
(* The file descriptors.                                                   *)

\* The socket that opener o is to open as number i.
Want(o, i) == Requested(Innermost(arg[o][i]))

\* Descriptor n as the process was started with it.
PassedAs(n) == Socket("passed", <<n>>)

\* The descriptors of what an opener has opened: its listeners, and what
\* FileListener has returned but the opening function has not.
Held(o) ==
  {listeners[o][k].fd : k \in 1..Len(listeners[o])} \cup
  (IF at[o] = "close" /\ fresh[o] # None THEN {fresh[o]} ELSE {})

\* It is on its way to success.
Going(o) == at[o] \notin {"fail", "error"}

\* It has opened arg[o][i], or given up before; or it has not come to it.
Past(o, i) == i < index[o] \/ (i = index[o] /\ at[o] \in {"next", "ok"})
Ahead(o, i) == i > index[o] \/ (i = index[o] /\ at[o] \in Busy)

\* Where an opener is in its argument.
Placed(o) ==
  /\ index[o] <= Len(arg[o])
  /\ IsList(layers[o]) /\ IsList(listeners[o])
  /\ \A k \in 1..Len(listeners[o]) : listeners[o][k].fd \in FDs
  /\ at[o] = "ok" => index[o] = Len(arg[o])
  /\ at[o] = "error" => listeners[o] = <<>>
  /\ at[o] \in Busy => index[o] > 0 /\ level[o] \in 1..Len(arg[o][index[o]])
  /\ at[o] \in {"cache", "make", "inner"} =>
       Element(o).type = "tls" /\ CertsRead(Element(o)) # NoCerts
  /\ at[o] = "close" => Element(o).type \in {"fd", "fdname"} /\ File(o) # None

\* The types.
PlaceInv ==
  /\ arg \in Jobs
  /\ DOMAIN fds = FDs
  /\ at \in [Openers -> Busy \cup {"next", "fail", "ok", "error"}]
  /\ index \in [Openers -> Nat]
  /\ level \in [Openers -> Nat]
  /\ DOMAIN layers = Openers
  /\ DOMAIN listeners = Openers
  /\ fresh \in [Openers -> FDs \cup {None}]
  /\ \A o \in Openers : Placed(o)

\* A descriptor is free, as it was passed, or held by an opener ...
OwnedInv ==
  \A n \in FDs : fds[n] = Free \/ fds[n] = PassedAs(n) \/ \E o \in Openers : n \in Held(o)

\* ... that was asked for its socket.
HeldInv ==
  \A o \in Openers : \A n \in Held(o) : fds[n] \in Asked(arg[o]) /\ fds[n] # PassedAs(n)

\* The listeners of an opener have descriptors of their own.
ApartInv ==
  \A o \in Openers :
    /\ \A j, k \in 1..Len(listeners[o]) : listeners[o][j].fd = listeners[o][k].fd => j = k
    /\ at[o] = "close" => \A k \in 1..Len(listeners[o]) : listeners[o][k].fd # fresh[o]
    /\ at[o] = "close" /\ fresh[o] # None => fds[fresh[o]] = Want(o, index[o])

\* A passed descriptor stays until the opener that was asked for it has come
\* to it, and no longer.
TurnInv ==
  \A o \in Openers : \A i \in 1..Len(arg[o]), n \in FDs : Want(o, i) = PassedAs(n) =>
    /\ Ahead(o, i) => fds[n] = PassedAs(n)
    /\ Past(o, i) => fds[n] # PassedAs(n)

\* Who has which socket.
SocketInv == OwnedInv /\ HeldInv /\ ApartInv /\ TurnInv

\* What an element wraps; one of type "tls" has certificates.
IsLayer(layer, e) ==
  layer = Layer(e, CertsRead(e), env) /\ (e.type = "tls" => CertsRead(e) # NoCerts)

\* The layers are those of the elements outside element j of arg[o][i].
Wrapped(o, i, j, list) ==
  /\ Len(list) = j - 1
  /\ \A k \in 1..(j - 1) : IsLayer(list[k], arg[o][i][k])

\* What the listeners are that an opener has opened so far.
ListInv ==
  \A o \in Openers : Going(o) =>
    /\ Len(listeners[o]) = IF at[o] \in Busy THEN index[o] - 1 ELSE index[o]
    /\ at[o] \in Busy => Wrapped(o, index[o], level[o], layers[o])
    /\ \A i \in 1..Len(listeners[o]) :
         /\ fds[listeners[o][i].fd] = Want(o, i)
         /\ Wrapped(o, i, Len(arg[o][i]), listeners[o][i].layers)

\* The invariant of the descriptors.
WorkInv == PlaceInv /\ SocketInv /\ ListInv
-----------------------------------------------------------------------------
(* Lists and specifications.                                               *)

\* The indices of a list.
LEMMA ListIs ==
  ASSUME NEW s, IsList(s)
  PROVE  Len(s) \in Nat /\ DOMAIN s = 1..Len(s)
  BY DEF IsList

\* A list with one more element.
LEMMA AppendIs ==
  ASSUME NEW s, IsList(s), NEW e
  PROVE  /\ IsList(Append(s, e)) /\ Len(Append(s, e)) = Len(s) + 1
         /\ \A k \in 1..Len(s) : Append(s, e)[k] = s[k]
         /\ Append(s, e)[Len(s) + 1] = e
<1> DEFINE S == Range(s) \cup {e}
           t == Append(s, e)
<1>1. s \in Seq(S) /\ Len(s) \in Nat /\ DOMAIN s = 1..Len(s)
  BY DEF IsList
<1>2. /\ t \in Seq(S) /\ Len(t) = Len(s) + 1 /\ DOMAIN t = 1..Len(t)
      /\ \A k \in 1..Len(s) : t[k] = s[k]
      /\ t[Len(s) + 1] = e
  BY <1>1
<1>3. IsList(t)
  BY <1>2, SeqOfRange DEF IsList
<1>4. QED
  BY <1>2, <1>3

\* A list without its first element.
LEMMA TailIs ==
  ASSUME NEW s, IsList(s), s # <<>>
  PROVE  /\ IsList(Tail(s)) /\ Len(s) > 0 /\ Len(Tail(s)) = Len(s) - 1 /\ Head(s) = s[1]
         /\ \A k \in 1..Len(Tail(s)) : Tail(s)[k] = s[k + 1]
<1> DEFINE S == Range(s)
           t == Tail(s)
<1>1. s \in Seq(S) /\ Len(s) \in Nat /\ DOMAIN s = 1..Len(s) /\ Len(s) > 0 /\ Head(s) = s[1]
  BY DEF IsList
<1>2. /\ t \in Seq(S) /\ Len(t) = Len(s) - 1 /\ DOMAIN t = 1..Len(t)
      /\ \A k \in 1..Len(t) : t[k] = s[k + 1]
  BY <1>1
<1>3. IsList(t)
  BY <1>2, SeqOfRange DEF IsList
<1>4. QED
  BY <1>1, <1>2, <1>3

\* A specification has a last element, and only wrapping types before it.
LEMMA ArgIs ==
  ASSUME arg \in Jobs, NEW o \in Openers
  PROVE  /\ Len(arg[o]) \in Nat /\ DOMAIN arg[o] = 1..Len(arg[o])
         /\ \A i \in 1..Len(arg[o]) :
              /\ Len(arg[o][i]) \in Nat \ {0}
              /\ DOMAIN arg[o][i] = 1..Len(arg[o][i])
              /\ \A j \in 1..(Len(arg[o][i]) - 1) : arg[o][i][j].type \in {"proxy", "tls"}
<1>1. IsList(arg[o]) /\ \A i \in DOMAIN arg[o] : IsList(arg[o][i]) /\ Len(arg[o][i]) > 0
  BY OpenListenersAssumption
<1>2. \A i \in DOMAIN arg[o] : \A j \in 1..(Len(arg[o][i]) - 1) : arg[o][i][j].type \in {"proxy", "tls"}
  BY OpenListenersAssumption
<1>3. QED
  BY <1>1, <1>2, ListIs

\* Sockets are told apart by their kind and by their identity.
LEMMA SocketsDiffer ==
  ASSUME NEW k, NEW i, NEW l, NEW j, Socket(k, i) = Socket(l, j)
  PROVE  k = l /\ i = j
  BY DEF Socket

\* A passed descriptor by its number.
LEMMA PassedDiffer ==
  ASSUME NEW m, NEW n
  PROVE  PassedAs(n) # Free /\ (PassedAs(m) = PassedAs(n) => m = n)
<1>1. PassedAs(n) # Free
  BY SocketsDiffer DEF PassedAs, Free
<1>2. ASSUME PassedAs(m) = PassedAs(n)
      PROVE  m = n
  <2>1. <<m>> = <<n>>
    BY <1>2, SocketsDiffer DEF PassedAs
  <2>2. QED
    BY <2>1
<1>3. QED
  BY <1>1, <1>2

\* What an opening function reads is what was meant, or it fails.
LEMMA ReadIsRequested ==
  ASSUME NEW e, Read(e) # Free
  PROVE  Read(e) = Requested(e)
<1>1. CASE PortRead(e) = Given(e, "port")
  BY <1>1 DEF Read, Requested
<1>2. CASE PortRead(e) # Given(e, "port")
  <2>1. PortRead(e) = ""
    BY <1>2 DEF PortRead
  <2>2. e.type \notin {"tcp", "bare"}
    BY <2>1 DEF Read, SocketAt, TCPSocket
  <2>3. QED
    BY <2>2 DEF Read, Requested, SocketAt
<1>3. QED
  BY <1>1, <1>2

\* A socket that Listen opens is none that was passed.
LEMMA ListenedIsNew ==
  ASSUME NEW e, NEW port, e.type \notin {"fd", "fdname"}, NEW n
  PROVE  SocketAt(e, port) # PassedAs(n)
<1>1. CASE e.type \in {"tcp", "bare"}
  <2>1. SocketAt(e, port) = TCPSocket(Given(e, "address"), port)
    BY <1>1 DEF SocketAt
  <2>2. \/ SocketAt(e, port) = Free
        \/ SocketAt(e, port) = Socket(Network(Given(e, "address")), <<Given(e, "address"), port>>)
    BY <2>1 DEF TCPSocket
  <2>3. Network(Given(e, "address")) # "passed"
    BY DEF Network
  <2>4. QED
    BY <2>2, <2>3, SocketsDiffer, PassedDiffer DEF PassedAs
<1>2. CASE e.type = "unix"
  <2>1. SocketAt(e, port) = Free \/ SocketAt(e, port) = Socket("unix", <<e.given.path>>)
    BY <1>2 DEF SocketAt
  <2>2. QED
    BY <2>1, SocketsDiffer, PassedDiffer DEF PassedAs
<1>3. QED
  BY <1>1, <1>2, PassedDiffer DEF SocketAt

\* A set of positions has a first one.
LEMMA FirstIs ==
  ASSUME NEW positions \in SUBSET Nat, positions # {}
  PROVE  First(positions) \in positions /\ \A j \in positions : First(positions) <= j
<1>1. PICK i \in positions : \A j \in positions : ~(<<j, i>> \in OpToRel(<, Nat))
  BY WFMin, NatLessThanWellFounded
<1>2. \A j \in positions : i <= j
  <2> TAKE j \in positions
  <2>1. j < i => <<j, i>> \in OpToRel(<, Nat)
    BY Zenon DEF OpToRel
  <2>2. ~(j < i)
    BY <1>1, <2>1, Zenon
  <2>3. QED
    BY <2>2
<1>3. QED
  BY <1>2 DEF First

\* A socket that is taken over was passed.
LEMMA TakenWasPassed ==
  ASSUME arg \in Jobs, NEW o \in Openers, NEW i \in 1..Len(arg[o]), NEW e, e = Innermost(arg[o][i]),
         e.type \in {"fd", "fdname"}, Read(e) # Free
  PROVE  /\ Read(e).id[1] \in {Passed[k] : k \in DOMAIN Passed} /\ Read(e).id[1] \in FDs
         /\ Read(e) = PassedAs(Read(e).id[1])
<1>1. ASSUME NEW k \in DOMAIN Passed, Read(e) = Socket("passed", <<Passed[k]>>)
      PROVE  /\ Read(e).id[1] \in {Passed[l] : l \in DOMAIN Passed} /\ Read(e).id[1] \in FDs
             /\ Read(e) = PassedAs(Read(e).id[1])
  <2>1. Read(e).id[1] = Passed[k]
    BY <1>1 DEF Socket
  <2>2. Passed[k] \in FDs
    BY OpenListenersAssumption
  <2>3. QED
    BY <1>1, <2>1, <2>2 DEF PassedAs
<1>2. CASE e.type = "fd"
  <2>1. Given(e, "fd") \notin BadArgs \cup {""} /\ Read(e) = Socket("passed", <<e.given.fd>>)
    BY <1>2 DEF Read, SocketAt
  <2>2. Given(e, "fd") = e.given.fd
    BY <2>1 DEF Given
  <2>3. Given(e, "fd") \in BadArgs \cup {Passed[k] : k \in DOMAIN Passed}
    <3>1. i \in DOMAIN arg[o]
      BY ArgIs
    <3>2. QED
      BY <3>1, <1>2, OpenListenersAssumption
  <2>4. PICK k \in DOMAIN Passed : e.given.fd = Passed[k]
    BY <2>1, <2>2, <2>3
  <2>5. QED
    BY <2>1, <2>4, <1>1
<1>3. CASE e.type = "fdname"
  <2> DEFINE hits == {k \in DOMAIN FdNames : FdNames[k] = Given(e, "name")}
  <2>1. Read(e) = NamedFd(Given(e, "name"))
    BY <1>3 DEF Read, SocketAt
  <2>2. hits # {} /\ Read(e) = Socket("passed", <<Passed[First(hits)]>>)
    BY <2>1 DEF NamedFd
  <2>3. DOMAIN FdNames \subseteq DOMAIN Passed /\ DOMAIN FdNames \subseteq Nat
    <3>1. IsList(Passed) /\ IsList(FdNames) /\ Len(FdNames) <= Len(Passed)
      BY OpenListenersAssumption
    <3>2. QED
      BY <3>1, ListIs
  <2>4. First(hits) \in DOMAIN Passed
    BY <2>2, <2>3, FirstIs
  <2>5. QED
    BY <2>2, <2>4, <1>1
<1>4. QED
  BY <1>2, <1>3

\* No socket is asked for twice.
LEMMA WantedOnce ==
  ASSUME arg \in Jobs, NEW o \in Openers, NEW p \in Openers, NEW i \in 1..Len(arg[o]),
         NEW j \in 1..Len(arg[p]), Want(o, i) = Want(p, j), Want(o, i) # Free
  PROVE  o = p /\ i = j
<1>1. i \in DOMAIN arg[o] /\ j \in DOMAIN arg[p]
  BY ArgIs
<1>2. <<o, i>> = <<p, j>>
  BY <1>1, OpenListenersAssumption DEF Want
<1>3. QED
  BY <1>2

\* What an opener asks for, by number.
LEMMA AskedIs ==
  ASSUME arg \in Jobs, NEW o \in Openers, NEW x
  PROVE  x \in Asked(arg[o]) <=> x # Free /\ \E i \in 1..Len(arg[o]) : x = Want(o, i)
  BY ArgIs DEF Asked, Want

\* Two openers ask for different sockets.
LEMMA AskedByOne ==
  ASSUME arg \in Jobs, NEW o \in Openers, NEW p \in Openers, NEW x, x \in Asked(arg[o]), x \in Asked(arg[p])
  PROVE  o = p
<1>1. PICK i \in 1..Len(arg[o]), j \in 1..Len(arg[p]) : x # Free /\ x = Want(o, i) /\ x = Want(p, j)
  BY AskedIs
<1>2. QED
  BY <1>1, WantedOnce

\* Who opens a socket is at the last element of the specification.
LEMMA AtSocket ==
  ASSUME PlaceInv, NEW o \in Openers, at[o] \in Busy, Element(o).type \notin {"proxy", "tls"}
  PROVE  /\ index[o] \in 1..Len(arg[o])
         /\ level[o] = Len(arg[o][index[o]])
         /\ Element(o) = Innermost(arg[o][index[o]])
<1>1. index[o] \in 1..Len(arg[o]) /\ level[o] \in 1..Len(arg[o][index[o]])
  BY ArgIs DEF PlaceInv, Placed
<1>2. level[o] = Len(arg[o][index[o]])
  <2>1. arg[o][index[o]][level[o]].type \notin {"proxy", "tls"}
    BY DEF Element
  <2>2. /\ Len(arg[o][index[o]]) \in Nat
        /\ \A j \in 1..(Len(arg[o][index[o]]) - 1) : arg[o][index[o]][j].type \in {"proxy", "tls"}
    BY <1>1, ArgIs DEF PlaceInv, Placed
  <2>3. QED
    BY <1>1, <2>1, <2>2
<1>3. QED
  BY <1>1, <1>2 DEF Element, Innermost
-----------------------------------------------------------------------------
(* Who holds what.                                                         *)

\* Descriptors that openers hold are open, and no two openers hold one.
LEMMA HeldIs ==
  ASSUME WorkInv, NEW o \in Openers
  PROVE  /\ Held(o) \subseteq FDs
         /\ \A k \in 1..Len(listeners[o]) : listeners[o][k].fd \in Held(o)
         /\ \A n \in Held(o) : fds[n] # Free /\ fds[n] # PassedAs(n)
         /\ \A p \in Openers \ {o} : Held(o) \cap Held(p) = {}
<1>1. Held(o) \subseteq FDs
  BY DEF WorkInv, PlaceInv, Placed, Held
<1>2. \A k \in 1..Len(listeners[o]) : listeners[o][k].fd \in Held(o)
  BY DEF Held
<1>3. \A n \in Held(o) : fds[n] # Free /\ fds[n] # PassedAs(n)
  BY DEF WorkInv, SocketInv, HeldInv, Asked
<1>4. ASSUME NEW p \in Openers \ {o}, NEW n \in Held(o), n \in Held(p)
      PROVE  FALSE
  <2>1. fds[n] \in Asked(arg[o]) /\ fds[n] \in Asked(arg[p])
    BY <1>4 DEF WorkInv, SocketInv, HeldInv
  <2>2. QED
    BY <2>1, AskedByOne DEF WorkInv, PlaceInv, Placed
<1>5. QED
  BY <1>1, <1>2, <1>3, <1>4

\* An opener that goes from one place to another in the middle of its work,
\* or gives up, changes nothing of this.
LEMMA QuietWork ==
  ASSUME WorkInv, UNCHANGED <<fds, osVars, posVars, listeners, fresh>>, NEW o \in Openers,
         at[o] \in Busy \ {"close"}, NEW s \in (Busy \ {"close"}) \cup {"fail"},
         at' = [at EXCEPT ![o] = s],
         s \in {"cache", "make", "inner"} => Element(o).type = "tls" /\ CertsRead(Element(o)) # NoCerts
  PROVE  WorkInv'
<1>1. PlaceInv'
  <2>1. at' \in [Openers -> Busy \cup {"next", "fail", "ok", "error"}]
    BY DEF WorkInv, PlaceInv, Busy
  <2>2. \A p \in Openers : Element(p)' = Element(p) /\ File(p)' = File(p)
    BY DEF osVars, posVars, Element, File
  <2>3. \A p \in Openers : Placed(p)'
    <3>1. TAKE p \in Openers
    <3>2. Placed(p)
      BY DEF WorkInv, PlaceInv
    <3>3. CASE p = o
      <4>1. at[p] \in Busy /\ at'[p] = s /\ s \notin {"ok", "close", "error"}
        BY <3>3 DEF WorkInv, PlaceInv, Busy
      <4>2. QED
        BY <2>2, <3>2, <3>3, <4>1 DEF Placed, posVars
    <3>4. CASE p # o
      <4>1. at'[p] = at[p]
        BY <3>4 DEF WorkInv, PlaceInv
      <4>2. QED
        BY <2>2, <3>2, <4>1 DEF Placed, posVars
    <3>5. QED
      BY <3>3, <3>4
  <2>4. QED
    BY <2>1, <2>3 DEF WorkInv, PlaceInv, posVars
<1>2. \A p \in Openers : Held(p)' = Held(p)
  BY DEF WorkInv, PlaceInv, Placed, Held, Busy
<1>3. \A p \in Openers : \A i : Want(p, i)' = Want(p, i)
  BY DEF Want, posVars
<1>4. \A p \in Openers : \A i : (Ahead(p, i)' => Ahead(p, i)) /\ (Past(p, i)' => Past(p, i))
  BY DEF WorkInv, PlaceInv, Placed, Ahead, Past, posVars, Busy
<1>5. SocketInv'
  <2>1. OwnedInv' /\ HeldInv'
    BY <1>2 DEF WorkInv, SocketInv, OwnedInv, HeldInv, posVars
  <2>2. ApartInv'
    BY <1>3 DEF WorkInv, PlaceInv, Placed, SocketInv, ApartInv, posVars, Busy
  <2>3. TurnInv'
    BY <1>3, <1>4 DEF WorkInv, SocketInv, TurnInv, posVars
  <2>4. QED
    BY <2>1, <2>2, <2>3 DEF SocketInv
<1>6. ListInv'
  <2>1. \A p \in Openers : \A i, j, list : Wrapped(p, i, j, list)' <=> Wrapped(p, i, j, list)
    BY DEF Wrapped, IsLayer, osVars, posVars
  <2>2. \A p \in Openers : Going(p)' => Going(p) /\ (at'[p] \in Busy <=> at[p] \in Busy)
    BY DEF WorkInv, PlaceInv, Placed, Going, Busy
  <2>3. QED
    BY <1>3, <2>1, <2>2 DEF WorkInv, PlaceInv, Placed, ListInv, osVars, posVars
<1>7. QED
  BY <1>1, <1>5, <1>6 DEF WorkInv

\* Nor does a step of somebody who opens nothing.
LEMMA ElsewhereWork ==
  ASSUME WorkInv, UNCHANGED <<fds, osVars, posVars, listeners, fresh, at>>
  PROVE  WorkInv'
<1>1. PlaceInv'
  BY DEF WorkInv, PlaceInv, Placed, osVars, posVars, Element, File
<1>2. OwnedInv' /\ HeldInv' /\ ApartInv' /\ TurnInv'
  BY DEF WorkInv, SocketInv, OwnedInv, HeldInv, ApartInv, TurnInv, Held, Want, Ahead, Past, posVars
<1>3. ListInv'
  BY DEF WorkInv, ListInv, Going, Wrapped, IsLayer, Want, osVars, posVars
<1>4. QED
  BY <1>1, <1>2, <1>3 DEF WorkInv, SocketInv
-----------------------------------------------------------------------------
(* The steps of an opener.                                                 *)

\* So many layers are put around listener i.
LEMMA WrappedIs ==
  ASSUME NEW o, NEW i, NEW j \in Nat, NEW list, Len(list) = j,
         \A k \in 1..j : IsLayer(list[k], arg[o][i][k])
  PROVE  Wrapped(o, i, j + 1, list)
<1>1. (j + 1) - 1 = j
  OBVIOUS
<1>2. QED
  BY <1>1 DEF Wrapped

\* It goes on to the next specification, or has opened the last one.
LEMMA NextSpecWork ==
  ASSUME WorkInv, NEW o \in Openers, NextSpec(o)
  PROVE  WorkInv'
<1>1. /\ at[o] = "next" /\ UNCHANGED <<fds, osVars, arg, listeners, fresh>>
      /\ \/ /\ index[o] < Len(arg[o])
            /\ at' = [at EXCEPT ![o] = "open"] /\ index' = [index EXCEPT ![o] = @ + 1]
            /\ level' = [level EXCEPT ![o] = 1] /\ layers' = [layers EXCEPT ![o] = <<>>]
         \/ /\ index[o] >= Len(arg[o])
            /\ at' = [at EXCEPT ![o] = "ok"] /\ UNCHANGED <<index, level, layers>>
  BY ArgIs DEF NextSpec, WorkInv, PlaceInv, Placed
<1>2. IsList(<<>>) /\ Len(<<>>) = 0
  BY EmptySeq DEF IsList
<1>3. PlaceInv'
  <2>1. \A p \in Openers \ {o} : /\ at'[p] = at[p] /\ index'[p] = index[p]
                                 /\ level'[p] = level[p] /\ layers'[p] = layers[p]
                                 /\ Element(p)' = Element(p) /\ File(p)' = File(p)
    <3>1. \A p \in Openers \ {o} : /\ at'[p] = at[p] /\ index'[p] = index[p]
                                   /\ level'[p] = level[p] /\ layers'[p] = layers[p]
      BY <1>1 DEF WorkInv, PlaceInv
    <3>2. QED
      BY <1>1, <3>1 DEF Element, File, osVars
  <2>2. /\ index'[o] \in Nat /\ index'[o] <= Len(arg[o]) /\ level'[o] \in Nat
        /\ at'[o] \in {"open", "ok"} /\ IsList(layers'[o])
        /\ at'[o] = "ok" => index'[o] = Len(arg[o])
        /\ at'[o] = "open" => index'[o] > 0 /\ level'[o] \in 1..Len(arg[o][index'[o]])
    <3>1. /\ arg \in Jobs /\ index[o] \in Nat /\ level[o] \in Nat
          /\ index[o] <= Len(arg[o]) /\ IsList(layers[o]) /\ Len(arg[o]) \in Nat
      BY ArgIs DEF WorkInv, PlaceInv, Placed
    <3>2. at'[o] \in {"open", "ok"} /\ IsList(layers'[o])
      BY <1>1, <1>2, <3>1 DEF WorkInv, PlaceInv
    <3>3. CASE index[o] < Len(arg[o])
      <4>1. /\ at'[o] = "open" /\ index'[o] = index[o] + 1 /\ level'[o] = 1
        BY <1>1, <3>1, <3>3 DEF WorkInv, PlaceInv
      <4>2. index[o] + 1 \in 1..Len(arg[o])
        BY <3>1, <3>3
      <4>3. \A i \in 1..Len(arg[o]) : Len(arg[o][i]) \in Nat \ {0}
        BY <3>1, ArgIs
      <4>4. \A i \in 1..Len(arg[o]) : 1 \in 1..Len(arg[o][i])
        BY <4>3
      <4>5. QED
        BY <3>2, <4>1, <4>2, <4>4
    <3>4. CASE ~(index[o] < Len(arg[o]))
      <4>1. /\ at'[o] = "ok" /\ index'[o] = index[o] /\ level'[o] = level[o]
        BY <1>1, <3>1, <3>4 DEF WorkInv, PlaceInv
      <4>2. QED
        BY <3>1, <3>2, <3>4, <4>1
    <3>5. QED
      BY <3>3, <3>4
  <2>3. /\ at' \in [Openers -> Busy \cup {"next", "fail", "ok", "error"}]
        /\ index' \in [Openers -> Nat] /\ level' \in [Openers -> Nat] /\ DOMAIN layers' = Openers
    <3>1. /\ at \in [Openers -> Busy \cup {"next", "fail", "ok", "error"}]
          /\ index \in [Openers -> Nat] /\ level \in [Openers -> Nat] /\ DOMAIN layers = Openers
      BY DEF WorkInv, PlaceInv
    <3>2. at' \in [Openers -> Busy \cup {"next", "fail", "ok", "error"}]
      BY <1>1, <3>1 DEF Busy
    <3>3. index' \in [Openers -> Nat] /\ level' \in [Openers -> Nat] /\ DOMAIN layers' = Openers
      <4>1. CASE index[o] < Len(arg[o])
        <5>1. index' = [index EXCEPT ![o] = @ + 1] /\ index[o] + 1 \in Nat
          BY <1>1, <3>1, <4>1, ArgIs DEF WorkInv, PlaceInv
        <5>2. level' = [level EXCEPT ![o] = 1] /\ layers' = [layers EXCEPT ![o] = <<>>]
          BY <1>1, <3>1, <4>1, ArgIs DEF WorkInv, PlaceInv
        <5>3. QED
          BY <3>1, <5>1, <5>2
      <4>2. CASE ~(index[o] < Len(arg[o]))
        <5>1. UNCHANGED <<index, level, layers>>
          BY <1>1, <4>2
        <5>2. QED
          BY <3>1, <5>1
      <4>3. QED
        BY <4>1, <4>2
    <3>4. QED
      BY <3>2, <3>3
  <2>4. \A p \in Openers \ {o} : Placed(p)'
    BY <1>1, <2>1 DEF WorkInv, PlaceInv, Placed
  <2>5. Placed(o)'
    BY <1>1, <2>2 DEF WorkInv, PlaceInv, Placed, Busy
  <2>6. QED
    BY <1>1, <2>3, <2>4, <2>5 DEF WorkInv, PlaceInv
<1>4. \A p \in Openers : Held(p)' = Held(p)
  <2>1. \A p \in Openers : at'[p] = "close" <=> at[p] = "close"
    BY <1>1 DEF WorkInv, PlaceInv
  <2>2. listeners' = listeners /\ fresh' = fresh
    BY <1>1
  <2>3. QED
    BY <2>1, <2>2 DEF Held
<1>5. \A p \in Openers : \A i : Want(p, i)' = Want(p, i)
  BY <1>1 DEF Want
<1>6. \A p \in Openers, i \in Nat : (Ahead(p, i)' => Ahead(p, i)) /\ (Past(p, i)' => Past(p, i))
  BY <1>1 DEF WorkInv, PlaceInv, Placed, Ahead, Past, Busy
<1>7. SocketInv'
  <2>1. OwnedInv' /\ HeldInv'
    BY <1>1, <1>4 DEF WorkInv, SocketInv, OwnedInv, HeldInv
  <2>2. ApartInv'
    <3>1. \A p \in Openers : at'[p] = "close" => at[p] = "close" /\ index'[p] = index[p]
      BY <1>1 DEF WorkInv, PlaceInv, Placed
    <3>2. QED
      BY <1>1, <1>5, <3>1 DEF WorkInv, SocketInv, ApartInv
  <2>3. TurnInv'
    BY <1>1, <1>5, <1>6, ArgIs DEF WorkInv, PlaceInv, Placed, SocketInv, TurnInv
  <2>4. QED
    BY <2>1, <2>2, <2>3 DEF SocketInv
<1>8. ListInv'
  <2>1. \A p \in Openers : \A i, j, list : Wrapped(p, i, j, list)' <=> Wrapped(p, i, j, list)
    BY <1>1 DEF Wrapped, IsLayer, osVars
  <2>2. \A i : Wrapped(o, i, 1, <<>>)
    BY <1>2 DEF Wrapped
  <2>3. \A p \in Openers \ {o} : /\ at'[p] = at[p] /\ index'[p] = index[p]
                                 /\ level'[p] = level[p] /\ layers'[p] = layers[p]
    BY <1>1 DEF WorkInv, PlaceInv, Placed
  <2>4. \A p \in Openers : \A i \in 1..Len(listeners[p]) : Going(p) =>
           fds[listeners[p][i].fd] = Want(p, i) /\ Wrapped(p, i, Len(arg[p][i]), listeners[p][i].layers)
    BY DEF WorkInv, ListInv
  <2>5. Len(listeners[o]) = index[o] /\ Going(o)
    BY <1>1 DEF WorkInv, ListInv, Going, Busy
  <2>6. ASSUME NEW p \in Openers, Going(p)'
        PROVE  /\ Going(p)
               /\ Len(listeners[p]) = IF at'[p] \in Busy THEN index'[p] - 1 ELSE index'[p]
               /\ at'[p] \in Busy => Wrapped(p, index'[p], level'[p], layers'[p])
    <3>1. CASE p = o
      BY <3>1, <1>1, <2>2, <2>5 DEF WorkInv, PlaceInv, Placed, Busy
    <3>2. CASE p # o
      BY <3>2, <2>3, <2>6 DEF WorkInv, ListInv, Going
    <3>3. QED
      BY <3>1, <3>2
  <2>7. QED
    BY <1>1, <1>5, <2>1, <2>4, <2>6 DEF ListInv
<1>9. QED
  BY <1>3, <1>7, <1>8 DEF WorkInv
\* It goes on to the element inside, with one layer more.
LEMMA WrapWork ==
  ASSUME WorkInv, NEW o \in Openers, at[o] \in Busy \ {"close"}, level[o] # Len(arg[o][index[o]]),
         Element(o).type = "tls" => CertsRead(Element(o)) # NoCerts,
         UNCHANGED <<fds, osVars, arg, index, listeners, fresh>>,
         at' = [at EXCEPT ![o] = "open"], level' = [level EXCEPT ![o] = @ + 1],
         layers' = [layers EXCEPT ![o] = Append(@, Layer(Element(o), CertsRead(Element(o)), env))]
  PROVE  WorkInv'
<1>1. \A p \in Openers \ {o} : /\ at'[p] = at[p] /\ level'[p] = level[p] /\ layers'[p] = layers[p]
                               /\ Element(p)' = Element(p) /\ File(p)' = File(p)
  BY DEF WorkInv, PlaceInv, Element, File, osVars
<1> DEFINE spec == arg[o][index[o]]
           new == Append(layers[o], Layer(Element(o), CertsRead(Element(o)), env))
<1>2. index[o] \in 1..Len(arg[o]) /\ level[o] \in 1..Len(spec) /\ Len(spec) \in Nat
  BY ArgIs DEF WorkInv, PlaceInv, Placed, Busy
<1>3. /\ at'[o] = "open" /\ level'[o] = level[o] + 1 /\ level'[o] \in 1..Len(spec)
      /\ layers'[o] = new /\ IsList(layers[o])
  BY <1>2 DEF WorkInv, PlaceInv, Placed
<1>4. /\ IsList(new) /\ Len(new) = Len(layers[o]) + 1
      /\ \A k \in 1..Len(layers[o]) : new[k] = layers[o][k]
      /\ new[Len(layers[o]) + 1] = Layer(Element(o), CertsRead(Element(o)), env)
  BY <1>3, AppendIs
<1>5. PlaceInv'
  <2>1. /\ at' \in [Openers -> Busy \cup {"next", "fail", "ok", "error"}]
        /\ level' \in [Openers -> Nat] /\ DOMAIN layers' = Openers
    BY <1>3 DEF WorkInv, PlaceInv, Busy
  <2>2. \A p \in Openers \ {o} : Placed(p)'
    BY <1>1 DEF WorkInv, PlaceInv, Placed
  <2>3. Placed(o)'
    BY <1>2, <1>3, <1>4 DEF WorkInv, PlaceInv, Placed
  <2>4. QED
    BY <2>1, <2>2, <2>3 DEF WorkInv, PlaceInv
<1>6. SocketInv'
  <2>1. \A p \in Openers : Held(p)' = Held(p)
    BY DEF WorkInv, PlaceInv, Held
  <2>2. \A p \in Openers : \A i : Want(p, i)' = Want(p, i)
    BY DEF Want
  <2>3. \A p \in Openers : \A i : (Ahead(p, i)' => Ahead(p, i)) /\ (Past(p, i)' => Past(p, i))
    BY DEF WorkInv, PlaceInv, Ahead, Past, Busy
  <2>4. OwnedInv' /\ HeldInv'
    BY <2>1 DEF WorkInv, SocketInv, OwnedInv, HeldInv
  <2>5. ApartInv'
    BY <2>2, <1>1, <1>3 DEF WorkInv, SocketInv, ApartInv
  <2>6. TurnInv'
    BY <2>2, <2>3 DEF WorkInv, SocketInv, TurnInv
  <2>7. QED
    BY <2>4, <2>5, <2>6 DEF SocketInv
<1>7. ListInv'
  <2>1. \A p \in Openers : \A i, j, list : Wrapped(p, i, j, list)' <=> Wrapped(p, i, j, list)
    BY DEF Wrapped, IsLayer, osVars
  <2>2. Wrapped(o, index[o], level[o], layers[o]) /\ Going(o) /\ Len(listeners[o]) = index[o] - 1
    BY DEF WorkInv, ListInv, Going, Busy
  <2>3. Wrapped(o, index[o], level[o] + 1, new)
    <3>1. Len(layers[o]) = level[o] - 1
      BY <2>2 DEF Wrapped
    <3>2. \A k \in 1..(level[o] - 1) : IsLayer(new[k], spec[k])
      BY <1>4, <2>2, <3>1 DEF Wrapped
    <3>3. IsLayer(new[level[o]], spec[level[o]])
      <4>1. Len(layers[o]) + 1 = level[o]
        BY <1>2, <3>1
      <4>2. new[level[o]] = Layer(Element(o), CertsRead(Element(o)), env)
        BY <1>4, <4>1
      <4>3. Element(o) = spec[level[o]]
        BY DEF Element
      <4>4. QED
        BY <4>2, <4>3 DEF IsLayer
    <3>4. Len(new) = level[o] /\ level[o] \in Nat
      BY <1>2, <1>4, <3>1
    <3>5. \A k \in 1..level[o] : k = level[o] \/ k \in 1..(level[o] - 1)
      BY <3>4
    <3>6. \A k \in 1..level[o] : IsLayer(new[k], spec[k])
      BY <3>2, <3>3, <3>5
    <3>7. QED
      BY <3>4, <3>6, WrappedIs
  <2>4. ASSUME NEW p \in Openers, Going(p)'
        PROVE  /\ Going(p)
               /\ Len(listeners[p]) = IF at'[p] \in Busy THEN index[p] - 1 ELSE index[p]
               /\ at'[p] \in Busy => Wrapped(p, index[p], level'[p], layers'[p])
    <3>1. CASE p = o
      BY <3>1, <1>3, <2>2, <2>3 DEF Busy
    <3>2. CASE p # o
      BY <3>2, <1>1, <2>4 DEF WorkInv, ListInv, Going
    <3>3. QED
      BY <3>1, <3>2
  <2>5. QED
    BY <2>1, <2>4 DEF WorkInv, ListInv, Want
<1>8. QED
  BY <1>5, <1>6, <1>7 DEF WorkInv
\* It listens on a new socket.
LEMMA ListenWork ==
  ASSUME WorkInv, NEW o \in Openers, NEW n \in FDs,
         at[o] = "call", Element(o).type \in {"tcp", "bare", "unix"},
         fds[n] = Free, Read(Element(o)) # Free,
         fds' = [fds EXCEPT ![n] = Read(Element(o))],
         listeners' = [listeners EXCEPT ![o] = Append(@, [fd |-> n, layers |-> layers[o]])],
         at' = [at EXCEPT ![o] = "next"],
         UNCHANGED <<osVars, posVars, fresh>>
  PROVE  WorkInv'
<1> DEFINE new == [fd |-> n, layers |-> layers[o]]
           list == Append(listeners[o], new)
           last == Len(listeners[o]) + 1
<1>1. /\ index[o] \in 1..Len(arg[o]) /\ level[o] = Len(arg[o][index[o]])
      /\ Read(Element(o)) = Want(o, index[o])
  <2>1. /\ index[o] \in 1..Len(arg[o]) /\ level[o] = Len(arg[o][index[o]])
        /\ Element(o) = Innermost(arg[o][index[o]])
    BY AtSocket DEF WorkInv, Busy
  <2>2. Read(Element(o)) = Requested(Element(o))
    BY ReadIsRequested
  <2>3. QED
    BY <2>1, <2>2 DEF Want
<1>2. \A m : Want(o, index[o]) # PassedAs(m)
  BY <1>1, ListenedIsNew DEF Read
<1>3. /\ fds'[n] = Want(o, index[o]) /\ \A m \in FDs \ {n} : fds'[m] = fds[m]
      /\ DOMAIN fds' = FDs
  BY <1>1 DEF WorkInv, PlaceInv
<1>4. /\ IsList(listeners[o]) /\ Len(listeners[o]) \in Nat
      /\ listeners'[o] = list /\ IsList(list) /\ Len(list) = last
      /\ \A k \in 1..Len(listeners[o]) : list[k] = listeners[o][k]
      /\ list[last] = new
  BY AppendIs, ListIs DEF WorkInv, PlaceInv, Placed
<1>5. \A p \in Openers \ {o} : at'[p] = at[p] /\ listeners'[p] = listeners[p] /\ Held(p)' = Held(p)
  BY DEF WorkInv, PlaceInv, Held
<1>6. at'[o] = "next" /\ Held(o)' = Held(o) \cup {n}
  BY <1>4 DEF WorkInv, PlaceInv, Held
<1>7. \A p \in Openers : n \notin Held(p)
  BY HeldIs
<1>8. \A p \in Openers : \A i : Want(p, i)' = Want(p, i)
  BY DEF Want, posVars
<1>9. PlaceInv'
  <2>1. /\ at' \in [Openers -> Busy \cup {"next", "fail", "ok", "error"}]
        /\ DOMAIN listeners' = Openers
    BY DEF WorkInv, PlaceInv
  <2>2. \A p \in Openers : Element(p)' = Element(p) /\ File(p)' = File(p)
    BY DEF Element, File, osVars, posVars
  <2>3. \A p \in Openers \ {o} : Placed(p)'
    BY <1>5, <2>2 DEF WorkInv, PlaceInv, Placed, posVars
  <2>4. Placed(o)'
    BY <1>4, <1>6 DEF WorkInv, PlaceInv, Placed, posVars, Busy
  <2>5. QED
    BY <1>3, <2>1, <2>3, <2>4 DEF WorkInv, PlaceInv, posVars
<1>10. SocketInv'
  <2>1. OwnedInv'
    BY <1>3, <1>5, <1>6 DEF WorkInv, SocketInv, OwnedInv
  <2>2. HeldInv'
    <3>1. fds'[n] \in Asked(arg[o]) /\ fds'[n] # PassedAs(n)
      BY <1>1, <1>2, <1>3, AskedIs DEF WorkInv, PlaceInv
    <3>2. \A p \in Openers : \A m \in Held(p) : fds'[m] = fds[m]
      BY <1>3, <1>7, HeldIs
    <3>3. QED
      BY <1>5, <1>6, <3>1, <3>2 DEF WorkInv, SocketInv, HeldInv, posVars
  <2>3. ApartInv'
    <3>1. ASSUME NEW p \in Openers \ {o}, at[p] = "close", fresh[p] # None
          PROVE  fds'[fresh[p]] = fds[fresh[p]]
      <4>1. fresh[p] \in Held(p)
        BY <3>1 DEF Held
      <4>2. QED
        BY <4>1, <1>3, <1>7, HeldIs
    <3>2. \A j, k \in 1..Len(list) : list[j].fd = list[k].fd => j = k
      <4>1. \A k \in 1..Len(listeners[o]) : listeners[o][k].fd # n
        BY <1>7, HeldIs
      <4>2. QED
        BY <1>4, <4>1 DEF WorkInv, SocketInv, ApartInv
    <3>3. QED
      BY <1>4, <1>5, <1>6, <1>8, <3>1, <3>2 DEF WorkInv, SocketInv, ApartInv, posVars
  <2>4. TurnInv'
    <3> SUFFICES ASSUME NEW p \in Openers, NEW i \in 1..Len(arg[p]), NEW m \in FDs,
                        Want(p, i) = PassedAs(m)
                 PROVE  /\ Ahead(p, i)' => fds'[m] = PassedAs(m)
                        /\ Past(p, i)' => fds'[m] # PassedAs(m)
      BY <1>8 DEF TurnInv, posVars
    <3>1. (Ahead(p, i)' => Ahead(p, i)) /\ (Past(p, i)' => Past(p, i) \/ (p = o /\ i = index[o]))
      BY <1>5, <1>6 DEF Ahead, Past, posVars, Busy
    <3>2. /\ Ahead(p, i) => fds[m] = PassedAs(m)
          /\ Past(p, i) => fds[m] # PassedAs(m)
      BY DEF WorkInv, SocketInv, TurnInv
    <3>3. PassedAs(m) # Free
      BY PassedDiffer
    <3>4. QED
      BY <1>2, <1>3, <3>1, <3>2, <3>3
  <2>5. QED
    BY <2>1, <2>2, <2>3, <2>4 DEF SocketInv
<1>11. ListInv'
  <2>1. \A p \in Openers : \A i, j, l : Wrapped(p, i, j, l)' <=> Wrapped(p, i, j, l)
    BY DEF Wrapped, IsLayer, osVars, posVars
  <2>2. \A p \in Openers : \A k \in 1..Len(listeners[p]) : fds'[listeners[p][k].fd] = fds[listeners[p][k].fd]
    BY <1>3, <1>7, HeldIs
  <2>3. /\ Going(o) /\ last = index[o] /\ Wrapped(o, index[o], level[o], layers[o])
    <3>1. at[o] \in Busy /\ Going(o)
      BY DEF Going, Busy
    <3>2. index[o] \in Nat
      BY <3>1 DEF WorkInv, PlaceInv, Placed
    <3>3. Len(listeners[o]) = index[o] - 1 /\ Wrapped(o, index[o], level[o], layers[o])
      BY <3>1 DEF WorkInv, ListInv
    <3>4. QED
      BY <3>1, <3>2, <3>3
  <2>4. ASSUME NEW p \in Openers \ {o}, Going(p)'
        PROVE  /\ Len(listeners[p]) = IF at[p] \in Busy THEN index[p] - 1 ELSE index[p]
               /\ at[p] \in Busy => Wrapped(p, index[p], level[p], layers[p])
               /\ \A i \in 1..Len(listeners[p]) :
                    /\ fds'[listeners[p][i].fd] = Want(p, i)
                    /\ Wrapped(p, i, Len(arg[p][i]), listeners[p][i].layers)
    BY <1>5, <2>2, <2>4 DEF WorkInv, ListInv, Going
  <2>5. /\ Len(list) = index[o]
        /\ \A i \in 1..Len(list) :
             /\ fds'[list[i].fd] = Want(o, i)
             /\ Wrapped(o, i, Len(arg[o][i]), list[i].layers)
    <3>1. \A i \in 1..Len(listeners[o]) :
            /\ fds'[list[i].fd] = Want(o, i)
            /\ Wrapped(o, i, Len(arg[o][i]), list[i].layers)
      <4>1. TAKE i \in 1..Len(listeners[o])
      <4>2. list[i] = listeners[o][i]
        BY <1>4
      <4>3. fds'[listeners[o][i].fd] = fds[listeners[o][i].fd]
        BY <2>2
      <4>4. /\ fds[listeners[o][i].fd] = Want(o, i)
            /\ Wrapped(o, i, Len(arg[o][i]), listeners[o][i].layers)
        BY <2>3 DEF WorkInv, ListInv
      <4>5. QED
        BY <4>2, <4>3, <4>4
    <3>2. /\ fds'[list[last].fd] = Want(o, last)
          /\ Wrapped(o, last, Len(arg[o][last]), list[last].layers)
      BY <1>1, <1>3, <1>4, <2>3
    <3>3. Len(list) = last /\ last = index[o] /\ Len(listeners[o]) \in Nat
      BY <1>4, <2>3
    <3>4. \A i \in 1..Len(list) : i \in 1..Len(listeners[o]) \/ i = last
      BY <3>3
    <3>5. QED
      BY <3>1, <3>2, <3>3, <3>4
  <2>6. QED
    BY <1>4, <1>5, <1>6, <1>8, <2>1, <2>4, <2>5 DEF ListInv, posVars, Busy
<1>12. QED
  BY <1>9, <1>10, <1>11 DEF WorkInv

\* A descriptor that is to be taken over is there, as it was passed.
LEMMA FileIs ==
  ASSUME WorkInv, NEW o \in Openers, at[o] \in {"call", "close"},
         Element(o).type \in {"fd", "fdname"}, File(o) # None
  PROVE  /\ index[o] \in 1..Len(arg[o]) /\ level[o] = Len(arg[o][index[o]])
         /\ File(o) \in FDs
         /\ Want(o, index[o]) = PassedAs(File(o)) /\ fds[File(o)] = PassedAs(File(o))
<1>1. /\ index[o] \in 1..Len(arg[o]) /\ level[o] = Len(arg[o][index[o]])
      /\ Element(o) = Innermost(arg[o][index[o]])
  <2>1. PlaceInv /\ at[o] \in Busy
    BY DEF WorkInv, Busy
  <2>2. Element(o).type \notin {"proxy", "tls"}
    OBVIOUS
  <2>3. QED
    BY <2>1, <2>2, AtSocket
<1>2. Read(Element(o)) # Free /\ File(o) = Read(Element(o)).id[1]
  BY DEF File
<1>3. File(o) \in FDs /\ Read(Element(o)) = PassedAs(File(o))
  <2>1. arg \in Jobs
    BY DEF WorkInv, PlaceInv
  <2>2. QED
    BY <1>1, <1>2, <2>1, TakenWasPassed
<1>4. Want(o, index[o]) = PassedAs(File(o))
  BY <1>1, <1>2, <1>3, ReadIsRequested DEF Want
<1>5. Ahead(o, index[o])
  BY DEF Ahead, Busy
<1>6. QED
  BY <1>1, <1>3, <1>4, <1>5 DEF WorkInv, SocketInv, TurnInv

\* FileListener fails, and the file is to be closed.
LEMMA NotTakenWork ==
  ASSUME WorkInv, NEW o \in Openers, at[o] = "call",
         Element(o).type \in {"fd", "fdname"}, File(o) # None,
         fresh' = [fresh EXCEPT ![o] = None], at' = [at EXCEPT ![o] = "close"],
         UNCHANGED <<fds, osVars, posVars, listeners>>
  PROVE  WorkInv'
<1>1. \A p \in Openers \ {o} : at'[p] = at[p] /\ fresh'[p] = fresh[p] /\ Held(p)' = Held(p)
  BY DEF WorkInv, PlaceInv, Held
<1>2. at'[o] = "close" /\ fresh'[o] = None /\ Held(o)' = Held(o)
  BY DEF WorkInv, PlaceInv, Held
<1>3. \A p \in Openers : \A i : Want(p, i)' = Want(p, i)
  BY DEF Want, posVars
<1>4. PlaceInv'
  <2>1. \A p \in Openers : Element(p)' = Element(p) /\ File(p)' = File(p)
    BY DEF Element, File, osVars, posVars
  <2>2. /\ at' \in [Openers -> Busy \cup {"next", "fail", "ok", "error"}]
        /\ fresh' \in [Openers -> FDs \cup {None}]
    BY DEF WorkInv, PlaceInv, Busy
  <2>3. \A p \in Openers \ {o} : Placed(p)'
    BY <1>1, <2>1 DEF WorkInv, PlaceInv, Placed, posVars
  <2>4. Placed(o)'
    BY <1>2, <2>1 DEF WorkInv, PlaceInv, Placed, posVars, Busy
  <2>5. QED
    BY <2>2, <2>3, <2>4 DEF WorkInv, PlaceInv, posVars
<1>5. SocketInv'
  <2>1. OwnedInv' /\ HeldInv'
    BY <1>1, <1>2 DEF WorkInv, SocketInv, OwnedInv, HeldInv, posVars
  <2>2. ApartInv'
    <3>1. \A k \in 1..Len(listeners[o]) : listeners[o][k].fd # None
      BY OpenListenersAssumption DEF WorkInv, PlaceInv, Placed
    <3>2. QED
      BY <1>1, <1>2, <1>3, <3>1 DEF WorkInv, SocketInv, ApartInv, posVars
  <2>3. \A p \in Openers : \A i : (Ahead(p, i)' => Ahead(p, i)) /\ (Past(p, i)' => Past(p, i))
    BY <1>1, <1>2 DEF Ahead, Past, posVars, Busy
  <2>4. TurnInv'
    BY <1>3, <2>3 DEF WorkInv, SocketInv, TurnInv, posVars
  <2>5. QED
    BY <2>1, <2>2, <2>4 DEF SocketInv
<1>6. ListInv'
  <2>1. \A p \in Openers : \A i, j, list : Wrapped(p, i, j, list)' <=> Wrapped(p, i, j, list)
    BY DEF Wrapped, IsLayer, osVars, posVars
  <2>2. \A p \in Openers : Going(p)' => Going(p) /\ (at'[p] \in Busy <=> at[p] \in Busy)
    BY <1>1, <1>2 DEF Going, Busy
  <2>3. QED
    BY <1>3, <2>1, <2>2 DEF WorkInv, ListInv, posVars
<1>7. QED
  BY <1>4, <1>5, <1>6 DEF WorkInv

\* It succeeds: the socket is open under two numbers.
LEMMA TakenWork ==
  ASSUME WorkInv, NEW o \in Openers, NEW n \in FDs, at[o] = "call",
         Element(o).type \in {"fd", "fdname"}, File(o) # None, fds[n] = Free,
         fds' = [fds EXCEPT ![n] = fds[File(o)]],
         fresh' = [fresh EXCEPT ![o] = n], at' = [at EXCEPT ![o] = "close"],
         UNCHANGED <<osVars, posVars, listeners>>
  PROVE  WorkInv'
<1> DEFINE m == File(o)
<1>1. /\ index[o] \in 1..Len(arg[o])
      /\ Want(o, index[o]) = PassedAs(m) /\ PassedAs(m) # Free /\ PassedAs(n) # PassedAs(m)
  BY FileIs, PassedDiffer
<1>2. /\ fds'[n] = PassedAs(m) /\ \A x \in FDs \ {n} : fds'[x] = fds[x]
      /\ DOMAIN fds' = FDs
  BY FileIs DEF WorkInv, PlaceInv
<1>3. \A p \in Openers : n \notin Held(p)
  BY HeldIs
<1>4. \A p \in Openers \ {o} : at'[p] = at[p] /\ fresh'[p] = fresh[p] /\ Held(p)' = Held(p)
  BY DEF WorkInv, PlaceInv, Held
<1>5. n # None /\ at'[o] = "close" /\ fresh'[o] = n /\ Held(o)' = Held(o) \cup {n}
  BY OpenListenersAssumption DEF WorkInv, PlaceInv, Held
<1>6. \A p \in Openers : \A i : Want(p, i)' = Want(p, i)
  BY DEF Want, posVars
<1>7. PlaceInv'
  <2>1. \A p \in Openers : Element(p)' = Element(p) /\ File(p)' = File(p)
    BY DEF Element, File, osVars, posVars
  <2>2. /\ at' \in [Openers -> Busy \cup {"next", "fail", "ok", "error"}]
        /\ fresh' \in [Openers -> FDs \cup {None}]
    BY DEF WorkInv, PlaceInv, Busy
  <2>3. \A p \in Openers \ {o} : Placed(p)'
    BY <1>4, <2>1 DEF WorkInv, PlaceInv, Placed, posVars
  <2>4. Placed(o)'
    <3>1. Placed(o) /\ at[o] = "call"
      BY DEF WorkInv, PlaceInv
    <3>2. at'[o] = "close"
      BY <1>5
    <3>3. Element(o)'.type \in {"fd", "fdname"} /\ File(o)' # None
      BY <2>1
    <3>4. QED
      BY <3>1, <3>2, <3>3 DEF Placed, posVars, Busy
  <2>5. QED
    BY <1>2, <2>2, <2>3, <2>4 DEF WorkInv, PlaceInv, posVars
<1>8. SocketInv'
  <2>1. OwnedInv'
    BY <1>2, <1>4, <1>5 DEF WorkInv, SocketInv, OwnedInv
  <2>2. HeldInv'
    <3>1. fds'[n] \in Asked(arg[o]) /\ fds'[n] # PassedAs(n)
      <4>1. arg \in Jobs
        BY DEF WorkInv, PlaceInv
      <4>2. fds'[n] = Want(o, index[o]) /\ fds'[n] # Free /\ fds'[n] # PassedAs(n)
        BY <1>1, <1>2
      <4>3. QED
        BY <1>1, <4>1, <4>2, AskedIs
    <3>2. \A p \in Openers : \A x \in Held(p) : fds'[x] = fds[x]
      BY <1>2, <1>3, HeldIs
    <3>3. QED
      BY <1>4, <1>5, <3>1, <3>2 DEF WorkInv, SocketInv, HeldInv, posVars
  <2>3. ApartInv'
    <3>1. ASSUME NEW p \in Openers \ {o}, at[p] = "close", fresh[p] # None
          PROVE  fds'[fresh[p]] = fds[fresh[p]]
      <4>1. fresh[p] \in Held(p)
        BY <3>1 DEF Held
      <4>2. QED
        BY <4>1, <1>2, <1>3, HeldIs
    <3>2. \A k \in 1..Len(listeners[o]) : listeners[o][k].fd # n
      BY <1>3, HeldIs
    <3>3. QED
      BY <1>1, <1>2, <1>4, <1>5, <1>6, <3>1, <3>2 DEF WorkInv, SocketInv, ApartInv, posVars
  <2>4. TurnInv'
    <3> SUFFICES ASSUME NEW p \in Openers, NEW i \in 1..Len(arg[p]), NEW x \in FDs,
                        Want(p, i) = PassedAs(x)
                 PROVE  /\ Ahead(p, i)' => fds'[x] = PassedAs(x)
                        /\ Past(p, i)' => fds'[x] # PassedAs(x)
      BY <1>6 DEF TurnInv, posVars
    <3>1. (Ahead(p, i)' => Ahead(p, i)) /\ (Past(p, i)' => Past(p, i))
      BY <1>4, <1>5 DEF Ahead, Past, posVars, Busy
    <3>2. /\ Ahead(p, i) => fds[x] = PassedAs(x)
          /\ Past(p, i) => fds[x] # PassedAs(x)
      BY DEF WorkInv, SocketInv, TurnInv
    <3>3. PassedAs(x) # Free
      BY PassedDiffer
    <3>4. QED
      BY <1>1, <1>2, <3>1, <3>2, <3>3
  <2>5. QED
    BY <2>1, <2>2, <2>3, <2>4 DEF SocketInv
<1>9. ListInv'
  <2>1. \A p \in Openers : \A i, j, list : Wrapped(p, i, j, list)' <=> Wrapped(p, i, j, list)
    BY DEF Wrapped, IsLayer, osVars, posVars
  <2>2. \A p \in Openers : Going(p)' => Going(p) /\ (at'[p] \in Busy <=> at[p] \in Busy)
    BY <1>4, <1>5 DEF Going, Busy
  <2>3. \A p \in Openers : \A k \in 1..Len(listeners[p]) : fds'[listeners[p][k].fd] = fds[listeners[p][k].fd]
    BY <1>2, <1>3, HeldIs
  <2>4. QED
    BY <1>6, <2>1, <2>2, <2>3 DEF WorkInv, ListInv, posVars
<1>10. QED
  BY <1>7, <1>8, <1>9 DEF WorkInv
\* The file is closed, and the opener has a listener more, or has failed.
LEMMA CloseFileWork ==
  ASSUME WorkInv, NEW o \in Openers, CloseFile(o)
  PROVE  WorkInv'
<1> DEFINE m == File(o)
           new == [fd |-> fresh[o], layers |-> layers[o]]
           list == Append(listeners[o], new)
           last == Len(listeners[o]) + 1
<1>1. /\ at[o] = "close" /\ fds' = [fds EXCEPT ![m] = Free]
      /\ listeners' = [listeners EXCEPT ![o] = Returned(o)]
      /\ at' = [at EXCEPT ![o] = IF fresh[o] = None THEN "fail" ELSE "next"]
      /\ UNCHANGED <<osVars, posVars, fresh>>
  BY DEF CloseFile, Released
<1>2. Element(o).type \in {"fd", "fdname"} /\ m # None
  BY <1>1 DEF WorkInv, PlaceInv, Placed
<1>3. /\ index[o] \in 1..Len(arg[o]) /\ level[o] = Len(arg[o][index[o]]) /\ m \in FDs
      /\ Want(o, index[o]) = PassedAs(m) /\ fds[m] = PassedAs(m)
  BY <1>1, <1>2, FileIs
<1>4. /\ fds'[m] = Free /\ \A x \in FDs \ {m} : fds'[x] = fds[x]
      /\ DOMAIN fds' = FDs
  BY <1>1, <1>3 DEF WorkInv, PlaceInv
<1>5. \A p \in Openers : m \notin Held(p)
  BY <1>3, HeldIs
<1>6. \A p \in Openers : \A x \in Held(p) : fds'[x] = fds[x]
  BY <1>4, <1>5, HeldIs
<1>7. \A p \in Openers \ {o} : at'[p] = at[p] /\ listeners'[p] = listeners[p] /\ Held(p)' = Held(p)
  BY <1>1 DEF WorkInv, PlaceInv, Held
<1>8. /\ IsList(listeners[o]) /\ Len(listeners[o]) \in Nat
      /\ IsList(list) /\ Len(list) = last
      /\ \A k \in 1..Len(listeners[o]) : list[k] = listeners[o][k]
      /\ list[last] = new
  BY AppendIs, ListIs DEF WorkInv, PlaceInv, Placed
<1>9. \/ fresh[o] = None /\ listeners'[o] = listeners[o] /\ at'[o] = "fail"
      \/ fresh[o] # None /\ listeners'[o] = list /\ at'[o] = "next"
  BY <1>1 DEF WorkInv, PlaceInv, Returned
<1>10. Held(o)' = Held(o)
  BY <1>1, <1>8, <1>9 DEF Held
<1>11. \A p \in Openers : \A i : Want(p, i)' = Want(p, i)
  BY <1>1 DEF Want, posVars
<1>12. fresh[o] \in FDs \cup {None}
  BY DEF WorkInv, PlaceInv
<1>13. PlaceInv'
  <2>1. /\ at' \in [Openers -> Busy \cup {"next", "fail", "ok", "error"}]
        /\ DOMAIN listeners' = Openers
    BY <1>1 DEF WorkInv, PlaceInv
  <2>2. \A p \in Openers : Element(p)' = Element(p) /\ File(p)' = File(p)
    BY <1>1 DEF Element, File, osVars, posVars
  <2>3. \A p \in Openers \ {o} : Placed(p)'
    BY <1>1, <1>7, <2>2 DEF WorkInv, PlaceInv, Placed, posVars
  <2>4. IsList(listeners'[o]) /\ \A k \in 1..Len(listeners'[o]) : listeners'[o][k].fd \in FDs
    <3>1. \A k \in 1..Len(listeners[o]) : listeners[o][k].fd \in FDs
      BY DEF WorkInv, PlaceInv, Placed
    <3>2. fresh[o] # None => \A k \in 1..Len(list) : list[k].fd \in FDs
      BY <1>8, <1>12, <3>1
    <3>3. QED
      BY <1>8, <1>9, <3>1, <3>2
  <2>5. Placed(o)'
    BY <1>1, <1>9, <2>4 DEF WorkInv, PlaceInv, Placed, posVars, Busy
  <2>6. QED
    BY <1>1, <1>4, <2>1, <2>3, <2>5 DEF WorkInv, PlaceInv, posVars
<1>14. SocketInv'
  <2>1. OwnedInv'
    BY <1>4, <1>7, <1>10 DEF WorkInv, SocketInv, OwnedInv
  <2>2. HeldInv'
    BY <1>1, <1>6, <1>7, <1>10 DEF WorkInv, SocketInv, HeldInv, posVars
  <2>3. ApartInv'
    <3>1. ASSUME NEW p \in Openers \ {o}, at[p] = "close", fresh[p] # None
          PROVE  fds'[fresh[p]] = fds[fresh[p]]
      <4>1. fresh[p] \in Held(p)
        BY <3>1 DEF Held
      <4>2. QED
        BY <4>1, <1>6
    <3>2. \A j, k \in 1..Len(listeners'[o]) : listeners'[o][j].fd = listeners'[o][k].fd => j = k
      BY <1>1, <1>8, <1>9 DEF WorkInv, SocketInv, ApartInv
    <3>3. QED
      BY <1>1, <1>7, <1>9, <1>11, <3>1, <3>2 DEF WorkInv, SocketInv, ApartInv, posVars
  <2>4. TurnInv'
    <3> SUFFICES ASSUME NEW p \in Openers, NEW i \in 1..Len(arg[p]), NEW x \in FDs,
                        Want(p, i) = PassedAs(x)
                 PROVE  /\ Ahead(p, i)' => fds'[x] = PassedAs(x)
                        /\ Past(p, i)' => fds'[x] # PassedAs(x)
      BY <1>1, <1>11 DEF TurnInv, posVars
    <3>1. /\ Ahead(p, i)' => Ahead(p, i) /\ ~(p = o /\ i = index[o])
          /\ Past(p, i)' => Past(p, i) \/ (p = o /\ i = index[o])
      BY <1>1, <1>7, <1>9 DEF WorkInv, PlaceInv, Ahead, Past, posVars, Busy
    <3>2. /\ Ahead(p, i) => fds[x] = PassedAs(x)
          /\ Past(p, i) => fds[x] # PassedAs(x)
      BY DEF WorkInv, SocketInv, TurnInv
    <3>3. PassedAs(x) # Free /\ (PassedAs(x) = PassedAs(m) => x = m)
      BY PassedDiffer
    <3>4. x = m => p = o /\ i = index[o]
      BY <1>3, <3>3, WantedOnce DEF WorkInv, PlaceInv
    <3>5. QED
      BY <1>3, <1>4, <3>1, <3>2, <3>3, <3>4
  <2>5. QED
    BY <2>1, <2>2, <2>3, <2>4 DEF SocketInv
<1>15. ListInv'
  <2>1. \A p \in Openers : \A i, j, l : Wrapped(p, i, j, l)' <=> Wrapped(p, i, j, l)
    BY <1>1 DEF Wrapped, IsLayer, osVars, posVars
  <2>2. \A p \in Openers : \A k \in 1..Len(listeners[p]) : fds'[listeners[p][k].fd] = fds[listeners[p][k].fd]
    BY <1>6, HeldIs
  <2>3. /\ Going(o) /\ last = index[o] /\ Wrapped(o, index[o], level[o], layers[o])
    BY <1>1 DEF WorkInv, PlaceInv, ListInv, Going, Busy
  <2>4. ASSUME NEW p \in Openers \ {o}, Going(p)'
        PROVE  /\ Len(listeners[p]) = IF at[p] \in Busy THEN index[p] - 1 ELSE index[p]
               /\ at[p] \in Busy => Wrapped(p, index[p], level[p], layers[p])
               /\ \A i \in 1..Len(listeners[p]) :
                    /\ fds'[listeners[p][i].fd] = Want(p, i)
                    /\ Wrapped(p, i, Len(arg[p][i]), listeners[p][i].layers)
    BY <1>7, <2>2, <2>4 DEF WorkInv, ListInv, Going
  <2>5. ASSUME fresh[o] # None
        PROVE  /\ Len(list) = index[o]
               /\ \A i \in 1..Len(list) :
                    /\ fds'[list[i].fd] = Want(o, i)
                    /\ Wrapped(o, i, Len(arg[o][i]), list[i].layers)
    <3>1. \A i \in 1..Len(listeners[o]) :
            /\ fds'[list[i].fd] = Want(o, i)
            /\ Wrapped(o, i, Len(arg[o][i]), list[i].layers)
      <4> TAKE i \in 1..Len(listeners[o])
      <4>1. list[i] = listeners[o][i]
        BY <1>8
      <4>2. /\ fds[listeners[o][i].fd] = Want(o, i)
            /\ Wrapped(o, i, Len(arg[o][i]), listeners[o][i].layers)
        BY <2>3 DEF WorkInv, ListInv
      <4>3. QED
        BY <2>2, <4>1, <4>2
    <3>2. fds'[fresh[o]] = Want(o, index[o])
      <4>1. fresh[o] \in Held(o)
        BY <1>1, <2>5 DEF Held
      <4>2. QED
        BY <1>1, <1>6, <2>5, <4>1 DEF WorkInv, SocketInv, ApartInv
    <3>3. /\ fds'[list[last].fd] = Want(o, last)
          /\ Wrapped(o, last, Len(arg[o][last]), list[last].layers)
      BY <1>3, <1>8, <2>3, <3>2
    <3>4. QED
      BY <1>8, <2>3, <3>1, <3>3
  <2>6. \A p \in Openers \ {o} : Going(p)' =>
          /\ Len(listeners[p])' = IF at'[p] \in Busy THEN index'[p] - 1 ELSE index'[p]
          /\ at'[p] \in Busy => Wrapped(p, index[p], level[p], layers[p])'
          /\ \A i \in 1..Len(listeners'[p]) :
               /\ fds'[listeners'[p][i].fd] = Want(p, i)'
               /\ Wrapped(p, i, Len(arg[p][i]), listeners[p][i].layers)'
    BY <1>1, <1>7, <1>11, <2>1, <2>4 DEF posVars
  <2>7. Going(o)' =>
          /\ at'[o] = "next" /\ Len(listeners'[o]) = index'[o]
          /\ \A i \in 1..Len(listeners'[o]) :
               /\ fds'[listeners'[o][i].fd] = Want(o, i)'
               /\ Wrapped(o, i, Len(arg[o][i]), listeners[o][i].layers)'
    BY <1>1, <1>9, <1>11, <2>1, <2>5 DEF posVars, Going
  <2>8. QED
    BY <2>6, <2>7 DEF ListInv, Busy
<1>16. QED
  BY <1>13, <1>14, <1>15 DEF WorkInv

\* Having failed it closes the first of its listeners, or has none left.
LEMMA CloseAllWork ==
  ASSUME WorkInv, NEW o \in Openers, CloseAll(o)
  PROVE  WorkInv'
<1>1. CASE listeners[o] = <<>>
  <2>1. /\ at[o] = "fail" /\ at' = [at EXCEPT ![o] = "error"]
        /\ UNCHANGED <<fds, listeners, osVars, posVars, fresh>>
    BY <1>1 DEF CloseAll, Failed
  <2>2. PlaceInv'
    BY <1>1, <2>1 DEF WorkInv, PlaceInv, Placed, osVars, posVars, Element, File, Busy
  <2>3. \A p \in Openers : Held(p)' = Held(p)
    BY <2>1 DEF WorkInv, PlaceInv, Held
  <2>4. \A p \in Openers : \A i : (Ahead(p, i)' => Ahead(p, i)) /\ (Past(p, i)' => Past(p, i))
    BY <2>1 DEF WorkInv, PlaceInv, Ahead, Past, posVars, Busy
  <2>5. \A p \in Openers : \A i : Want(p, i)' = Want(p, i)
    BY <2>1 DEF Want, posVars
  <2>6. OwnedInv' /\ HeldInv'
    BY <2>1, <2>3 DEF WorkInv, SocketInv, OwnedInv, HeldInv, posVars
  <2>7. ApartInv'
    BY <2>1, <2>5 DEF WorkInv, PlaceInv, SocketInv, ApartInv, posVars
  <2>8. TurnInv'
    BY <2>1, <2>4, <2>5 DEF WorkInv, SocketInv, TurnInv, posVars
  <2>9. ListInv'
    <3>1. \A p \in Openers : \A i, j, list : Wrapped(p, i, j, list)' <=> Wrapped(p, i, j, list)
      BY <2>1 DEF Wrapped, IsLayer, osVars, posVars
    <3>2. \A p \in Openers : Going(p)' => Going(p) /\ at'[p] = at[p]
      BY <2>1 DEF WorkInv, PlaceInv, Going
    <3>3. QED
      BY <2>1, <2>5, <3>1, <3>2 DEF WorkInv, ListInv, posVars
  <2>10. QED
    BY <2>2, <2>6, <2>7, <2>8, <2>9 DEF WorkInv, SocketInv
<1>2. CASE listeners[o] # <<>>
  <2> DEFINE h == Head(listeners[o]).fd
             list == Tail(listeners[o])
  <2>1. /\ at[o] = "fail" /\ at' = [at EXCEPT ![o] = "fail"]
        /\ fds' = [fds EXCEPT ![h] = Free] /\ listeners' = [listeners EXCEPT ![o] = list]
        /\ UNCHANGED <<osVars, posVars, fresh>>
    BY <1>2 DEF CloseAll, Failed
  <2>2. at' = at
    BY <2>1 DEF WorkInv, PlaceInv
  <2>3. /\ IsList(list) /\ Len(listeners[o]) \in Nat /\ Len(listeners[o]) > 0
        /\ Len(list) = Len(listeners[o]) - 1 /\ h = listeners[o][1].fd
        /\ \A k \in 1..Len(list) : list[k] = listeners[o][k + 1]
    BY <1>2, TailIs, ListIs DEF WorkInv, PlaceInv, Placed
  <2>4. h \in Held(o) /\ h \in FDs /\ fds[h] # PassedAs(h)
    BY <2>3, HeldIs
  <2>5. /\ fds'[h] = Free /\ \A x \in FDs \ {h} : fds'[x] = fds[x]
        /\ DOMAIN fds' = FDs
    BY <2>1, <2>4 DEF WorkInv, PlaceInv
  <2>6. listeners'[o] = list /\ Held(o)' = Held(o) \ {h}
    <3>1. listeners'[o] = list
      BY <2>1 DEF WorkInv, PlaceInv
    <3>2. Held(o) = {listeners[o][k].fd : k \in 1..Len(listeners[o])}
      BY <2>1 DEF Held
    <3>3. Held(o)' = {list[k].fd : k \in 1..Len(list)}
      BY <2>1, <2>2, <3>1 DEF Held
    <3>4. \A k \in 1..Len(listeners[o]) : k # 1 => listeners[o][k].fd # h
      BY <2>3 DEF WorkInv, SocketInv, ApartInv
    <3>5. ASSUME NEW x \in Held(o), x # h
          PROVE  x \in Held(o)'
      <4>1. PICK k \in 1..Len(listeners[o]) : x = listeners[o][k].fd
        BY <3>2
      <4>2. k - 1 \in 1..Len(list) /\ list[k - 1] = listeners[o][k]
        BY <2>3, <3>5, <4>1
      <4>3. QED
        BY <3>3, <4>1, <4>2
    <3>6. ASSUME NEW x \in Held(o)'
          PROVE  x \in Held(o) /\ x # h
      <4>1. PICK k \in 1..Len(list) : x = list[k].fd
        BY <3>3
      <4>2. QED
        BY <2>3, <3>2, <3>4, <4>1
    <3>7. QED
      BY <3>1, <3>5, <3>6
  <2>7. \A p \in Openers \ {o} : listeners'[p] = listeners[p] /\ Held(p)' = Held(p) /\ h \notin Held(p)
    <3>1. \A p \in Openers \ {o} : listeners'[p] = listeners[p] /\ Held(p)' = Held(p)
      BY <2>1, <2>2 DEF WorkInv, PlaceInv, Held
    <3>2. QED
      BY <3>1, <2>4, HeldIs
  <2>8. \A p \in Openers : \A x \in Held(p)' : x \in Held(p) /\ fds'[x] = fds[x]
    BY <2>5, <2>6, <2>7, HeldIs
  <2>9. \A p \in Openers : \A i : Want(p, i)' = Want(p, i)
    BY <2>1 DEF Want, posVars
  <2>10. PlaceInv'
    <3>1. \A p \in Openers : Element(p)' = Element(p) /\ File(p)' = File(p)
      BY <2>1 DEF Element, File, osVars, posVars
    <3>2. \A p \in Openers \ {o} : Placed(p)'
      BY <2>1, <2>2, <2>7, <3>1 DEF WorkInv, PlaceInv, Placed, posVars
    <3>3. Placed(o)'
      BY <2>1, <2>2, <2>3, <2>6 DEF WorkInv, PlaceInv, Placed, posVars, Busy
    <3>4. QED
      BY <2>1, <2>2, <2>5, <3>2, <3>3 DEF WorkInv, PlaceInv, posVars
  <2>11. SocketInv'
    <3>1. OwnedInv'
      BY <2>5, <2>6, <2>7 DEF WorkInv, SocketInv, OwnedInv
    <3>2. HeldInv'
      BY <2>1, <2>8 DEF WorkInv, SocketInv, HeldInv, posVars
    <3>3. ApartInv'
      <4>1. ASSUME NEW p \in Openers \ {o}, at[p] = "close", fresh[p] # None
            PROVE  fds'[fresh[p]] = fds[fresh[p]]
        <5>1. fresh[p] \in Held(p)
          BY <4>1 DEF Held
        <5>2. QED
          BY <5>1, <2>7, <2>8
      <4>2. \A j, k \in 1..Len(list) : list[j].fd = list[k].fd => j = k
        BY <2>3 DEF WorkInv, SocketInv, ApartInv
      <4>3. QED
        BY <2>1, <2>2, <2>6, <2>7, <2>9, <4>1, <4>2 DEF WorkInv, SocketInv, ApartInv, posVars
    <3>4. TurnInv'
      <4>1. \A p \in Openers : \A i : (Ahead(p, i)' <=> Ahead(p, i)) /\ (Past(p, i)' <=> Past(p, i))
        BY <2>1, <2>2 DEF Ahead, Past, posVars
      <4>2. \A x \in FDs : (fds[x] = PassedAs(x) => fds'[x] = PassedAs(x))
                           /\ (fds'[x] = PassedAs(x) => fds[x] = PassedAs(x))
        BY <2>4, <2>5, PassedDiffer
      <4>3. QED
        BY <2>1, <2>9, <4>1, <4>2 DEF WorkInv, SocketInv, TurnInv, posVars
    <3>5. QED
      BY <3>1, <3>2, <3>3, <3>4 DEF SocketInv
  <2>12. ListInv'
    <3>1. \A p \in Openers : \A i, j, l : Wrapped(p, i, j, l)' <=> Wrapped(p, i, j, l)
      BY <2>1 DEF Wrapped, IsLayer, osVars, posVars
    <3>2. \A p \in Openers \ {o} : \A k \in 1..Len(listeners[p]) :
             fds'[listeners[p][k].fd] = fds[listeners[p][k].fd]
      BY <2>7, <2>8, HeldIs
    <3>3. ~Going(o)' /\ \A p \in Openers : Going(p)' => Going(p)
      BY <2>1, <2>2 DEF Going
    <3>4. QED
      BY <2>1, <2>2, <2>7, <2>9, <3>1, <3>2, <3>3 DEF WorkInv, ListInv, posVars
  <2>13. QED
    BY <2>10, <2>11, <2>12 DEF WorkInv
<1>3. QED
  BY <1>1, <1>2
\* Every step of an opener preserves the invariant.
LEMMA OpenerWork ==
  ASSUME WorkInv, NEW o \in Openers, OpenerStep(o)
  PROVE  WorkInv'
<1>1. CASE NextSpec(o)
  BY <1>1, NextSpecWork
<1>2. CASE OpenInner(o)
  <2>1. at[o] \in Busy \ {"close"} /\ (Element(o).type = "tls" => CertsRead(Element(o)) # NoCerts)
    BY <1>2 DEF WorkInv, PlaceInv, Placed, OpenInner, Busy
  <2>2. CASE level[o] = Len(arg[o][index[o]])
    <3>1. /\ at' = [at EXCEPT ![o] = "fail"]
          /\ UNCHANGED <<fds, osVars, posVars, listeners, fresh>>
      BY <1>2, <2>2 DEF OpenInner, posVars
    <3>2. QED
      BY <2>1, <3>1, QuietWork
  <2>3. CASE level[o] # Len(arg[o][index[o]])
    BY <1>2, <2>1, <2>3, WrapWork DEF OpenInner
  <2>4. QED
    BY <2>2, <2>3
<1>3. CASE Listen(o)
  <2>1. CASE at' = [at EXCEPT ![o] = "fail"] /\ UNCHANGED <<fds, listeners>>
    BY <1>3, <2>1, QuietWork DEF Listen, Busy
  <2>2. CASE \E n \in FDs :
               /\ fds[n] = Free /\ Read(Element(o)) # Free /\ ~InUse(Read(Element(o)))
               /\ fds' = [fds EXCEPT ![n] = Read(Element(o))]
               /\ listeners' = [listeners EXCEPT ![o] = Append(@, [fd |-> n, layers |-> layers[o]])]
               /\ at' = [at EXCEPT ![o] = "next"]
    BY <1>3, <2>2, ListenWork DEF Listen
  <2>3. QED
    BY <1>3, <2>1, <2>2 DEF Listen
<1>4. CASE FileListener(o)
  BY <1>4, TakenWork, NotTakenWork DEF FileListener
<1>5. CASE CloseFile(o)
  BY <1>5, CloseFileWork
<1>6. CASE CloseAll(o)
  BY <1>6, CloseAllWork
<1>7. CASE ChooseCerts(o)
  <2>1. /\ at[o] = "call" /\ Element(o).type = "tls"
        /\ UNCHANGED <<fds, osVars, posVars, listeners, fresh>>
    BY <1>7 DEF ChooseCerts
  <2> DEFINE noInner == Element(o).notation = "string" /\ level[o] = Len(arg[o][index[o]])
             certs == CertsRead(Element(o))
             s == CASE certs = NoCerts \/ noInner -> "fail"
                    [] ~noInner /\ certs.source = "autocert" -> "inner"
                    [] OTHER -> "cache"
  <2>2. at' = [at EXCEPT ![o] = s]
    BY <1>7 DEF ChooseCerts
  <2>3. s \in {"fail", "inner", "cache"} /\ (s # "fail" => certs # NoCerts)
    BY DEF NoCerts, Certs
  <2> HIDE DEF s
  <2>4. QED
    BY <2>1, <2>2, <2>3, QuietWork DEF Busy
<1>8. CASE EnterOnce(o) \/ MakeCache(o) \/ UseCache(o)
  <2>1. at[o] \in {"cache", "make"} /\ Element(o).type = "tls" /\ CertsRead(Element(o)) # NoCerts
    BY <1>8 DEF EnterOnce, MakeCache, UseCache, WorkInv, PlaceInv, Placed
  <2>2. PICK s \in {"make", "cache", "inner"} : at' = [at EXCEPT ![o] = s]
    BY <1>8 DEF EnterOnce, MakeCache, UseCache
  <2>3. UNCHANGED <<fds, osVars, posVars, listeners, fresh>>
    BY <1>8 DEF EnterOnce, MakeCache, UseCache
  <2>4. QED
    BY <2>1, <2>2, <2>3, QuietWork DEF Busy
<1>9. CASE OpenBare(o) \/ OpenUntyped(o) \/ RLock(o) \/ Lookup(o) \/ NoFile(o)
  <2>1. at[o] \in {"open", "lookup", "call"}
    BY <1>9 DEF OpenBare, OpenUntyped, RLock, Lookup, NoFile
  <2>2. PICK s \in {"call", "fail", "lookup"} : at' = [at EXCEPT ![o] = s]
    BY <1>9 DEF OpenBare, OpenUntyped, RLock, Lookup, NoFile
  <2>3. UNCHANGED <<fds, osVars, posVars, listeners, fresh>>
    BY <1>9 DEF OpenBare, OpenUntyped, RLock, Lookup, NoFile
  <2>4. QED
    BY <2>1, <2>2, <2>3, QuietWork DEF Busy
<1>10. QED
  BY <1>1, <1>2, <1>3, <1>4, <1>5, <1>6, <1>7, <1>8, <1>9 DEF OpenerStep

\* Nothing is opened, and the passed descriptors are there.
LEMMA InitWork == Init => WorkInv
<1> SUFFICES ASSUME Init
             PROVE  WorkInv
  OBVIOUS
<1>1. IsList(<<>>) /\ Len(<<>>) = 0
  BY EmptySeq DEF IsList
<1>2. \A o \in Openers : Held(o) = {}
  BY <1>1 DEF Init, Held
<1>3. PlaceInv
  BY <1>1, ArgIs DEF Init, PlaceInv, Placed, Busy
<1>4. \A n \in FDs : fds[n] = Free \/ fds[n] = PassedAs(n)
  BY DEF Init, PassedAs
<1>5. TurnInv
  <2> SUFFICES ASSUME NEW o \in Openers, NEW i \in 1..Len(arg[o]), NEW n \in FDs, Want(o, i) = PassedAs(n)
               PROVE  fds[n] = PassedAs(n) /\ ~Past(o, i)
    BY DEF TurnInv
  <2>1. ~Past(o, i)
    BY <1>3, ArgIs DEF Init, Past, PlaceInv
  <2>2. fds[n] = PassedAs(n)
    <3> DEFINE e == Innermost(arg[o][i])
    <3>1. Requested(e) = PassedAs(n) /\ PassedAs(n) # Free
      BY PassedDiffer DEF Want
    <3>2. e.type \in {"fd", "fdname"}
      BY <3>1, ListenedIsNew DEF Requested
    <3>3. Read(e) = Requested(e)
      BY <3>2 DEF Read, Requested, SocketAt
    <3>4. Read(e).id[1] \in {Passed[k] : k \in DOMAIN Passed} /\ Read(e) = PassedAs(Read(e).id[1])
      BY <1>3, <3>1, <3>2, <3>3, TakenWasPassed DEF PlaceInv
    <3>5. \E k \in DOMAIN Passed : Passed[k] = n
      BY <3>1, <3>3, <3>4, PassedDiffer
    <3>6. QED
      BY <3>5 DEF Init, PassedAs
  <2>3. QED
    BY <2>1, <2>2
<1>6. OwnedInv /\ HeldInv /\ ApartInv
  BY <1>1, <1>2, <1>4 DEF Init, OwnedInv, HeldInv, ApartInv
<1>7. ListInv
  BY <1>1 DEF Init, ListInv, Busy
<1>8. QED
  BY <1>3, <1>5, <1>6, <1>7 DEF WorkInv, SocketInv

\* The invariant of the descriptors holds in every reachable state.
THEOREM WorkInvariance == Spec => []WorkInv
<1>1. WorkInv /\ [Next]_vars => WorkInv'
  <2> SUFFICES ASSUME WorkInv, [Next]_vars
               PROVE  WorkInv'
    OBVIOUS
  <2>1. ASSUME NEW r \in Registrars, RegistrarStep(r)
        PROVE  WorkInv'
    <3>1. UNCHANGED <<fds, osVars, posVars, listeners, fresh, at>>
      BY <2>1 DEF RegistrarStep, Lock, Locked, Register
    <3>2. QED
      BY <3>1, ElsewhereWork
  <2>2. CASE UNCHANGED vars
    <3>1. UNCHANGED <<fds, osVars, posVars, listeners, fresh, at>>
      BY <2>2 DEF vars, osVars, posVars
    <3>2. QED
      BY <3>1, ElsewhereWork
  <2>3. QED
    BY <2>1, <2>2, OpenerWork DEF Next
<1>2. QED
  BY <1>1, InitWork, PTL DEF Spec

\* "If any listener fails to open, an error is returned, and none of the
\* listeners are left open" (open.go:55-57), nor a descriptor that was taken
\* over, whatever other goroutines open in the meantime.
THEOREM OpensAllOrNothing == Spec => []AllOrNothing
<1>1. WorkInv => AllOrNothing
  <2> SUFFICES ASSUME WorkInv, NEW o \in Openers, at[o] = "error", NEW n \in FDs, fds[n] \in Asked(arg[o])
               PROVE  fds[n] = PassedAs(n)
    BY DEF AllOrNothing, PassedAs
  <2>1. fds[n] # Free
    BY DEF Asked
  <2>2. n \notin Held(o)
    BY EmptySeq DEF WorkInv, PlaceInv, Placed, Held
  <2>3. ASSUME NEW p \in Openers \ {o}, n \in Held(p)
        PROVE  FALSE
    <3>1. fds[n] \in Asked(arg[p])
      BY <2>3 DEF WorkInv, SocketInv, HeldInv
    <3>2. QED
      BY <3>1, AskedByOne DEF WorkInv, PlaceInv
  <2>4. QED
    BY <2>1, <2>2, <2>3 DEF WorkInv, SocketInv, OwnedInv
<1>2. QED
  BY <1>1, WorkInvariance, PTL

\* Where the element can be opened, the certificates that are read in it are
\* those that it means.
LEMMA CertsReadAreMeant ==
  ASSUME NEW e, e.type = "tls" => CertsRead(e) # NoCerts
  PROVE  CertsRead(e) = CertsMeant(e)
  BY DEF CertsRead, CertsMeant, CertsAmong, NoCerts, Certs

\* Of several lists, the first is the first one if its head is not empty.
LEMMA HeadIsFirst ==
  ASSUME NEW dirs, NEW empty, dirs[1][1] # empty
  PROVE  /\ {i \in 1..4 : dirs[i][1] # empty} # {}
         /\ First({i \in 1..4 : dirs[i][1] # empty}) = 1
<1>1. PICK known : known = {i \in 1..4 : dirs[i][1] # empty}
  OBVIOUS
<1>2. 1 \in known /\ known \in SUBSET Nat /\ \A i \in known : i >= 1
  BY <1>1
<1>3. First(known) \in known /\ First(known) <= 1
  BY <1>2, FirstIs
<1>4. PICK f : f = First(known)
  OBVIOUS
<1>5. f \in Nat /\ f >= 1 /\ f <= 1
  BY <1>2, <1>3, <1>4
<1>6. f = 1
  BY <1>5
<1>7. QED
  BY <1>1, <1>2, <1>4, <1>6

\* The directory that a program names for automatic certificates is the one
\* that is used.
LEMMA CacheIsNamed ==
  ASSUME NEW v, v.AUTOCERT_CACHE_DIR # ""
  PROVE  AutocertCache(v) = <<v.AUTOCERT_CACHE_DIR>>
<1>1. PICK dirs : dirs = << <<v.AUTOCERT_CACHE_DIR>>,
                            <<IF v.root THEN "/var/lib/autocert-cache" ELSE "">>,
                            <<v.XDG_DATA_HOME, "autocert-cache">>,
                            <<v.HOME, ".local/share/autocert-cache">> >>
  OBVIOUS
<1>2. dirs[1] = <<v.AUTOCERT_CACHE_DIR>> /\ dirs[1][1] # ""
  BY <1>1
<1>3. /\ {i \in 1..4 : dirs[i][1] # ""} # {}
      /\ First({i \in 1..4 : dirs[i][1] # ""}) = 1
  <2>1. PICK empty : empty = ""
    OBVIOUS
  <2>2. dirs[1][1] # empty
    BY <1>2, <2>1, Zenon
  <2>3. /\ {i \in 1..4 : dirs[i][1] # empty} # {}
        /\ First({i \in 1..4 : dirs[i][1] # empty}) = 1
    BY <2>2, HeadIsFirst, Zenon
  <2>4. QED
    BY <2>1, <2>3, Zenon
<1>4. AutocertCache(v) = dirs[First({i \in 1..4 : dirs[i][1] # ""})]
  BY <1>1, <1>3, Zenon DEF AutocertCache
<1>5. QED
  BY <1>2, <1>3, <1>4, Zenon
\* The layer that an element means.
IsMeant(layer, e) ==
  /\ layer.type = e.type
  /\ layer.certs = CertsMeant(e)
  /\ layer.certs.source = "autocert" <=> "acme-tls/1" \in layer.protos
  /\ layer.certs.source = "autocert" /\ env.AUTOCERT_CACHE_DIR # "" =>
       layer.cache = <<env.AUTOCERT_CACHE_DIR>>

\* A layer is what its element means.
LEMMA LayerIsMeant ==
  ASSUME NEW layer, NEW e, IsLayer(layer, e)
  PROVE  IsMeant(layer, e)
<1>1. layer = Layer(e, CertsRead(e), env) /\ CertsRead(e) = CertsMeant(e)
  BY CertsReadAreMeant DEF IsLayer
<1>2. /\ layer.type = e.type /\ layer.certs = CertsMeant(e)
      /\ layer.protos = IF layer.certs.source = "autocert"
                        THEN {"h2", "http/1.1", "acme-tls/1"} ELSE {"h2", "http/1.1"}
      /\ layer.certs.source = "autocert" => layer.cache = AutocertCache(env)
  BY <1>1 DEF Layer
<1>3. layer.certs.source = "autocert" <=> "acme-tls/1" \in layer.protos
  BY <1>2
<1>4. layer.certs.source = "autocert" /\ env.AUTOCERT_CACHE_DIR # "" =>
        layer.cache = <<env.AUTOCERT_CACHE_DIR>>
  BY <1>2, CacheIsNamed, Zenon
<1>5. QED
  BY <1>2, <1>3, <1>4 DEF IsMeant

\* An opener has what it was asked for.
CompleteAt(o) ==
  /\ Len(listeners[o]) = Len(arg[o])
  /\ \A i \in DOMAIN arg[o] :
       /\ {n \in FDs : fds[n] = Want(o, i)} = {listeners[o][i].fd}
       /\ Len(listeners[o][i].layers) = Len(arg[o][i]) - 1
       /\ \A j \in 1..(Len(arg[o][i]) - 1) :
            IsMeant(listeners[o][i].layers[j], arg[o][i][j])

\* If OpenAll or OpenJSON succeeds, its listeners are those it was asked for,
\* in order, each open exactly once, in the layers it was asked for
\* (open.go:58-69, builtin.go:66-69, 92-94, tls/listener.go:51-109).
THEOREM OpensComplete == Spec => []Complete
<1>1. WorkInv => Complete
  <2> SUFFICES ASSUME WorkInv, NEW o \in Openers, at[o] = "ok"
               PROVE  CompleteAt(o)
    BY DEF Complete, CompleteAt, IsMeant, Want
  <2>1. Going(o) /\ Len(listeners[o]) = Len(arg[o])
    BY DEF WorkInv, PlaceInv, Placed, ListInv, Going, Busy
  <2> SUFFICES ASSUME NEW i \in DOMAIN arg[o]
               PROVE  /\ {n \in FDs : fds[n] = Want(o, i)} = {listeners[o][i].fd}
                      /\ Wrapped(o, i, Len(arg[o][i]), listeners[o][i].layers)
    BY <2>1, LayerIsMeant DEF CompleteAt, Wrapped
  <2>2. i \in 1..Len(arg[o])
    BY ArgIs DEF WorkInv, PlaceInv
  <2>3. /\ fds[listeners[o][i].fd] = Want(o, i)
        /\ Wrapped(o, i, Len(arg[o][i]), listeners[o][i].layers)
    BY <2>1, <2>2 DEF WorkInv, ListInv
  <2>4. listeners[o][i].fd \in Held(o) /\ listeners[o][i].fd \in FDs /\ Want(o, i) # Free
    BY <2>1, <2>2, <2>3, HeldIs
  <2>5. ASSUME NEW n \in FDs, fds[n] = Want(o, i)
        PROVE  n = listeners[o][i].fd
    <3>1. fds[n] # PassedAs(n)
      <4>1. Past(o, i)
        BY <2>2, ArgIs DEF Past, WorkInv, PlaceInv, Placed
      <4>2. QED
        BY <2>2, <2>5, <4>1 DEF WorkInv, SocketInv, TurnInv
    <3>2. PICK p \in Openers : n \in Held(p)
      BY <2>4, <2>5, <3>1 DEF WorkInv, SocketInv, OwnedInv
    <3>3. p = o
      <4>1. fds[n] \in Asked(arg[p]) /\ fds[n] \in Asked(arg[o])
        BY <2>2, <2>4, <2>5, <3>2, AskedIs DEF WorkInv, PlaceInv, SocketInv, HeldInv
      <4>2. QED
        BY <4>1, AskedByOne DEF WorkInv, PlaceInv
    <3>4. PICK k \in 1..Len(listeners[o]) : n = listeners[o][k].fd
      BY <3>2, <3>3 DEF Held
    <3>5. fds[n] = Want(o, k) /\ k \in 1..Len(arg[o])
      BY <2>1, <3>4 DEF WorkInv, ListInv
    <3>6. k = i
      BY <2>2, <2>4, <2>5, <3>5, WantedOnce DEF WorkInv, PlaceInv
    <3>7. QED
      BY <3>4, <3>6
  <2>6. QED
    BY <2>3, <2>4, <2>5
<1>2. QED
  BY <1>1, WorkInvariance, PTL
================================================================================
