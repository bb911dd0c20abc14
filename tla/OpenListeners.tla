----------------------------- MODULE OpenListeners -----------------------------
(***************************************************************************)
(* Opening listeners: OpenAll, Open, OpenJSON, CloseAll, the table of      *)
(* listener types, the opening functions of builtin.go and tls/listener.go *)
(* and the certificate cache of the program, down to the file descriptors  *)
(* of the process.  ListenerSpecs says what specifications are.            *)
(*                                                                         *)
(* Processes: goroutines in OpenAll or OpenJSON (openers) and goroutines   *)
(* in RegisterListenerType (registrars), such as the init functions of a   *)
(* plugin that is loaded while the program runs.                           *)
(***************************************************************************)
EXTENDS ListenerSpecs, Functions

CONSTANTS
  Openers,     \* goroutines that call OpenAll, or OpenJSON
  Registrars,  \* goroutines that call RegisterListenerType
  RegType,     \* [Registrars -> types]: the name each of them registers
  NilFuncs,    \* the registrars that pass a nil function
  Jobs,        \* [Openers -> lists of specifications]: what they are to open
  Envs,        \* environments of the process
  FDs,         \* numbers of file descriptors
  None         \* no goroutine, no function, no descriptor

Builtins == {"fd", "fdname", "tcp", "unix", "proxy"}
Types == Builtins \cup {"tls", "unknown"} \cup {RegType[r] : r \in Registrars}

UsesAutocert(job) ==
  \E o \in Openers : \E i \in DOMAIN job[o] : \E j \in DOMAIN job[o][i] :
    CertsRead(job[o][i][j]).source = "autocert"

IsList(s) == s \in Seq(Range(s))

\* What a specification is: only a wrapping type has another element inside.
\* "fd:NUMBER" is for a descriptor "that is already open, bound, and
\* listening" (README.md:76), the names in $LISTEN_FDNAMES are those of passed
\* descriptors, and no socket is asked for twice.  OpenJSON is given one
\* specification, whose elements are all objects.
ASSUME OpenListenersAssumption ==
  /\ \A job \in Jobs, o \in Openers : IsList(job[o]) /\ \A i \in DOMAIN job[o] :
       /\ IsList(job[o][i]) /\ Len(job[o][i]) > 0
       /\ \A j \in 1..(Len(job[o][i]) - 1) : job[o][i][j].type \in {"proxy", "tls"}
  /\ \A job \in Jobs, o, p \in Openers : \A i \in DOMAIN job[o], j \in DOMAIN job[p] :
       LET e == Innermost(job[o][i]) f == Innermost(job[p][j])
       IN /\ e.type = "fd" => Given(e, "fd") \in BadArgs \cup {Passed[k] : k \in DOMAIN Passed}
          /\ <<o, i>> # <<p, j>> => Requested(e) # Requested(f) \/ Requested(e) = Free
  /\ \A job \in Jobs, o \in Openers : \A i \in DOMAIN job[o] : \A e \in {job[o][i][j] : j \in DOMAIN job[o][i]} :
       e.notation # "string" => Len(job[o]) = 1 /\ \A j \in DOMAIN job[o][i] : job[o][i][j].notation = e.notation
  /\ IsList(Passed) /\ IsList(FdNames) /\ Len(FdNames) <= Len(Passed)
  /\ \A i \in DOMAIN Passed : Passed[i] \in FDs
  /\ None \notin FDs \cup Openers \cup Registrars

VARIABLES
  readers,    \* goroutines that hold listenerTypesMu for reading
  writer,     \* the goroutine that holds it, or waits for readers to leave
  types,      \* listenerTypes: who registered each type
  reg,        \* where each registrar is
  fds,        \* the file descriptors of the process: an open socket or Free
  activated,  \* is $LISTEN_PID our process?
  env,        \* the other environment variables
  arg,        \* the argument of each opener's OpenAll or OpenJSON
  at,         \* where the opener is
  index,      \* the specification it is opening is arg[index]
  level,      \* and the element arg[index][level]
  layers,     \* what the outer elements will wrap around the socket
  listeners,  \* its local variable listeners: descriptors and layers
  fresh,      \* what FileListener returned, or None
  once,       \* globalFileCacheInit
  caches,     \* how many caches were made; globalFileCachePtr is the last
  cleaners,   \* goroutines cleanGlobalFileCache
  uses        \* the caches that each opener's TLS listeners use

vars == <<readers, writer, types, reg, fds, activated, env, arg, at, index, level,
          layers, listeners, fresh, once, caches, cleaners, uses>>
regVars == <<readers, writer, types, reg>>
posVars == <<arg, index, level, layers>>
osVars == <<activated, env>>
cacheVars == <<once, caches, cleaners, uses>>

\* The element that opener o is about to open.
Element(o) == arg[o][index[o]][level[o]]
-----------------------------------------------------------------------------
(* Faulty variants of definitions below, each a plausible slip in the      *)
(* code.  No action uses them: putting one in the place of the definition  *)
(* it is a variant of shows that a property can fail.                      *)

\* getOpenListenerFunc does not lock listenerTypesMu.
MayRead_Always == TRUE

\* openType keeps listenerTypesMu locked while it calls the function.
AfterLookup_Held(o) == readers

\* CloseAll stops after the first listener.
Failed_FirstOnly(o) == "error"

\* openFDListener does not close the file: net.FileListener duplicates it.
Released_Kept(n) == fds

\* globalFileCache compares globalFileCachePtr with nil, without sync.Once.
Uninitialized_NilCheck == caches = 0
-----------------------------------------------------------------------------
Init ==
  /\ readers = {}
  /\ writer = None
  /\ types = [t \in Types |-> IF t \in Builtins THEN "init" ELSE "nobody"]
  /\ reg = [r \in Registrars |-> "call"]
  /\ fds = [n \in FDs |-> IF \E i \in DOMAIN Passed : Passed[i] = n THEN Socket("passed", <<n>>) ELSE Free]
  /\ activated \in BOOLEAN
  /\ arg \in Jobs
  /\ env \in IF UsesAutocert(arg) THEN Envs ELSE {CHOOSE e \in Envs : TRUE}
  /\ at = [o \in Openers |-> "next"]
  /\ index = [o \in Openers |-> 0]
  /\ level = [o \in Openers |-> 1]
  /\ layers = [o \in Openers |-> <<>>]
  /\ listeners = [o \in Openers |-> <<>>]
  /\ fresh = [o \in Openers |-> None]
  /\ once = "new" /\ caches = 0 /\ cleaners = 0
  /\ uses = [o \in Openers |-> {}]
-----------------------------------------------------------------------------
(* RegisterListenerType.  Lock of a sync.RWMutex first keeps out new       *)
(* readers and other writers, then waits for the readers that are in.      *)

Lock(r) ==
  /\ reg[r] = "call" /\ writer = None
  /\ writer' = r
  /\ reg' = [reg EXCEPT ![r] = "wait"]
  /\ UNCHANGED <<readers, types, fds, osVars, cacheVars, posVars, at, listeners, fresh>>

Locked(r) ==
  /\ reg[r] = "wait" /\ readers = {}
  /\ reg' = [reg EXCEPT ![r] = "write"]
  /\ UNCHANGED <<readers, writer, types, fds, osVars, cacheVars, posVars, at, listeners, fresh>>

Duplicate(r) == types[RegType[r]] # "nobody"

\* The type is entered, or the call panics; the deferred Unlock runs.
Register(r) ==
  /\ reg[r] = "write"
  /\ IF r \in NilFuncs \/ Duplicate(r)
     THEN reg' = [reg EXCEPT ![r] = "panic"] /\ UNCHANGED types
     ELSE reg' = [reg EXCEPT ![r] = "done"] /\ types' = [types EXCEPT ![RegType[r]] = r]
  /\ writer' = None
  /\ UNCHANGED <<readers, fds, osVars, cacheVars, posVars, at, listeners, fresh>>
-----------------------------------------------------------------------------
(* OpenAll, Open and OpenJSON.                                             *)

\* The loop of OpenAll goes on to the next specification, or is at its end.
NextSpec(o) ==
  /\ at[o] = "next"
  /\ IF index[o] < Len(arg[o])
     THEN /\ at' = [at EXCEPT ![o] = "open"]
          /\ index' = [index EXCEPT ![o] = @ + 1]
          /\ level' = [level EXCEPT ![o] = 1]
          /\ layers' = [layers EXCEPT ![o] = <<>>]
     ELSE /\ at' = [at EXCEPT ![o] = "ok"]
          /\ UNCHANGED <<index, level, layers>>
  /\ UNCHANGED <<regVars, fds, osVars, cacheVars, arg, listeners, fresh>>

\* Open without a colon: openTCPListener, without asking the table.
OpenBare(o) ==
  /\ at[o] = "open" /\ Element(o).type = "bare"
  /\ at' = [at EXCEPT ![o] = "call"]
  /\ UNCHANGED <<regVars, fds, osVars, cacheVars, posVars, listeners, fresh>>

\* OpenJSON of an object without a string "type".
OpenUntyped(o) ==
  /\ at[o] = "open" /\ Element(o).type = "untyped"
  /\ at' = [at EXCEPT ![o] = "fail"]
  /\ UNCHANGED <<regVars, fds, osVars, cacheVars, posVars, listeners, fresh>>

MayRead == writer = None

\* getOpenListenerFunc: listenerTypesMu.RLock() ...
RLock(o) ==
  /\ at[o] = "open" /\ Element(o).type \notin {"bare", "untyped"}
  /\ MayRead
  /\ readers' = readers \cup {o}
  /\ at' = [at EXCEPT ![o] = "lookup"]
  /\ UNCHANGED <<writer, types, reg, fds, osVars, cacheVars, posVars, listeners, fresh>>

AfterLookup(o) == readers \ {o}

\* ... and the lookup, with the deferred RUnlock.
Lookup(o) ==
  /\ at[o] = "lookup"
  /\ readers' = AfterLookup(o)
  /\ at' = [at EXCEPT ![o] = IF types[Element(o).type] = "nobody" THEN "fail" ELSE "call"]
  /\ UNCHANGED <<writer, types, reg, fds, osVars, cacheVars, posVars, listeners, fresh>>

\* openHTTPSListener, up to the choice of getCertificate.
ChooseCerts(o) ==
  /\ at[o] = "call" /\ Element(o).type = "tls"
  /\ LET certs == CertsRead(Element(o))
         noInner == Element(o).notation = "string" /\ level[o] = Len(arg[o][index[o]])
     IN at' = [at EXCEPT ![o] = CASE certs = NoCerts \/ noInner -> "fail"
                                  [] ~noInner /\ certs.source = "autocert" -> "inner"
                                  [] OTHER -> "cache"]
  /\ UNCHANGED <<regVars, fds, osVars, cacheVars, posVars, listeners, fresh>>

Uninitialized == once = "new"

\* globalFileCache, in GetCertificateFromFile or GetCertificateFromDirectory.
\* The first caller of globalFileCacheInit.Do runs the function; who comes
\* while it runs waits.
EnterOnce(o) ==
  /\ at[o] = "cache" /\ Uninitialized
  /\ once' = "running"
  /\ at' = [at EXCEPT ![o] = "make"]
  /\ UNCHANGED <<regVars, fds, osVars, posVars, listeners, fresh, caches, cleaners, uses>>

\* globalFileCachePtr = newFileCache(); go cleanGlobalFileCache()
MakeCache(o) ==
  /\ at[o] = "make"
  /\ once' = "done"
  /\ caches' = caches + 1
  /\ cleaners' = cleaners + 1
  /\ at' = [at EXCEPT ![o] = "cache"]
  /\ UNCHANGED <<regVars, fds, osVars, posVars, listeners, fresh, uses>>

\* return globalFileCachePtr
UseCache(o) ==
  /\ at[o] = "cache" /\ ~Uninitialized /\ once # "running"
  /\ uses' = [uses EXCEPT ![o] = @ \cup {caches}]
  /\ at' = [at EXCEPT ![o] = "inner"]
  /\ UNCHANGED <<regVars, fds, osVars, posVars, listeners, fresh, once, caches, cleaners>>

\* openProxyListener and openHTTPSListener open the inner listener, if there
\* is one; when they have it nothing can fail, and they wrap it.
OpenInner(o) ==
  /\ at[o] = "inner" \/ (at[o] = "call" /\ Element(o).type = "proxy")
  /\ IF level[o] = Len(arg[o][index[o]])
     THEN at' = [at EXCEPT ![o] = "fail"] /\ UNCHANGED <<level, layers>>
     ELSE /\ at' = [at EXCEPT ![o] = "open"]
          /\ level' = [level EXCEPT ![o] = @ + 1]
          /\ layers' = [layers EXCEPT ![o] =
                          Append(@, Layer(Element(o), CertsRead(Element(o)), env))]
  /\ UNCHANGED <<regVars, fds, osVars, cacheVars, arg, index, listeners, fresh>>

\* The address is in use; one that overlaps it is among the other failures.
InUse(socket) == \E n \in FDs : fds[n] = socket

\* openTCPListener and openUnixListener open a socket, or fail: a bad
\* argument, an address in use, no descriptor left, no permission.
Listen(o) ==
  /\ at[o] = "call" /\ Element(o).type \in {"tcp", "bare", "unix"}
  /\ \/ \E n \in FDs :
          /\ fds[n] = Free /\ Read(Element(o)) # Free /\ ~InUse(Read(Element(o)))
          /\ fds' = [fds EXCEPT ![n] = Read(Element(o))]
          /\ listeners' = [listeners EXCEPT ![o] = Append(@, [fd |-> n, layers |-> layers[o]])]
          /\ at' = [at EXCEPT ![o] = "next"]
     \/ /\ at' = [at EXCEPT ![o] = "fail"]
        /\ UNCHANGED <<fds, listeners>>
  /\ UNCHANGED <<regVars, osVars, cacheVars, posVars, fresh>>

\* The descriptor that "fd:" or "fdname:" names, if there is one.
File(o) ==
  LET socket == Read(Element(o))
  IN IF socket = Free \/ (Element(o).type = "fdname" /\ ~activated) THEN None ELSE socket.id[1]

NoFile(o) ==
  /\ at[o] = "call" /\ Element(o).type \in {"fd", "fdname"} /\ File(o) = None
  /\ at' = [at EXCEPT ![o] = "fail"]
  /\ UNCHANGED <<regVars, fds, osVars, cacheVars, posVars, listeners, fresh>>

\* net.FileListener(file) duplicates the descriptor, or fails.
FileListener(o) ==
  /\ at[o] = "call" /\ Element(o).type \in {"fd", "fdname"} /\ File(o) # None
  /\ \/ \E n \in FDs :
          /\ fds[n] = Free /\ fds[File(o)] # Free
          /\ fds' = [fds EXCEPT ![n] = fds[File(o)]]
          /\ fresh' = [fresh EXCEPT ![o] = n]
     \/ fresh' = [fresh EXCEPT ![o] = None] /\ UNCHANGED fds
  /\ at' = [at EXCEPT ![o] = "close"]
  /\ UNCHANGED <<regVars, osVars, cacheVars, posVars, listeners>>

Released(n) == [fds EXCEPT ![n] = Free]

\* The value that a function with FileListener's result gives to OpenAll.
Returned(o) ==
  IF fresh[o] = None THEN listeners[o]
  ELSE Append(listeners[o], [fd |-> fresh[o], layers |-> layers[o]])

\* The deferred file.Close(), and the return.
CloseFile(o) ==
  /\ at[o] = "close"
  /\ fds' = Released(File(o))
  /\ listeners' = [listeners EXCEPT ![o] = Returned(o)]
  /\ at' = [at EXCEPT ![o] = IF fresh[o] = None THEN "fail" ELSE "next"]
  /\ UNCHANGED <<regVars, osVars, cacheVars, posVars, fresh>>

\* Open returned an error: CloseAll(listeners), one after the other.
Failed(o) == IF listeners[o] = <<>> THEN "error" ELSE "fail"

CloseAll(o) ==
  /\ at[o] = "fail"
  /\ at' = [at EXCEPT ![o] = Failed(o)]
  /\ IF listeners[o] = <<>>
     THEN UNCHANGED <<fds, listeners>>
     ELSE /\ fds' = [fds EXCEPT ![Head(listeners[o]).fd] = Free]
          /\ listeners' = [listeners EXCEPT ![o] = Tail(@)]
  /\ UNCHANGED <<regVars, osVars, cacheVars, posVars, fresh>>
-----------------------------------------------------------------------------
OpenerStep(o) ==
  \/ NextSpec(o)
  \/ OpenBare(o)
  \/ RLock(o)
  \/ Lookup(o)
  \/ OpenUntyped(o)
  \/ ChooseCerts(o)
  \/ EnterOnce(o)
  \/ MakeCache(o)
  \/ UseCache(o)
  \/ OpenInner(o)
  \/ Listen(o)
  \/ NoFile(o)
  \/ FileListener(o)
  \/ CloseFile(o)
  \/ CloseAll(o)

RegistrarStep(r) == Lock(r) \/ Locked(r) \/ Register(r)

Next ==
  \/ \E o \in Openers : OpenerStep(o)
  \/ \E r \in Registrars : RegistrarStep(r)

Spec == Init /\ [][Next]_vars

\* The Go scheduler runs every goroutine that can run.
Fairness ==
  /\ \A o \in Openers : WF_vars(OpenerStep(o))
  /\ \A r \in Registrars : WF_vars(RegistrarStep(r))

LiveSpec == Spec /\ Fairness
-----------------------------------------------------------------------------
(* Properties.                                                             *)

\* "If any listener fails to open, an error is returned, and none of the
\* listeners are left open" (open.go:55-57), wrapped or not, and a
\* descriptor that was taken over is not open under a second number.
AllOrNothing ==
  \A o \in Openers : at[o] = "error" =>
    \A n \in FDs :
      fds[n] \in Asked(arg[o]) => fds[n] = Socket("passed", <<n>>)

\* If OpenAll or OpenJSON succeeds, its listeners are those it was asked for,
\* in order, each open exactly once: what net.FileListener duplicated is
\* closed (builtin.go:66-69, 92-94).  Around each are the layers it was asked
\* for, with certificates from where the specification says and, if these are
\* automatic, with the protocol in which ACME validates the host and with the
\* directory that keeps the issued ones (tls/listener.go:51-109,
\* README.md:120-125, 141-151).
Complete ==
  \A o \in Openers : at[o] = "ok" =>
    /\ Len(listeners[o]) = Len(arg[o])
    /\ \A i \in DOMAIN arg[o] :
         LET spec == arg[o][i]
         IN /\ {n \in FDs : fds[n] = Requested(Innermost(spec))} = {listeners[o][i].fd}
            /\ Len(listeners[o][i].layers) = Len(spec) - 1
            /\ \A j \in 1..(Len(spec) - 1) :
                 LET layer == listeners[o][i].layers[j]
                 IN /\ layer.type = spec[j].type
                    /\ layer.certs = CertsMeant(spec[j])
                    /\ layer.certs.source = "autocert" <=> "acme-tls/1" \in layer.protos
                    /\ layer.certs.source = "autocert" /\ env.AUTOCERT_CACHE_DIR # "" =>
                         layer.cache = <<env.AUTOCERT_CACHE_DIR>>

\* All TLS listeners of the program load certificate files through one cache,
\* which is being cleaned by one goroutine, however many goroutines open the
\* first of them at once (cert/globalcache.go:38-50).
OneCache ==
  \A o \in Openers : uses[o] # {} => uses[o] = {caches} /\ cleaners = 1

\* The table of types, a Go map, is never written while anybody else
\* reads or writes it, which would crash the program (listener.go:54-71).
NoMapRace ==
  \A r \in Registrars : reg[r] = "write" =>
    /\ \A o \in Openers : at[o] # "lookup"
    /\ \A q \in Registrars \ {r} : reg[q] # "write"

\* Opening and registering do not block each other for good, although a
\* wrapping type calls Open from within an opening function while a writer
\* may be waiting for the lock (builtin.go:165, listener.go:54-71).
Returns ==
  /\ \A o \in Openers : <>(at[o] \in {"ok", "error"})
  /\ \A r \in Registrars : <>(reg[r] \in {"done", "panic"})

\* "Open a listener with the given JSON notation" (open.go:71): what an opening
\* function reads in an object is what the object says, as it is in string
\* notation.  The code does not keep this: next to an "address" it does not
\* look for the "port" (builtin.go:115-121), so that no address can be given,
\* and the list of "autocert_hostnames" that encoding/json decodes is not a
\* []string (tls/listener.go:82).
AsWritten ==
  \A o \in Openers : at[o] = "call" =>
    LET e == Element(o) IN Read(e) = Requested(e) /\ CertsRead(e) = CertsMeant(e)
================================================================================
