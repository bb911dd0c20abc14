------------------------------ MODULE ProxyUnix ------------------------------
(***************************************************************************)
(* A server on proxy:unix:PATH, as README.md shows one: the listener of    *)
(* proxy/listener.go (ProxyListener) wraps that of unix/listener.go        *)
(* (UnixListener), and http.Serve calls its Accept.                        *)
(*                                                                         *)
(* The two components share the socket: whether the wrapped listener of    *)
(* ProxyListener is open is no variable here but follows from the state of *)
(* UnixListener, and closing it is a step of both.  A process that crashes *)
(* takes everything in this module with it; UnixListener covers that.      *)
(***************************************************************************)
EXTENDS Naturals

CONSTANTS
  Server,                              \* this server's call of unix.Listen
  Other,                               \* a file at the path, not its socket
  Conns, Acceptors, Closers, Main,     \* as in ProxyListener
  InnerErr, TempErr, ErrClosed, None,
  MaxErrors, MaxLstatErrors            \* bounds on failing calls

ASSUME ProxyUnixAssumption ==
  /\ Server \notin {Other, None} /\ Other # None
  /\ MaxErrors \in Nat /\ MaxLstatErrors \in Nat
  /\ Main \notin Conns
  /\ {InnerErr, TempErr, ErrClosed, None} \cap Conns = {}
  /\ None \notin {InnerErr, TempErr, ErrClosed}
  /\ ErrClosed \notin {InnerErr, TempErr}
  /\ None \notin Closers

VARIABLES
  path, listenPc, dir, temp, stuck, mode, sock, info, given, closing, watch, tick,
  misled, lstatErrs,                   \* as in UnixListener (listenPc: its pc)
  done, closeMu, closer, pc, offer, fd, deadline, header, acceptor, result,
  errs, panicked,                      \* as in ProxyListener
  serving                              \* is http.Serve in its loop?

unixVars == <<path, listenPc, dir, temp, stuck, mode, sock, info, given, closing, watch,
              tick, misled, lstatErrs>>
proxyVars == <<done, closeMu, closer, pc, offer, fd, deadline, header, acceptor,
               result, errs, panicked>>
vars == <<unixVars, proxyVars, serving>>

Unix == INSTANCE UnixListener WITH Calls <- {Server}, pc <- listenPc

\* The wrapped listener, as the proxy listener knows it.
Inner ==
  CASE closing[Server] = "returned" -> "closed"
    [] closing[Server] # "returned" /\ sock[Server] = "closed" -> "down"
    [] OTHER -> "open"

Proxy == INSTANCE ProxyListener WITH inner <- Inner

Init == Unix!Init /\ Proxy!Init /\ serving = TRUE
-----------------------------------------------------------------------------
(* Faulty variants, see ProxyListener.                                     *)

\* handleConnection sends the error itself instead of an acceptError.
Temporary_Bare(e) == e = InnerErr
-----------------------------------------------------------------------------
(* unix.Listen and the goroutine watch.                                    *)

\* A step of UnixListener that does not involve the proxy listener.
UnixOnly == UNCHANGED <<proxyVars, serving>>

ListenStep == UnixOnly /\ Unix!ListenStep(Server)

WatchClosed == UnixOnly /\ Unix!WatchClosed(Server)

WatchStep ==
  /\ UnixOnly
  /\ \/ Unix!Tick(Server)
     \/ Unix!WatchCheck(Server)

\* watch closes the socket under the proxy listener: its InnerDown.
WatchStop == UnixOnly /\ Unix!WatchStop(Server)

UnixEnvironment ==
  /\ UnixOnly
  /\ \/ Unix!MkdirTemp(Server)
     \/ Unix!WatchError(Server)
     \/ Unix!Disturb
-----------------------------------------------------------------------------
(* The proxy listener, which is made when unix.Listen has returned.        *)

Opened == listenPc[Server] = "ok"

ProxyOnly == Opened /\ UNCHANGED unixVars

\* A client connects to the socket at the path, which may happen before
\* unix.Listen has returned.
Connect(c) ==
  /\ path = Server /\ sock[Server] = "listening"
  /\ UNCHANGED <<unixVars, serving>>
  /\ Proxy!Connect(c)

InnerError == ProxyOnly /\ Proxy!InnerError /\ UNCHANGED serving

MainStep == ProxyOnly /\ Proxy!MainStep /\ UNCHANGED serving

ReadHeader(c) ==
  /\ ProxyOnly /\ UNCHANGED serving
  /\ Proxy!ReadGood(c) \/ Proxy!ReadBad(c)

ReadTimeout(c) == ProxyOnly /\ Proxy!ReadTimeout(c) /\ UNCHANGED serving

HandlerStep(c) == ProxyOnly /\ Proxy!HandlerStep(c) /\ UNCHANGED serving

CloseCall(k) == ProxyOnly /\ Proxy!CloseCall(k) /\ UNCHANGED serving

CloserStep(k) ==
  /\ ProxyOnly /\ UNCHANGED serving
  /\ Proxy!Lock(k) \/ Proxy!Check(k) \/ Proxy!Mark(k)

\* listener.inner.Close() is watchedListener.Close: first close(wl.closed),
CloseWatch(k) ==
  /\ closer[k] = "inner"
  /\ UnixOnly /\ Unix!CloseCall(Server)

\* then the socket.
CloseSocket(k) ==
  /\ Unix!CloseInner(Server)
  /\ Proxy!CloseInner(k)
  /\ UNCHANGED serving
-----------------------------------------------------------------------------
(* http.Serve: for { conn, err := l.Accept() ... }                         *)

\* The errors whose method Temporary returns true.  The errors of the
\* wrapped listener's Accept are those of accept(2): too many open files.
Temporary(e) == e \in {InnerErr, TempErr}

AcceptCall(a) ==
  /\ serving
  /\ ProxyOnly /\ Proxy!AcceptCall(a) /\ UNCHANGED serving

\* It serves a connection in another goroutine, tries again after a
\* temporary error, and returns after any other.
AcceptorStep(a) ==
  /\ ProxyOnly /\ Proxy!AcceptorStep(a)
  /\ serving' = (serving /\ (acceptor[a] = "return" =>
                               result[a] \in Conns \/ Temporary(result[a])))
-----------------------------------------------------------------------------
Environment ==
  \/ UnixEnvironment
  \/ InnerError
  \/ \E c \in Conns : Connect(c) \/ ReadHeader(c)
  \/ \E k \in Closers : CloseCall(k)

Next ==
  \/ Environment
  \/ ListenStep \/ WatchClosed \/ WatchStep \/ WatchStop
  \/ MainStep
  \/ \E c \in Conns : HandlerStep(c) \/ ReadTimeout(c)
  \/ \E k \in Closers : CloserStep(k) \/ CloseWatch(k) \/ CloseSocket(k)
  \/ \E a \in Acceptors : AcceptCall(a) \/ AcceptorStep(a)

Spec == Init /\ [][Next]_vars

\* The fairness of UnixListener, of ProxyListener with its Clock, and of
\* http.Serve, which calls Accept again after each return (ServeLoop).
Fairness ==
  /\ WF_vars(ListenStep) /\ WF_vars(WatchStop) /\ SF_vars(WatchClosed)
  /\ WF_vars(UnixOnly /\ Unix!Tick(Server))
  /\ WF_vars(UnixOnly /\ Unix!WatchCheck(Server))
  /\ WF_vars(MainStep)
  /\ \A c \in Conns : WF_vars(HandlerStep(c)) /\ WF_vars(ReadTimeout(c))
  /\ \A k \in Closers :
       WF_vars(CloserStep(k)) /\ WF_vars(CloseWatch(k)) /\ WF_vars(CloseSocket(k))
  /\ \A a \in Acceptors : WF_vars(AcceptCall(a)) /\ WF_vars(AcceptorStep(a))

LiveSpec == Spec /\ Fairness
-----------------------------------------------------------------------------
(* Properties.                                                             *)

\* One Close of the outer listener ends the whole stack, whatever happens to
\* the socket file and wherever clients are: both listeners' goroutines, the
\* socket, every connection that was not handed over, and http.Serve
\* (proxy/listener.go:71-82, unix/listener.go:53-77).
StackShutdown ==
  done ~> [](/\ watch[Server] = "done" /\ sock[Server] = "closed"
             /\ \A p \in Conns \cup {Main} : pc[p] \in {"none", "done"}
             /\ \A c \in Conns : fd[c] # "open"
             /\ ~serving)

\* The kernel resets the connections that wait in the backlog of a socket
\* when it is closed.
Reset(c) == fd[c] = "backlog" /\ sock[Server] = "closed"

\* Whoever connects to the path is not left hanging: the connection reaches
\* http.Serve, is closed, or is reset, even if the socket file is replaced
\* while it waits in the backlog of the old socket, or afterwards, while
\* handleConnection has it (unix/listener.go:71, proxy/listener.go:91-132).
ClientsAnswered ==
  \A c \in Conns : fd[c] = "backlog" ~> fd[c] \in {"user", "closed"} \/ Reset(c)

\* No client, no shortage of descriptors and no change of the socket file
\* makes http.Serve return: it returns only after Close.  It depends on
\* acceptError.Temporary, which nothing in the library calls
\* (proxy/error.go:37, proxy/listener.go:106-120).
ServesOn == [][serving /\ ~serving' => done]_vars

\* "If the UNIX domain socket file is removed or changed, then within 5
\* seconds the net.Listener will be closed, and Accept will return an error"
\* (unix/listener.go:80-82).  The code does not keep this for who listens on
\* proxy:unix:PATH: handleAccepts leaves its loop in silence
\* (proxy/listener.go:91), and Accept waits for connections nobody accepts.
StopReported ==
  \A a \in Acceptors : Opened /\ path # Server /\ acceptor[a] = "parked" ~> acceptor[a] # "parked"
=============================================================================
