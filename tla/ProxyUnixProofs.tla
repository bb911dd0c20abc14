---------------------------- MODULE ProxyUnixProofs ----------------------------
(***************************************************************************)
(* Theorems about ProxyUnix: the composition is a behavior of each of its  *)
(* components, so that what is proved of them alone holds in it; and       *)
(* http.Serve returns only after Close.                                    *)
(***************************************************************************)
EXTENDS ProxyUnix, TLAPS

UnixProofs == INSTANCE UnixListenerProofs WITH Calls <- {Server}, pc <- listenPc

ProxyProofs == INSTANCE ProxyListenerProofs WITH inner <- Inner

\* What the components assume of their constants.
LEMMA ComponentAssumptions ==
  /\ UnixProofs!UnixListenerAssumption
  /\ ProxyProofs!ProxyListenerAssumption
  BY ProxyUnixAssumption
  DEF UnixProofs!UnixListenerAssumption, ProxyProofs!ProxyListenerAssumption
-----------------------------------------------------------------------------
(* The composition implements unix/listener.go.                            *)

\* The variables of the UNIX listener are among those of the stack.
LEMMA UnixUnchanged ==
  ASSUME UNCHANGED unixVars
  PROVE  UNCHANGED Unix!vars
  BY DEF unixVars, Unix!vars

\* A step of the stack is a step of the UNIX listener, or none of it.
THEOREM ImplementsUnix == Spec => Unix!Spec
<1>1. ASSUME [Next]_vars PROVE [Unix!Next]_Unix!vars
  <2>1. CASE Environment
    <3>1. CASE UnixEnvironment
      BY <3>1 DEF UnixEnvironment, Unix!Next, Unix!Environment
    <3>2. QED
      BY <2>1, <3>1, UnixUnchanged
      DEF Environment, InnerError, Connect, ReadHeader, CloseCall, ProxyOnly
  <2>2. CASE ListenStep \/ WatchClosed \/ WatchStep \/ WatchStop
    BY <2>2 DEF ListenStep, WatchClosed, WatchStep, WatchStop, Unix!Next
  <2>3. CASE \E k \in Closers : CloserStep(k) \/ CloseWatch(k) \/ CloseSocket(k)
    <3>1. PICK k \in Closers : CloserStep(k) \/ CloseWatch(k) \/ CloseSocket(k)
      BY <2>3
    <3>2. CASE CloserStep(k)
      BY <3>2, UnixUnchanged DEF CloserStep, ProxyOnly
    <3>3. CASE CloseWatch(k) \/ CloseSocket(k)
      BY <3>3 DEF CloseWatch, CloseSocket, Unix!Next, Unix!Environment
    <3>4. QED
      BY <3>1, <3>2, <3>3
  <2>4. CASE UNCHANGED vars
    BY <2>4, UnixUnchanged DEF vars
  <2>5. ASSUME \/ MainStep
               \/ \E c \in Conns : HandlerStep(c) \/ ReadTimeout(c)
               \/ \E a \in Acceptors : AcceptCall(a) \/ AcceptorStep(a)
        PROVE  UNCHANGED unixVars
    BY <2>5 DEF MainStep, HandlerStep, ReadTimeout, AcceptCall, AcceptorStep, ProxyOnly
  <2>6. QED
    BY <1>1, <2>1, <2>2, <2>3, <2>4, <2>5, UnixUnchanged DEF Next
<1>2. Init => Unix!Init
  BY DEF Init
<1>3. QED
  BY <1>1, <1>2, PTL DEF Spec, Unix!Spec
\* The two instances of UnixListener are the same specification.
LEMMA SameUnix == Unix!Spec => UnixProofs!Spec
  BY DEF
      Unix!Spec, Unix!Init, Unix!Next, Unix!Environment, Unix!ListenStep,
      Unix!MkdirTemp, Unix!Stuck, Unix!Bind, Unix!Chmod, Unix!AtTempPath, Unix!Lstat,
      Unix!Rename, Unix!Watched, Unix!StartWatch, Unix!ToClose,
      Unix!AfterClose, Unix!PathAfterClose, Unix!CloseTemp, Unix!RemoveSocket,
      Unix!RemoveDir, Unix!CloseCall, Unix!CloseInner, Unix!Tick,
      Unix!Stopped, Unix!WatchClosed, Unix!WatchCheck, Unix!WatchError,
      Unix!WatchStop, Unix!Disturb, Unix!Crash, Unix!vars, Unix!fileVars,
      Unix!watchVars, UnixProofs!Spec, UnixProofs!Init, UnixProofs!Next,
      UnixProofs!Environment, UnixProofs!ListenStep, UnixProofs!MkdirTemp, UnixProofs!Stuck,
      UnixProofs!Bind, UnixProofs!Chmod, UnixProofs!AtTempPath,
      UnixProofs!Lstat, UnixProofs!Rename, UnixProofs!Watched,
      UnixProofs!StartWatch, UnixProofs!ToClose, UnixProofs!AfterClose,
      UnixProofs!PathAfterClose, UnixProofs!CloseTemp,
      UnixProofs!RemoveSocket, UnixProofs!RemoveDir, UnixProofs!CloseCall,
      UnixProofs!CloseInner, UnixProofs!Tick, UnixProofs!Stopped,
      UnixProofs!WatchClosed, UnixProofs!WatchCheck, UnixProofs!WatchError,
      UnixProofs!WatchStop, UnixProofs!Disturb, UnixProofs!Crash,
      UnixProofs!vars, UnixProofs!fileVars, UnixProofs!watchVars

\* So the inductive invariant of UnixListener holds in the composition.
LEMMA UnixInvariance == Spec => []UnixProofs!IInv
  BY ImplementsUnix, SameUnix, UnixProofs!Invariance, ComponentAssumptions
-----------------------------------------------------------------------------
(* The composition implements proxy/listener.go: to the proxy listener,    *)
(* Listen and watch do nothing but stop the wrapped listener.              *)

\* The wrapped listener does not change when the socket does not.
LEMMA InnerUnchanged ==
  ASSUME UNCHANGED unixVars
  PROVE  UNCHANGED Inner
  BY DEF unixVars, Inner

\* Only Bind, CloseTemp and WatchStop close the socket, and what is closed is not
\* opened again.
LEMMA InnerGoesDown ==
  ASSUME UnixProofs!IInv,
         \/ Unix!MkdirTemp(Server) \/ Unix!ListenStep(Server) \/ Unix!CloseCall(Server)
         \/ Unix!Tick(Server) \/ Unix!WatchClosed(Server) \/ Unix!WatchCheck(Server)
         \/ Unix!WatchError(Server) \/ Unix!WatchStop(Server) \/ Unix!Disturb
  PROVE  UNCHANGED Inner \/ (Inner = "open" /\ Inner' = "down")
<1> USE DEF UnixProofs!IInv, UnixProofs!TypeOK, Inner
<1>1. CASE Unix!Bind(Server)
  <2>1. sock[Server] = "none"
    BY <1>1 DEF UnixProofs!ListenInv, Unix!Bind
  <2>2. sock'[Server] \in {"none", "listening", "closed"} /\ UNCHANGED closing
    BY <1>1, <2>1 DEF Unix!Bind
  <2>3. QED
    BY <2>1, <2>2
<1>2. CASE Unix!CloseTemp(Server) \/ Unix!WatchStop(Server)
  <2>1. sock'[Server] \in {sock[Server], "closed"} /\ UNCHANGED closing
    BY <1>2 DEF Unix!CloseTemp, Unix!WatchStop
  <2>2. QED
    BY <2>1
<1>3. CASE Unix!CloseCall(Server)
  <2>1. closing[Server] = "none" /\ closing'[Server] = "inner" /\ UNCHANGED sock
    BY <1>3 DEF Unix!CloseCall
  <2>2. QED
    BY <2>1
<1>4. CASE UNCHANGED <<sock, closing>>
  BY <1>4
<1>5. QED
  BY <1>1, <1>2, <1>3, <1>4
  DEF Unix!ListenStep, Unix!MkdirTemp, Unix!Chmod, Unix!Lstat, Unix!Rename, Unix!StartWatch,
      Unix!RemoveSocket, Unix!RemoveDir, Unix!Tick, Unix!WatchClosed, Unix!WatchCheck,
      Unix!WatchError, Unix!Disturb

\* Then the proxy listener's own variables are as they were.
LEMMA WrappedStep ==
  ASSUME UNCHANGED proxyVars, UNCHANGED Inner \/ (Inner = "open" /\ Inner' = "down")
  PROVE  [Proxy!Next]_Proxy!vars
  BY DEF proxyVars, Proxy!vars, Proxy!Next, Proxy!Environment, Proxy!InnerDown,
         Proxy!closeVars, Proxy!connVars, Proxy!callVars

\* A step of the stack is a step of the proxy listener, or none of it.
THEOREM ImplementsProxy == Spec => Proxy!Spec
<1>1. ASSUME UnixProofs!IInv, [Next]_vars PROVE [Proxy!Next]_Proxy!vars
  <2>1. CASE Environment
    <3>1. CASE UnixEnvironment
      BY <1>1, <3>1, InnerGoesDown, WrappedStep DEF UnixEnvironment, UnixOnly
    <3>2. CASE InnerError
      BY <3>2 DEF InnerError, Proxy!Next, Proxy!Environment
    <3>3. CASE \E c \in Conns : Connect(c) \/ ReadHeader(c)
      BY <3>3 DEF Connect, ReadHeader, Proxy!Next, Proxy!Environment
    <3>4. CASE \E k \in Closers : CloseCall(k)
      BY <3>4 DEF CloseCall, Proxy!Next, Proxy!Environment
    <3>5. QED
      BY <2>1, <3>1, <3>2, <3>3, <3>4 DEF Environment
  <2>2. CASE ListenStep \/ WatchClosed \/ WatchStep \/ WatchStop
    BY <1>1, <2>2, InnerGoesDown, WrappedStep
    DEF ListenStep, WatchClosed, WatchStep, WatchStop, UnixOnly
  <2>3. CASE MainStep
    BY <2>3 DEF MainStep, Proxy!Next
  <2>4. CASE \E c \in Conns : HandlerStep(c) \/ ReadTimeout(c)
    BY <2>4 DEF HandlerStep, ReadTimeout, Proxy!Next
  <2>5. ASSUME NEW k \in Closers, CloserStep(k) \/ CloseWatch(k) \/ CloseSocket(k)
        PROVE  [Proxy!Next]_Proxy!vars
    <3>1. CASE CloserStep(k) \/ CloseSocket(k)
      BY <3>1 DEF CloserStep, CloseSocket, Proxy!Next, Proxy!CloserStep
    <3>2. CASE CloseWatch(k)
      BY <1>1, <3>2, InnerGoesDown, WrappedStep DEF CloseWatch, UnixOnly
    <3>3. QED
      BY <2>5, <3>1, <3>2
  <2>6. CASE \E a \in Acceptors : AcceptCall(a) \/ AcceptorStep(a)
    BY <2>6 DEF AcceptCall, AcceptorStep, Proxy!Next, Proxy!Environment
  <2>7. CASE UNCHANGED vars
    BY <2>7, InnerUnchanged, WrappedStep DEF vars
  <2>8. QED
    BY <1>1, <2>1, <2>2, <2>3, <2>4, <2>5, <2>6, <2>7 DEF Next
<1>2. Init => Proxy!Init
  BY DEF Init
<1>3. QED
  BY <1>1, <1>2, UnixInvariance, PTL DEF Spec, Proxy!Spec

\* The two instances of ProxyListener are the same specification.
LEMMA SameProxy == Proxy!Spec => ProxyProofs!Spec
  BY DEF
      Proxy!Spec, Proxy!Init, Proxy!Next, Proxy!Environment, Proxy!MainStep,
      Proxy!HandlerStep, Proxy!AcceptorStep, Proxy!CloserStep, Proxy!SendStep,
      Proxy!Senders, Proxy!Connect, Proxy!InnerDown, Proxy!MainReady,
      Proxy!InnerConn, Proxy!InnerError, Proxy!InnerClosed, Proxy!Armed,
      Proxy!Arm, Proxy!ReadGood, Proxy!ReadBad, Proxy!ReadTimeout,
      Proxy!Cleared, Proxy!Disarm, Proxy!FailedSocket, Proxy!Fail,
      Proxy!AfterSend, Proxy!Received, Proxy!HandOver, Proxy!SendRefused,
      Proxy!Send, Proxy!SendPark, Proxy!Refused, Proxy!GiveUp,
      Proxy!AcceptCall, Proxy!AcceptRefused, Proxy!Receive, Proxy!AcceptPark,
      Proxy!AcceptReturn, Proxy!CloseCall, Proxy!MutexFree, Proxy!Lock,
      Proxy!Check, Proxy!WakeSenders, Proxy!WakeAcceptors,
      Proxy!HolderAfterMark, Proxy!Mark, Proxy!CloseInner, Proxy!vars,
      Proxy!closeVars, Proxy!connVars, Proxy!callVars, ProxyProofs!Spec,
      ProxyProofs!Init, ProxyProofs!Next, ProxyProofs!Environment,
      ProxyProofs!MainStep, ProxyProofs!HandlerStep, ProxyProofs!AcceptorStep,
      ProxyProofs!CloserStep, ProxyProofs!SendStep, ProxyProofs!Senders,
      ProxyProofs!Connect, ProxyProofs!InnerDown, ProxyProofs!MainReady,
      ProxyProofs!InnerConn, ProxyProofs!InnerError, ProxyProofs!InnerClosed,
      ProxyProofs!Armed, ProxyProofs!Arm, ProxyProofs!ReadGood,
      ProxyProofs!ReadBad, ProxyProofs!ReadTimeout, ProxyProofs!Cleared,
      ProxyProofs!Disarm, ProxyProofs!FailedSocket, ProxyProofs!Fail,
      ProxyProofs!AfterSend, ProxyProofs!Received, ProxyProofs!HandOver,
      ProxyProofs!SendRefused, ProxyProofs!Send, ProxyProofs!SendPark,
      ProxyProofs!Refused, ProxyProofs!GiveUp, ProxyProofs!AcceptCall,
      ProxyProofs!AcceptRefused, ProxyProofs!Receive, ProxyProofs!AcceptPark,
      ProxyProofs!AcceptReturn, ProxyProofs!CloseCall, ProxyProofs!MutexFree,
      ProxyProofs!Lock, ProxyProofs!Check, ProxyProofs!WakeSenders,
      ProxyProofs!WakeAcceptors, ProxyProofs!HolderAfterMark,
      ProxyProofs!Mark, ProxyProofs!CloseInner, ProxyProofs!vars,
      ProxyProofs!closeVars, ProxyProofs!connVars, ProxyProofs!callVars

\* So the inductive invariant of ProxyListener holds in the composition.
LEMMA ProxyInvariance == Spec => [](ProxyProofs!IInv /\ ProxyProofs!ErrClosedInv)
<1>1. Spec => ProxyProofs!Spec
  BY ImplementsProxy, SameProxy
<1>2. Spec => []ProxyProofs!IInv
  BY <1>1, ProxyProofs!Invariance, ComponentAssumptions
<1>3. Spec => []ProxyProofs!ErrClosedInv
  BY <1>1, ProxyProofs!ErrClosedOnlyAfterClose, ComponentAssumptions
<1>4. QED
  BY <1>2, <1>3, PTL
-----------------------------------------------------------------------------
(* What follows for the whole stack.                                       *)

\* The guarantees of the two listeners survive their composition: the path
\* names a socket with a listener behind it, no temporary file stays that a
\* deferred function could remove, no connection leaks, none has a header
\* unread or a deadline left, and neither channel nor wrapped listener is
\* closed twice.
THEOREM StackSafety ==
  Spec => [](/\ Unix!PathReachable /\ Unix!CleanedUp
             /\ Proxy!Custody /\ Proxy!HandshakeDone /\ Proxy!CloseCompletes /\ Proxy!NoPanic)
<1>1. UnixProofs!IInv => Unix!PathReachable /\ Unix!CleanedUp
  BY DEF UnixProofs!IInv, UnixProofs!ListenInv, UnixProofs!LeftInv, UnixProofs!OwnerInv, UnixProofs!PathInv,
         Unix!PathReachable, Unix!CleanedUp
<1>2. ProxyProofs!IInv => Proxy!Custody
  BY DEF ProxyProofs!IInv, ProxyProofs!ConnInv, ProxyProofs!Custody, Proxy!Custody,
         ProxyProofs!Senders, Proxy!Senders
<1>3. ProxyProofs!IInv => Proxy!HandshakeDone
  BY DEF ProxyProofs!IInv, ProxyProofs!ConnInv, ProxyProofs!HandlerInv, Proxy!HandshakeDone
<1>4. ProxyProofs!IInv => Proxy!CloseCompletes /\ Proxy!NoPanic
  BY DEF ProxyProofs!IInv, ProxyProofs!ShutInv, ProxyProofs!CloseInv, ProxyProofs!Returned,
         ProxyProofs!NoPanic, Proxy!CloseCompletes, Proxy!NoPanic
<1>5. QED
  BY <1>1, <1>2, <1>3, <1>4, UnixInvariance, ProxyInvariance, PTL

\* http.Serve leaves its loop only after Close: every other error it can be
\* given is a temporary one, whatever clients, the kernel and the socket file
\* do (proxy/listener.go:106-120, proxy/error.go:37).
THEOREM ServesUntilClose == Spec => ServesOn
<1>1. ASSUME ProxyProofs!IInv, ProxyProofs!ErrClosedInv, [Next]_vars, serving, ~serving'
      PROVE  done
  <2>1. PICK a \in Acceptors : AcceptorStep(a)
    BY <1>1
    DEF Next, Environment, UnixEnvironment, InnerError, Connect, ReadHeader, CloseCall, ListenStep,
        WatchClosed, WatchStep, WatchStop, MainStep, HandlerStep, ReadTimeout, CloserStep,
        CloseWatch, CloseSocket, AcceptCall, UnixOnly, vars
  <2>2. acceptor[a] = "return" /\ result[a] \notin Conns \cup {InnerErr, TempErr}
    BY <1>1, <2>1 DEF AcceptorStep, Temporary
  <2>3. result[a] = ErrClosed
    BY <1>1, <2>2 DEF ProxyProofs!IInv, ProxyProofs!TypeOK
  <2>4. QED
    BY <1>1, <2>3 DEF ProxyProofs!ErrClosedInv
<1>2. QED
  BY <1>1, ProxyInvariance, PTL DEF Spec, ServesOn
=============================================================================
