-------------------------- MODULE ProxyListenerProofs --------------------------
(***************************************************************************)
(* Theorems about ProxyListener for all sets of connections, callers and   *)
(* calls of Close, and any bound on the number of errors.                  *)
(***************************************************************************)
EXTENDS ProxyListener, TLAPS

\* A goroutine offers something exactly between the call of sendConn or
\* sendError and its end, and only listener.done makes a send fail.
OfferInv ==
  \A p \in Senders :
    /\ offer[p] # None <=> pc[p] \in {"select", "parked", "refused"}
    /\ pc[p] = "refused" => done

\* close(listener.done) leaves nobody parked, and nobody parks afterwards.
ParkInv ==
  done => /\ \A p \in Senders : pc[p] # "parked"
          /\ \A a \in Acceptors : acceptor[a] # "parked"

\* How far handleConnection is says what it has done with the socket.  What
\* is offered, or was handed over, has its header and no deadline.
HandlerInv ==
  \A c \in Conns :
    /\ pc[c] = "none" <=> fd[c] \in {"new", "backlog"}
    /\ fd[c] = "user" => pc[c] = "done"
    /\ pc[c] = "disarm" => header[c]
    /\ offer[c] = c \/ fd[c] = "user" => header[c] /\ ~deadline[c]

\* The calls of Close between Lock and Unlock: the holder of closeMu.
MutexInv ==
  \A k \in Closers : closer[k] \in {"check", "mark", "inner"} <=> closeMu = k

Returned == {"nil", "error", "ErrClosed"}

\* The wrapped listener is closed by the one call of Close that closed
\* listener.done, afterwards, and before any call returns.
CloseInv ==
  /\ \A k \in Closers : closer[k] = "mark" => ~done
  /\ \A k \in Closers : closer[k] \in Returned \cup {"inner"} => done
  /\ ~done => inner # "closed"
  /\ \A k \in Closers : closer[k] = "inner" =>
       inner # "closed" /\ \A m \in Closers : closer[m] \notin Returned
  /\ done /\ (\A k \in Closers : closer[k] # "inner") => inner = "closed"
  /\ \A k1, k2 \in Closers :
       closer[k1] \in {"nil", "error"} /\ closer[k2] \in {"nil", "error"} => k1 = k2

\* The inductive invariant: of the connections, and of Close.
ConnInv ==
  /\ Custody
  /\ OfferInv
  /\ ParkInv
  /\ HandlerInv

ShutInv ==
  /\ MutexInv
  /\ CloseInv
  /\ NoPanic

IInv ==
  /\ TypeOK
  /\ ConnInv
  /\ ShutInv

\* What is said about Close depends on little.
LEMMA ShutUnchanged ==
  ASSUME ShutInv, UNCHANGED <<closeVars, inner>>
  PROVE  ShutInv'
  BY DEF ShutInv, MutexInv, CloseInv, NoPanic, Returned, closeVars

\* And so does what is said about connections.
LEMMA ConnUnchanged ==
  ASSUME ConnInv, UNCHANGED <<done, pc, offer, connVars, acceptor>>
  PROVE  ConnInv'
  BY DEF ConnInv, Custody, OfferInv, ParkInv, HandlerInv, connVars
-----------------------------------------------------------------------------
(* The clients, and handleAccepts.                                         *)

\* A connection in the kernel's queue is not the library's yet.
LEMMA ConnectStep ==
  ASSUME IInv, NEW c \in Conns, Connect(c)
  PROVE  IInv'
<1>1. TypeOK'
  BY DEF IInv, TypeOK, Connect, closeVars, callVars
<1>2. ConnInv'
  BY DEF IInv, TypeOK, ConnInv, Custody, OfferInv, ParkInv, HandlerInv, Connect, closeVars, callVars
<1>3. ShutInv'
  BY ShutUnchanged DEF IInv, Connect
<1>4. QED
  BY <1>1, <1>2, <1>3 DEF IInv

\* A wrapped listener that stops by itself has not been closed.
LEMMA InnerDownStep ==
  ASSUME IInv, InnerDown
  PROVE  IInv'
<1>1. TypeOK'
  BY DEF IInv, TypeOK, InnerDown, closeVars, callVars, connVars
<1>2. ConnInv'
  BY ConnUnchanged DEF IInv, InnerDown, closeVars, callVars
<1>3. ShutInv'
  BY DEF IInv, ShutInv, MutexInv, CloseInv, NoPanic, Returned, InnerDown, closeVars
<1>4. QED
  BY <1>1, <1>2, <1>3 DEF IInv

\* An accepted connection gets the one goroutine that works on it.
LEMMA InnerConnStep ==
  ASSUME IInv, NEW c \in Conns, InnerConn(c)
  PROVE  IInv'
<1>1. TypeOK'
  BY DEF IInv, TypeOK, Senders, InnerConn, closeVars, callVars
<1>2. Custody'
  BY DEF IInv, TypeOK, Senders, ConnInv, Custody, InnerConn
<1>3. OfferInv' /\ ParkInv'
  BY DEF IInv, TypeOK, Senders, ConnInv, OfferInv, ParkInv, HandlerInv, InnerConn, closeVars, callVars
<1>4. HandlerInv'
  BY DEF IInv, TypeOK, Senders, ConnInv, HandlerInv, InnerConn
<1>5. ShutInv'
  BY ShutUnchanged DEF IInv, InnerConn
<1>6. QED
  BY <1>1, <1>2, <1>3, <1>4, <1>5 DEF IInv, ConnInv

\* An error of the wrapped listener is no connection.
LEMMA InnerErrorStep ==
  ASSUME IInv, InnerError
  PROVE  IInv'
<1>1. TypeOK'
  BY ProxyListenerAssumption DEF IInv, TypeOK, Senders, InnerError, closeVars, callVars, connVars
<1>2. Custody'
  BY ProxyListenerAssumption DEF IInv, TypeOK, Senders, ConnInv, Custody, InnerError, connVars
<1>3. OfferInv'
  BY ProxyListenerAssumption
  DEF IInv, TypeOK, Senders, ConnInv, OfferInv, InnerError, MainReady, closeVars
<1>4. ParkInv'
  BY DEF IInv, TypeOK, Senders, ConnInv, ParkInv, InnerError, closeVars, callVars
<1>5. HandlerInv'
  BY ProxyListenerAssumption DEF IInv, TypeOK, Senders, ConnInv, HandlerInv, InnerError, connVars
<1>6. ShutInv'
  BY ShutUnchanged DEF IInv, InnerError
<1>7. QED
  BY <1>1, <1>2, <1>3, <1>4, <1>5, <1>6 DEF IInv, ConnInv

\* handleAccepts offers nothing when it leaves its loop.
LEMMA InnerClosedStep ==
  ASSUME IInv, InnerClosed
  PROVE  IInv'
<1>1. TypeOK'
  BY DEF IInv, TypeOK, Senders, InnerClosed, closeVars, callVars, connVars
<1>2. ConnInv'
  BY ProxyListenerAssumption
  DEF IInv, TypeOK, Senders, ConnInv, Custody, OfferInv, ParkInv, HandlerInv,
      InnerClosed, MainReady, closeVars, callVars, connVars
<1>3. ShutInv'
  BY ShutUnchanged DEF IInv, InnerClosed
<1>4. QED
  BY <1>1, <1>2, <1>3 DEF IInv
-----------------------------------------------------------------------------
(* handleConnection, up to its select.                                     *)

\* Setting the deadline, which may fail.
LEMMA ArmStep ==
  ASSUME IInv, NEW c \in Conns, Arm(c)
  PROVE  IInv'
<1>1. TypeOK'
  BY DEF IInv, TypeOK, Senders, Arm, Armed, closeVars, callVars
<1>2. Custody' /\ OfferInv' /\ ParkInv'
  BY ProxyListenerAssumption
  DEF IInv, TypeOK, Senders, ConnInv, Custody, OfferInv, ParkInv, Arm, closeVars, callVars
<1>3. HandlerInv'
  BY ProxyListenerAssumption
  DEF IInv, TypeOK, Senders, ConnInv, Custody, OfferInv, HandlerInv, Arm, Armed
<1>4. ShutInv'
  BY ShutUnchanged DEF IInv, Arm
<1>5. QED
  BY <1>1, <1>2, <1>3, <1>4 DEF IInv, ConnInv

\* The header has been read.
LEMMA ReadGoodStep ==
  ASSUME IInv, NEW c \in Conns, ReadGood(c)
  PROVE  IInv'
<1>1. TypeOK'
  BY DEF IInv, TypeOK, Senders, ReadGood, closeVars, callVars
<1>2. ConnInv'
  BY ProxyListenerAssumption
  DEF IInv, TypeOK, Senders, ConnInv, Custody, OfferInv, ParkInv, HandlerInv,
      ReadGood, closeVars, callVars
<1>3. ShutInv'
  BY ShutUnchanged DEF IInv, ReadGood
<1>4. QED
  BY <1>1, <1>2, <1>3 DEF IInv

\* It has not been: ReadBad, and ReadTimeout, which does the same.
LEMMA ReadBadStep ==
  ASSUME IInv, NEW c \in Conns, ReadBad(c)
  PROVE  IInv'
<1>1. TypeOK'
  BY DEF IInv, TypeOK, Senders, ReadBad, closeVars, callVars, connVars
<1>2. ConnInv'
  BY ProxyListenerAssumption
  DEF IInv, TypeOK, Senders, ConnInv, Custody, OfferInv, ParkInv, HandlerInv,
      ReadBad, closeVars, callVars, connVars
<1>3. ShutInv'
  BY ShutUnchanged DEF IInv, ReadBad
<1>4. QED
  BY <1>1, <1>2, <1>3 DEF IInv

\* A connection is offered after its header has been read, and without a
\* deadline; or the deadline could not be cleared.
LEMMA DisarmStep ==
  ASSUME IInv, NEW c \in Conns, Disarm(c)
  PROVE  IInv'
<1>1. TypeOK'
  <2>1. pc' \in [Senders -> {"none", "accept", "arm", "read", "disarm", "fail",
                             "select", "parked", "refused", "done"}]
    BY DEF IInv, TypeOK, Senders, Disarm
  <2>2. deadline' \in [Conns -> BOOLEAN]
    BY DEF IInv, TypeOK, Disarm, Cleared
  <2>3. offer' \in [Senders -> Conns \cup {InnerErr, TempErr, None}]
    BY DEF IInv, TypeOK, Senders, Disarm
  <2>4. QED
    BY <2>1, <2>2, <2>3 DEF IInv, TypeOK, Disarm, closeVars, callVars
<1>2. Custody'
  BY ProxyListenerAssumption DEF IInv, TypeOK, Senders, ConnInv, Custody, OfferInv, Disarm
<1>3. OfferInv' /\ ParkInv'
  BY ProxyListenerAssumption
  DEF IInv, TypeOK, Senders, ConnInv, OfferInv, ParkInv, Disarm, closeVars, callVars
<1>4. HandlerInv'
  BY ProxyListenerAssumption
  DEF IInv, TypeOK, Senders, ConnInv, Custody, HandlerInv, Disarm, Cleared
<1>5. ShutInv'
  BY ShutUnchanged DEF IInv, Disarm
<1>6. QED
  BY <1>1, <1>2, <1>3, <1>4, <1>5 DEF IInv, ConnInv

\* The socket is closed before its error is offered.
LEMMA FailStep ==
  ASSUME IInv, NEW c \in Conns, Fail(c)
  PROVE  IInv'
<1>1. TypeOK'
  BY DEF IInv, TypeOK, Senders, Fail, FailedSocket, closeVars, callVars
<1>2. Custody'
  BY ProxyListenerAssumption
  DEF IInv, TypeOK, Senders, ConnInv, Custody, OfferInv, Fail, FailedSocket
<1>3. OfferInv' /\ ParkInv'
  BY ProxyListenerAssumption
  DEF IInv, TypeOK, Senders, ConnInv, OfferInv, ParkInv, Fail, closeVars, callVars
<1>4. HandlerInv'
  BY ProxyListenerAssumption
  DEF IInv, TypeOK, Senders, ConnInv, Custody, OfferInv, HandlerInv, Fail, FailedSocket
<1>5. ShutInv'
  BY ShutUnchanged DEF IInv, Fail
<1>6. QED
  BY <1>1, <1>2, <1>3, <1>4, <1>5 DEF IInv, ConnInv
-----------------------------------------------------------------------------
(* The selects.                                                            *)

\* What is handed over was ready, and its sender no longer has it.
LEMMA HandOverStep ==
  ASSUME IInv, NEW p \in Senders, NEW a \in Acceptors, HandOver(p, a),
         pc[p] \in {"select", "parked"}
  PROVE  IInv'
<1>1. TypeOK'
  BY DEF IInv, TypeOK, Senders, ConnInv, OfferInv, HandOver, AfterSend, Received, closeVars
<1>2. Custody'
  BY ProxyListenerAssumption
  DEF IInv, TypeOK, Senders, ConnInv, Custody, OfferInv, HandOver, AfterSend
<1>3. OfferInv' /\ ParkInv'
  BY DEF IInv, TypeOK, Senders, ConnInv, OfferInv, ParkInv, HandOver, AfterSend, closeVars
<1>4. HandlerInv'
  <2> SUFFICES ASSUME NEW c \in Conns
               PROVE  HandlerInv!(c)'
    BY DEF HandlerInv
  <2>1. HandlerInv!(c) /\ c \in Senders
    BY DEF IInv, ConnInv, HandlerInv, Senders
  <2>2. offer[p] = c => p = c
    BY DEF IInv, ConnInv, Custody
  <2>3. CASE p = c
    BY <2>1, <2>3, ProxyListenerAssumption
    DEF IInv, TypeOK, Senders, ConnInv, Custody, OfferInv, HandOver, AfterSend
  <2>4. CASE p # c
    BY <2>1, <2>2, <2>4 DEF IInv, TypeOK, Senders, HandOver
  <2>5. QED
    BY <2>3, <2>4
<1>5. ShutInv'
  BY ShutUnchanged DEF IInv, HandOver
<1>6. QED
  BY <1>1, <1>2, <1>3, <1>4, <1>5 DEF IInv, ConnInv

\* A refused send keeps the connection in its goroutine's hands.
LEMMA SendRefusedStep ==
  ASSUME IInv, NEW p \in Senders, SendRefused(p)
  PROVE  IInv'
<1>1. TypeOK'
  BY DEF IInv, TypeOK, SendRefused, closeVars, callVars, connVars
<1>2. ConnInv'
  BY ProxyListenerAssumption
  DEF IInv, TypeOK, Senders, ConnInv, Custody, OfferInv, ParkInv, HandlerInv,
      SendRefused, closeVars, callVars, connVars
<1>3. ShutInv'
  BY ShutUnchanged DEF IInv, SendRefused
<1>4. QED
  BY <1>1, <1>2, <1>3 DEF IInv

\* A goroutine parks only while listener.done is open.
LEMMA SendParkStep ==
  ASSUME IInv, NEW p \in Senders, SendPark(p)
  PROVE  IInv'
<1>1. TypeOK'
  BY DEF IInv, TypeOK, SendPark, closeVars, callVars, connVars
<1>2. ConnInv'
  BY ProxyListenerAssumption
  DEF IInv, TypeOK, Senders, ConnInv, Custody, OfferInv, ParkInv, HandlerInv,
      SendPark, closeVars, callVars, connVars
<1>3. ShutInv'
  BY ShutUnchanged DEF IInv, SendPark
<1>4. QED
  BY <1>1, <1>2, <1>3 DEF IInv

\* The connection of a refused send is closed as its goroutine ends.
LEMMA GiveUpStep ==
  ASSUME IInv, NEW p \in Senders, GiveUp(p)
  PROVE  IInv'
<1>1. TypeOK'
  BY DEF IInv, TypeOK, GiveUp, Refused, closeVars, callVars
<1>2. Custody'
  BY ProxyListenerAssumption
  DEF IInv, TypeOK, Senders, ConnInv, Custody, OfferInv, GiveUp, Refused
<1>3. OfferInv' /\ ParkInv'
  BY DEF IInv, TypeOK, Senders, ConnInv, OfferInv, ParkInv, GiveUp, closeVars, callVars
<1>4. HandlerInv'
  BY ProxyListenerAssumption
  DEF IInv, TypeOK, Senders, ConnInv, Custody, HandlerInv, GiveUp, Refused
<1>5. ShutInv'
  BY ShutUnchanged DEF IInv, GiveUp
<1>6. QED
  BY <1>1, <1>2, <1>3, <1>4, <1>5 DEF IInv, ConnInv

\* The steps of Accept that meet nobody: only whether it is parked matters.
LEMMA AcceptStep ==
  ASSUME IInv, NEW a \in Acceptors,
         AcceptCall(a) \/ AcceptRefused(a) \/ AcceptPark(a) \/ AcceptReturn(a)
  PROVE  IInv'
<1>1. TypeOK'
  BY ProxyListenerAssumption
  DEF IInv, TypeOK, AcceptCall, AcceptRefused, AcceptPark, AcceptReturn, closeVars, connVars
<1>2. ParkInv'
  BY DEF IInv, TypeOK, ConnInv, ParkInv, AcceptCall, AcceptRefused, AcceptPark, AcceptReturn, closeVars
<1>3. Custody' /\ OfferInv' /\ HandlerInv'
  BY DEF IInv, ConnInv, Custody, OfferInv, HandlerInv,
         AcceptCall, AcceptRefused, AcceptPark, AcceptReturn, closeVars, connVars
<1>4. ShutInv'
  BY ShutUnchanged DEF IInv, AcceptCall, AcceptRefused, AcceptPark, AcceptReturn
<1>5. QED
  BY <1>1, <1>2, <1>3, <1>4 DEF IInv, ConnInv
-----------------------------------------------------------------------------
(* Close.                                                                  *)

\* A call of Close begins outside the mutex.
LEMMA CloseCallStep ==
  ASSUME IInv, NEW k \in Closers, CloseCall(k)
  PROVE  IInv'
<1>1. TypeOK'
  BY DEF IInv, TypeOK, CloseCall, callVars, connVars
<1>2. ConnInv'
  BY ConnUnchanged DEF IInv, CloseCall, callVars
<1>3. ShutInv'
  BY DEF IInv, TypeOK, ShutInv, MutexInv, CloseInv, NoPanic, Returned, CloseCall
<1>4. QED
  BY <1>1, <1>2, <1>3 DEF IInv

\* Only one call of Close is between Lock and Unlock.
LEMMA LockStep ==
  ASSUME IInv, NEW k \in Closers, Lock(k)
  PROVE  IInv'
<1>1. TypeOK'
  BY DEF IInv, TypeOK, Lock, callVars, connVars
<1>2. ConnInv'
  BY ConnUnchanged DEF IInv, Lock, callVars
<1>3. MutexInv'
  BY ProxyListenerAssumption DEF IInv, TypeOK, ShutInv, MutexInv, Lock, MutexFree
<1>4. CloseInv' /\ NoPanic'
  BY DEF IInv, TypeOK, ShutInv, CloseInv, NoPanic, Returned, Lock
<1>5. QED
  BY <1>1, <1>2, <1>3, <1>4 DEF IInv, ShutInv

\* A call of Close that finds listener.done closed holds the mutex, so the
\* one that closed it is through.
LEMMA CheckStep ==
  ASSUME IInv, NEW k \in Closers, Check(k)
  PROVE  IInv'
<1>1. TypeOK'
  BY DEF IInv, TypeOK, Check, callVars, connVars
<1>2. ConnInv'
  BY ConnUnchanged DEF IInv, Check, callVars
<1>3. MutexInv'
  BY ProxyListenerAssumption DEF IInv, TypeOK, ShutInv, MutexInv, Check
<1>4. CloseInv' /\ NoPanic'
  BY DEF IInv, TypeOK, ShutInv, MutexInv, CloseInv, NoPanic, Returned, Check
<1>5. QED
  BY <1>1, <1>2, <1>3, <1>4 DEF IInv, ShutInv

\* Whoever closes listener.done holds the mutex since it found it open;
\* everybody parked is woken.
LEMMA MarkStep ==
  ASSUME IInv, NEW k \in Closers, Mark(k)
  PROVE  IInv'
<1>1. TypeOK'
  BY ProxyListenerAssumption
  DEF IInv, TypeOK, Mark, WakeSenders, WakeAcceptors, HolderAfterMark, connVars
<1>2. Custody'
  BY ProxyListenerAssumption
  DEF IInv, TypeOK, Senders, ConnInv, Custody, Mark, WakeSenders, connVars
<1>3. OfferInv'
  BY DEF IInv, ConnInv, OfferInv, Mark, WakeSenders
<1>4. ParkInv'
  BY DEF ParkInv, Mark, WakeSenders, WakeAcceptors
<1>5. HandlerInv'
  BY DEF IInv, TypeOK, Senders, ConnInv, HandlerInv, Mark, WakeSenders, connVars
<1>6. MutexInv'
  BY DEF IInv, TypeOK, ShutInv, MutexInv, Mark, HolderAfterMark
<1>7. CloseInv' /\ NoPanic'
  BY DEF IInv, TypeOK, ShutInv, MutexInv, CloseInv, NoPanic, Returned, Mark
<1>8. QED
  BY <1>1, <1>2, <1>3, <1>4, <1>5, <1>6, <1>7 DEF IInv, ConnInv, ShutInv

\* The wrapped listener is closed once, while nobody has returned.
LEMMA CloseInnerStep ==
  ASSUME IInv, NEW k \in Closers, CloseInner(k)
  PROVE  IInv'
<1>1. TypeOK'
  BY DEF IInv, TypeOK, CloseInner, callVars, connVars
<1>2. ConnInv'
  BY ConnUnchanged DEF IInv, CloseInner, callVars
<1>3. MutexInv'
  BY ProxyListenerAssumption DEF IInv, TypeOK, ShutInv, MutexInv, CloseInner
<1>4. CloseInv' /\ NoPanic'
  BY DEF IInv, TypeOK, ShutInv, MutexInv, CloseInv, NoPanic, Returned, CloseInner
<1>5. QED
  BY <1>1, <1>2, <1>3, <1>4 DEF IInv, ShutInv
-----------------------------------------------------------------------------
(* The inductive invariant holds throughout.                               *)

\* It holds when NewListener has returned.
LEMMA InitIInv == Init => IInv
<1> SUFFICES ASSUME Init PROVE IInv
  OBVIOUS
<1>1. TypeOK
  <2>1. errs \in 0..MaxErrors
    BY ProxyListenerAssumption DEF Init
  <2>2. QED
    BY <2>1 DEF Init, TypeOK
<1>2. ConnInv
  BY ProxyListenerAssumption
  DEF Init, Senders, ConnInv, Custody, OfferInv, ParkInv, HandlerInv
<1>3. ShutInv
  BY ProxyListenerAssumption DEF Init, ShutInv, MutexInv, CloseInv, NoPanic, Returned
<1>4. QED
  BY <1>1, <1>2, <1>3 DEF IInv

\* The select of a sender, and what follows it.
LEMMA SendStepIInv ==
  ASSUME IInv, NEW p \in Senders, SendStep(p)
  PROVE  IInv'
<1>1. ASSUME NEW a \in Acceptors, Send(p, a) PROVE IInv'
  BY <1>1, HandOverStep DEF Send
<1>2. QED
  BY <1>1, SendRefusedStep, SendParkStep, GiveUpStep DEF SendStep

\* Every step keeps it.
LEMMA NextIInv == IInv /\ [Next]_vars => IInv'
<1> SUFFICES ASSUME IInv, [Next]_vars PROVE IInv'
  OBVIOUS
<1>1. CASE Environment
  BY <1>1, ConnectStep, ReadGoodStep, ReadBadStep, InnerDownStep, InnerErrorStep,
     AcceptStep, CloseCallStep DEF Environment
<1>2. CASE MainStep
  BY <1>2, InnerConnStep, InnerClosedStep, SendStepIInv DEF MainStep, Senders
<1>3. ASSUME NEW c \in Conns, HandlerStep(c) PROVE IInv'
  BY <1>3, ArmStep, DisarmStep, FailStep, SendStepIInv DEF HandlerStep, Senders
<1>4. ASSUME NEW c \in Conns, ReadTimeout(c) PROVE IInv'
  BY <1>4, ReadBadStep DEF ReadTimeout, ReadBad
<1>5. ASSUME NEW a \in Acceptors, AcceptorStep(a) PROVE IInv'
  <2>1. ASSUME NEW p \in Senders, Receive(a, p) PROVE IInv'
    BY <2>1, HandOverStep DEF Receive
  <2>2. QED
    BY <1>5, <2>1, AcceptStep DEF AcceptorStep
<1>6. ASSUME NEW k \in Closers, CloserStep(k) PROVE IInv'
  BY <1>6, LockStep, CheckStep, MarkStep, CloseInnerStep DEF CloserStep
<1>7. CASE UNCHANGED vars
  <2>1. TypeOK'
    BY <1>7 DEF IInv, TypeOK, vars
  <2>2. QED
    BY <1>7, <2>1, ConnUnchanged, ShutUnchanged DEF IInv, vars, connVars, closeVars
<1>8. QED
  BY <1>1, <1>2, <1>3, <1>4, <1>5, <1>6, <1>7 DEF Next

\* So it holds in every state of every behavior.
THEOREM Invariance == Spec => []IInv
  BY InitIInv, NextIInv, PTL DEF Spec
-----------------------------------------------------------------------------
(* The safety properties the run checks, for every instance.               *)

\* All variables keep their types, and Accept never returns two nils.
THEOREM TypeCorrect == Spec => []TypeOK
  BY Invariance, PTL DEF IInv

\* No socket leaks, none is handed out twice, and none waits open behind an
\* error that nobody takes.
THEOREM CustodyHolds == Spec => []Custody
  BY Invariance, PTL DEF IInv, ConnInv

\* The read deadline of the header never reaches the caller.
THEOREM HandshakesAreDone == Spec => []HandshakeDone
<1>1. IInv => HandshakeDone
  BY DEF IInv, ConnInv, HandlerInv, HandshakeDone
<1>2. QED
  BY <1>1, Invariance, PTL

\* Whichever call of Close returns first finds the wrapped listener closed.
THEOREM CloseIsComplete == Spec => []CloseCompletes
<1>1. IInv => CloseCompletes
  BY DEF IInv, ShutInv, CloseInv, Returned, CloseCompletes
<1>2. QED
  BY <1>1, Invariance, PTL

\* Racing calls of Close close neither listener.done nor the wrapped
\* listener twice.
THEOREM NeverPanics == Spec => []NoPanic
  BY Invariance, PTL DEF IInv, ShutInv

\* Only the close of listener.done makes an Accept return net.ErrClosed.
ErrClosedInv == \A a \in Acceptors : result[a] = ErrClosed => done

\* Every step preserves it.
LEMMA NextErrClosedInv ==
  ASSUME IInv, ErrClosedInv, [Next]_vars
  PROVE  ErrClosedInv'
<1> USE DEF ErrClosedInv
<1>1. ASSUME NEW p \in Senders, NEW b \in Acceptors, HandOver(p, b)
      PROVE  ErrClosedInv'
  <2>1. offer[p] # ErrClosed
    BY ProxyListenerAssumption DEF IInv, TypeOK
  <2>2. QED
    BY <1>1, <2>1 DEF IInv, TypeOK, HandOver, Received, closeVars
<1>2. ASSUME NEW p \in Senders, SendStep(p)
      PROVE  ErrClosedInv'
  BY <1>1, <1>2 DEF SendStep, SendRefused, Send, SendPark, GiveUp, closeVars, callVars
<1>3. ASSUME NEW a \in Acceptors, AcceptorStep(a)
      PROVE  ErrClosedInv'
  <2>1. CASE AcceptRefused(a) \/ AcceptPark(a)
    BY <2>1 DEF IInv, TypeOK, AcceptRefused, AcceptPark, closeVars
  <2>2. CASE AcceptReturn(a)
    BY <2>2, ProxyListenerAssumption DEF IInv, TypeOK, AcceptReturn, closeVars
  <2>3. QED
    BY <1>1, <1>3, <2>1, <2>2 DEF AcceptorStep, Receive
<1>4. ASSUME NEW k \in Closers, CloserStep(k)
      PROVE  ErrClosedInv'
  BY <1>4 DEF CloserStep, Lock, Check, Mark, CloseInner, callVars
<1>5. ASSUME NEW c \in Conns, HandlerStep(c) \/ ReadTimeout(c)
      PROVE  ErrClosedInv'
  BY <1>2, <1>5 DEF HandlerStep, Arm, Disarm, Fail, ReadTimeout, Senders, closeVars, callVars
<1>6. CASE MainStep
  BY <1>2, <1>6 DEF MainStep, InnerConn, InnerClosed, Senders, closeVars, callVars
<1>7. CASE Environment
  BY <1>7 DEF Environment, Connect, ReadGood, ReadBad, InnerDown, InnerError, AcceptCall,
              CloseCall, closeVars, callVars
<1>8. CASE UNCHANGED vars
  BY <1>8 DEF vars
<1>9. QED
  BY <1>3, <1>4, <1>5, <1>6, <1>7, <1>8 DEF Next

\* Accept returns net.ErrClosed only after Close, whatever the wrapped
\* listener and the clients do (proxy/listener.go:71-82).
THEOREM ErrClosedOnlyAfterClose == Spec => []ErrClosedInv
<1>1. Init => ErrClosedInv
  BY ProxyListenerAssumption DEF Init, ErrClosedInv
<1>2. QED
  BY <1>1, NextErrClosedInv, Invariance, PTL DEF Spec
-----------------------------------------------------------------------------
(* Refinement: every step is a step of ListenerContract or stutters.       *)

\* The refinement mapping takes initial states to initial states.
LEMMA ContractInit == Init => Contract!Init
  BY DEF Init, Contract!Init

\* The contract sees of a step what it changes in these variables.
LEMMA Invisible ==
  ASSUME UNCHANGED <<done, fd, acceptor, result>>
  PROVE  UNCHANGED Contract!vars
  BY DEF Contract!vars

\* An open socket that is given away is delivered, one that is closed is
\* discarded.
LEMMA DeliverVisible ==
  ASSUME TypeOK, NEW c \in Conns, NEW a \in Acceptors, ~done, UNCHANGED done,
         fd[c] = "open", fd' = [fd EXCEPT ![c] = "user"], Contract!Answer(a, c)
  PROVE  Contract!Next
<1>1. Contract!Deliver(a, c)
  BY DEF TypeOK, Contract!Deliver
<1>2. QED
  BY <1>1, Zenon DEF Contract!Next

\* A connection that is thrown away is discarded in the contract as well.
LEMMA DiscardVisible ==
  ASSUME TypeOK, NEW c \in Conns, UNCHANGED <<done, acceptor, result>>,
         fd[c] = "open", fd' = [fd EXCEPT ![c] = "closed"]
  PROVE  Contract!Next
<1>1. Contract!Discard(c)
  BY DEF TypeOK, Contract!Discard
<1>2. QED
  BY <1>1, Zenon DEF Contract!Next

\* A meeting on listener.conns is a delivery, one on listener.errors a report.
LEMMA HandOverRefines ==
  ASSUME IInv, NEW p \in Senders, NEW a \in Acceptors, HandOver(p, a), ~done,
         pc[p] \in {"select", "parked"}, acceptor[a] \in {"select", "parked"}
  PROVE  Contract!Next
<1>1. Contract!Answer(a, offer[p])
  BY DEF IInv, TypeOK, HandOver, Received, closeVars, Contract!Answer
<1>2. CASE offer[p] \in {InnerErr, TempErr}
  <2>1. Contract!Report(a, offer[p])
    BY <1>1, <1>2, ProxyListenerAssumption DEF IInv, TypeOK, HandOver, Contract!Report
  <2>2. QED
    BY <1>2, <2>1 DEF Contract!Next
<1>3. CASE offer[p] \in Conns
  <2>1. PICK c \in Conns : c = offer[p]
    BY <1>3
  <2>2. fd[c] = "open" /\ fd' = [fd EXCEPT ![c] = "user"]
    BY <2>1 DEF IInv, TypeOK, Senders, ConnInv, Custody, HandOver
  <2>3. Contract!Answer(a, c)
    BY <1>1, <2>1 DEF Contract!Answer
  <2>4. QED
    BY <2>2, <2>3, DeliverVisible DEF IInv, HandOver, closeVars
<1>4. QED
  BY <1>2, <1>3 DEF IInv, TypeOK, ConnInv, OfferInv

\* The select of sendConn and sendError delivers or reports; a connection
\* that was refused is discarded.
LEMMA SendRefines ==
  ASSUME IInv, NEW p \in Senders, SendStep(p)
  PROVE  Contract!Next \/ UNCHANGED Contract!vars
<1>1. CASE SendRefused(p) \/ SendPark(p)
  BY <1>1, Invisible DEF SendRefused, SendPark, closeVars, connVars, callVars
<1>2. ASSUME NEW a \in Acceptors, Send(p, a) PROVE Contract!Next
  BY <1>2, HandOverRefines DEF Send, IInv, ConnInv, ParkInv
<1>3. CASE GiveUp(p)
  <2>1. CASE offer[p] \in Conns
    <3>1. PICK c \in Conns : c = offer[p]
      BY <2>1
    <3>2. fd[c] = "open" /\ fd' = [fd EXCEPT ![c] = "closed"]
      BY <1>3, <3>1 DEF IInv, TypeOK, Senders, ConnInv, Custody, GiveUp, Refused
    <3>3. QED
      BY <1>3, <3>2, DiscardVisible DEF IInv, GiveUp, closeVars, callVars
  <2>2. CASE offer[p] \notin Conns
    <3>1. UNCHANGED fd
      BY <1>3, <2>2 DEF IInv, TypeOK, GiveUp, Refused
    <3>2. QED
      BY <1>3, <3>1, Invisible DEF GiveUp, closeVars, callVars
  <2>3. QED
    BY <2>1, <2>2
<1>4. QED
  BY <1>1, <1>2, <1>3 DEF SendStep

\* handleConnection does nothing visible before its select, except that an
\* open listener may reject a connection.
LEMMA HandlerRefines ==
  ASSUME IInv, NEW c \in Conns, HandlerStep(c) \/ ReadTimeout(c)
  PROVE  Contract!Next \/ UNCHANGED Contract!vars
<1>1. CASE Arm(c) \/ Disarm(c) \/ ReadTimeout(c)
  BY <1>1, Invisible DEF Arm, Disarm, ReadTimeout, closeVars, connVars, callVars
<1>2. CASE Fail(c)
  <2>1. fd[c] = "open" /\ fd' = [fd EXCEPT ![c] = "closed"]
    BY <1>2 DEF IInv, ConnInv, Custody, Fail, FailedSocket
  <2>2. QED
    BY <1>2, <2>1, DiscardVisible DEF IInv, Fail, closeVars, callVars
<1>3. QED
  BY <1>1, <1>2, SendRefines DEF HandlerStep, Senders

\* A connection arrives when the wrapped listener's Accept returns it.
LEMMA MainRefines ==
  ASSUME IInv, MainStep
  PROVE  Contract!Next \/ UNCHANGED Contract!vars
<1>1. ASSUME NEW c \in Conns, InnerConn(c) PROVE Contract!Next
  <2>1. Contract!Arrive(c)
    BY <1>1 DEF IInv, TypeOK, InnerConn, closeVars, callVars, Contract!Arrive
  <2>2. QED
    BY <2>1 DEF Contract!Next
<1>2. CASE InnerClosed
  BY <1>2, Invisible DEF InnerClosed, closeVars, connVars, callVars
<1>3. QED
  BY <1>1, <1>2, SendRefines DEF MainStep, Senders

\* Accept receives, is refused or returns, or does nothing visible.
LEMMA AcceptorRefines ==
  ASSUME IInv, NEW a \in Acceptors, AcceptorStep(a)
  PROVE  Contract!Next \/ UNCHANGED Contract!vars
<1>1. CASE AcceptRefused(a)
  <2>1. Contract!Refuse(a)
    BY <1>1 DEF IInv, TypeOK, AcceptRefused, closeVars, connVars,
                Contract!Refuse, Contract!Answer
  <2>2. QED
    BY <2>1 DEF Contract!Next
<1>2. ASSUME NEW p \in Senders, Receive(a, p) PROVE Contract!Next
  BY <1>2, HandOverRefines DEF Receive, IInv, ConnInv, ParkInv
<1>3. CASE AcceptPark(a)
  BY <1>3 DEF AcceptPark, closeVars, connVars, Contract!vars
<1>4. CASE AcceptReturn(a)
  <2>1. Contract!Return(a)
    BY <1>4 DEF IInv, TypeOK, AcceptReturn, closeVars, connVars, Contract!Return
  <2>2. QED
    BY <2>1 DEF Contract!Next
<1>5. QED
  BY <1>1, <1>2, <1>3, <1>4 DEF AcceptorStep

\* close(listener.done) is the one step of Close that callers can see.
LEMMA CloserRefines ==
  ASSUME IInv, NEW k \in Closers, CloserStep(k)
  PROVE  Contract!Next \/ UNCHANGED Contract!vars
<1>1. CASE Mark(k)
  <2>1. PICK S \in SUBSET Acceptors : S = {a \in Acceptors : acceptor[a] = "parked"}
    OBVIOUS
  <2>2. Contract!Close(S)
    BY <1>1, <2>1 DEF IInv, ShutInv, CloseInv, Mark, WakeAcceptors, connVars, Contract!Close
  <2>3. QED
    BY <2>2, Zenon DEF Contract!Next
<1>2. CASE ~Mark(k)
  BY <1>2, Invisible DEF CloserStep, Lock, Check, CloseInner, connVars, callVars
<1>3. QED
  BY <1>1, <1>2

\* Calls of Accept are visible; what clients send, what the wrapped listener
\* does by itself, and the beginning of Close are not.
LEMMA EnvironmentRefines ==
  ASSUME IInv, Environment
  PROVE  Contract!Next \/ UNCHANGED Contract!vars
<1>1. ASSUME NEW c \in Conns, Connect(c) PROVE UNCHANGED Contract!vars
  BY <1>1 DEF IInv, TypeOK, Connect, closeVars, callVars, Contract!vars
<1>2. ASSUME NEW c \in Conns, ReadGood(c) \/ ReadBad(c) PROVE UNCHANGED Contract!vars
  BY <1>2, Invisible DEF ReadGood, ReadBad, closeVars, connVars, callVars
<1>3. CASE InnerDown \/ InnerError
  BY <1>3, Invisible DEF InnerDown, InnerError, closeVars, connVars, callVars
<1>4. ASSUME NEW a \in Acceptors, AcceptCall(a) PROVE Contract!Next
  <2>1. Contract!Invoke(a)
    BY <1>4 DEF IInv, TypeOK, AcceptCall, closeVars, connVars, Contract!Invoke
  <2>2. QED
    BY <2>1 DEF Contract!Next
<1>5. ASSUME NEW k \in Closers, CloseCall(k) PROVE UNCHANGED Contract!vars
  BY <1>5, Invisible DEF CloseCall, connVars, callVars
<1>6. QED
  BY <1>1, <1>2, <1>3, <1>4, <1>5 DEF Environment

\* The proxy listener implements ListenerContract: once listener.done is
\* closed, no call of Accept is given anything any more.
THEOREM ImplementsContract == Spec => ContractSpec
<1>1. ASSUME IInv, [Next]_vars PROVE Contract!Next \/ UNCHANGED Contract!vars
  <2>1. CASE UNCHANGED vars
    BY <2>1, Invisible DEF vars
  <2>2. QED
    BY <1>1, <2>1, EnvironmentRefines, MainRefines, HandlerRefines, AcceptorRefines,
       CloserRefines DEF Next
<1>2. QED
  BY <1>1, ContractInit, Invariance, PTL DEF Spec, Contract!Spec, ContractSpec
=============================================================================
