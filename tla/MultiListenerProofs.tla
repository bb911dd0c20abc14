------------------------- MODULE MultiListenerProofs -------------------------
(***************************************************************************)
(* Theorems about MultiListener for all finite or infinite sets of         *)
(* wrapped listeners, connections, callers and calls of Close.             *)
(***************************************************************************)
EXTENDS MultiListener, TLAPS

\* A handleAccepts goroutine carries an item exactly between the return of
\* l.Accept and the end of its send, and only ml.closed makes a send fail.
ItemInv ==
  \A l \in Listeners :
    /\ item[l] # None <=> worker[l] \in {"select", "parked", "refused"}
    /\ worker[l] = "refused" => closed

\* close(ml.closed) leaves nobody parked, and nobody parks afterwards.
ParkInv ==
  closed => /\ \A l \in Listeners : worker[l] # "parked"
            /\ \A a \in Acceptors : acceptor[a] # "parked"

\* The calls of Close between Lock and Unlock: the holder of ml.closeMu.
MutexInv ==
  \A k \in Closers : closer[k] \in {"check", "mark", "loop"} <=> closeMu = k

\* What is closed when: the wrapped listeners are closed only by a loop that
\* runs after close(ml.closed), and all of them once no loop runs any more.
CloseInv ==
  /\ \A k \in Closers : closer[k] = "mark" => ~closed
  /\ \A k \in Closers : closer[k] \in {"loop", "nil", "ErrClosed"} => closed
  /\ ~closed => \A l \in Listeners : inner[l] # "closed"
  /\ \A k \in Closers : closer[k] = "loop" =>
       /\ \A l \in Listeners : inner[l] = "closed" <=> l \notin remaining[k]
       /\ \A m \in Closers : closer[m] \notin {"nil", "ErrClosed"}
  /\ closed /\ (\A k \in Closers : closer[k] # "loop") =>
       \A l \in Listeners : inner[l] = "closed"
  /\ \A k1, k2 \in Closers : closer[k1] = "nil" /\ closer[k2] = "nil" => k1 = k2

\* The inductive invariant.
IInv ==
  /\ TypeOK
  /\ Custody
  /\ ItemInv
  /\ ParkInv
  /\ MutexInv
  /\ CloseInv
  /\ WorkerLifetime
  /\ NoPanic

\* A wrapped listener that stops by itself disturbs only what is said about
\* wrapped listeners.
LEMMA InnerDownStep ==
  ASSUME IInv, NEW l \in Listeners, InnerDown(l)
  PROVE  IInv'
<1>1. TypeOK'
  BY DEF IInv, TypeOK, InnerDown, callVars, closeVars
<1>2. CloseInv'
  BY DEF IInv, CloseInv, InnerDown, closeVars
<1>3. WorkerLifetime'
  BY DEF IInv, WorkerLifetime, InnerDown
<1>4. Custody' /\ ItemInv' /\ ParkInv' /\ MutexInv' /\ NoPanic'
  BY DEF IInv, Custody, ItemInv, ParkInv, MutexInv, NoPanic, InnerDown, callVars, closeVars
<1>5. QED
  BY <1>1, <1>2, <1>3, <1>4 DEF IInv

\* An accepted connection has the accepting goroutine as its only owner.
LEMMA InnerConnStep ==
  ASSUME IInv, NEW l \in Listeners, NEW c \in Conns, InnerConn(l, c)
  PROVE  IInv'
<1>1. TypeOK'
  BY DEF IInv, TypeOK, InnerConn, callVars, closeVars
<1>2. Custody'
  BY DEF IInv, TypeOK, Custody, InnerConn
<1>3. ItemInv'
  BY MultiListenerAssumption DEF IInv, TypeOK, ItemInv, InnerConn
<1>4. ParkInv'
  BY DEF IInv, ParkInv, InnerConn, callVars
<1>5. WorkerLifetime'
  BY DEF IInv, WorkerLifetime, InnerConn
<1>6. MutexInv' /\ CloseInv' /\ NoPanic'
  BY DEF IInv, MutexInv, CloseInv, NoPanic, InnerConn, closeVars
<1>7. QED
  BY <1>1, <1>2, <1>3, <1>4, <1>5, <1>6 DEF IInv

\* A goroutine that carries an error owns no connection.
LEMMA InnerErrorStep ==
  ASSUME IInv, NEW l \in Listeners, InnerError(l)
  PROVE  IInv'
<1>1. TypeOK'
  BY MultiListenerAssumption DEF IInv, TypeOK, InnerError, callVars, closeVars
<1>2. Custody'
  BY MultiListenerAssumption DEF IInv, Custody, InnerError
<1>3. ItemInv'
  BY MultiListenerAssumption DEF IInv, TypeOK, ItemInv, InnerError
<1>4. ParkInv'
  BY DEF IInv, ParkInv, InnerError, callVars
<1>5. WorkerLifetime'
  BY DEF IInv, WorkerLifetime, InnerError
<1>6. MutexInv' /\ CloseInv' /\ NoPanic'
  BY DEF IInv, MutexInv, CloseInv, NoPanic, InnerError, closeVars
<1>7. QED
  BY <1>1, <1>2, <1>3, <1>4, <1>5, <1>6 DEF IInv

\* A goroutine that leaves its loop after net.ErrClosed carries nothing, and
\* its listener has stopped.
LEMMA InnerClosedStep ==
  ASSUME IInv, NEW l \in Listeners, InnerClosed(l)
  PROVE  IInv'
<1>1. TypeOK'
  BY DEF IInv, TypeOK, InnerClosed, callVars, closeVars
<1>2. Custody'
  BY DEF IInv, Custody, InnerClosed
<1>3. ItemInv'
  BY DEF IInv, ItemInv, InnerClosed
<1>4. ParkInv'
  BY DEF IInv, ParkInv, InnerClosed, callVars
<1>5. WorkerLifetime'
  BY DEF IInv, WorkerLifetime, InnerClosed
<1>6. MutexInv' /\ CloseInv' /\ NoPanic'
  BY DEF IInv, MutexInv, CloseInv, NoPanic, InnerClosed, closeVars
<1>7. QED
  BY <1>1, <1>2, <1>3, <1>4, <1>5, <1>6 DEF IInv

\* A hand-over takes the item from the goroutine before it can carry another.
LEMMA HandOverStep ==
  ASSUME IInv, NEW l \in Listeners, NEW a \in Acceptors, HandOver(l, a), worker[l] \in {"select", "parked"}
  PROVE  IInv'
<1>1. TypeOK'
  BY DEF IInv, TypeOK, ItemInv, HandOver, AfterSend, Received, closeVars
<1>2. Custody'
  BY MultiListenerAssumption DEF IInv, TypeOK, Custody, HandOver
<1>3. ItemInv'
  BY DEF IInv, TypeOK, ItemInv, HandOver, AfterSend
<1>4. ParkInv'
  BY DEF IInv, ParkInv, HandOver, AfterSend
<1>5. WorkerLifetime'
  BY DEF IInv, WorkerLifetime, HandOver, AfterSend
<1>6. MutexInv' /\ CloseInv' /\ NoPanic'
  BY DEF IInv, MutexInv, CloseInv, NoPanic, HandOver, closeVars
<1>7. QED
  BY <1>1, <1>2, <1>3, <1>4, <1>5, <1>6 DEF IInv

\* A refused send keeps the connection in the goroutine's hands.
LEMMA SendRefusedStep ==
  ASSUME IInv, NEW l \in Listeners, SendRefused(l)
  PROVE  IInv'
<1>1. TypeOK'
  BY DEF IInv, TypeOK, SendRefused, callVars, closeVars
<1>2. Custody'
  BY DEF IInv, Custody, SendRefused
<1>3. ItemInv'
  BY DEF IInv, ItemInv, SendRefused
<1>4. ParkInv'
  BY DEF IInv, ParkInv, SendRefused, callVars
<1>5. WorkerLifetime'
  BY DEF WorkerLifetime, SendRefused
<1>6. MutexInv' /\ CloseInv' /\ NoPanic'
  BY DEF IInv, MutexInv, CloseInv, NoPanic, SendRefused, closeVars
<1>7. QED
  BY <1>1, <1>2, <1>3, <1>4, <1>5, <1>6 DEF IInv

\* A goroutine parks only while ml.closed is open.
LEMMA SendParkStep ==
  ASSUME IInv, NEW l \in Listeners, SendPark(l)
  PROVE  IInv'
<1>1. TypeOK'
  BY DEF IInv, TypeOK, SendPark, callVars, closeVars
<1>2. Custody'
  BY DEF IInv, Custody, SendPark
<1>3. ItemInv'
  BY DEF IInv, ItemInv, SendPark
<1>4. ParkInv'
  BY DEF ParkInv, SendPark
<1>5. WorkerLifetime'
  BY DEF IInv, WorkerLifetime, SendPark
<1>6. MutexInv' /\ CloseInv' /\ NoPanic'
  BY DEF IInv, MutexInv, CloseInv, NoPanic, SendPark, closeVars
<1>7. QED
  BY <1>1, <1>2, <1>3, <1>4, <1>5, <1>6 DEF IInv

\* The connection of a refused send is closed as its goroutine ends.
LEMMA GiveUpStep ==
  ASSUME IInv, NEW l \in Listeners, GiveUp(l)
  PROVE  IInv'
<1>1. TypeOK'
  BY DEF IInv, TypeOK, GiveUp, Dropped, callVars, closeVars
<1>2. Custody'
  BY MultiListenerAssumption DEF IInv, TypeOK, Custody, GiveUp, Dropped
<1>3. ItemInv'
  BY DEF IInv, TypeOK, ItemInv, GiveUp
<1>4. ParkInv'
  BY DEF IInv, ParkInv, GiveUp, callVars
<1>5. WorkerLifetime'
  BY DEF IInv, ItemInv, WorkerLifetime, GiveUp
<1>6. MutexInv' /\ CloseInv' /\ NoPanic'
  BY DEF IInv, MutexInv, CloseInv, NoPanic, GiveUp, closeVars
<1>7. QED
  BY <1>1, <1>2, <1>3, <1>4, <1>5, <1>6 DEF IInv

\* A call of Accept that has not reached its select disturbs nothing.
LEMMA AcceptCallStep ==
  ASSUME IInv, NEW a \in Acceptors, AcceptCall(a)
  PROVE  IInv'
<1>1. TypeOK'
  BY DEF IInv, TypeOK, AcceptCall, closeVars
<1>2. ParkInv'
  BY DEF IInv, ParkInv, AcceptCall
<1>3. Custody' /\ ItemInv' /\ MutexInv' /\ CloseInv' /\ WorkerLifetime' /\ NoPanic'
  BY DEF IInv, Custody, ItemInv, MutexInv, CloseInv, WorkerLifetime, NoPanic, AcceptCall, closeVars
<1>4. QED
  BY <1>1, <1>2, <1>3 DEF IInv

\* A refused Accept has net.ErrClosed to return, which is not nil.
LEMMA AcceptRefusedStep ==
  ASSUME IInv, NEW a \in Acceptors, AcceptRefused(a)
  PROVE  IInv'
<1>1. TypeOK'
  BY MultiListenerAssumption DEF IInv, TypeOK, AcceptRefused, closeVars
<1>2. ParkInv'
  BY DEF IInv, ParkInv, AcceptRefused
<1>3. Custody' /\ ItemInv' /\ MutexInv' /\ CloseInv' /\ WorkerLifetime' /\ NoPanic'
  BY DEF IInv, Custody, ItemInv, MutexInv, CloseInv, WorkerLifetime, NoPanic, AcceptRefused, closeVars
<1>4. QED
  BY <1>1, <1>2, <1>3 DEF IInv

\* Accept parks only while ml.closed is open.
LEMMA AcceptParkStep ==
  ASSUME IInv, NEW a \in Acceptors, AcceptPark(a)
  PROVE  IInv'
<1>1. TypeOK'
  BY DEF IInv, TypeOK, AcceptPark, closeVars
<1>2. ParkInv'
  BY DEF ParkInv, AcceptPark
<1>3. Custody' /\ ItemInv' /\ MutexInv' /\ CloseInv' /\ WorkerLifetime' /\ NoPanic'
  BY DEF IInv, Custody, ItemInv, MutexInv, CloseInv, WorkerLifetime, NoPanic, AcceptPark, closeVars
<1>4. QED
  BY <1>1, <1>2, <1>3 DEF IInv

\* The return of Accept disturbs nothing.
LEMMA AcceptReturnStep ==
  ASSUME IInv, NEW a \in Acceptors, AcceptReturn(a)
  PROVE  IInv'
<1>1. TypeOK'
  BY DEF IInv, TypeOK, AcceptReturn, closeVars
<1>2. ParkInv'
  BY DEF IInv, ParkInv, AcceptReturn
<1>3. Custody' /\ ItemInv' /\ MutexInv' /\ CloseInv' /\ WorkerLifetime' /\ NoPanic'
  BY DEF IInv, Custody, ItemInv, MutexInv, CloseInv, WorkerLifetime, NoPanic, AcceptReturn, closeVars
<1>4. QED
  BY <1>1, <1>2, <1>3 DEF IInv

\* A call of Close begins outside the mutex.
LEMMA CloseCallStep ==
  ASSUME IInv, NEW k \in Closers, CloseCall(k)
  PROVE  IInv'
<1>1. TypeOK'
  BY DEF IInv, TypeOK, CloseCall, callVars
<1>2. MutexInv'
  BY DEF IInv, MutexInv, CloseCall
<1>3. CloseInv'
  BY DEF IInv, CloseInv, CloseCall
<1>4. Custody' /\ ItemInv' /\ ParkInv' /\ WorkerLifetime' /\ NoPanic'
  BY DEF IInv, Custody, ItemInv, ParkInv, WorkerLifetime, NoPanic, CloseCall, callVars
<1>5. QED
  BY <1>1, <1>2, <1>3, <1>4 DEF IInv

\* Only one call of Close is between Lock and Unlock.
LEMMA LockStep ==
  ASSUME IInv, NEW k \in Closers, Lock(k)
  PROVE  IInv'
<1>1. TypeOK'
  BY DEF IInv, TypeOK, Lock, callVars
<1>2. MutexInv'
  BY MultiListenerAssumption DEF IInv, TypeOK, MutexInv, Lock, MutexFree
<1>3. CloseInv'
  BY DEF IInv, CloseInv, Lock
<1>4. Custody' /\ ItemInv' /\ ParkInv' /\ WorkerLifetime' /\ NoPanic'
  BY DEF IInv, Custody, ItemInv, ParkInv, WorkerLifetime, NoPanic, Lock, callVars
<1>5. QED
  BY <1>1, <1>2, <1>3, <1>4 DEF IInv

\* A call of Close that finds ml.closed closed holds the mutex, so no loop
\* runs any more and all wrapped listeners are closed.
LEMMA CheckStep ==
  ASSUME IInv, NEW k \in Closers, Check(k)
  PROVE  IInv'
<1>1. TypeOK'
  BY DEF IInv, TypeOK, Check, callVars
<1>2. MutexInv'
  BY MultiListenerAssumption DEF IInv, TypeOK, MutexInv, Check
<1>3. CloseInv'
  BY DEF IInv, TypeOK, MutexInv, CloseInv, Check
<1>4. Custody' /\ ItemInv' /\ ParkInv' /\ WorkerLifetime' /\ NoPanic'
  BY DEF IInv, Custody, ItemInv, ParkInv, WorkerLifetime, NoPanic, Check, callVars
<1>5. QED
  BY <1>1, <1>2, <1>3, <1>4 DEF IInv

\* Whoever closes ml.closed holds the mutex since it found it open; everybody
\* parked is woken.
LEMMA MarkStep ==
  ASSUME IInv, NEW k \in Closers, Mark(k)
  PROVE  IInv'
<1>1. TypeOK'
  BY MultiListenerAssumption DEF IInv, TypeOK, Mark, WakeWorkers, WakeAcceptors, HolderAfterMark
<1>2. Custody'
  BY DEF IInv, Custody, Mark, WakeWorkers
<1>3. ItemInv'
  BY DEF IInv, ItemInv, Mark, WakeWorkers
<1>4. ParkInv'
  BY DEF ParkInv, Mark, WakeWorkers, WakeAcceptors
<1>5. MutexInv'
  BY DEF IInv, MutexInv, Mark, HolderAfterMark
<1>6. CloseInv'
  BY DEF IInv, TypeOK, MutexInv, CloseInv, Mark
<1>7. WorkerLifetime'
  BY DEF WorkerLifetime, Mark
<1>8. NoPanic'
  BY DEF IInv, NoPanic, CloseInv, Mark
<1>9. QED
  BY <1>1, <1>2, <1>3, <1>4, <1>5, <1>6, <1>7, <1>8 DEF IInv

\* The loop closes each wrapped listener once.
LEMMA CloseInnerStep ==
  ASSUME IInv, NEW k \in Closers, NEW l \in Listeners, CloseInner(k, l)
  PROVE  IInv'
<1>1. TypeOK'
  BY DEF IInv, TypeOK, CloseInner, callVars
<1>2. CloseInv'
  BY DEF IInv, TypeOK, MutexInv, CloseInv, CloseInner
<1>3. WorkerLifetime'
  BY DEF IInv, WorkerLifetime, CloseInner
<1>4. NoPanic'
  BY DEF IInv, NoPanic, CloseInv, CloseInner
<1>5. Custody' /\ ItemInv' /\ ParkInv' /\ MutexInv'
  BY DEF IInv, Custody, ItemInv, ParkInv, MutexInv, CloseInner, callVars
<1>6. QED
  BY <1>1, <1>2, <1>3, <1>4, <1>5 DEF IInv

\* When the loop has nothing left to visit, all wrapped listeners are closed.
LEMMA CloseReturnStep ==
  ASSUME IInv, NEW k \in Closers, CloseReturn(k)
  PROVE  IInv'
<1>1. TypeOK'
  BY DEF IInv, TypeOK, CloseReturn, callVars
<1>2. MutexInv'
  BY MultiListenerAssumption DEF IInv, TypeOK, MutexInv, CloseReturn
<1>3. CloseInv'
  BY DEF IInv, MutexInv, CloseInv, CloseReturn
<1>4. Custody' /\ ItemInv' /\ ParkInv' /\ WorkerLifetime' /\ NoPanic'
  BY DEF IInv, Custody, ItemInv, ParkInv, WorkerLifetime, NoPanic, CloseReturn, callVars
<1>5. QED
  BY <1>1, <1>2, <1>3, <1>4 DEF IInv

\* The inductive invariant holds when MultiListener has returned.
LEMMA InitIInv == Init => IInv
<1> SUFFICES ASSUME Init PROVE IInv
  OBVIOUS
<1>1. TypeOK
  <2>1. errs \in 0..MaxErrors
    BY MultiListenerAssumption DEF Init
  <2>2. QED
    BY <2>1 DEF Init, TypeOK
<1>2. Custody
  BY MultiListenerAssumption DEF Init, Custody
<1>3. ItemInv
  BY DEF Init, ItemInv
<1>4. ParkInv
  BY DEF Init, ParkInv
<1>5. MutexInv
  BY MultiListenerAssumption DEF Init, MutexInv
<1>6. CloseInv
  BY DEF Init, CloseInv
<1>7. WorkerLifetime
  BY DEF Init, WorkerLifetime
<1>8. NoPanic
  BY DEF Init, NoPanic
<1>9. QED
  BY <1>1, <1>2, <1>3, <1>4, <1>5, <1>6, <1>7, <1>8 DEF IInv

\* Every step keeps the inductive invariant.
LEMMA NextIInv == IInv /\ [Next]_vars => IInv'
<1> SUFFICES ASSUME IInv, [Next]_vars PROVE IInv'
  OBVIOUS
<1>1. ASSUME NEW l \in Listeners, InnerDown(l) PROVE IInv'
  BY <1>1, InnerDownStep
<1>2. ASSUME NEW l \in Listeners, InnerError(l) PROVE IInv'
  BY <1>2, InnerErrorStep
<1>3. ASSUME NEW l \in Listeners, NEW c \in Conns, InnerConn(l, c) PROVE IInv'
  BY <1>3, InnerConnStep
<1>4. ASSUME NEW a \in Acceptors, AcceptCall(a) PROVE IInv'
  BY <1>4, AcceptCallStep
<1>5. ASSUME NEW k \in Closers, CloseCall(k) PROVE IInv'
  BY <1>5, CloseCallStep
<1>6. ASSUME NEW l \in Listeners, WorkerStep(l) PROVE IInv'
  <2>1. ASSUME NEW a \in Acceptors, Send(l, a) PROVE IInv'
    BY <2>1, HandOverStep DEF Send
  <2>2. QED
    BY <1>6, <2>1, InnerClosedStep, SendRefusedStep, SendParkStep, GiveUpStep DEF WorkerStep
<1>7. ASSUME NEW a \in Acceptors, AcceptorStep(a) PROVE IInv'
  <2>1. ASSUME NEW l \in Listeners, Receive(a, l) PROVE IInv'
    BY <2>1, HandOverStep DEF Receive, Receivable
  <2>2. QED
    BY <1>7, <2>1, AcceptRefusedStep, AcceptParkStep, AcceptReturnStep DEF AcceptorStep
<1>8. ASSUME NEW k \in Closers, CloserStep(k) PROVE IInv'
  BY <1>8, LockStep, CheckStep, MarkStep, CloseInnerStep, CloseReturnStep DEF CloserStep
<1>9. ASSUME UNCHANGED vars PROVE IInv'
  BY <1>9 DEF vars, IInv, TypeOK, Custody, ItemInv, ParkInv, MutexInv, CloseInv, WorkerLifetime, NoPanic
<1>10. QED
  BY <1>1, <1>2, <1>3, <1>4, <1>5, <1>6, <1>7, <1>8, <1>9 DEF Next, Environment

\* The inductive invariant holds throughout.
THEOREM Invariance == Spec => []IInv
  BY InitIInv, NextIInv, PTL DEF Spec
-----------------------------------------------------------------------------
(* The safety properties the runs check, for every instance.               *)

\* All variables keep their types, and Accept never returns two nils.
THEOREM TypeCorrect == Spec => []TypeOK
  BY Invariance, PTL DEF IInv

\* No connection leaks and none is handed out twice.
THEOREM CustodyHolds == Spec => []Custody
  BY Invariance, PTL DEF IInv

\* Racing calls of Close close no channel and no wrapped listener twice.
THEOREM NeverPanics == Spec => []NoPanic
  BY Invariance, PTL DEF IInv

\* A handleAccepts goroutine outlives errors and slow callers.
THEOREM WorkersPersist == Spec => []WorkerLifetime
  BY Invariance, PTL DEF IInv

\* Whichever call of Close returns first finds all wrapped listeners closed.
THEOREM CloseIsComplete == Spec => []CloseCompletes
<1>1. IInv => CloseCompletes
  BY DEF IInv, CloseInv, CloseCompletes
<1>2. QED
  BY <1>1, Invariance, PTL

\* A closed MultiListener delivers nothing any more: with nobody parked no
\* send and no receive is ready, so each select can only take <-ml.closed.
THEOREM ClosedDeliversNothing == Spec => NoLateDelivery
<1>1. ASSUME IInv, [Next]_vars, closed
      PROVE  /\ \A c \in Conns : fate[c] = "held" => fate'[c] # "delivered"
             /\ \A a \in Acceptors :
                  acceptor[a] # "return" /\ acceptor'[a] = "return" => result'[a] = ErrClosed
  <2>1. \A l \in Listeners, a \in Acceptors : ~Send(l, a) /\ ~Receive(a, l)
    BY <1>1 DEF IInv, ParkInv, Send, Receive, Receivable
  <2>2. ASSUME NEW l \in Listeners, WorkerStep(l)
        PROVE  /\ \A c \in Conns : fate[c] = "held" => fate'[c] # "delivered"
               /\ UNCHANGED acceptor
    <3>1. CASE InnerClosed(l) \/ SendRefused(l) \/ SendPark(l)
      BY <3>1 DEF InnerClosed, SendRefused, SendPark, callVars
    <3>2. CASE GiveUp(l)
      BY <3>2 DEF GiveUp, Dropped, callVars
    <3>3. QED
      BY <2>1, <2>2, <3>1, <3>2 DEF WorkerStep
  <2>3. ASSUME NEW a \in Acceptors, AcceptorStep(a)
        PROVE  /\ UNCHANGED fate
               /\ \A b \in Acceptors :
                    acceptor[b] # "return" /\ acceptor'[b] = "return" => result'[b] = ErrClosed
    BY <2>1, <2>3, <1>1 DEF AcceptorStep, AcceptRefused, AcceptPark, AcceptReturn, IInv, TypeOK
  <2>4. ASSUME NEW k \in Closers, CloserStep(k)
        PROVE  UNCHANGED <<fate, acceptor>>
    BY <2>4, <1>1 DEF CloserStep, Lock, Check, Mark, CloseInner, CloseReturn, callVars, IInv, CloseInv
  <2>5. ASSUME Environment
        PROVE  /\ \A c \in Conns : fate[c] = "held" => fate'[c] # "delivered"
               /\ \A a \in Acceptors : acceptor'[a] = "return" => acceptor[a] = "return"
    <3>1. ASSUME NEW a \in Acceptors, AcceptCall(a)
          PROVE  /\ UNCHANGED fate
                 /\ \A b \in Acceptors : acceptor'[b] = "return" => acceptor[b] = "return"
      BY <3>1, <1>1 DEF AcceptCall
    <3>2. ASSUME NEW l \in Listeners, NEW c \in Conns, InnerConn(l, c)
          PROVE  /\ UNCHANGED acceptor
                 /\ \A d \in Conns : fate[d] = "held" => fate'[d] # "delivered"
      BY <3>2, <1>1 DEF InnerConn, callVars
    <3>3. ASSUME NEW l \in Listeners, InnerDown(l) \/ InnerError(l)
          PROVE  UNCHANGED <<fate, acceptor>>
      BY <3>3 DEF InnerDown, InnerError, callVars
    <3>4. ASSUME NEW k \in Closers, CloseCall(k)
          PROVE  UNCHANGED <<fate, acceptor>>
      BY <3>4 DEF CloseCall, callVars
    <3>5. QED
      BY <2>5, <3>1, <3>2, <3>3, <3>4 DEF Environment
  <2>6. CASE UNCHANGED vars
    BY <2>6 DEF vars
  <2>7. QED
    BY <1>1, <2>2, <2>3, <2>4, <2>5, <2>6 DEF Next
<1>2. QED
  BY <1>1, Invariance, PTL DEF Spec, NoLateDelivery
-----------------------------------------------------------------------------
(* Refinement: every step is a step of ListenerContract or stutters.       *)

\* The refinement mapping takes initial states to initial states.
LEMMA ContractInit == Init => Contract!Init
  BY DEF Init, Contract!Init

\* A meeting on ml.conns is a delivery, one on ml.errors a report.
LEMMA HandOverRefines ==
  ASSUME IInv, NEW l \in Listeners, NEW a \in Acceptors, HandOver(l, a),
         worker[l] \in {"select", "parked"}, acceptor[a] \in {"select", "parked"}, ~closed
  PROVE  Contract!Next
<1>1. CASE item[l] = Err
  <2>1. Contract!Report(a, Err)
    BY <1>1, MultiListenerAssumption DEF IInv, TypeOK, HandOver, Received, Contract!Report, Contract!Answer
  <2>2. QED
    BY <2>1 DEF Contract!Next
<1>2. CASE item[l] \in Conns
  <2>1. Contract!Deliver(a, item[l])
    <3>1. fate[item[l]] = "held" /\ fate' = [fate EXCEPT ![item[l]] = "delivered"]
      BY <1>2 DEF IInv, TypeOK, Custody, HandOver
    <3>2. Contract!Answer(a, item[l])
      BY DEF IInv, TypeOK, HandOver, Received, Contract!Answer
    <3>3. QED
      BY <3>1, <3>2 DEF Contract!Deliver
  <2>2. QED
    BY <1>2, <2>1 DEF Contract!Next
<1>3. QED
  BY <1>1, <1>2 DEF IInv, TypeOK, ItemInv

\* handleAccepts delivers, reports or discards, or does nothing visible.
LEMMA WorkerRefines ==
  ASSUME IInv, NEW l \in Listeners, WorkerStep(l)
  PROVE  Contract!Next \/ UNCHANGED Contract!vars
<1>1. CASE InnerClosed(l) \/ SendRefused(l) \/ SendPark(l)
  BY <1>1 DEF InnerClosed, SendRefused, SendPark, callVars, Contract!vars
<1>2. ASSUME NEW a \in Acceptors, Send(l, a) PROVE Contract!Next
  BY <1>2, HandOverRefines DEF Send, IInv, ParkInv
<1>3. CASE GiveUp(l)
  <2>1. CASE item[l] \in Conns
    <3>1. Contract!Discard(item[l])
      <4>1. fate[item[l]] = "held" /\ fate' = [fate EXCEPT ![item[l]] = "dropped"]
        BY <1>3, <2>1 DEF IInv, TypeOK, Custody, GiveUp, Dropped
      <4>2. closed /\ UNCHANGED <<closed, acceptor, result>>
        BY <1>3 DEF IInv, ItemInv, GiveUp, callVars
      <4>3. QED
        BY <4>1, <4>2 DEF Contract!Discard
    <3>2. QED
      BY <2>1, <3>1 DEF Contract!Next
  <2>2. CASE item[l] \notin Conns
    BY <1>3, <2>2 DEF IInv, TypeOK, GiveUp, Dropped, callVars, Contract!vars
  <2>3. QED
    BY <2>1, <2>2
<1>4. QED
  BY <1>1, <1>2, <1>3 DEF WorkerStep

\* Accept receives, is refused or returns, or does nothing visible.
LEMMA AcceptorRefines ==
  ASSUME IInv, NEW a \in Acceptors, AcceptorStep(a)
  PROVE  Contract!Next \/ UNCHANGED Contract!vars
<1>1. CASE AcceptRefused(a)
  <2>1. Contract!Refuse(a)
    BY <1>1 DEF IInv, TypeOK, AcceptRefused, Contract!Refuse, Contract!Answer
  <2>2. QED
    BY <2>1 DEF Contract!Next
<1>2. ASSUME NEW l \in Listeners, Receive(a, l) PROVE Contract!Next
  BY <1>2, HandOverRefines DEF Receive, Receivable, IInv, ParkInv
<1>3. CASE AcceptPark(a)
  BY <1>3 DEF AcceptPark, Contract!vars
<1>4. CASE AcceptReturn(a)
  <2>1. Contract!Return(a)
    BY <1>4 DEF IInv, TypeOK, AcceptReturn, Contract!Return
  <2>2. QED
    BY <2>1 DEF Contract!Next
<1>5. QED
  BY <1>1, <1>2, <1>3, <1>4 DEF AcceptorStep

\* close(ml.closed) is the one step of Close that callers can see: it closes
\* the listener and refuses everybody who is parked.
LEMMA CloserRefines ==
  ASSUME IInv, NEW k \in Closers, CloserStep(k)
  PROVE  Contract!Next \/ UNCHANGED Contract!vars
<1>1. CASE Mark(k)
  <2> DEFINE parked == {a \in Acceptors : acceptor[a] = "parked"}
  <2>1. \E S \in SUBSET Acceptors : Contract!Close(S)
    <3>1. parked \in SUBSET Acceptors
      OBVIOUS
    <3>2. Contract!Close(parked)
      BY <1>1 DEF IInv, CloseInv, Mark, WakeAcceptors, Contract!Close
    <3> HIDE DEF parked
    <3>3. QED
      BY <3>1, <3>2 DEF Contract!Close
  <2>2. QED
    BY <2>1 DEF Contract!Next
<1>2. CASE ~Mark(k)
  BY <1>2 DEF CloserStep, Lock, Check, CloseInner, CloseReturn, callVars, Contract!vars
<1>3. QED
  BY <1>1, <1>2

\* Arrivals and calls of Accept are visible; what else happens outside is not.
LEMMA EnvironmentRefines ==
  ASSUME IInv, Environment
  PROVE  Contract!Next \/ UNCHANGED Contract!vars
<1>1. ASSUME NEW l \in Listeners, NEW c \in Conns, InnerConn(l, c) PROVE Contract!Next
  <2>1. Contract!Arrive(c)
    BY <1>1 DEF InnerConn, callVars, Contract!Arrive
  <2>2. QED
    BY <2>1 DEF Contract!Next
<1>2. ASSUME NEW a \in Acceptors, AcceptCall(a) PROVE Contract!Next
  <2>1. Contract!Invoke(a)
    BY <1>2 DEF IInv, TypeOK, AcceptCall, Contract!Invoke
  <2>2. QED
    BY <2>1 DEF Contract!Next
<1>3. ASSUME NEW l \in Listeners, InnerDown(l) \/ InnerError(l) PROVE UNCHANGED Contract!vars
  BY <1>3 DEF InnerDown, InnerError, callVars, Contract!vars
<1>4. ASSUME NEW k \in Closers, CloseCall(k) PROVE UNCHANGED Contract!vars
  BY <1>4 DEF CloseCall, callVars, Contract!vars
<1>5. QED
  BY <1>1, <1>2, <1>3, <1>4 DEF Environment

\* The MultiListener implements ListenerContract (its safety part).
THEOREM ImplementsContract == Spec => Contract!Spec
<1>1. ASSUME IInv, [Next]_vars PROVE Contract!Next \/ UNCHANGED Contract!vars
  <2>1. CASE UNCHANGED vars
    BY <2>1 DEF vars, Contract!vars
  <2>2. QED
    BY <1>1, <2>1, WorkerRefines, AcceptorRefines, CloserRefines, EnvironmentRefines DEF Next
<1>2. QED
  BY <1>1, ContractInit, Invariance, PTL DEF Spec, Contract!Spec
=============================================================================
