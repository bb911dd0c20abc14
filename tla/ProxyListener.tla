---------------------------- MODULE ProxyListener ----------------------------
(***************************************************************************)
(* The listener of proxy/listener.go, which reads a PROXY header from      *)
(* every connection of the wrapped listener before Accept returns it.      *)
(*                                                                         *)
(* Processes: the goroutine handleAccepts (Main), one handleConnection     *)
(* goroutine per accepted connection (named by the connection), the        *)
(* caller's goroutines in Accept (acceptor) and its calls of Close         *)
(* (closer).  Selects are modelled as in MultiListener: a select takes a   *)
(* ready case or parks its goroutine, and close(listener.done) resumes     *)
(* all parked goroutines at once.                                          *)
(***************************************************************************)
EXTENDS Naturals

CONSTANTS
  Conns,      \* connections that clients may open
  Acceptors,  \* goroutines of the caller that call Accept
  Closers,    \* calls of Close
  Main,       \* the goroutine handleAccepts
  MaxErrors,  \* bound: errors the wrapped listener's Accept returns in total
  InnerErr,   \* an error of the wrapped listener that is not net.ErrClosed
  TempErr,    \* an acceptError: this connection failed, the listener did not
  ErrClosed,  \* net.ErrClosed
  None        \* no value

ASSUME ProxyListenerAssumption ==
  /\ MaxErrors \in Nat
  /\ Main \notin Conns
  /\ {InnerErr, TempErr, ErrClosed, None} \cap Conns = {}
  /\ None \notin {InnerErr, TempErr, ErrClosed}
  /\ ErrClosed \notin {InnerErr, TempErr}
  /\ None \notin Closers

Senders == Conns \cup {Main}

VARIABLES
  done,       \* is the channel listener.done closed?
  closeMu,    \* the call of Close that holds listener.closeMu, or None
  closer,     \* where each call of Close is; the last three: returned
  inner,      \* the wrapped listener; "down": stopped without our Close
  pc,         \* where handleAccepts and the handleConnection goroutines are
  offer,      \* what each of them is sending, or None
  fd,         \* each connection's socket; "user": Accept returned it
  deadline,   \* has it a read deadline?
  header,     \* has its PROXY header been read?
  acceptor,   \* where each goroutine of the caller is
  result,     \* what its Accept is about to return
  errs,       \* errors returned by the wrapped listener so far (bounded)
  panicked    \* has a closed channel been closed again?

vars == <<done, closeMu, closer, inner, pc, offer, fd, deadline, header,
          acceptor, result, errs, panicked>>
closeVars == <<done, closeMu, closer, panicked>>
connVars == <<fd, deadline, header>>
callVars == <<acceptor, result>>

TypeOK ==
  /\ done \in BOOLEAN
  /\ closeMu \in Closers \cup {None}
  /\ closer \in [Closers -> {"new", "lock", "check", "mark", "inner", "nil", "error", "ErrClosed"}]
  /\ inner \in {"open", "down", "closed"}
  /\ pc \in [Senders -> {"none", "accept", "arm", "read", "disarm", "fail",
                         "select", "parked", "refused", "done"}]
  /\ offer \in [Senders -> Conns \cup {InnerErr, TempErr, None}]
  /\ fd \in [Conns -> {"new", "backlog", "open", "user", "closed"}]
  /\ deadline \in [Conns -> BOOLEAN]
  /\ header \in [Conns -> BOOLEAN]
  /\ acceptor \in [Acceptors -> {"idle", "select", "parked", "return"}]
  /\ result \in [Acceptors -> Conns \cup {InnerErr, TempErr, ErrClosed, None}]
  /\ errs \in 0..MaxErrors
  /\ panicked \in BOOLEAN
  \* Accept never returns (nil, nil).
  /\ \A a \in Acceptors : acceptor[a] = "return" => result[a] # None

Init ==
  /\ done = FALSE
  /\ closeMu = None
  /\ closer = [k \in Closers |-> "new"]
  /\ inner = "open"
  /\ pc = [p \in Senders |-> IF p = Main THEN "accept" ELSE "none"]
  /\ offer = [p \in Senders |-> None]
  /\ fd = [c \in Conns |-> "new"]
  /\ deadline = [c \in Conns |-> FALSE]
  /\ header = [c \in Conns |-> FALSE]
  /\ acceptor = [a \in Acceptors |-> "idle"]
  /\ result = [a \in Acceptors |-> None]
  /\ errs = 0
  /\ panicked = FALSE
-----------------------------------------------------------------------------
(* Faulty variants of definitions below, each a plausible slip in the      *)
(* code.  No action uses them: putting one in the place of the definition  *)
(* it is a variant of shows that a property can fail.                      *)

\* Close without listener.closeMu.
MutexFree_NoMutex == TRUE

\* Close unlocks listener.closeMu before it closes the wrapped listener.
HolderAfterMark_Unlocked(k) == None

\* Accept returns the zero values instead of what it received.
Received_Nothing(p) == None

\* sendConn and sendError have no case <-listener.done.
WakeSenders_NoDoneCase == pc

\* handleConnection forgets to clear the read deadline.
Cleared_Forgotten(c) == deadline

\* handleConnection does not set a read deadline.
Armed_Forgotten(c) == deadline

\* handleAccepts calls handleConnection without go.
MainReady_Inline ==
  pc[Main] = "accept" /\ \A c \in Conns : pc[c] \in {"none", "done"}

\* handleConnection reports a bad header before closing the connection, and
\* closes it only when somebody has taken the error.
FailedSocket_Later(c) == fd
-----------------------------------------------------------------------------
(* The clients and the wrapped listener.                                   *)

\* A client connects: the kernel queues the connection.
Connect(c) ==
  /\ fd[c] = "new" /\ inner = "open"
  /\ fd' = [fd EXCEPT ![c] = "backlog"]
  /\ UNCHANGED <<closeVars, inner, pc, offer, deadline, header, callVars, errs>>

\* The wrapped listener stops by itself, as the watcher of unix/listener.go
\* makes it do when its socket file is replaced.
InnerDown ==
  /\ inner = "open"
  /\ inner' = "down"
  /\ UNCHANGED <<closeVars, pc, offer, connVars, callVars, errs>>
-----------------------------------------------------------------------------
(* handleAccepts.                                                          *)

\* handleAccepts is back at the top of its loop.
MainReady == pc[Main] = "accept"

\* inner.Accept() returns connection c; a goroutine of its own handles it.
InnerConn(c) ==
  /\ MainReady /\ inner = "open" /\ fd[c] = "backlog"
  /\ fd' = [fd EXCEPT ![c] = "open"]
  /\ pc' = [pc EXCEPT ![c] = "arm"]
  /\ UNCHANGED <<closeVars, inner, offer, deadline, header, callVars, errs>>

\* inner.Accept() returns an error other than net.ErrClosed.
InnerError ==
  /\ MainReady /\ inner = "open" /\ errs < MaxErrors
  /\ pc' = [pc EXCEPT ![Main] = "select"]
  /\ offer' = [offer EXCEPT ![Main] = InnerErr]
  /\ errs' = errs + 1
  /\ UNCHANGED <<closeVars, inner, connVars, callVars>>

\* inner.Accept() returns net.ErrClosed: the goroutine leaves its loop.
InnerClosed ==
  /\ MainReady /\ inner # "open"
  /\ pc' = [pc EXCEPT ![Main] = "done"]
  /\ UNCHANGED <<closeVars, inner, offer, connVars, callVars, errs>>
-----------------------------------------------------------------------------
(* handleConnection, up to its select.                                     *)

Armed(c) == [deadline EXCEPT ![c] = TRUE]

\* SetReadDeadline(now + 1 minute), which may fail.
Arm(c) ==
  /\ pc[c] = "arm"
  /\ \/ /\ deadline' = Armed(c)
        /\ pc' = [pc EXCEPT ![c] = "read"]
     \/ /\ pc' = [pc EXCEPT ![c] = "fail"]
        /\ UNCHANGED deadline
  /\ UNCHANGED <<closeVars, inner, offer, fd, header, callVars, errs>>

\* ReadHeader returns: the client has sent a whole header ...
ReadGood(c) ==
  /\ pc[c] = "read"
  /\ header' = [header EXCEPT ![c] = TRUE]
  /\ pc' = [pc EXCEPT ![c] = "disarm"]
  /\ UNCHANGED <<closeVars, inner, offer, fd, deadline, callVars, errs>>

\* ... or something else, or has gone away ...
ReadBad(c) ==
  /\ pc[c] = "read"
  /\ pc' = [pc EXCEPT ![c] = "fail"]
  /\ UNCHANGED <<closeVars, inner, offer, connVars, callVars, errs>>

\* ... or the deadline has passed first.
ReadTimeout(c) ==
  /\ pc[c] = "read" /\ deadline[c]
  /\ pc' = [pc EXCEPT ![c] = "fail"]
  /\ UNCHANGED <<closeVars, inner, offer, connVars, callVars, errs>>

Cleared(c) == [deadline EXCEPT ![c] = FALSE]

\* SetReadDeadline(time.Time{}), which may fail; then sendConn.
Disarm(c) ==
  /\ pc[c] = "disarm"
  /\ \/ /\ deadline' = Cleared(c)
        /\ pc' = [pc EXCEPT ![c] = "select"]
        /\ offer' = [offer EXCEPT ![c] = c]
     \/ /\ pc' = [pc EXCEPT ![c] = "fail"]
        /\ UNCHANGED <<deadline, offer>>
  /\ UNCHANGED <<closeVars, inner, fd, header, callVars, errs>>

FailedSocket(c) == [fd EXCEPT ![c] = "closed"]

\* The three error paths: conn.Close(), then sendError(&acceptError{...}).
Fail(c) ==
  /\ pc[c] = "fail"
  /\ fd' = FailedSocket(c)
  /\ pc' = [pc EXCEPT ![c] = "select"]
  /\ offer' = [offer EXCEPT ![c] = TempErr]
  /\ UNCHANGED <<closeVars, inner, deadline, header, callVars, errs>>
-----------------------------------------------------------------------------
(* sendConn, sendError and Accept: the selects.                            *)

\* After a send that succeeded handleAccepts goes round its loop, and
\* handleConnection returns.
AfterSend(p) == IF p = Main THEN "accept" ELSE "done"

\* What Accept returns when it receives from p.
Received(p) == offer[p]

\* Sender p and acceptor a meet on listener.conns or listener.errors.
HandOver(p, a) ==
  /\ pc' = [pc EXCEPT ![p] = AfterSend(p)]
  /\ offer' = [offer EXCEPT ![p] = None]
  /\ acceptor' = [acceptor EXCEPT ![a] = "return"]
  /\ result' = [result EXCEPT ![a] = Received(p)]
  /\ fd' = [c \in Conns |-> IF c = offer[p] THEN "user" ELSE fd[c]]
  /\ UNCHANGED <<closeVars, inner, deadline, header, errs>>

\* The select of sendConn or sendError takes the case <-listener.done.
SendRefused(p) ==
  /\ pc[p] = "select" /\ done
  /\ pc' = [pc EXCEPT ![p] = "refused"]
  /\ UNCHANGED <<closeVars, inner, offer, connVars, callVars, errs>>

Send(p, a) ==
  /\ pc[p] = "select" /\ acceptor[a] = "parked"
  /\ HandOver(p, a)

SendPark(p) ==
  /\ pc[p] = "select" /\ ~done
  /\ \A a \in Acceptors : acceptor[a] # "parked"
  /\ pc' = [pc EXCEPT ![p] = "parked"]
  /\ UNCHANGED <<closeVars, inner, offer, connVars, callVars, errs>>

\* sendConn or sendError has returned false: a connection that was to be
\* sent is closed, and the goroutine ends.
Refused(p) == [c \in Conns |-> IF c = offer[p] THEN "closed" ELSE fd[c]]

GiveUp(p) ==
  /\ pc[p] = "refused"
  /\ pc' = [pc EXCEPT ![p] = "done"]
  /\ offer' = [offer EXCEPT ![p] = None]
  /\ fd' = Refused(p)
  /\ UNCHANGED <<closeVars, inner, deadline, header, callVars, errs>>

AcceptCall(a) ==
  /\ acceptor[a] = "idle"
  /\ acceptor' = [acceptor EXCEPT ![a] = "select"]
  /\ UNCHANGED <<closeVars, inner, pc, offer, connVars, result, errs>>

AcceptRefused(a) ==
  /\ acceptor[a] = "select" /\ done
  /\ acceptor' = [acceptor EXCEPT ![a] = "return"]
  /\ result' = [result EXCEPT ![a] = ErrClosed]
  /\ UNCHANGED <<closeVars, inner, pc, offer, connVars, errs>>

Receive(a, p) ==
  /\ acceptor[a] = "select" /\ pc[p] = "parked"
  /\ HandOver(p, a)

AcceptPark(a) ==
  /\ acceptor[a] = "select" /\ ~done
  /\ \A p \in Senders : pc[p] # "parked"
  /\ acceptor' = [acceptor EXCEPT ![a] = "parked"]
  /\ UNCHANGED <<closeVars, inner, pc, offer, connVars, result, errs>>

AcceptReturn(a) ==
  /\ acceptor[a] = "return"
  /\ acceptor' = [acceptor EXCEPT ![a] = "idle"]
  /\ result' = [result EXCEPT ![a] = None]
  /\ UNCHANGED <<closeVars, inner, pc, offer, connVars, errs>>
-----------------------------------------------------------------------------
(* Close.                                                                  *)

CloseCall(k) ==
  /\ closer[k] = "new"
  /\ closer' = [closer EXCEPT ![k] = "lock"]
  /\ UNCHANGED <<done, closeMu, panicked, inner, pc, offer, connVars, callVars, errs>>

MutexFree == closeMu = None

Lock(k) ==
  /\ closer[k] = "lock" /\ MutexFree
  /\ closer' = [closer EXCEPT ![k] = "check"]
  /\ closeMu' = k
  /\ UNCHANGED <<done, panicked, inner, pc, offer, connVars, callVars, errs>>

Check(k) ==
  /\ closer[k] = "check"
  /\ \/ /\ done
        /\ closer' = [closer EXCEPT ![k] = "ErrClosed"]
        /\ closeMu' = None
     \/ /\ ~done
        /\ closer' = [closer EXCEPT ![k] = "mark"]
        /\ UNCHANGED closeMu
  /\ UNCHANGED <<done, panicked, inner, pc, offer, connVars, callVars, errs>>

WakeSenders ==
  [p \in Senders |-> IF pc[p] = "parked" THEN "refused" ELSE pc[p]]

WakeAcceptors ==
  [a \in Acceptors |-> IF acceptor[a] = "parked" THEN "return" ELSE acceptor[a]]

\* The mutex stays locked until Close returns.
HolderAfterMark(k) == k

\* close(listener.done): every goroutine parked in a select resumes with the
\* case <-listener.done.  Closing a closed channel panics.
Mark(k) ==
  /\ closer[k] = "mark"
  /\ done' = TRUE
  /\ panicked' = (panicked \/ done)
  /\ closer' = [closer EXCEPT ![k] = "inner"]
  /\ closeMu' = HolderAfterMark(k)
  /\ pc' = WakeSenders
  /\ acceptor' = WakeAcceptors
  /\ result' = [a \in Acceptors |-> IF acceptor[a] # acceptor'[a] THEN ErrClosed ELSE result[a]]
  /\ UNCHANGED <<inner, offer, connVars, errs>>

\* return listener.inner.Close(): an error if the wrapped listener had
\* already stopped, a panic if it is a unix.watchedListener closed before.
CloseInner(k) ==
  /\ closer[k] = "inner"
  /\ inner' = "closed"
  /\ panicked' = (panicked \/ inner = "closed")
  /\ closer' = [closer EXCEPT ![k] = IF inner = "open" THEN "nil" ELSE "error"]
  /\ closeMu' = None
  /\ UNCHANGED <<done, pc, offer, connVars, callVars, errs>>
-----------------------------------------------------------------------------
SendStep(p) ==
  \/ SendRefused(p)
  \/ \E a \in Acceptors : Send(p, a)
  \/ SendPark(p)
  \/ GiveUp(p)

MainStep ==
  \/ \E c \in Conns : InnerConn(c)
  \/ InnerClosed
  \/ SendStep(Main)

HandlerStep(c) ==
  \/ Arm(c)
  \/ Disarm(c)
  \/ Fail(c)
  \/ SendStep(c)

AcceptorStep(a) ==
  \/ AcceptRefused(a)
  \/ \E p \in Senders : Receive(a, p)
  \/ AcceptPark(a)
  \/ AcceptReturn(a)

CloserStep(k) == Lock(k) \/ Check(k) \/ Mark(k) \/ CloseInner(k)

Environment ==
  \/ \E c \in Conns : Connect(c) \/ ReadGood(c) \/ ReadBad(c)
  \/ InnerDown
  \/ InnerError
  \/ \E a \in Acceptors : AcceptCall(a)
  \/ \E k \in Closers : CloseCall(k)

Next ==
  \/ Environment
  \/ MainStep
  \/ \E c \in Conns : HandlerStep(c) \/ ReadTimeout(c)
  \/ \E a \in Acceptors : AcceptorStep(a)
  \/ \E k \in Closers : CloserStep(k)

Spec == Init /\ [][Next]_vars

\* The Go scheduler runs every goroutine that can run; nothing obliges a
\* client to connect or to send, or the caller to call.
Scheduling ==
  /\ WF_vars(MainStep)
  /\ \A c \in Conns : WF_vars(HandlerStep(c))
  /\ \A a \in Acceptors : WF_vars(AcceptorStep(a))
  /\ \A k \in Closers : WF_vars(CloserStep(k))

\* Time passes: a read with a deadline does not block forever.
Clock == \A c \in Conns : WF_vars(ReadTimeout(c))

\* The caller calls Accept again after each return, as http.Serve does.
ServeLoop == \A a \in Acceptors : WF_vars(AcceptCall(a))

LiveSpec == Spec /\ Scheduling
-----------------------------------------------------------------------------
(* Properties.                                                             *)

\* A socket the library has accepted is open exactly while one
\* handleConnection goroutine works on it or offers it.  In particular none
\* leaks, none is handed out twice, and none waits open behind an error that
\* nobody takes (proxy/listener.go:103-132).
Custody ==
  \A c \in Conns :
    /\ fd[c] = "open" <=> pc[c] \in {"arm", "read", "disarm", "fail"} \/ offer[c] = c
    /\ \A p \in Senders : p # c => offer[p] # c

\* Accept returns a connection only with its header read and its read
\* deadline cleared: the caller's own reads never meet the one minute limit
\* of the header (proxy/listener.go:110-129).
HandshakeDone ==
  \A c \in Conns : fd[c] = "user" => header[c] /\ ~deadline[c]

\* When any call of Close has returned, the wrapped listener has been
\* closed; and only one call went as far as closing it
\* (proxy/listener.go:71-82).
CloseCompletes ==
  /\ \A k \in Closers : closer[k] \in {"nil", "error", "ErrClosed"} => inner = "closed"
  /\ \A k1, k2 \in Closers :
       closer[k1] \in {"nil", "error"} /\ closer[k2] \in {"nil", "error"} => k1 = k2

\* However many calls of Close race, listener.done and the wrapped listener
\* are closed once (unix/listener.go:54 panics otherwise).
NoPanic == ~panicked

\* After Close all goroutines end and no socket stays open in the library's
\* hands, although a client may never send its header: the read deadline
\* ends the wait (proxy/listener.go:104).
Shutdown ==
  Clock => done ~> [](/\ \A p \in Senders : pc[p] \in {"none", "done"}
             /\ \A c \in Conns : fd[c] # "open")

\* Clients that send no header hold up nobody else: if the caller keeps calling
\* Accept, then even if no deadline ever passes, errors never end handleAccepts, the other connections are accepted, and once their header is read
\* they reach the caller or are closed (proxy/listener.go:98).
NoHeadOfLineBlocking ==
  ServeLoop => \A c \in Conns :
    /\ fd[c] = "backlog" ~> fd[c] # "backlog" \/ inner # "open"
    /\ header[c] ~> fd[c] # "open"

\* The proxy listener implements ListenerContract; it may also close a
\* connection whose handshake failed.  In particular no call of Accept is
\* given a connection or an error once listener.done is closed.
Contract == INSTANCE ListenerContract WITH
  closed <- done,
  fate <- [c \in Conns |-> CASE fd[c] \in {"new", "backlog"} -> "new"
                             [] fd[c] = "open" -> "held"
                             [] fd[c] = "user" -> "delivered"
                             [] fd[c] = "closed" -> "dropped"],
  call <- [a \in Acceptors |-> IF acceptor[a] \in {"select", "parked"} THEN "waiting" ELSE acceptor[a]],
  Errors <- {InnerErr, TempErr},
  MayReject <- TRUE

ContractSpec == Contract!Spec
=============================================================================
