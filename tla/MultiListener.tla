---------------------------- MODULE MultiListener ----------------------------
(***************************************************************************)
(* The listener of multi.go, which aggregates several net.Listeners.       *)
(*                                                                         *)
(* Processes: one goroutine handleAccepts per wrapped listener (worker),   *)
(* the caller's goroutines in Accept (acceptor), and its calls of Close    *)
(* (closer).  They meet on the unbuffered channels ml.conns and ml.errors  *)
(* and on ml.closed, each in a select.                                     *)
(*                                                                         *)
(* A select is modelled as the Go runtime executes it: one atomic step     *)
(* looks at every case and takes one that is ready, or else the goroutine  *)
(* is parked on all its channels.  On an unbuffered channel a case is      *)
(* ready exactly when the other side is parked on it, and close(ml.closed) *)
(* takes every goroutine parked on it off all its channels at once.        *)
(***************************************************************************)
EXTENDS Naturals

CONSTANTS
  Listeners,  \* the wrapped listeners, ml.listeners
  Conns,      \* connections that clients may open
  Acceptors,  \* goroutines of the caller that call Accept
  Closers,    \* calls of Close
  MaxErrors,  \* bound: errors the wrapped listeners' Accept returns in total
  Err,        \* an error of a wrapped listener that is not net.ErrClosed
  ErrClosed,  \* net.ErrClosed
  None        \* no value

ASSUME MultiListenerAssumption ==
  /\ MaxErrors \in Nat
  /\ Err \notin Conns /\ ErrClosed \notin Conns /\ None \notin Conns
  /\ Err # ErrClosed /\ Err # None /\ ErrClosed # None
  /\ None \notin Closers

VARIABLES
  closed,     \* is the channel ml.closed closed?
  closeMu,    \* the call of Close that holds ml.closeMu, or None
  closer,     \* where each call of Close is; "nil" and "ErrClosed": returned
  remaining,  \* the listeners the loop of each call of Close still visits
  inner,      \* the wrapped listeners; "down": stopped without our Close
  worker,     \* where each handleAccepts goroutine is
  item,       \* the conn or err it carries
  acceptor,   \* where each goroutine of the caller is
  result,     \* what its Accept is about to return
  fate,       \* what became of each connection
  errs,       \* errors returned by wrapped listeners so far (bounded)
  panicked    \* has a closed channel been closed again?

vars == <<closed, closeMu, closer, remaining, inner, worker, item,
          acceptor, result, fate, errs, panicked>>
closeVars == <<closeMu, closer, remaining>>
callVars == <<acceptor, result>>

TypeOK ==
  /\ closed \in BOOLEAN
  /\ closeMu \in Closers \cup {None}
  /\ closer \in [Closers -> {"new", "lock", "check", "mark", "loop", "nil", "ErrClosed"}]
  /\ remaining \in [Closers -> SUBSET Listeners]
  /\ inner \in [Listeners -> {"open", "down", "closed"}]
  /\ worker \in [Listeners -> {"accept", "select", "parked", "refused", "done"}]
  /\ item \in [Listeners -> Conns \cup {Err, None}]
  /\ acceptor \in [Acceptors -> {"idle", "select", "parked", "return"}]
  /\ result \in [Acceptors -> Conns \cup {Err, ErrClosed, None}]
  /\ fate \in [Conns -> {"new", "held", "delivered", "dropped"}]
  /\ errs \in 0..MaxErrors
  /\ panicked \in BOOLEAN
  \* Accept never returns (nil, nil).
  /\ \A a \in Acceptors : acceptor[a] = "return" => result[a] # None

Init ==
  /\ closed = FALSE
  /\ closeMu = None
  /\ closer = [k \in Closers |-> "new"]
  /\ remaining = [k \in Closers |-> {}]
  /\ inner = [l \in Listeners |-> "open"]
  /\ worker = [l \in Listeners |-> "accept"]
  /\ item = [l \in Listeners |-> None]
  /\ acceptor = [a \in Acceptors |-> "idle"]
  /\ result = [a \in Acceptors |-> None]
  /\ fate = [c \in Conns |-> "new"]
  /\ errs = 0
  /\ panicked = FALSE
-----------------------------------------------------------------------------
(* Faulty variants of definitions below, each a plausible slip in the      *)
(* code.  No action uses them: putting one in the place of the definition  *)
(* it is a variant of shows that a property can fail.                      *)

\* Close without ml.closeMu.
MutexFree_NoMutex == TRUE

\* handleAccepts leaves its loop after passing on an error.
AfterSend_BreakOnError(l) == IF item[l] = Err THEN "done" ELSE "accept"


\* handleAccepts does not close the connection that sendConn refused.
Dropped_NotClosed(l) == fate

\* sendConn and sendError have no case <-ml.closed.
WakeWorkers_NoClosedCase == worker

\* Accept has no case <-ml.closed.
WakeAcceptors_NoClosedCase == acceptor

\* Close does not close the wrapped listeners.
CloseInner_Skips(k, l) ==
  /\ closer[k] = "loop" /\ l \in remaining[k]
  /\ remaining' = [remaining EXCEPT ![k] = @ \ {l}]
  /\ UNCHANGED <<closed, closeMu, closer, inner, worker, item, callVars, fate, errs, panicked>>

\* Accept has no case <-ml.conns.
Receivable_ErrorsOnly(l) == worker[l] = "parked" /\ item[l] = Err

\* Close unlocks ml.closeMu once ml.closed is closed.
HolderAfterMark_Unlocked(k) == None
-----------------------------------------------------------------------------
(* The wrapped listeners, as handleAccepts sees them.                      *)

\* A wrapped listener stops accepting by itself, as the watcher of
\* unix/listener.go makes it do when its socket file is replaced.
InnerDown(l) ==
  /\ inner[l] = "open"
  /\ inner' = [inner EXCEPT ![l] = "down"]
  /\ UNCHANGED <<closed, closeVars, worker, item, callVars, fate, errs, panicked>>

\* l.Accept() returns connection c.
InnerConn(l, c) ==
  /\ worker[l] = "accept" /\ inner[l] = "open" /\ fate[c] = "new"
  /\ worker' = [worker EXCEPT ![l] = "select"]
  /\ item' = [item EXCEPT ![l] = c]
  /\ fate' = [fate EXCEPT ![c] = "held"]
  /\ UNCHANGED <<closed, closeVars, inner, callVars, errs, panicked>>

\* l.Accept() returns an error other than net.ErrClosed.
InnerError(l) ==
  /\ worker[l] = "accept" /\ inner[l] = "open" /\ errs < MaxErrors
  /\ worker' = [worker EXCEPT ![l] = "select"]
  /\ item' = [item EXCEPT ![l] = Err]
  /\ errs' = errs + 1
  /\ UNCHANGED <<closed, closeVars, inner, callVars, fate, panicked>>

\* l.Accept() returns net.ErrClosed: the goroutine leaves its loop.
InnerClosed(l) ==
  /\ worker[l] = "accept" /\ inner[l] # "open"
  /\ worker' = [worker EXCEPT ![l] = "done"]
  /\ UNCHANGED <<closed, closeVars, inner, item, callVars, fate, errs, panicked>>
-----------------------------------------------------------------------------
(* sendConn, sendError and Accept: the selects.                            *)

\* After a send that succeeded, handleAccepts goes round its loop.
AfterSend(l) == "accept"

\* What Accept returns when it receives from worker l.
Received(l) == item[l]

\* Worker l and acceptor a meet on ml.conns or ml.errors.
HandOver(l, a) ==
  /\ worker' = [worker EXCEPT ![l] = AfterSend(l)]
  /\ item' = [item EXCEPT ![l] = None]
  /\ acceptor' = [acceptor EXCEPT ![a] = "return"]
  /\ result' = [result EXCEPT ![a] = Received(l)]
  /\ fate' = [c \in Conns |-> IF c = item[l] THEN "delivered" ELSE fate[c]]
  /\ UNCHANGED <<closed, closeVars, inner, errs, panicked>>

\* The select of sendConn or sendError takes the case <-ml.closed.
SendRefused(l) ==
  /\ worker[l] = "select" /\ closed
  /\ worker' = [worker EXCEPT ![l] = "refused"]
  /\ UNCHANGED <<closed, closeVars, inner, item, callVars, fate, errs, panicked>>

\* It takes the case of the send: an Accept is parked on the channel.
Send(l, a) ==
  /\ worker[l] = "select" /\ acceptor[a] = "parked"
  /\ HandOver(l, a)

\* No case is ready.
SendPark(l) ==
  /\ worker[l] = "select" /\ ~closed
  /\ \A a \in Acceptors : acceptor[a] # "parked"
  /\ worker' = [worker EXCEPT ![l] = "parked"]
  /\ UNCHANGED <<closed, closeVars, inner, item, callVars, fate, errs, panicked>>

\* sendConn or sendError has returned false: handleAccepts closes the
\* connection it holds, if it holds one, and leaves its loop.
Dropped(l) == [c \in Conns |-> IF c = item[l] THEN "dropped" ELSE fate[c]]

GiveUp(l) ==
  /\ worker[l] = "refused"
  /\ worker' = [worker EXCEPT ![l] = "done"]
  /\ item' = [item EXCEPT ![l] = None]
  /\ fate' = Dropped(l)
  /\ UNCHANGED <<closed, closeVars, inner, callVars, errs, panicked>>

AcceptCall(a) ==
  /\ acceptor[a] = "idle"
  /\ acceptor' = [acceptor EXCEPT ![a] = "select"]
  /\ UNCHANGED <<closed, closeVars, inner, worker, item, result, fate, errs, panicked>>

\* The select of Accept takes the case <-ml.closed.
AcceptRefused(a) ==
  /\ acceptor[a] = "select" /\ closed
  /\ acceptor' = [acceptor EXCEPT ![a] = "return"]
  /\ result' = [result EXCEPT ![a] = ErrClosed]
  /\ UNCHANGED <<closed, closeVars, inner, worker, item, fate, errs, panicked>>

\* A worker is parked on ml.conns or ml.errors: that case of Accept is ready.
Receivable(l) == worker[l] = "parked"

Receive(a, l) ==
  /\ acceptor[a] = "select" /\ Receivable(l)
  /\ HandOver(l, a)

AcceptPark(a) ==
  /\ acceptor[a] = "select" /\ ~closed
  /\ \A l \in Listeners : ~Receivable(l)
  /\ acceptor' = [acceptor EXCEPT ![a] = "parked"]
  /\ UNCHANGED <<closed, closeVars, inner, worker, item, result, fate, errs, panicked>>

AcceptReturn(a) ==
  /\ acceptor[a] = "return"
  /\ acceptor' = [acceptor EXCEPT ![a] = "idle"]
  /\ result' = [result EXCEPT ![a] = None]
  /\ UNCHANGED <<closed, closeVars, inner, worker, item, fate, errs, panicked>>
-----------------------------------------------------------------------------
(* Close.                                                                  *)

CloseCall(k) ==
  /\ closer[k] = "new"
  /\ closer' = [closer EXCEPT ![k] = "lock"]
  /\ UNCHANGED <<closed, closeMu, remaining, inner, worker, item, callVars, fate, errs, panicked>>

MutexFree == closeMu = None

Lock(k) ==
  /\ closer[k] = "lock" /\ MutexFree
  /\ closer' = [closer EXCEPT ![k] = "check"]
  /\ closeMu' = k
  /\ UNCHANGED <<closed, remaining, inner, worker, item, callVars, fate, errs, panicked>>

\* select { case <-ml.closed: return net.ErrClosed; default: ... }
Check(k) ==
  /\ closer[k] = "check"
  /\ \/ /\ closed
        /\ closer' = [closer EXCEPT ![k] = "ErrClosed"]
        /\ closeMu' = None
     \/ /\ ~closed
        /\ closer' = [closer EXCEPT ![k] = "mark"]
        /\ UNCHANGED closeMu
  /\ UNCHANGED <<closed, remaining, inner, worker, item, callVars, fate, errs, panicked>>

\* close(ml.closed): every goroutine parked in a select resumes with the
\* case <-ml.closed.  Closing a closed channel panics.
WakeWorkers ==
  [l \in Listeners |-> IF worker[l] = "parked" THEN "refused" ELSE worker[l]]

WakeAcceptors ==
  [a \in Acceptors |-> IF acceptor[a] = "parked" THEN "return" ELSE acceptor[a]]

\* The mutex stays locked until Close returns.
HolderAfterMark(k) == k

Mark(k) ==
  /\ closer[k] = "mark"
  /\ closed' = TRUE
  /\ panicked' = (panicked \/ closed)
  /\ closer' = [closer EXCEPT ![k] = "loop"]
  /\ remaining' = [remaining EXCEPT ![k] = Listeners]
  /\ closeMu' = HolderAfterMark(k)
  /\ worker' = WakeWorkers
  /\ acceptor' = WakeAcceptors
  /\ result' = [a \in Acceptors |-> IF acceptor[a] # acceptor'[a] THEN ErrClosed ELSE result[a]]
  /\ UNCHANGED <<inner, item, fate, errs>>

\* l.Close() for one listener.  A second Close of a listener that closes a
\* channel of its own (unix.watchedListener) panics.
CloseInner(k, l) ==
  /\ closer[k] = "loop" /\ l \in remaining[k]
  /\ remaining' = [remaining EXCEPT ![k] = @ \ {l}]
  /\ inner' = [inner EXCEPT ![l] = "closed"]
  /\ panicked' = (panicked \/ inner[l] = "closed")
  /\ UNCHANGED <<closed, closeMu, closer, worker, item, callVars, fate, errs>>

CloseReturn(k) ==
  /\ closer[k] = "loop" /\ remaining[k] = {}
  /\ closer' = [closer EXCEPT ![k] = "nil"]
  /\ closeMu' = None
  /\ UNCHANGED <<closed, remaining, inner, worker, item, callVars, fate, errs, panicked>>
-----------------------------------------------------------------------------
WorkerStep(l) ==
  \/ InnerClosed(l)
  \/ SendRefused(l)
  \/ \E a \in Acceptors : Send(l, a)
  \/ SendPark(l)
  \/ GiveUp(l)

AcceptorStep(a) ==
  \/ AcceptRefused(a)
  \/ \E l \in Listeners : Receive(a, l)
  \/ AcceptPark(a)
  \/ AcceptReturn(a)

CloserStep(k) ==
  \/ Lock(k)
  \/ Check(k)
  \/ Mark(k)
  \/ \E l \in Listeners : CloseInner(k, l)
  \/ CloseReturn(k)

Environment ==
  \/ \E l \in Listeners :
       InnerDown(l) \/ InnerError(l) \/ \E c \in Conns : InnerConn(l, c)
  \/ \E a \in Acceptors : AcceptCall(a)
  \/ \E k \in Closers : CloseCall(k)

Next ==
  \/ Environment
  \/ \E l \in Listeners : WorkerStep(l)
  \/ \E a \in Acceptors : AcceptorStep(a)
  \/ \E k \in Closers : CloserStep(k)

Spec == Init /\ [][Next]_vars

\* The Go scheduler runs every goroutine that can run; nothing obliges a
\* client to connect or the caller to call.
Fairness ==
  /\ \A l \in Listeners : WF_vars(WorkerStep(l))
  /\ \A a \in Acceptors : WF_vars(AcceptorStep(a))
  /\ \A k \in Closers : WF_vars(CloserStep(k))

LiveSpec == Spec /\ Fairness

\* A caller such as http.Serve, which calls Accept again after each return.
ServeLoop == \A a \in Acceptors : WF_vars(AcceptCall(a))
-----------------------------------------------------------------------------
(* Properties.                                                             *)

\* Every connection a wrapped listener accepted is at all times in the hands
\* of exactly one party: one handleAccepts goroutine that has not finished,
\* one caller of Accept, or nobody because it was closed.  None leaks and
\* none is handed out twice (multi.go:65-99).
Custody ==
  /\ \A l \in Listeners : item[l] \in Conns => fate[item[l]] = "held"
  /\ \A c \in Conns : fate[c] = "held" =>
       \E l \in Listeners : item[l] = c /\ worker[l] \in {"select", "parked", "refused"}
  /\ \A l1, l2 \in Listeners : l1 # l2 /\ item[l1] = item[l2] => item[l1] \notin Conns

\* From the instant ml.closed is closed, no call of Accept is given a
\* connection or an error of a wrapped listener, although its select could
\* choose among three cases and goroutines were blocked sending
\* (multi.go:101-110 against 83-99).
NoLateDelivery ==
  [][closed => /\ \A c \in Conns : fate[c] = "held" => fate'[c] # "delivered"
               /\ \A a \in Acceptors :
                    acceptor[a] # "return" /\ acceptor'[a] = "return" => result'[a] = ErrClosed]_vars

\* When any call of Close has returned, also one that returned
\* net.ErrClosed because another call was first, all wrapped listeners have
\* been closed; and only one call returned nil (multi.go:112-126).
CloseCompletes ==
  /\ \A k \in Closers : closer[k] \in {"nil", "ErrClosed"} =>
       \A l \in Listeners : inner[l] = "closed"
  /\ \A k1, k2 \in Closers : closer[k1] = "nil" /\ closer[k2] = "nil" => k1 = k2

\* However many calls of Close race, ml.closed is closed once and each
\* wrapped listener at most once, which unix.watchedListener needs
\* (unix/listener.go:54 panics otherwise).
NoPanic == ~panicked

\* Errors, slow callers and the end of other wrapped listeners do not stop a
\* handleAccepts goroutine: while the MultiListener is open, it finishes
\* only if its own listener stopped (multi.go:66-80).
WorkerLifetime ==
  ~closed => \A l \in Listeners : worker[l] = "done" => inner[l] # "open"

\* After Close every handleAccepts goroutine finishes, and no connection
\* stays open in the library's hands, forever (multi.go:65-81).
Shutdown ==
  closed ~> [](/\ \A l \in Listeners : worker[l] = "done"
               /\ \A c \in Conns : fate[c] # "held")

\* If the caller keeps calling Accept, a connection the library holds does
\* not stay there, whatever the other wrapped listeners do.
Served == ServeLoop => \A c \in Conns : fate[c] = "held" ~> fate[c] # "held"

\* The MultiListener implements ListenerContract and never closes a
\* connection before it is closed itself.  "Calling Close() ... causes blocked
\* Accept calls to return with net.ErrClosed" (multi.go:48-49), and closes the
\* connections nobody got: that is the fairness of the contract.
Contract == INSTANCE ListenerContract WITH
  call <- [a \in Acceptors |-> IF acceptor[a] \in {"select", "parked"} THEN "waiting" ELSE acceptor[a]],
  Errors <- {Err},
  MayReject <- FALSE

ContractFairSpec == Contract!FairSpec
=============================================================================
