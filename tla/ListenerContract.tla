-------------------------- MODULE ListenerContract --------------------------
(***************************************************************************)
(* What a listener of this library that wraps other listeners promises its *)
(* caller, whatever goroutines and channels it is built from.              *)
(*                                                                         *)
(* A connection that a wrapped listener accepted is held by the library    *)
(* until it is either given to exactly one Accept call or closed.  While   *)
(* the listener is open, Accept returns a connection or an error of a      *)
(* wrapped listener.  From the instant the listener is closed, no call of  *)
(* Accept is given anything any more: all of them return net.ErrClosed,    *)
(* and the connections still held are closed.                              *)
(***************************************************************************)

CONSTANTS
  Conns,      \* the connections
  Acceptors,  \* goroutines of the caller, each calling Accept repeatedly
  Errors,     \* errors, other than ErrClosed, that Accept may return
  ErrClosed,  \* net.ErrClosed
  None,       \* no result yet
  MayReject   \* may an open listener close a connection by itself?

VARIABLES
  closed,     \* has the listener been closed?
  fate,       \* [Conns -> {"new", "held", "delivered", "dropped"}]
  call,       \* [Acceptors -> {"idle", "waiting", "return"}]
  result      \* [Acceptors -> what Accept is about to return]

vars == <<closed, fate, call, result>>

Init ==
  /\ closed = FALSE
  /\ fate = [c \in Conns |-> "new"]
  /\ call = [a \in Acceptors |-> "idle"]
  /\ result = [a \in Acceptors |-> None]

\* A wrapped listener accepts connection c.
Arrive(c) ==
  /\ fate[c] = "new"
  /\ fate' = [fate EXCEPT ![c] = "held"]
  /\ UNCHANGED <<closed, call, result>>

Invoke(a) ==
  /\ call[a] = "idle"
  /\ call' = [call EXCEPT ![a] = "waiting"]
  /\ UNCHANGED <<closed, fate, result>>

\* The outcome r of a's pending call is decided.
Answer(a, r) ==
  /\ call[a] = "waiting"
  /\ call' = [call EXCEPT ![a] = "return"]
  /\ result' = [result EXCEPT ![a] = r]
  /\ UNCHANGED closed

Deliver(a, c) ==
  /\ ~closed
  /\ fate[c] = "held"
  /\ fate' = [fate EXCEPT ![c] = "delivered"]
  /\ Answer(a, c)

Report(a, e) ==
  /\ ~closed
  /\ Answer(a, e)
  /\ UNCHANGED fate

Refuse(a) ==
  /\ closed
  /\ Answer(a, ErrClosed)
  /\ UNCHANGED fate

Return(a) ==
  /\ call[a] = "return"
  /\ call' = [call EXCEPT ![a] = "idle"]
  /\ result' = [result EXCEPT ![a] = None]
  /\ UNCHANGED <<closed, fate>>

\* Closing decides, at the same instant, the calls in S, which are waiting.
Close(S) ==
  /\ ~closed
  /\ \A a \in S : call[a] = "waiting"
  /\ closed' = TRUE
  /\ call' = [a \in Acceptors |-> IF a \in S THEN "return" ELSE call[a]]
  /\ result' = [a \in Acceptors |-> IF a \in S THEN ErrClosed ELSE result[a]]
  /\ UNCHANGED fate

\* The library closes a connection that nobody will get.
Discard(c) ==
  /\ fate[c] = "held"
  /\ closed \/ MayReject
  /\ fate' = [fate EXCEPT ![c] = "dropped"]
  /\ UNCHANGED <<closed, call, result>>

Next ==
  \/ \E c \in Conns : Arrive(c) \/ Discard(c)
  \/ \E a \in Acceptors :
       \/ Invoke(a)
       \/ \E c \in Conns : Deliver(a, c)
       \/ \E e \in Errors : Report(a, e)
       \/ Refuse(a)
       \/ Return(a)
  \/ \E S \in SUBSET Acceptors : Close(S)

Spec == Init /\ [][Next]_vars

\* After closing, waiting calls are answered and held connections closed.
FairSpec ==
  /\ Spec
  /\ \A a \in Acceptors : WF_vars(Refuse(a)) /\ WF_vars(Return(a))
  /\ \A c \in Conns : WF_vars(closed /\ Discard(c))
=============================================================================
