------------------------------- MODULE PeekHello -------------------------------
(***************************************************************************)
(* PeekClientHello of tlsutil/hello.go: a handshake that is broken off     *)
(* reads the ClientHello from a connection, and what it has read is put    *)
(* back in front of the connection, for the real handshake to read again.  *)
(* Who sends on the connection, and who has read from it before, is the    *)
(* business of the module that uses this one (ProxiedHello).               *)
(***************************************************************************)
EXTENDS Naturals, Sequences

CONSTANT HelloSize   \* bytes of the ClientHello

VARIABLES
  stream,    \* what the client sends on the connection
  sent,      \* how many bytes of it have arrived
  eof,       \* has the client closed the connection?
  consumed,  \* how many bytes have been read from the connection,
  origin,    \* and how many of these before PeekClientHello was called
  isHello,   \* is a ClientHello what the client sends from there on?
  peeked,    \* peekedBytes: a bytes.Buffer
  pc,        \* where PeekClientHello is, or how it returned
  replayed,  \* history: what has been read from the reader it returned
  ended      \* has that reader returned io.EOF?

given == <<stream, sent, eof, origin, isHello>>

\* The bytes that are read by a read that advances consumed from one to the other.
Bytes(from, to) == SubSeq(stream, from + 1, to)

Init ==
  /\ isHello \in BOOLEAN
  /\ ended = FALSE
  /\ peeked = <<>> /\ replayed = <<>>
  /\ pc = "peek"
-----------------------------------------------------------------------------
(* Faulty variants of definitions below, each a plausible slip in the      *)
(* code.  No action uses them: putting one in the place of the definition  *)
(* it is a variant of shows that a property can fail.                      *)

\* The handshake reads from the connection past the TeeReader.
Teed_Bypassed(n) == peeked

\* GetConfigForClient is not set: the handshake goes on until a Write fails,
\* which it does only after more of the client's messages have arrived.
Enough_Everything == consumed = Len(stream)
-----------------------------------------------------------------------------
(* PeekClientHello.                                                        *)

\* The handshake has as many bytes as a ClientHello takes.
Enough == consumed >= origin + HelloSize

\* What the buffer holds after the TeeReader has read n bytes.
Teed(n) == peeked \o Bytes(consumed, consumed + n)

\* The handshake reads n bytes: as many as it needs, or more, since
\* crypto/tls reads ahead.
Read ==
  /\ pc = "peek" /\ ~Enough
  /\ \E n \in 1..(sent - consumed) :
       /\ peeked' = Teed(n)
       /\ consumed' = consumed + n
  /\ UNCHANGED <<given, pc, replayed, ended>>

\* The stream ends too early: Handshake fails without a ClientHello.
ReadEnds ==
  /\ pc = "peek" /\ ~Enough
  /\ eof /\ consumed = sent
  /\ pc' = "error"
  /\ UNCHANGED <<given, consumed, peeked, replayed, ended>>

\* GetConfigForClient has kept the ClientHello; how the handshake fails
\* afterwards (a Write fails at the latest) is ignored.
HelloKept ==
  /\ pc = "peek" /\ isHello /\ Enough
  /\ pc' = "hello"
  /\ UNCHANGED <<given, consumed, peeked, replayed, ended>>

\* Handshake fails at a byte that does not belong to a ClientHello.
NoHello ==
  /\ pc = "peek" /\ ~isHello /\ consumed > origin
  /\ pc' = "error"
  /\ UNCHANGED <<given, consumed, peeked, replayed, ended>>
-----------------------------------------------------------------------------
(* The reader that PeekClientHello returns, in either case: an             *)
(* io.MultiReader of peekedBytes and the connection.                       *)

\* What the buffer holds after n bytes have been read from it.
Unread(n) == SubSeq(peeked, n + 1, Len(peeked))

Replay ==
  /\ pc \in {"hello", "error"} /\ ~ended
  /\ \E n \in 1..Len(peeked) :
       /\ replayed' = replayed \o SubSeq(peeked, 1, n)
       /\ peeked' = Unread(n)
  /\ UNCHANGED <<given, consumed, pc, ended>>

PassOn ==
  /\ pc \in {"hello", "error"} /\ ~ended
  /\ peeked = <<>>
  /\ \/ \E n \in 1..(sent - consumed) :
          /\ replayed' = replayed \o Bytes(consumed, consumed + n)
          /\ consumed' = consumed + n
          /\ UNCHANGED ended
     \/ /\ eof /\ consumed = sent
        /\ ended' = TRUE
        /\ UNCHANGED <<replayed, consumed>>
  /\ UNCHANGED <<given, peeked, pc>>

Peek == Read \/ ReadEnds \/ HelloKept \/ NoHello
UseReader == Replay \/ PassOn
================================================================================
