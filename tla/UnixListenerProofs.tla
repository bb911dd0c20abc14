-------------------------- MODULE UnixListenerProofs --------------------------
(***************************************************************************)
(* Theorems about UnixListener for any number of processes that put their  *)
(* sockets at one path, with failures of every system call, crashes and    *)
(* outside interference.                                                   *)
(***************************************************************************)
EXTENDS UnixListener, TLAPS

\* What a call of Listen has made by the time it is at each step.
ListenInv ==
  \A i \in Calls :
    /\ pc[i] = "mkdir" => ~dir[i]
    /\ pc[i] \in {"mkdir", "bind"} => ~temp[i] /\ sock[i] = "none"
    /\ pc[i] \in {"chmod", "lstat", "rename", "watch"} => sock[i] = "listening"
    /\ pc[i] \in {"lstat", "rename", "watch"} => mode[i]
    /\ pc[i] \in {"rename", "watch"} => info[i] = i
    /\ pc[i] = "watch" \/ given[i] => ~temp[i]

\* What the deferred functions have left, and why.
LeftInv ==
  \A i \in Calls :
    /\ pc[i] \in {"rmDir", "ok", "failed"} /\ temp[i] => stuck[i] \cap {"bind", "rmSocket"} # {}
    /\ pc[i] \in {"ok", "failed"} /\ dir[i] => temp[i] \/ "rmDir" \in stuck[i]

\* Who is to close the socket: Listen until it starts watch, then watch and
\* whoever has the watchedListener.
OwnerInv ==
  \A i \in Calls :
    /\ given[i] <=> watch[i] # "none"
    /\ given[i] => pc[i] \in {"close", "rmSocket", "rmDir", "ok", "dead"}
    /\ pc[i] = "ok" => given[i]
    /\ pc[i] = "failed" => ~given[i]
    /\ pc[i] \in {"rmSocket", "rmDir", "failed"} /\ ~given[i] => sock[i] # "listening"

\* A socket file gets to the path by Rename only, once, and after that its
\* socket is closed only for one of the reasons that PathReachable admits.
PathInv ==
  \A i \in Calls :
    /\ path = i =>
         /\ mode[i]
         /\ pc[i] \in {"watch", "dead"} \/ given[i]
         /\ pc[i] = "dead" \/ closing[i] # "none" \/ misled[i] \/ sock[i] = "listening"
    /\ watch[i] = "stop" => path # i \/ misled[i]

\* The inductive invariant.
IInv ==
  /\ TypeOK
  /\ ListenInv
  /\ LeftInv
  /\ OwnerInv
  /\ PathInv
-----------------------------------------------------------------------------
(* Listen.                                                                 *)

\* The temporary directory is made, or nothing is.
LEMMA MkdirTempStep ==
  ASSUME IInv, NEW i \in Calls, MkdirTemp(i)
  PROVE  IInv'
<1>1. TypeOK'
  <2>1. pc' \in [Calls -> {"mkdir", "bind", "chmod", "lstat", "rename", "watch",
                           "close", "rmSocket", "rmDir", "ok", "failed", "dead"}]
    BY DEF IInv, TypeOK, MkdirTemp
  <2>2. dir' \in [Calls -> BOOLEAN]
    <3>1. dir \in [Calls -> BOOLEAN]
      BY DEF IInv, TypeOK
    <3>2. QED
      BY <3>1 DEF MkdirTemp
  <2>3. UNCHANGED <<path, temp, stuck, mode, sock, info, given, closing, watch, tick, misled, lstatErrs>>
    BY DEF MkdirTemp, watchVars
  <2>4. QED
    BY <2>1, <2>2, <2>3 DEF IInv, TypeOK
<1>2. ListenInv'
  BY DEF IInv, TypeOK, ListenInv, OwnerInv, MkdirTemp, watchVars
<1>3. OwnerInv'
  BY DEF IInv, TypeOK, ListenInv, OwnerInv, MkdirTemp, watchVars
<1>4. PathInv'
  BY DEF IInv, TypeOK, ListenInv, OwnerInv, PathInv, MkdirTemp, watchVars
<1>5. LeftInv'
  BY DEF IInv, TypeOK, LeftInv, ListenInv, OwnerInv, MkdirTemp, watchVars
<1>6. QED
  BY <1>1, <1>2, <1>3, <1>4, <1>5 DEF IInv

\* The socket listens at its temporary path, or there is none; then the file
\* may be there all the same.
LEMMA BindStep ==
  ASSUME IInv, NEW i \in Calls, Bind(i)
  PROVE  IInv'
<1>1. /\ pc[i] = "bind"
      /\ pc' = [pc EXCEPT ![i] = "chmod"] \/ pc' = [pc EXCEPT ![i] = "rmDir"]
      /\ temp' = temp \/ temp' = [temp EXCEPT ![i] = TRUE]
      /\ sock' \in {sock, [sock EXCEPT ![i] = "listening"], [sock EXCEPT ![i] = "closed"]}
      /\ stuck' = stuck \/ stuck' = [stuck EXCEPT ![i] = @ \cup {"bind"}]
      /\ pc'[i] = "rmDir" => sock'[i] # "listening" /\ (temp'[i] => "bind" \in stuck'[i])
      /\ pc'[i] = "chmod" => sock'[i] = "listening"
  <2>1. /\ pc \in [Calls -> {"mkdir", "bind", "chmod", "lstat", "rename", "watch",
                             "close", "rmSocket", "rmDir", "ok", "failed", "dead"}]
        /\ temp \in [Calls -> BOOLEAN]
        /\ sock \in [Calls -> {"none", "listening", "closed"}]
        /\ stuck \in [Calls -> SUBSET {"bind", "rmSocket", "rmDir"}]
    BY DEF IInv, TypeOK
  <2>2. pc[i] = "bind" /\ ~temp[i] /\ sock[i] = "none"
    BY DEF IInv, ListenInv, Bind
  <2>3. CASE /\ temp' = [temp EXCEPT ![i] = TRUE]
             /\ sock' = [sock EXCEPT ![i] = "listening"]
             /\ pc' = [pc EXCEPT ![i] = "chmod"]
             /\ UNCHANGED stuck
    BY <2>1, <2>2, <2>3
  <2>4. CASE /\ temp' = [temp EXCEPT ![i] = TRUE]
             /\ sock' = [sock EXCEPT ![i] = "closed"]
             /\ pc' = [pc EXCEPT ![i] = "rmDir"]
             /\ Stuck(i)
    <3>1. stuck' = [stuck EXCEPT ![i] = @ \cup {"bind"}]
      BY <2>2, <2>4 DEF Stuck
    <3>2. pc'[i] = "rmDir" /\ sock'[i] = "closed" /\ "bind" \in stuck'[i]
      BY <2>1, <2>4, <3>1
    <3>3. QED
      BY <2>2, <2>4, <3>1, <3>2
  <2>5. CASE /\ pc' = [pc EXCEPT ![i] = "rmDir"]
             /\ UNCHANGED <<temp, sock, stuck>>
    BY <2>1, <2>2, <2>5
  <2>6. QED
    BY <2>3, <2>4, <2>5 DEF Bind
<1>2. UNCHANGED <<path, dir, mode, info, given, closing, watch, tick, misled, lstatErrs>>
  BY DEF Bind, watchVars
<1>3. ASSUME NEW j \in Calls, j # i
      PROVE  UNCHANGED <<pc[j], temp[j], sock[j], stuck[j]>>
  BY <1>1, <1>3 DEF IInv, TypeOK
<1>4. TypeOK'
  <2>1. pc' \in [Calls -> {"mkdir", "bind", "chmod", "lstat", "rename", "watch",
                           "close", "rmSocket", "rmDir", "ok", "failed", "dead"}]
    BY <1>1 DEF IInv, TypeOK
  <2>2. temp' \in [Calls -> BOOLEAN]
    <3>1. temp \in [Calls -> BOOLEAN]
      BY DEF IInv, TypeOK
    <3>2. temp' = temp \/ temp' = [temp EXCEPT ![i] = TRUE]
      BY <1>1
    <3>3. QED
      BY <3>1, <3>2
  <2>3. sock' \in [Calls -> {"none", "listening", "closed"}]
    BY <1>1 DEF IInv, TypeOK
  <2>4. stuck' \in [Calls -> SUBSET {"bind", "rmSocket", "rmDir"}]
    BY <1>1 DEF IInv, TypeOK
  <2>5. QED
    BY <1>2, <2>1, <2>2, <2>3, <2>4 DEF IInv, TypeOK
<1>5. pc'[i] \in {"chmod", "rmDir"} /\ ~given[i] /\ watch[i] = "none"
  BY <1>1 DEF IInv, TypeOK, OwnerInv
<1>6. ListenInv'
  BY <1>1, <1>2, <1>3, <1>5 DEF IInv, ListenInv
<1>7. LeftInv'
  <2> SUFFICES ASSUME NEW j \in Calls
               PROVE  /\ pc'[j] \in {"rmDir", "ok", "failed"} /\ temp'[j] =>
                           stuck'[j] \cap {"bind", "rmSocket"} # {}
                      /\ pc'[j] \in {"ok", "failed"} /\ dir'[j] => temp'[j] \/ "rmDir" \in stuck'[j]
    BY DEF LeftInv
  <2>1. CASE j = i
    BY <1>1, <1>5, <2>1
  <2>2. CASE j # i
    BY <1>2, <1>3, <2>2 DEF IInv, LeftInv
  <2>3. QED
    BY <2>1, <2>2
<1>8. OwnerInv'
  BY <1>1, <1>2, <1>3, <1>5 DEF IInv, OwnerInv
<1>9. PathInv'
  BY <1>1, <1>2, <1>3, <1>5 DEF IInv, PathInv
<1>10. QED
  BY <1>4, <1>6, <1>7, <1>8, <1>9 DEF IInv

\* The file has its permissions before it can be renamed.
LEMMA ChmodStep ==
  ASSUME IInv, NEW i \in Calls, Chmod(i)
  PROVE  IInv'
<1>1. TypeOK'
  <2>1. pc' \in [Calls -> {"mkdir", "bind", "chmod", "lstat", "rename", "watch",
                           "close", "rmSocket", "rmDir", "ok", "failed", "dead"}]
    BY DEF IInv, TypeOK, Chmod
  <2>2. mode' \in [Calls -> BOOLEAN]
    <3>1. mode \in [Calls -> BOOLEAN]
      BY DEF IInv, TypeOK
    <3>2. QED
      BY <3>1 DEF Chmod
  <2>3. UNCHANGED <<path, dir, temp, stuck, sock, info, given, closing, watch, tick, misled, lstatErrs>>
    BY DEF Chmod, watchVars
  <2>4. QED
    BY <2>1, <2>2, <2>3 DEF IInv, TypeOK
<1>2. ListenInv'
  BY DEF IInv, TypeOK, ListenInv, OwnerInv, Chmod, watchVars
<1>3. OwnerInv'
  BY DEF IInv, TypeOK, ListenInv, OwnerInv, Chmod, watchVars
<1>4. PathInv'
  BY DEF IInv, TypeOK, ListenInv, OwnerInv, PathInv, Chmod, watchVars
<1>5. LeftInv'
  BY DEF IInv, TypeOK, LeftInv, ListenInv, OwnerInv, Chmod, watchVars
<1>6. QED
  BY <1>1, <1>2, <1>3, <1>4, <1>5 DEF IInv

\* fileInfo is that of the socket just bound.
LEMMA LstatStep ==
  ASSUME IInv, NEW i \in Calls, Lstat(i)
  PROVE  IInv'
<1>1. TypeOK'
  <2>1. pc' \in [Calls -> {"mkdir", "bind", "chmod", "lstat", "rename", "watch",
                           "close", "rmSocket", "rmDir", "ok", "failed", "dead"}]
    BY DEF IInv, TypeOK, Lstat
  <2>2. /\ info' \in [Calls -> Calls \cup {None}]
        /\ \A j \in Calls : watch[j] # "none" => info'[j] = j
    BY DEF IInv, TypeOK, Lstat, AtTempPath
  <2>3. UNCHANGED <<path, dir, temp, stuck, mode, sock, given, closing, watch, tick, misled, lstatErrs>>
    BY DEF Lstat, fileVars, watchVars
  <2>4. QED
    BY <2>1, <2>2, <2>3 DEF IInv, TypeOK
<1>2. ListenInv'
  BY DEF IInv, TypeOK, ListenInv, OwnerInv, Lstat, AtTempPath, fileVars, watchVars
<1>3. OwnerInv'
  BY DEF IInv, TypeOK, ListenInv, OwnerInv, Lstat, AtTempPath, fileVars, watchVars
<1>4. PathInv'
  BY DEF IInv, TypeOK, ListenInv, OwnerInv, PathInv, Lstat, AtTempPath, fileVars, watchVars
<1>5. LeftInv'
  BY DEF IInv, TypeOK, LeftInv, ListenInv, OwnerInv, Lstat, AtTempPath, fileVars, watchVars
<1>6. QED
  BY <1>1, <1>2, <1>3, <1>4, <1>5 DEF IInv

\* The file at the path has its permissions and a listening socket, and is no
\* longer in the temporary directory.
LEMMA RenameStep ==
  ASSUME IInv, NEW i \in Calls, Rename(i)
  PROVE  IInv'
<1>1. TypeOK'
  <2>1. path' \in Calls \cup {Other, None}
    BY DEF IInv, TypeOK, Rename
  <2>2. pc' \in [Calls -> {"mkdir", "bind", "chmod", "lstat", "rename", "watch",
                           "close", "rmSocket", "rmDir", "ok", "failed", "dead"}]
    BY DEF IInv, TypeOK, Rename
  <2>3. temp' \in [Calls -> BOOLEAN]
    <3>1. temp \in [Calls -> BOOLEAN]
      BY DEF IInv, TypeOK
    <3>2. QED
      BY <3>1 DEF Rename
  <2>4. UNCHANGED <<dir, stuck, mode, sock, info, given, closing, watch, tick, misled, lstatErrs>>
    BY DEF Rename, watchVars
  <2>5. QED
    BY <2>1, <2>2, <2>3, <2>4 DEF IInv, TypeOK
<1>2. ListenInv'
  BY DEF IInv, TypeOK, ListenInv, OwnerInv, Rename, watchVars
<1>3. OwnerInv'
  BY DEF IInv, TypeOK, ListenInv, OwnerInv, Rename, watchVars
<1>4. PathInv'
  BY DEF IInv, TypeOK, ListenInv, OwnerInv, PathInv, Rename, watchVars
<1>5. LeftInv'
  BY DEF IInv, TypeOK, LeftInv, ListenInv, OwnerInv, Rename, watchVars
<1>6. QED
  BY <1>1, <1>2, <1>3, <1>4, <1>5 DEF IInv

\* The socket passes from Listen to watch.
LEMMA StartWatchStep ==
  ASSUME IInv, NEW i \in Calls, StartWatch(i)
  PROVE  IInv'
<1>1. TypeOK'
  <2>1. info[i] = i
    BY DEF IInv, ListenInv, StartWatch
  <2>2. info' = info
    BY DEF IInv, TypeOK, StartWatch, Watched
  <2>3. QED
    BY <2>1, <2>2 DEF IInv, TypeOK, StartWatch, fileVars
<1>2. ListenInv'
  BY DEF IInv, TypeOK, ListenInv, OwnerInv, StartWatch, Watched, fileVars
<1>3. OwnerInv'
  BY DEF IInv, TypeOK, ListenInv, OwnerInv, StartWatch, Watched, fileVars
<1>4. PathInv'
  BY DEF IInv, TypeOK, ListenInv, OwnerInv, PathInv, StartWatch, Watched, fileVars
<1>5. LeftInv'
  BY DEF IInv, TypeOK, LeftInv, ListenInv, OwnerInv, StartWatch, Watched, fileVars
<1>6. QED
  BY <1>1, <1>2, <1>3, <1>4, <1>5 DEF IInv

\* Listen closes the socket only if it has not passed it on, and then its
\* file is not at the path.
LEMMA CloseTempStep ==
  ASSUME IInv, NEW i \in Calls, CloseTemp(i)
  PROVE  IInv'
<1>1. TypeOK'
  BY DEF IInv, TypeOK, CloseTemp, AfterClose, ToClose, PathAfterClose, watchVars
<1>2. ListenInv'
  BY DEF IInv, TypeOK, ListenInv, OwnerInv, CloseTemp, AfterClose, ToClose, PathAfterClose, watchVars
<1>3. OwnerInv'
  BY DEF IInv, TypeOK, ListenInv, OwnerInv, CloseTemp, AfterClose, ToClose, PathAfterClose, watchVars
<1>4. PathInv'
  BY DEF IInv, TypeOK, ListenInv, OwnerInv, PathInv, CloseTemp, AfterClose, ToClose, PathAfterClose, watchVars
<1>5. LeftInv'
  BY DEF IInv, TypeOK, LeftInv, ListenInv, OwnerInv, CloseTemp, AfterClose, ToClose, PathAfterClose, watchVars
<1>6. QED
  BY <1>1, <1>2, <1>3, <1>4, <1>5 DEF IInv

\* The socket file goes, or stays because it could not be removed.
LEMMA RemoveSocketStep ==
  ASSUME IInv, NEW i \in Calls, RemoveSocket(i)
  PROVE  IInv'
<1>1. TypeOK'
  <2>1. stuck' \in [Calls -> SUBSET {"bind", "rmSocket", "rmDir"}]
    <3>1. stuck \in [Calls -> SUBSET {"bind", "rmSocket", "rmDir"}]
      BY DEF IInv, TypeOK
    <3>2. QED
      BY <3>1 DEF RemoveSocket, Stuck
  <2>2. temp' \in [Calls -> BOOLEAN]
    <3>1. temp \in [Calls -> BOOLEAN]
      BY DEF IInv, TypeOK
    <3>2. QED
      BY <3>1 DEF RemoveSocket
  <2>3. QED
    BY <2>1, <2>2 DEF IInv, TypeOK, RemoveSocket, watchVars
<1>2. ListenInv'
  BY DEF IInv, TypeOK, ListenInv, OwnerInv, RemoveSocket, watchVars
<1>3. OwnerInv'
  BY DEF IInv, TypeOK, ListenInv, OwnerInv, RemoveSocket, watchVars
<1>4. PathInv'
  BY DEF IInv, TypeOK, ListenInv, OwnerInv, PathInv, RemoveSocket, watchVars
<1>5. LeftInv'
  BY DEF IInv, TypeOK, LeftInv, ListenInv, OwnerInv, RemoveSocket, Stuck, watchVars
<1>6. QED
  BY <1>1, <1>2, <1>3, <1>4, <1>5 DEF IInv

\* The directory goes, or stays with the socket file or because it could not
\* be removed.
LEMMA RemoveDirStep ==
  ASSUME IInv, NEW i \in Calls, RemoveDir(i)
  PROVE  IInv'
<1>1. TypeOK'
  <2>1. stuck' \in [Calls -> SUBSET {"bind", "rmSocket", "rmDir"}]
    <3>1. stuck \in [Calls -> SUBSET {"bind", "rmSocket", "rmDir"}]
      BY DEF IInv, TypeOK
    <3>2. QED
      BY <3>1 DEF RemoveDir, Stuck
  <2>2. dir' \in [Calls -> BOOLEAN]
    <3>1. dir \in [Calls -> BOOLEAN] /\ temp \in [Calls -> BOOLEAN]
      BY DEF IInv, TypeOK
    <3>2. QED
      BY <3>1 DEF RemoveDir
  <2>3. QED
    BY <2>1, <2>2 DEF IInv, TypeOK, RemoveDir, watchVars
<1>2. ListenInv'
  BY DEF IInv, TypeOK, ListenInv, OwnerInv, RemoveDir, watchVars
<1>3. OwnerInv'
  BY DEF IInv, TypeOK, ListenInv, OwnerInv, RemoveDir, watchVars
<1>4. PathInv'
  BY DEF IInv, TypeOK, ListenInv, OwnerInv, PathInv, RemoveDir, watchVars
<1>5. LeftInv'
  BY DEF IInv, TypeOK, LeftInv, ListenInv, OwnerInv, RemoveDir, Stuck, watchVars
<1>6. QED
  BY <1>1, <1>2, <1>3, <1>4, <1>5 DEF IInv
-----------------------------------------------------------------------------
(* Close, watch, and the rest of the world.                                *)

\* The caller has said that it closes.
LEMMA CloseCallStep ==
  ASSUME IInv, NEW i \in Calls, CloseCall(i)
  PROVE  IInv'
<1>1. TypeOK'
  BY DEF IInv, TypeOK, CloseCall, fileVars, watchVars
<1>2. ListenInv'
  BY DEF IInv, TypeOK, ListenInv, OwnerInv, CloseCall, fileVars, watchVars
<1>3. OwnerInv'
  BY DEF IInv, TypeOK, ListenInv, OwnerInv, CloseCall, fileVars, watchVars
<1>4. PathInv'
  BY DEF IInv, TypeOK, ListenInv, OwnerInv, PathInv, CloseCall, fileVars, watchVars
<1>5. LeftInv'
  BY DEF IInv, TypeOK, LeftInv, ListenInv, OwnerInv, CloseCall, fileVars, watchVars
<1>6. QED
  BY <1>1, <1>2, <1>3, <1>4, <1>5 DEF IInv

\* The socket is closed after that.
LEMMA CloseInnerStep ==
  ASSUME IInv, NEW i \in Calls, CloseInner(i)
  PROVE  IInv'
<1>1. TypeOK'
  BY DEF IInv, TypeOK, CloseInner, PathAfterClose, watchVars
<1>2. ListenInv'
  BY DEF IInv, TypeOK, ListenInv, OwnerInv, CloseInner, PathAfterClose, watchVars
<1>3. OwnerInv'
  BY DEF IInv, TypeOK, ListenInv, OwnerInv, CloseInner, PathAfterClose, watchVars
<1>4. PathInv'
  BY DEF IInv, TypeOK, ListenInv, OwnerInv, PathInv, CloseInner, PathAfterClose, watchVars
<1>5. LeftInv'
  BY DEF IInv, TypeOK, LeftInv, ListenInv, OwnerInv, CloseInner, PathAfterClose, watchVars
<1>6. QED
  BY <1>1, <1>2, <1>3, <1>4, <1>5 DEF IInv

\* A tick says nothing.
LEMMA TickStep ==
  ASSUME IInv, NEW i \in Calls, Tick(i)
  PROVE  IInv'
<1>1. TypeOK'
  BY DEF IInv, TypeOK, Tick, fileVars
<1>2. ListenInv'
  BY DEF IInv, TypeOK, ListenInv, OwnerInv, Tick, fileVars
<1>3. OwnerInv'
  BY DEF IInv, TypeOK, ListenInv, OwnerInv, Tick, fileVars
<1>4. PathInv'
  BY DEF IInv, TypeOK, ListenInv, OwnerInv, PathInv, Tick, fileVars
<1>5. LeftInv'
  BY DEF IInv, TypeOK, LeftInv, ListenInv, OwnerInv, Tick, fileVars
<1>6. QED
  BY <1>1, <1>2, <1>3, <1>4, <1>5 DEF IInv

\* watch ends without touching the socket.
LEMMA WatchClosedStep ==
  ASSUME IInv, NEW i \in Calls, WatchClosed(i)
  PROVE  IInv'
<1>1. TypeOK'
  BY DEF IInv, TypeOK, WatchClosed, fileVars, Stopped
<1>2. ListenInv'
  BY DEF IInv, TypeOK, ListenInv, OwnerInv, WatchClosed, fileVars, Stopped
<1>3. OwnerInv'
  BY DEF IInv, TypeOK, ListenInv, OwnerInv, WatchClosed, fileVars, Stopped
<1>4. PathInv'
  BY DEF IInv, TypeOK, ListenInv, OwnerInv, PathInv, WatchClosed, fileVars, Stopped
<1>5. LeftInv'
  BY DEF IInv, TypeOK, LeftInv, ListenInv, OwnerInv, WatchClosed, fileVars, Stopped
<1>6. QED
  BY <1>1, <1>2, <1>3, <1>4, <1>5 DEF IInv

\* watch stops only if another file is at the path.
LEMMA WatchCheckStep ==
  ASSUME IInv, NEW i \in Calls, WatchCheck(i)
  PROVE  IInv'
<1>1. TypeOK'
  BY DEF IInv, TypeOK, WatchCheck, fileVars
<1>2. ListenInv'
  BY DEF IInv, TypeOK, ListenInv, OwnerInv, WatchCheck, fileVars
<1>3. OwnerInv'
  BY DEF IInv, TypeOK, ListenInv, OwnerInv, WatchCheck, fileVars
<1>4. PathInv'
  BY DEF IInv, TypeOK, ListenInv, OwnerInv, PathInv, WatchCheck, fileVars
<1>5. LeftInv'
  BY DEF IInv, TypeOK, LeftInv, ListenInv, OwnerInv, WatchCheck, fileVars
<1>6. QED
  BY <1>1, <1>2, <1>3, <1>4, <1>5 DEF IInv

\* Or if it could not look.
LEMMA WatchErrorStep ==
  ASSUME IInv, NEW i \in Calls, WatchError(i)
  PROVE  IInv'
<1>1. TypeOK'
  <2>1. lstatErrs' \in 0..MaxLstatErrors
    BY UnixListenerAssumption DEF IInv, TypeOK, WatchError
  <2>2. QED
    BY <2>1 DEF IInv, TypeOK, WatchError, fileVars
<1>2. ListenInv'
  BY DEF IInv, TypeOK, ListenInv, OwnerInv, WatchError, fileVars
<1>3. OwnerInv'
  BY DEF IInv, TypeOK, ListenInv, OwnerInv, WatchError, fileVars
<1>4. PathInv'
  BY DEF IInv, TypeOK, ListenInv, OwnerInv, PathInv, WatchError, fileVars
<1>5. LeftInv'
  BY DEF IInv, TypeOK, LeftInv, ListenInv, OwnerInv, WatchError, fileVars
<1>6. QED
  BY <1>1, <1>2, <1>3, <1>4, <1>5 DEF IInv

\* By then no file of this call comes to the path any more.
LEMMA WatchStopStep ==
  ASSUME IInv, NEW i \in Calls, WatchStop(i)
  PROVE  IInv'
<1>1. TypeOK'
  BY DEF IInv, TypeOK, WatchStop, PathAfterClose
<1>2. ListenInv'
  <2>1. pc[i] \in {"close", "rmSocket", "rmDir", "ok", "dead"}
    BY DEF IInv, OwnerInv, WatchStop
  <2>2. QED
    BY <2>1 DEF IInv, TypeOK, ListenInv, WatchStop
<1>3. OwnerInv'
  BY DEF IInv, TypeOK, ListenInv, OwnerInv, WatchStop, PathAfterClose
<1>4. PathInv'
  BY DEF IInv, TypeOK, ListenInv, OwnerInv, PathInv, WatchStop, PathAfterClose
<1>5. LeftInv'
  BY DEF IInv, TypeOK, LeftInv, ListenInv, OwnerInv, WatchStop
<1>6. QED
  BY <1>1, <1>2, <1>3, <1>4, <1>5 DEF IInv

\* A crash is one of the reasons that PathReachable admits.
LEMMA CrashStep ==
  ASSUME IInv, NEW i \in Calls, Crash(i)
  PROVE  IInv'
<1>1. TypeOK'
  BY DEF IInv, TypeOK, Crash, fileVars
<1>2. ListenInv'
  BY DEF IInv, TypeOK, ListenInv, OwnerInv, Crash, fileVars
<1>3. OwnerInv'
  BY DEF IInv, TypeOK, ListenInv, OwnerInv, Crash, fileVars
<1>4. PathInv'
  BY DEF IInv, TypeOK, ListenInv, OwnerInv, PathInv, Crash, fileVars
<1>5. LeftInv'
  BY DEF IInv, TypeOK, LeftInv, ListenInv, OwnerInv, Crash, fileVars
<1>6. QED
  BY <1>1, <1>2, <1>3, <1>4, <1>5 DEF IInv

\* No outsider puts a socket of Listen at the path.
LEMMA DisturbStep ==
  ASSUME IInv, Disturb
  PROVE  IInv'
<1>1. TypeOK'
  BY DEF IInv, TypeOK, Disturb, watchVars
<1>2. ListenInv' /\ LeftInv' /\ OwnerInv'
  BY DEF IInv, ListenInv, LeftInv, OwnerInv, Disturb, watchVars
<1>3. PathInv'
  BY UnixListenerAssumption DEF IInv, PathInv, Disturb, watchVars
<1>4. QED
  BY <1>1, <1>2, <1>3 DEF IInv
-----------------------------------------------------------------------------
(* The theorems.                                                           *)

\* Nothing has been made, and no file of a call is at the path.
LEMMA InitIInv == Init => IInv
<1> SUFFICES ASSUME Init
             PROVE  IInv
  OBVIOUS
<1>1. TypeOK
  <2>1. lstatErrs \in 0..MaxLstatErrors
    BY UnixListenerAssumption DEF Init
  <2>2. QED
    BY <2>1 DEF Init, TypeOK
<1>2. ListenInv /\ LeftInv /\ OwnerInv
  BY DEF Init, ListenInv, LeftInv, OwnerInv
<1>3. PathInv
  BY UnixListenerAssumption DEF Init, PathInv
<1>4. QED
  BY <1>1, <1>2, <1>3 DEF IInv

\* Every step of every process preserves the invariant.
LEMMA NextIInv == IInv /\ [Next]_vars => IInv'
<1> SUFFICES ASSUME IInv, [Next]_vars
             PROVE  IInv'
  OBVIOUS
<1>1. CASE Environment
  <2>1. CASE Disturb
    BY <2>1, DisturbStep
  <2>2. CASE \E i \in Calls : MkdirTemp(i) \/ CloseCall(i) \/ WatchError(i) \/ Crash(i)
    BY <2>2, MkdirTempStep, CloseCallStep, WatchErrorStep, CrashStep
  <2>3. QED
    BY <1>1, <2>1, <2>2 DEF Environment
<1>2. ASSUME NEW i \in Calls, ListenStep(i)
      PROVE  IInv'
  BY <1>2, BindStep, ChmodStep, LstatStep, RenameStep, StartWatchStep, CloseTempStep,
     RemoveSocketStep, RemoveDirStep DEF ListenStep
<1>3. CASE \E i \in Calls : CloseInner(i) \/ Tick(i) \/ WatchClosed(i) \/ WatchCheck(i) \/ WatchStop(i)
  BY <1>3, CloseInnerStep, TickStep, WatchClosedStep, WatchCheckStep, WatchStopStep
<1>4. CASE UNCHANGED vars
  BY <1>4 DEF vars, IInv, TypeOK, ListenInv, LeftInv, OwnerInv, PathInv
<1>5. QED
  BY <1>1, <1>2, <1>3, <1>4 DEF Next

\* The strengthened invariant holds in every reachable state.
THEOREM Invariance == Spec => []IInv
<1>1. QED
  BY InitIInv, NextIInv, PTL DEF Spec

\* Every variable keeps its type, and watch never runs without the identity
\* of the file of its own socket (unix/listener.go:103-119).
THEOREM TypeCorrect == Spec => []TypeOK
<1>1. IInv => TypeOK
  BY DEF IInv
<1>2. QED
  BY <1>1, Invariance, PTL

\* Who opens the path while it names a socket finds a listener behind it with
\* the requested permissions, however many processes replace each other, unless
\* its owner crashed, closed it or could not look at the path
\* (unix/listener.go:62-77, 95-119).
THEOREM PathStaysReachable == Spec => []PathReachable
<1>1. IInv => PathReachable
  BY DEF IInv, PathInv, PathReachable
<1>2. QED
  BY <1>1, Invariance, PTL

\* However Listen fails, an error means a closed socket, and a temporary file
\* stays only where no deferred function could remove it: after a failure of
\* ListenUnix behind bind(2), or because os.Remove failed
\* (unix/listener.go:88-101).
THEOREM CleansUp == Spec => []CleanedUp
<1>1. IInv => CleanedUp
  BY DEF IInv, ListenInv, LeftInv, OwnerInv, CleanedUp
<1>2. QED
  BY <1>1, Invariance, PTL

\* The library changes the path only to a socket that listens; closing never
\* removes the file of a successor (unix/listener.go:95, 112).
THEOREM PathOnlyReplaced == Spec => ReplaceOnly
<1>1. ASSUME IInv, [Next]_vars, path' # path, ~Disturb
      PROVE  path' \in Calls /\ sock[path'] = "listening"
  <2>1. PICK i \in Calls : Rename(i)
    BY <1>1 DEF Next, Environment, MkdirTemp, CloseCall, WatchError, Crash, ListenStep, Bind,
           Chmod, Lstat, StartWatch, CloseTemp, RemoveSocket, RemoveDir, CloseInner, Tick,
           WatchClosed, WatchCheck, WatchStop, PathAfterClose, fileVars, vars
  <2>2. path' = i /\ sock[i] = "listening"
    BY <1>1, <2>1 DEF Rename, IInv, ListenInv
  <2>3. QED
    BY <2>2
<1>2. IInv /\ [Next]_vars =>
        [path' # path =>
           \/ Disturb
           \/ path' \in Calls /\ sock[path'] = "listening"]_vars
  BY <1>1
<1>3. QED
  BY <1>2, Invariance, PTL DEF Spec, ReplaceOnly
=============================================================================
