----------------------------- MODULE UnixListener -----------------------------
(***************************************************************************)
(* unix/listener.go: several processes, each in one call of Listen, put    *)
(* their socket at the same path, as a server and its successors do.       *)
(*                                                                         *)
(* Listen binds the socket in a temporary directory of its own, renames it *)
(* to the path, and starts the goroutine watch, which every five seconds   *)
(* compares the file at the path with the one it bound.  A file is         *)
(* identified (os.SameFile) by the call that made it: its inode number     *)
(* cannot be given to another file while the socket bound to it is open.   *)
(***************************************************************************)
EXTENDS Naturals

CONSTANTS
  Calls,          \* calls of Listen, each in a process of its own
  Other,          \* a file at the path that no call of Listen made
  None,           \* no file
  MaxLstatErrors  \* bound: Lstat calls of watch that fail while the file is there

ASSUME UnixListenerAssumption ==
  /\ MaxLstatErrors \in Nat
  /\ Other \notin Calls /\ None \notin Calls /\ Other # None

VARIABLES
  path,     \* the file at the path: a call's socket, Other or None
  pc,       \* where each call of Listen is; "dead": its process has crashed
  dir,      \* does its temporary directory exist?
  temp,     \* is its socket file still in that directory?
  stuck,    \* history: those of its steps that failed and left something there
  mode,     \* has its socket file the requested permissions?
  sock,     \* its socket
  info,     \* the file its fileInfo identifies
  given,    \* has tempListener become the watchedListener (is it nil)?
  closing,  \* the caller's Close; wl.closed is closed unless it is "none"
  watch,    \* where its goroutine watch is
  tick,     \* does ticker.C hold a tick?
  misled,   \* has watch mistaken a failing Lstat for a change?
  lstatErrs \* how often (bounded)

vars == <<path, pc, dir, temp, stuck, mode, sock, info, given, closing, watch, tick,
          misled, lstatErrs>>
fileVars == <<path, dir, temp, stuck, mode>>
watchVars == <<watch, tick, misled, lstatErrs>>

TypeOK ==
  /\ path \in Calls \cup {Other, None}
  /\ pc \in [Calls -> {"mkdir", "bind", "chmod", "lstat", "rename", "watch",
                       "close", "rmSocket", "rmDir", "ok", "failed", "dead"}]
  /\ dir \in [Calls -> BOOLEAN]
  /\ temp \in [Calls -> BOOLEAN]
  /\ stuck \in [Calls -> SUBSET {"bind", "rmSocket", "rmDir"}]
  /\ mode \in [Calls -> BOOLEAN]
  /\ sock \in [Calls -> {"none", "listening", "closed"}]
  /\ info \in [Calls -> Calls \cup {None}]
  /\ given \in [Calls -> BOOLEAN]
  /\ closing \in [Calls -> {"none", "inner", "returned"}]
  /\ watch \in [Calls -> {"none", "select", "stop", "done"}]
  /\ tick \in [Calls -> BOOLEAN]
  /\ misled \in [Calls -> BOOLEAN]
  /\ lstatErrs \in 0..MaxLstatErrors
  \* watch never runs without knowing the file of its own socket.
  /\ \A i \in Calls : watch[i] # "none" => info[i] = i

Init ==
  /\ path \in {Other, None}
  /\ pc = [i \in Calls |-> "mkdir"]
  /\ dir = [i \in Calls |-> FALSE]
  /\ temp = [i \in Calls |-> FALSE]
  /\ stuck = [i \in Calls |-> {}]
  /\ mode = [i \in Calls |-> FALSE]
  /\ sock = [i \in Calls |-> "none"]
  /\ info = [i \in Calls |-> None]
  /\ given = [i \in Calls |-> FALSE]
  /\ closing = [i \in Calls |-> "none"]
  /\ watch = [i \in Calls |-> "none"]
  /\ tick = [i \in Calls |-> FALSE]
  /\ misled = [i \in Calls |-> FALSE]
  /\ lstatErrs = 0
-----------------------------------------------------------------------------
(* Faulty variants of definitions below, each a plausible slip in the      *)
(* code.  No action uses them: putting one in the place of the definition  *)
(* it is a variant of shows that a property can fail.                      *)

\* fileInfo is taken from path instead of tempPath.
AtTempPath_FinalPath(i) == path

\* watch looks up the file it is to watch when it starts.
Watched_LookedUp(i) == path

\* Listen does not set tempListener to nil when it hands the socket over.
ToClose_Always(i) == TRUE

\* The deferred functions run in the order in which they are written.
AfterClose_InOrder == "rmDir"

\* Closing a socket removes the file at the path, as servers do that bind
\* their sockets there.
PathAfterClose_Unlinked(i) == None

\* watch has no case <-wl.closed.
Stopped_NotSeen(i) == FALSE
-----------------------------------------------------------------------------
(* Listen.  A step that fails runs the deferred functions that have been   *)
(* registered by then, last one first.                                     *)

\* defer os.Remove(tempDir) is registered after this.
MkdirTemp(i) ==
  /\ pc[i] = "mkdir"
  /\ \/ /\ dir' = [dir EXCEPT ![i] = TRUE]
        /\ pc' = [pc EXCEPT ![i] = "bind"]
     \/ /\ pc' = [pc EXCEPT ![i] = "failed"]
        /\ UNCHANGED dir
  /\ UNCHANGED <<path, temp, stuck, mode, sock, info, given, closing, watchVars>>

\* Step i of Listen fails, and a file stays that it has made or was to remove.
Stuck(i) == stuck' = [stuck EXCEPT ![i] = @ \cup {pc[i]}]

\* net.ListenUnix; then defer os.Remove(tempPath) and defer closing the
\* socket.  It makes the file, bind(2), before it listens: a failure after
\* that closes the socket and leaves the file, which no deferred function is
\* there to remove.
Bind(i) ==
  /\ pc[i] = "bind"
  /\ \/ /\ temp' = [temp EXCEPT ![i] = TRUE]
        /\ sock' = [sock EXCEPT ![i] = "listening"]
        /\ pc' = [pc EXCEPT ![i] = "chmod"]
        /\ UNCHANGED stuck
     \/ /\ temp' = [temp EXCEPT ![i] = TRUE]
        /\ sock' = [sock EXCEPT ![i] = "closed"]
        /\ pc' = [pc EXCEPT ![i] = "rmDir"]
        /\ Stuck(i)
     \/ /\ pc' = [pc EXCEPT ![i] = "rmDir"]
        /\ UNCHANGED <<temp, sock, stuck>>
  /\ UNCHANGED <<path, dir, mode, info, given, closing, watchVars>>

Chmod(i) ==
  /\ pc[i] = "chmod"
  /\ \/ /\ mode' = [mode EXCEPT ![i] = TRUE]
        /\ pc' = [pc EXCEPT ![i] = "lstat"]
     \/ /\ pc' = [pc EXCEPT ![i] = "close"]
        /\ UNCHANGED mode
  /\ UNCHANGED <<path, dir, temp, stuck, sock, info, given, closing, watchVars>>

\* The file that os.Lstat(tempPath) describes.
AtTempPath(i) == i

Lstat(i) ==
  /\ pc[i] = "lstat"
  /\ \/ /\ info' = [info EXCEPT ![i] = AtTempPath(i)]
        /\ pc' = [pc EXCEPT ![i] = "rename"]
     \/ /\ pc' = [pc EXCEPT ![i] = "close"]
        /\ UNCHANGED info
  /\ UNCHANGED <<fileVars, sock, given, closing, watchVars>>

\* rename(2) replaces whatever file is at the path.
Rename(i) ==
  /\ pc[i] = "rename"
  /\ \/ /\ path' = i
        /\ temp' = [temp EXCEPT ![i] = FALSE]
        /\ pc' = [pc EXCEPT ![i] = "watch"]
     \/ /\ pc' = [pc EXCEPT ![i] = "close"]
        /\ UNCHANGED <<path, temp>>
  /\ UNCHANGED <<dir, stuck, mode, sock, info, given, closing, watchVars>>

\* The fileInfo that watch is started with.
Watched(i) == info[i]

\* tempListener = nil; go listener.watch(path, fileInfo).
StartWatch(i) ==
  /\ pc[i] = "watch"
  /\ given' = [given EXCEPT ![i] = TRUE]
  /\ info' = [info EXCEPT ![i] = Watched(i)]
  /\ watch' = [watch EXCEPT ![i] = "select"]
  /\ pc' = [pc EXCEPT ![i] = "close"]
  /\ UNCHANGED <<fileVars, sock, closing, tick, misled, lstatErrs>>

\* if tempListener != nil { tempListener.Close() }
ToClose(i) == ~given[i]

AfterClose == "rmSocket"

\* SetUnlinkOnClose(false): closing the socket leaves the path alone.
PathAfterClose(i) == path

CloseTemp(i) ==
  /\ pc[i] = "close"
  /\ pc' = [pc EXCEPT ![i] = AfterClose]
  /\ IF ToClose(i)
     THEN sock' = [sock EXCEPT ![i] = "closed"] /\ path' = PathAfterClose(i)
     ELSE UNCHANGED <<sock, path>>
  /\ UNCHANGED <<dir, temp, stuck, mode, info, given, closing, watchVars>>

\* os.Remove(tempPath), which fails harmlessly after the rename, and may fail
\* with the file there.
RemoveSocket(i) ==
  /\ pc[i] = "rmSocket"
  /\ \/ /\ temp' = [temp EXCEPT ![i] = FALSE]
        /\ UNCHANGED stuck
     \/ /\ temp[i]
        /\ Stuck(i)
        /\ UNCHANGED temp
  /\ pc' = [pc EXCEPT ![i] = "rmDir"]
  /\ UNCHANGED <<path, dir, mode, sock, info, given, closing, watchVars>>

\* os.Remove(tempDir), which fails if the directory is not empty, and may
\* fail if it is.
RemoveDir(i) ==
  /\ pc[i] = "rmDir"
  /\ \/ /\ dir' = [dir EXCEPT ![i] = temp[i]]
        /\ UNCHANGED stuck
     \/ /\ ~temp[i]
        /\ Stuck(i)
        /\ UNCHANGED dir
  /\ pc' = [pc EXCEPT ![i] = IF given[i] THEN "ok" ELSE "failed"]
  /\ UNCHANGED <<path, temp, mode, sock, info, given, closing, watchVars>>
-----------------------------------------------------------------------------
(* watchedListener.Close, called once by whoever called Listen.            *)

\* close(wl.closed)
CloseCall(i) ==
  /\ pc[i] = "ok" /\ closing[i] = "none"
  /\ closing' = [closing EXCEPT ![i] = "inner"]
  /\ UNCHANGED <<fileVars, pc, sock, info, given, watchVars>>

\* wl.listener.Close()
CloseInner(i) ==
  /\ pc[i] = "ok" /\ closing[i] = "inner"
  /\ closing' = [closing EXCEPT ![i] = "returned"]
  /\ sock' = [sock EXCEPT ![i] = "closed"]
  /\ path' = PathAfterClose(i)
  /\ UNCHANGED <<dir, temp, stuck, mode, pc, info, given, watchVars>>
-----------------------------------------------------------------------------
(* watch.                                                                  *)

\* Five seconds have passed.  The channel holds one tick; more are dropped.
Tick(i) ==
  /\ watch[i] \in {"select", "stop"} /\ ~tick[i]
  /\ tick' = [tick EXCEPT ![i] = TRUE]
  /\ UNCHANGED <<fileVars, pc, sock, info, given, closing, watch, misled, lstatErrs>>

Stopped(i) == closing[i] # "none"

\* The select takes the case <-wl.closed.
WatchClosed(i) ==
  /\ watch[i] = "select" /\ Stopped(i)
  /\ watch' = [watch EXCEPT ![i] = "done"]
  /\ UNCHANGED <<fileVars, pc, sock, info, given, closing, tick, misled, lstatErrs>>

\* It takes the tick: is the file at the path still the one that was bound?
WatchCheck(i) ==
  /\ watch[i] = "select" /\ tick[i]
  /\ tick' = [tick EXCEPT ![i] = FALSE]
  /\ watch' = [watch EXCEPT ![i] = IF path = info[i] THEN "select" ELSE "stop"]
  /\ UNCHANGED <<fileVars, pc, sock, info, given, closing, misled, lstatErrs>>

\* Lstat fails for another reason than that the file is gone.
WatchError(i) ==
  /\ watch[i] = "select" /\ tick[i] /\ lstatErrs < MaxLstatErrors
  /\ tick' = [tick EXCEPT ![i] = FALSE]
  /\ watch' = [watch EXCEPT ![i] = "stop"]
  /\ misled' = [misled EXCEPT ![i] = TRUE]
  /\ lstatErrs' = lstatErrs + 1
  /\ UNCHANGED <<fileVars, pc, sock, info, given, closing>>

\* wl.listener.Close(), possibly after the caller's Close did the same.
WatchStop(i) ==
  /\ watch[i] = "stop"
  /\ watch' = [watch EXCEPT ![i] = "done"]
  /\ sock' = [sock EXCEPT ![i] = "closed"]
  /\ path' = PathAfterClose(i)
  /\ UNCHANGED <<dir, temp, stuck, mode, pc, info, given, closing, tick, misled, lstatErrs>>
-----------------------------------------------------------------------------
(* The rest of the world.                                                  *)

\* Somebody removes the file at the path or puts another one there.
Disturb ==
  /\ path' \in {Other, None} \ {path}
  /\ UNCHANGED <<pc, dir, temp, stuck, mode, sock, info, given, closing, watchVars>>

\* The process of call i ends without notice: the kernel closes its socket,
\* and the files stay.
Crash(i) ==
  /\ pc[i] \notin {"mkdir", "dead"}
  /\ pc' = [pc EXCEPT ![i] = "dead"]
  /\ sock' = [sock EXCEPT ![i] = IF @ = "listening" THEN "closed" ELSE @]
  /\ watch' = [watch EXCEPT ![i] = IF @ = "none" THEN @ ELSE "done"]
  /\ UNCHANGED <<fileVars, info, given, closing, tick, misled, lstatErrs>>
-----------------------------------------------------------------------------
ListenStep(i) ==
  \/ Bind(i)
  \/ Chmod(i)
  \/ Lstat(i)
  \/ Rename(i)
  \/ StartWatch(i)
  \/ CloseTemp(i)
  \/ RemoveSocket(i)
  \/ RemoveDir(i)

Environment ==
  \/ Disturb
  \/ \E i \in Calls : MkdirTemp(i) \/ CloseCall(i) \/ WatchError(i) \/ Crash(i)

Next ==
  \/ Environment
  \/ \E i \in Calls :
       ListenStep(i) \/ CloseInner(i) \/ Tick(i) \/ WatchClosed(i) \/ WatchCheck(i) \/ WatchStop(i)

Spec == Init /\ [][Next]_vars

\* Calls that have started go on, time passes, and the goroutine watch runs.
\* Its select chooses at random among the cases that are ready, so a closed
\* wl.closed that is ready again and again is taken: strong fairness.
Fairness ==
  \A i \in Calls :
    /\ WF_vars(ListenStep(i))
    /\ WF_vars(CloseInner(i))
    /\ WF_vars(Tick(i))
    /\ WF_vars(WatchCheck(i))
    /\ WF_vars(WatchStop(i))
    /\ SF_vars(WatchClosed(i))

LiveSpec == Spec /\ Fairness
-----------------------------------------------------------------------------
(* Properties.                                                             *)

\* A client that opens the path while it names a socket finds one with the
\* requested permissions and with a listener behind it, however many calls
\* of Listen replace each other, unless the process that made it crashed,
\* closed it, or could not look at the path (unix/listener.go:95-119, 62-77).
PathReachable ==
  path \in Calls =>
    /\ mode[path]
    /\ \/ sock[path] = "listening"
       \/ pc[path] = "dead" \/ closing[path] # "none" \/ misled[path]

\* Whatever steps of Listen fail, in whatever combination, an error means a
\* closed socket, and what stays of the temporary files is what no deferred
\* function could remove: the socket file if ListenUnix failed after bind(2)
\* or its removal failed, which never is the case after success; the
\* directory if it is not empty or its own removal failed
\* (unix/listener.go:88-101).
CleanedUp ==
  \A i \in Calls :
    /\ pc[i] = "failed" => sock[i] # "listening"
    /\ pc[i] = "ok" => ~temp[i]
    /\ pc[i] \in {"ok", "failed"} =>
         /\ temp[i] => stuck[i] \cap {"bind", "rmSocket"} # {}
         /\ dir[i] => temp[i] \/ "rmDir" \in stuck[i]

\* The library changes the path only by putting a listening socket there: at
\* no moment is it empty while a socket is replaced, and a process that
\* fails or closes does not remove its successor's socket
\* (unix/listener.go:95, 112).
ReplaceOnly ==
  [][path' # path =>
       \/ Disturb
       \/ path' \in Calls /\ sock[path'] = "listening"]_vars

\* "If the UNIX domain socket file is removed or changed, then ... the
\* net.Listener will be closed" (unix/listener.go:80-82), also if it happens
\* before watch has started.
SupersededCloses ==
  \A i \in Calls :
    pc[i] \notin {"mkdir", "bind", "chmod", "lstat", "rename"} /\ path # i ~> sock[i] # "listening"

\* Close ends the goroutine watch (unix/listener.go:53-68).
WatchEnds ==
  \A i \in Calls : closing[i] # "none" ~> [](watch[i] = "done")
=============================================================================
