------------------------------- MODULE FileCache -------------------------------
(***************************************************************************)
(* The cache of certificate files of cert/cache.go, shared by all          *)
(* GetCertificateFuncs of the program (cert/globalcache.go).               *)
(*                                                                         *)
(* Processes: goroutines in a TLS handshake, each in a call of Load        *)
(* (loader); the goroutine that calls Clean; and whoever changes the       *)
(* files.  get, add and Clean hold the mutex from beginning to end, so     *)
(* each is one step.  A change of a file is atomic, as by rename: a file   *)
(* that is rewritten in place goes through several changes, some of them   *)
(* to a content that LoadCertificate does not accept.                      *)
(***************************************************************************)
EXTENDS Naturals

CONSTANTS
  Files,      \* names of files
  Loaders,    \* goroutines that call Load
  Certs,      \* contents of files that LoadCertificate accepts
  Broken,     \* a content that it does not accept
  Missing,    \* no such file
  None,       \* no entry, no value
  CoarseTime, \* may two changes of a file give it the same modification time?
  MaxTime     \* bound: changes of files in total

ASSUME FileCacheAssumption ==
  /\ MaxTime \in Nat
  /\ CoarseTime \in BOOLEAN
  /\ {Broken, Missing, None} \cap Certs = {}
  /\ Broken # Missing /\ Broken # None /\ Missing # None

Contents == Certs \cup {Broken, Missing}

VARIABLES
  content,  \* what each file contains
  modTime,  \* its modification time
  now,      \* the clock that modification times are taken from
  changes,  \* changes so far (bounded)
  expired,  \* the certificates whose NotAfter has passed
  certs,    \* c.certs: the certificate cached for each filename, or None
  cachedAt, \* and the modTime of its entry
  pc,       \* where each loader is
  filename, \* the argument of its call of Load
  statTime, \* its local variable modTime
  cert,     \* its local variable cert
  result,   \* what its latest call returned: a certificate, or why it failed
  seen      \* history: what the file has contained since its call began

vars == <<content, modTime, now, changes, expired, certs, cachedAt,
          pc, filename, statTime, cert, result, seen>>
fileVars == <<content, modTime, now, changes, expired>>
cacheVars == <<certs, cachedAt>>

TypeOK ==
  /\ content \in [Files -> Contents]
  /\ modTime \in [Files -> 0..MaxTime]
  /\ now \in 0..MaxTime
  /\ changes \in 0..MaxTime
  /\ expired \subseteq Certs
  /\ certs \in [Files -> Certs \cup {None}]
  /\ cachedAt \in [Files -> 0..MaxTime]
  /\ pc \in [Loaders -> {"idle", "stat", "get", "read", "add"}]
  /\ filename \in [Loaders -> Files]
  /\ statTime \in [Loaders -> 0..MaxTime]
  /\ cert \in [Loaders -> Certs \cup {None}]
  /\ result \in [Loaders -> Contents \cup {None}]
  /\ seen \in [Loaders -> SUBSET Contents]

Init ==
  /\ content \in [Files -> Contents]
  /\ modTime = [f \in Files |-> 0]
  /\ now = 0
  /\ changes = 0
  /\ expired = {}
  /\ certs = [f \in Files |-> None]
  /\ cachedAt = [f \in Files |-> 0]
  /\ pc = [p \in Loaders |-> "idle"]
  /\ filename \in [Loaders -> Files]
  /\ statTime = [p \in Loaders |-> 0]
  /\ cert = [p \in Loaders |-> None]
  /\ result = [p \in Loaders |-> None]
  /\ seen = [p \in Loaders |-> {}]
-----------------------------------------------------------------------------
(* Faulty variants of definitions below, each a plausible slip in the      *)
(* code.  No action uses them: putting one in the place of the definition  *)
(* it is a variant of shows that a property can fail.                      *)

\* Load takes the modification time after it has read the file.
EntryTime_AfterRead(p) == modTime[filename[p]]

\* Clean deletes the certificates that are still valid.
Outdated_Reversed(c) == c \notin expired
-----------------------------------------------------------------------------
(* The files.                                                              *)

\* File f changes: it is written, replaced, or removed.
Change(f, v) ==
  /\ changes < MaxTime
  /\ v # content[f]
  /\ changes' = changes + 1
  /\ now' \in {now + 1} \cup (IF CoarseTime THEN {now} ELSE {})
  /\ content' = [content EXCEPT ![f] = v]
  /\ modTime' = [modTime EXCEPT ![f] = now']
  /\ seen' = [p \in Loaders |->
                IF pc[p] # "idle" /\ filename[p] = f THEN seen[p] \cup {v} ELSE seen[p]]
  /\ UNCHANGED <<expired, cacheVars, pc, filename, statTime, cert, result>>

\* The NotAfter of certificate c passes.
Expire(c) ==
  /\ c \notin expired
  /\ expired' = expired \cup {c}
  /\ UNCHANGED <<content, modTime, now, changes, cacheVars,
                 pc, filename, statTime, cert, result, seen>>
-----------------------------------------------------------------------------
(* Load.                                                                   *)

LoadCall(p, f) ==
  /\ pc[p] = "idle"
  /\ pc' = [pc EXCEPT ![p] = "stat"]
  /\ filename' = [filename EXCEPT ![p] = f]
  /\ seen' = [seen EXCEPT ![p] = {content[f]}]
  /\ result' = [result EXCEPT ![p] = None]
  /\ UNCHANGED <<fileVars, cacheVars, statTime, cert>>

Return(p, r) ==
  /\ pc' = [pc EXCEPT ![p] = "idle"]
  /\ result' = [result EXCEPT ![p] = r]
  /\ cert' = [cert EXCEPT ![p] = None]

\* os.Stat
Stat(p) ==
  LET f == filename[p] IN
  /\ pc[p] = "stat"
  /\ \/ /\ content[f] = Missing
        /\ Return(p, Missing)
        /\ UNCHANGED statTime
     \/ /\ content[f] # Missing
        /\ statTime' = [statTime EXCEPT ![p] = modTime[f]]
        /\ pc' = [pc EXCEPT ![p] = "get"]
        /\ UNCHANGED <<result, cert>>
  /\ UNCHANGED <<fileVars, cacheVars, filename, seen>>

IsFresh(f, latestModTime) == certs[f] # None /\ cachedAt[f] = latestModTime

\* c.get, and a fresh entry is returned
Get(p) ==
  LET f == filename[p] IN
  /\ pc[p] = "get"
  /\ \/ /\ IsFresh(f, statTime[p])
        /\ Return(p, certs[f])
     \/ /\ ~IsFresh(f, statTime[p])
        /\ pc' = [pc EXCEPT ![p] = "read"]
        /\ UNCHANGED <<result, cert>>
  /\ UNCHANGED <<fileVars, cacheVars, filename, statTime, seen>>

\* LoadCertificate returns without an error.
Accepted(v) == v \in Certs

Read(p) ==
  LET v == content[filename[p]] IN
  /\ pc[p] = "read"
  /\ \/ /\ Accepted(v)
        /\ cert' = [cert EXCEPT ![p] = v]
        /\ pc' = [pc EXCEPT ![p] = "add"]
        /\ UNCHANGED result
     \/ /\ ~Accepted(v)
        /\ Return(p, v)
  /\ UNCHANGED <<fileVars, cacheVars, filename, statTime, seen>>

\* The modTime that the entry is given.
EntryTime(p) == statTime[p]

\* c.add
Add(p) ==
  LET f == filename[p] IN
  /\ pc[p] = "add"
  /\ certs' = [certs EXCEPT ![f] = cert[p]]
  /\ cachedAt' = [cachedAt EXCEPT ![f] = EntryTime(p)]
  /\ Return(p, cert[p])
  /\ UNCHANGED <<fileVars, filename, statTime, seen>>
-----------------------------------------------------------------------------
\* now.After(cert.Leaf.NotAfter)
Outdated(c) == c \in expired

Clean ==
  /\ \E f \in Files : certs[f] # None
  /\ certs' = [f \in Files |-> IF Outdated(certs[f]) THEN None ELSE certs[f]]
  /\ UNCHANGED <<fileVars, cachedAt, pc, filename, statTime, cert, result, seen>>

LoadStep(p) == Stat(p) \/ Get(p) \/ Read(p) \/ Add(p)

Next ==
  \/ \E f \in Files, v \in Contents : Change(f, v)
  \/ \E c \in Certs : Expire(c)
  \/ \E p \in Loaders, f \in Files : LoadCall(p, f)
  \/ \E p \in Loaders : LoadStep(p)
  \/ Clean

Spec == Init /\ [][Next]_vars

\* Goroutines run, and cleanGlobalFileCache calls Clean once a day.
Fairness ==
  /\ \A p \in Loaders : WF_vars(LoadStep(p))
  /\ WF_vars(Clean)

LiveSpec == Spec /\ Fairness
-----------------------------------------------------------------------------
(* Properties.                                                             *)

\* "The file is reloaded automatically when it changes" (cert/file.go:33):
\* a call of Load returns what the file contained at some moment of the
\* call, although the certificate may come from an entry that another call
\* made, which overtook the change or was overtaken (cert/cache.go:67-83).
Reloaded ==
  \A p \in Loaders : result[p] # None => result[p] \in seen[p]

\* An expired certificate that its file no longer contains leaves the cache for
\* good: at any moment a slow Load, which has read the file before it changed,
\* may enter it again, just before or just after Clean, and even over a newer
\* entry, but no Load does so for ever and Clean comes again
\* (cert/cache.go:61-65, 77-95).
ExpiredLeave ==
  \A f \in Files, c \in Certs :
    <>[](c \in expired /\ content[f] # c) => <>[](certs[f] # c)
=============================================================================
