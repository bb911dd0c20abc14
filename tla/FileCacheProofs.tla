---------------------------- MODULE FileCacheProofs ----------------------------
(***************************************************************************)
(* Theorems about FileCache for all sets of files, loaders and             *)
(* certificates, and any bound on the number of changes, provided that two *)
(* changes never give the same modification time.  The cache is correct    *)
(* because Load takes the modification time before it reads: a certificate *)
(* is never older than the time it is entered with.                        *)
(***************************************************************************)
EXTENDS FileCache, TLAPS

\* Times that loaders and entries remember are not in the future.
TimeInv ==
  /\ now <= changes
  /\ \A f \in Files : modTime[f] <= now /\ cachedAt[f] <= now
  /\ \A p \in Loaders : statTime[p] <= now

\* A call that is under way has seen what its file contains now.
SeenInv ==
  \A p \in Loaders : pc[p] # "idle" => content[filename[p]] \in seen[p]

\* Will loader p look for the modification time it holds?
Relies(p) == pc[p] \in {"get", "read", "add"}

\* Certificate v, to be had under modification time t of file f, is what f
\* contains if t is still its time, and was seen by every call that relies
\* on time t.
Good(v, f, t) ==
  /\ t = modTime[f] => v = content[f]
  /\ \A q \in Loaders : Relies(q) /\ filename[q] = f /\ statTime[q] = t => v \in seen[q]

\* Entries of the cache are good, and so are those about to be added.
EntryInv ==
  \A f \in Files : certs[f] # None => Good(certs[f], f, cachedAt[f])

CarryInv ==
  \A p \in Loaders : pc[p] = "add" =>
    cert[p] # None /\ Good(cert[p], filename[p], statTime[p])

\* The inductive invariant.
IInv ==
  /\ TypeOK
  /\ TimeInv
  /\ SeenInv
  /\ EntryInv
  /\ CarryInv
  /\ Reloaded

\* At first all entries are empty and no call is under way.
LEMMA InitIInv == Init => IInv
<1> SUFFICES ASSUME Init PROVE IInv
  OBVIOUS
<1>1. TypeOK
  BY FileCacheAssumption DEF Init, TypeOK, Contents
<1>2. TimeInv
  BY DEF Init, TimeInv
<1>3. SeenInv /\ EntryInv /\ CarryInv /\ Reloaded
  BY DEF Init, SeenInv, EntryInv, CarryInv, Reloaded
<1>4. QED
  BY <1>1, <1>2, <1>3 DEF IInv

\* A change gives the file a time that nobody holds, so no entry is taken
\* for its new content; and it only adds to what calls have seen.
LEMMA ChangeStep ==
  ASSUME CoarseTime = FALSE, IInv, NEW f \in Files, NEW v \in Contents, Change(f, v)
  PROVE  IInv'
<1>1. now' = now + 1 /\ now \in Nat /\ now' \in 0..MaxTime /\ changes' \in 0..MaxTime
  BY FileCacheAssumption DEF Change, IInv, TypeOK, TimeInv
<1>2. TypeOK'
  <2>1. content' \in [Files -> Contents] /\ modTime' \in [Files -> 0..MaxTime]
    BY <1>1 DEF IInv, TypeOK, Change
  <2>2. seen' \in [Loaders -> SUBSET Contents]
    BY DEF IInv, TypeOK, Change
  <2>3. QED
    BY <1>1, <2>1, <2>2 DEF IInv, TypeOK, Change, cacheVars
<1>3. TimeInv'
  BY <1>1 DEF IInv, TypeOK, TimeInv, Change, cacheVars
<1>4. SeenInv'
  BY DEF IInv, TypeOK, SeenInv, Change
<1>5. ASSUME NEW w, NEW g \in Files, NEW t \in 0..MaxTime, t <= now, Good(w, g, t)
      PROVE  Good(w, g, t)'
  <2>1. t = modTime'[g] => w = content'[g]
    BY <1>1, <1>5 DEF IInv, TypeOK, Good, Change
  <2>2. \A q \in Loaders : seen[q] \subseteq seen'[q]
    BY DEF IInv, TypeOK, Change
  <2>3. QED
    BY <1>5, <2>1, <2>2 DEF Good, Relies, Change
<1>6. EntryInv'
  BY <1>5 DEF IInv, TypeOK, TimeInv, EntryInv, Change, cacheVars
<1>7. CarryInv'
  BY <1>5 DEF IInv, TypeOK, TimeInv, CarryInv, Change
<1>8. Reloaded'
  BY DEF IInv, TypeOK, Reloaded, Change
<1>9. QED
  BY <1>2, <1>3, <1>4, <1>6, <1>7, <1>8 DEF IInv

\* Time takes nothing from the cache.
LEMMA ExpireStep ==
  ASSUME IInv, NEW c \in Certs, Expire(c)
  PROVE  IInv'
<1>1. TypeOK'
  BY DEF IInv, TypeOK, Expire, cacheVars
<1>2. QED
  BY <1>1 DEF IInv, TimeInv, SeenInv, EntryInv, CarryInv, Reloaded, Good, Relies, Expire, cacheVars

\* A new call has seen what its file contains when it begins.
LEMMA LoadCallStep ==
  ASSUME IInv, NEW p \in Loaders, NEW f \in Files, LoadCall(p, f)
  PROVE  IInv'
<1>1. TypeOK'
  BY FileCacheAssumption DEF IInv, TypeOK, LoadCall, fileVars, cacheVars, Contents
<1>2. TimeInv'
  BY DEF IInv, TypeOK, TimeInv, LoadCall, fileVars, cacheVars
<1>3. SeenInv'
  BY DEF IInv, TypeOK, SeenInv, LoadCall, fileVars
<1>4. ASSUME NEW w, NEW g, NEW t, Good(w, g, t)
      PROVE  Good(w, g, t)'
  BY <1>4 DEF IInv, TypeOK, Good, Relies, LoadCall, fileVars
<1>5. EntryInv'
  BY <1>4 DEF IInv, EntryInv, LoadCall, cacheVars
<1>6. CarryInv'
  BY <1>4 DEF IInv, TypeOK, CarryInv, LoadCall
<1>7. Reloaded'
  BY DEF IInv, TypeOK, Reloaded, LoadCall
<1>8. QED
  BY <1>1, <1>2, <1>3, <1>5, <1>6, <1>7 DEF IInv

\* The time that Stat finds is the one of the present content, which the
\* call has seen: certificates good for that time are that content.
LEMMA StatStep ==
  ASSUME IInv, NEW p \in Loaders, Stat(p)
  PROVE  IInv'
<1>1. TypeOK'
  BY FileCacheAssumption DEF IInv, TypeOK, Stat, Return, fileVars, cacheVars, Contents
<1>2. TimeInv'
  BY DEF IInv, TypeOK, TimeInv, Stat, Return, fileVars, cacheVars
<1>3. SeenInv'
  BY DEF IInv, TypeOK, SeenInv, Stat, Return, fileVars
<1>4. ASSUME NEW w, NEW g \in Files, NEW t, Good(w, g, t)
      PROVE  Good(w, g, t)'
  BY <1>4 DEF IInv, TypeOK, SeenInv, Good, Relies, Stat, Return, fileVars
<1>5. EntryInv'
  BY <1>4 DEF IInv, EntryInv, Stat, cacheVars
<1>6. CarryInv'
  BY <1>4 DEF IInv, TypeOK, CarryInv, Stat, Return
<1>7. Reloaded'
  BY DEF IInv, TypeOK, SeenInv, Reloaded, Stat, Return
<1>8. QED
  BY <1>1, <1>2, <1>3, <1>5, <1>6, <1>7 DEF IInv

\* A fresh entry was seen by the call that takes it.
LEMMA GetStep ==
  ASSUME IInv, NEW p \in Loaders, Get(p)
  PROVE  IInv'
<1>1. TypeOK'
  BY FileCacheAssumption DEF IInv, TypeOK, Get, IsFresh, Return, fileVars, cacheVars, Contents
<1>2. TimeInv'
  BY DEF IInv, TimeInv, Get, fileVars, cacheVars
<1>3. SeenInv'
  BY DEF IInv, TypeOK, SeenInv, Get, Return, fileVars
<1>4. ASSUME NEW w, NEW g, NEW t, Good(w, g, t)
      PROVE  Good(w, g, t)'
  BY <1>4 DEF IInv, TypeOK, Good, Relies, Get, Return, fileVars
<1>5. EntryInv'
  BY <1>4 DEF IInv, EntryInv, Get, cacheVars
<1>6. CarryInv'
  BY <1>4 DEF IInv, TypeOK, CarryInv, Get, Return
<1>7. Reloaded'
  BY DEF IInv, TypeOK, EntryInv, Good, Relies, IsFresh, Reloaded, Get, Return
<1>8. QED
  BY <1>1, <1>2, <1>3, <1>5, <1>6, <1>7 DEF IInv

\* What Read finds is good for any time the file has had so far.
LEMMA ReadStep ==
  ASSUME IInv, NEW p \in Loaders, Read(p)
  PROVE  IInv'
<1>1. TypeOK'
  BY FileCacheAssumption DEF IInv, TypeOK, Read, Accepted, Return, fileVars, cacheVars, Contents
<1>2. TimeInv'
  BY DEF IInv, TimeInv, Read, fileVars, cacheVars
<1>3. SeenInv'
  BY DEF IInv, TypeOK, SeenInv, Read, Return, fileVars
<1>4. ASSUME NEW w, NEW g, NEW t, Good(w, g, t)
      PROVE  Good(w, g, t)'
  BY <1>4 DEF IInv, TypeOK, Good, Relies, Read, Return, fileVars
<1>5. EntryInv'
  BY <1>4 DEF IInv, EntryInv, Read, cacheVars
<1>6. CarryInv'
  <2>1. Good(content[filename[p]], filename[p], statTime[p])
    BY DEF IInv, TypeOK, SeenInv, Good, Relies
  <2>2. QED
    BY <1>4, <2>1, FileCacheAssumption DEF IInv, TypeOK, CarryInv, Read, Accepted, Return
<1>7. Reloaded'
  BY DEF IInv, TypeOK, SeenInv, Reloaded, Read, Return
<1>8. QED
  BY <1>1, <1>2, <1>3, <1>5, <1>6, <1>7 DEF IInv

\* What Add enters was good for its time when it was read, and still is.
LEMMA AddStep ==
  ASSUME IInv, NEW p \in Loaders, Add(p)
  PROVE  IInv'
<1>1. TypeOK'
  BY FileCacheAssumption DEF IInv, TypeOK, CarryInv, Add, EntryTime, Return, fileVars, Contents
<1>2. TimeInv'
  BY DEF IInv, TypeOK, TimeInv, Add, EntryTime, fileVars
<1>3. SeenInv'
  BY DEF IInv, TypeOK, SeenInv, Add, Return, fileVars
<1>4. ASSUME NEW w, NEW g, NEW t, Good(w, g, t)
      PROVE  Good(w, g, t)'
  BY <1>4 DEF IInv, TypeOK, Good, Relies, Add, Return, fileVars
<1>5. EntryInv'
  BY <1>4 DEF IInv, TypeOK, EntryInv, CarryInv, Add, EntryTime
<1>6. CarryInv'
  BY <1>4 DEF IInv, TypeOK, CarryInv, Add, Return
<1>7. Reloaded'
  BY DEF IInv, TypeOK, CarryInv, Good, Relies, Reloaded, Add, Return
<1>8. QED
  BY <1>1, <1>2, <1>3, <1>5, <1>6, <1>7 DEF IInv

\* Clean only removes entries.
LEMMA CleanStep ==
  ASSUME IInv, Clean
  PROVE  IInv'
<1>1. TypeOK'
  BY DEF IInv, TypeOK, Clean, fileVars
<1>2. EntryInv'
  BY DEF IInv, EntryInv, Good, Relies, Clean, fileVars
<1>3. QED
  BY <1>1, <1>2 DEF IInv, TimeInv, SeenInv, CarryInv, Reloaded, Good, Relies, Clean, fileVars

\* Every step keeps the inductive invariant.
LEMMA NextIInv ==
  ASSUME CoarseTime = FALSE
  PROVE  IInv /\ [Next]_vars => IInv'
<1> SUFFICES ASSUME IInv, [Next]_vars PROVE IInv'
  OBVIOUS
<1>1. ASSUME NEW p \in Loaders, LoadStep(p) PROVE IInv'
  BY <1>1, StatStep, GetStep, ReadStep, AddStep DEF LoadStep
<1>2. CASE UNCHANGED vars
  BY <1>2 DEF vars, IInv, TypeOK, TimeInv, SeenInv, EntryInv, CarryInv, Reloaded, Good, Relies
<1>3. QED
  BY <1>1, <1>2, ChangeStep, ExpireStep, LoadCallStep, CleanStep DEF Next
-----------------------------------------------------------------------------
\* The inductive invariant holds throughout.
THEOREM Invariance ==
  ASSUME CoarseTime = FALSE
  PROVE  Spec => []IInv
<1>1. IInv /\ [Next]_vars => IInv'
  BY NextIInv
<1>2. QED
  BY <1>1, InitIInv, PTL DEF Spec

\* Only certificates that LoadCertificate accepted are cached, and all
\* variables keep their types.
THEOREM TypeCorrect ==
  ASSUME CoarseTime = FALSE
  PROVE  Spec => []TypeOK
  BY Invariance, PTL DEF IInv

\* Whenever Load returns, it returns what the file contained at some moment
\* of the call, whatever other loads, changes and cleanings go on.
THEOREM AlwaysReloaded ==
  ASSUME CoarseTime = FALSE
  PROVE  Spec => []Reloaded
  BY Invariance, PTL DEF IInv
=============================================================================
