# A verification of go-listener

TLA+ models of [go-listener](../src/README.md), checked with TLC and proved with
TLAPS. go-listener opens listeners from textual specifications such as
`tcp:443` or `tls:proxy:unix:/run/x.sock`; what can go wrong in it is mostly
concurrency (goroutines that meet in `select`s around a `Close`), replacement of
sockets and files while they are in use, and cleanup after partial failure.

## The system

| component | source | state | operations |
|---|---|---|---|
| MultiListener | `multi.go` | channels `conns`, `errors`, `closed`; `closeMu`; one goroutine per wrapped listener | `Accept`, `Close`, `handleAccepts`, `sendConn`, `sendError` |
| PROXY listener | `proxy/listener.go`, `conn.go`, `error.go` | channels `conns`, `errors`, `done`; `closeMu`; one accepting goroutine and one per connection; a read deadline per connection | `Accept`, `Close`, `handleAccepts`, `handleConnection`, `sendConn`, `sendError` |
| UNIX listener | `unix/listener.go` | a socket, its file, a temporary directory, the goroutine `watch` with its ticker, channel `closed` | `Listen`, `watch`, `Close` |
| certificate file cache | `cert/cache.go`, `globalcache.go`, `file.go` | a map from file name to certificate and modification time, behind a RWMutex; one for the whole program, made under a `sync.Once` together with the goroutine that cleans it | `Load`, `get`, `add`, `Clean`, `globalFileCache` |
| certificate directory | `cert/dir.go`, `keytype.go`, `sni.go` | none of its own (uses the cache) | `GetCertificate`, `getSupportedKeyTypes` |
| PEM loader | `cert/cert.go` | none | `LoadCertificate` |
| autocert | `cert/auto.go` | none: configuration of an external library, from the environment | `GetCertificateAutomatically`, `getAutocertCache`, `getAutocertEAB` |
| PROXY header codec | `proxy/header.go` | none | `ReadHeader`, `Format` |
| ClientHello peeking | `tlsutil/hello.go` | a buffer to replay | `PeekClientHello` |
| TLS listener | `tls/listener.go` | none (delegates to crypto/tls) | opening |
| registry, open and close | `listener.go`, `open.go`, `close.go`, `builtin.go` | table of listener types behind a RWMutex; the process's file descriptors | `RegisterListenerType`, `Open`, `OpenAll`, `OpenJSON`, `CloseAll` |

How they interact: `OpenAll` opens listeners by type; wrapping types (`tls:`,
`proxy:`) open an inner specification first. `MultiListener` and the PROXY
listener call `Accept` of what they wrap from goroutines of their own and pass
connections to their caller over unbuffered channels. A UNIX listener may close
*itself* when its socket file is replaced; the wrappers see `net.ErrClosed`. The
caller at the outer end is typically `http.Serve`, which goes on after errors whose
`Temporary` says so and returns after all others. On a connection, the PROXY listener
reads the header and the caller what follows, which may be a ClientHello to peek at.
The TLS listener calls a `GetCertificateFunc` in each handshake, which looks
certificates up in the directory and, through it, in the one cache of the program.

What makes each component correct:

* the wrapping listeners: every accepted connection has one owner and is
  delivered once or closed; `Close` is complete, may be called by several
  goroutines, unblocks everything and lets nothing through afterwards; a bad
  listener, a bad client or a slow client harms nobody else;
* the UNIX listener: the path always leads to a live socket with the requested
  permissions; a failing `Listen` cleans up as far as its deferred functions reach;
  a replaced listener goes away and does not harm its successor;
* the cache: a changed file is reloaded; expired entries go and stay away;
* the directory: the documented order; the codec: round trip, no read beyond the
  header; the peeked ClientHello: no byte lost to who reads after it;
* `OpenAll`: all or nothing, wrapped as asked for, over one certificate cache;
* a stack of listeners: one `Close` ends all of it, nobody who connects is left
  hanging, and nothing but `Close` ends the server.

`PROJECT.json` lists the hazards line by line, with the property that covers each.

## The modules

| module | what it is |
|---|---|
| `ListenerContract` | abstract specification of a wrapping listener: arrive, deliver, report, refuse, close, discard |
| `MultiListener` | `multi.go`; implements `ListenerContract` |
| `ProxyListener` | `proxy/listener.go`; implements `ListenerContract` |
| `UnixListener` | `unix/listener.go`, several processes at one path |
| `FileCache` | `cert/cache.go`, several handshakes, the cleaner, and changing files |
| `ProxyUnix` | http.Serve on `proxy:unix:PATH`: `UnixListener` and `ProxyListener` composed (INSTANCE), and the loop of http.Serve with `proxy/error.go` |
| `CertDirectory` | `cert/dir.go`, `keytype.go`, `sni.go` on top of `FileCache` (INSTANCE) |
| `ProxyHeader` | `proxy/header.go`: a peer, the network, and ReadHeader |
| `PeekHello` | `tlsutil/hello.go`, as a component that is given a stream |
| `ProxiedHello` | one connection: `ProxyHeader`, and `PeekHello` (INSTANCE) on the rest of its stream |
| `ListenerSpecs` | operators: what a specification means and what `builtin.go`, `tls/listener.go` and `cert/auto.go` read in it |
| `OpenListeners` | `open.go`, `close.go`, `listener.go`, `builtin.go`, `tls/listener.go`, `cert/globalcache.go`, over `ListenerSpecs` |
| `PemFile` | `cert/cert.go` |
| `MultiListenerProofs`, `ProxyListenerProofs`, `UnixListenerProofs`, `ProxyUnixProofs`, `FileCacheProofs`, `CertDirectoryProofs`, `OpenListenersProofs`, `ProxiedHelloProofs` | theorems, see below |
| `MC...` | the instances for TLC: the values of the constants that a `.cfg` file cannot write, and symmetry |

Each component module has a section of *faulty variants*: definitions such as
`WakeWorkers_NoClosedCase` ("sendConn has no case `<-ml.closed`") that no action
uses. Put in the place of the definition they are named after, each makes the
property listed with it in `PROJECT.json` (`mutants`) fail.

### MultiListener

`worker[l]` is the goroutine `handleAccepts(l)`: `"accept"` in `l.Accept()`,
`"select"` about to execute the select of `sendConn` or `sendError`, `"parked"`
blocked there, `"refused"` after that select took `<-ml.closed`, `"done"`.
`item[l]` is the `conn` or `err` it carries. `acceptor[a]` is a goroutine of the
caller in `Accept`; `closer[k]` a call of `Close`, between whose lock, check,
`close(ml.closed)`, and each `l.Close()` other goroutines may run.
`fate[c]` says who has a connection.

A **select** is modelled as the Go runtime executes it. It locks all its
channels and, in one step, either takes a ready case or parks on all channels.
With unbuffered channels a communication is ready exactly if the other side is
parked, so there is one action for each side arriving second (`Send`,
`Receive`), one for `<-ml.closed` (`SendRefused`, `AcceptRefused`), and one for
parking. `close(ml.closed)` (`Mark`) takes all goroutines parked on it out of
their selects in the same step. This distinction matters: a coarser model, in
which a blocked sender and a blocked receiver may still meet after the close,
would not show why a closed listener delivers nothing.

The order in which the loop of `Close` visits the listeners is left open.
`InnerDown` lets a wrapped listener stop without our `Close`, as a UNIX listener does.

### ProxyListener

Like MultiListener with one wrapped listener, but with one `handleConnection`
goroutine per connection: `pc[c]` walks through `"arm"` (SetReadDeadline),
`"read"` (ReadHeader), `"disarm"`, and the select of `sendConn`, or through
`"fail"`, where the socket is closed, to the select of `sendError`. `fd[c]` is the
socket, `deadline[c]` whether it has a read deadline, `header[c]` whether its
header was read. ReadHeader is a step with three outcomes; what a header looks
like does not matter here.

### UnixListener

Each element of `Calls` is a call of `Listen` in a process of its own; all use
one path. `pc[i]` has a value for every system call of `Listen` and for each of
its three deferred functions, which run in reverse order. Every system call can
fail, the deferred ones too, with two kinds of failure of `net.ListenUnix`: after `bind(2)` it leaves
the socket file, and the `defer os.Remove(tempPath)` comes only after it. `stuck[i]` is
history: the failed steps that left something, which `CleanedUp` refers to. A process can crash between any two; others may remove or overwrite the
path (`Disturb`). `closing` is the caller's `Close`, `watch` and `tick` the
goroutine and its ticker. `os.SameFile` compares inode numbers: the kernel does
not reuse the number of a socket file while the socket bound to it is open, so the
model identifies a file by the call that made it.

### ProxyUnix

The two components share the socket and nothing else. Whether the wrapped listener is
open, the variable `inner` of ProxyListener, is here the expression `Inner` over the state of
UnixListener: `"down"` once `watch` has closed the socket (so `WatchStop` is the
proxy listener's `InnerDown`), `"closed"` once `watchedListener.Close` has returned.
The call `listener.inner.Close()` of the proxy listener is two steps, `CloseWatch` for
`close(wl.closed)` and `CloseSocket` for the socket, between which `watch` may act on either.
A client connects to what the path leads to, possibly before `unix.Listen` has returned; it
waits in the kernel's backlog (`fd[c] = "backlog"`) and is reset if the socket is closed
before it is accepted (`Reset`). `serving` says whether http.Serve is in its loop:
`AcceptorStep` takes it out when `Accept` returns an error that is not `Temporary`. A
process that crashes takes all of this with it, so crashes stay with UnixListener.

### FileCache

`Load` is four steps: `Stat`, `Get` (which ends the call if the entry is fresh),
`Read` (LoadCertificate), `Add`. `get`, `add` and `Clean` are atomic because they hold
the mutex throughout. `Change` replaces a file atomically; a program that
rewrites it in place is a series of changes, some to `Broken`. `seen[p]` is a
history variable: everything the file has contained since p's call began.
`CoarseTime` says whether two changes may carry the same modification time.

### CertDirectory

A handshake's `GetCertificate` is `Call`, which computes the files to try
(`SearchOrder`), and for each of them `Try`, the steps of the cache's `Load`, and `Tried`.
So the six lookups interleave with changes of the files and with the lookups of
other handshakes. The file cache is an INSTANCE of FileCache whose loaders are the
handshakes and whose files are those that the ClientHellos can ask for. Names are
sequences of labels, because the code looks for dots; signature schemes and
cipher suites are reduced to what they are for (`ecdsa`, `rsa`, other), since the
code does nothing with them but this classification. `Best` states the documented
order without reference to `SearchOrder`: which files are eligible and which of
two is preferred. `observed` is history: what each file contained during the call.

### ProxyHeader, PeekHello, ProxiedHello

Bytes are numbers. `Format` builds the bytes of a header; the peer sends these,
or a version with one fault, followed by the client's data. Bytes arrive in
`Segments` and the peer may hang up anywhere. `ReadHeader` is two `io.ReadFull`s
(`ReadSome`, `ReadEnds`) with `CheckPreamble` and `Interpret` after them. `OneFamily` and
`ProxyHeaderAssumption` name what `Format` takes for granted of its argument: both
addresses have the same type and family (it looks at the remote one only).

`PeekHello` has no environment: `stream`, `sent`, `eof` and `origin` are given to it. Its
handshake reads any number of bytes that have arrived until it has enough, because
crypto/tls may read more than the ClientHello. The reader it returns first empties
`peeked` (`Replay`), then reads the connection (`PassOn`). `ProxiedHello` gives it the
stream of ProxyHeader, from where `ReadHeader` stopped (`origin <- MessageSize`): a byte that
ReadHeader took too many, or that the TeeReader missed, is missing in `replayed`.

### ListenerSpecs, OpenListeners

A specification is the sequence of its elements, the wrapping types first. An
element has a type and the parameters it is given, whichever its notation:
parts of a string, members of a decoded object, or of an object that the program built. There
are two readings of an element. `Requested` and `CertsMeant` are what it means,
`Read` and `CertsRead` what the code takes from it; the actions use the latter, `Complete`
the former. `Layer` is what an element wraps around a listener, with the
configuration that `cert/auto.go` makes of the environment (`AutocertCache`, `AutocertEAB`).

An opener in `OpenAll` or `OpenJSON` walks through `arg[o][index[o]][level[o]]`; the table of types
is read under a lock whose writers are the registrars (`Lock` keeps new readers out, `Locked` has
waited for the present ones, as Go's RWMutex does). A TLS listener with a file or a directory
goes through `globalFileCache`: the first to `EnterOnce` makes the cache and starts its cleaner
(`MakeCache`) while others wait at `UseCache`; `caches` and `cleaners` count, and
`uses[o]` records which cache the listeners of an opener got. `fds` is the process's table of file
descriptors: which socket each number stands for. `Listen` fills an entry,
`net.FileListener` makes a second entry for the same socket, `CloseFile` (the deferred
`file.Close`) clears the inherited one, and `CloseAll` clears one listener after another.

### PemFile

The loop of LoadCertificate over the blocks of a file, an action
per case of its switch. Two formats are stated over the whole file: `Documented` is
that of the documentation (one `PRIVATE KEY` block, no headers), and `Serviceable` what the code asks of a
file (any of three key types, a `Usage` header that the key can serve). The first is part of the second
(lemma `DocumentedIsServiceable`). `loaded` is the variable `cert` of the code, `data` what is left to decode, and `returned` how
the function ended.

## What TLC checks

| run | instance | distinct states | properties |
|---|---|---|---|
| `multi` | 2 listeners, 2 connections, 2 callers, 2 Closes, 1 error | 216,880 | `Custody`, `CloseCompletes`, `NoPanic`, `WorkerLifetime`, `NoLateDelivery`, `Shutdown`, `Served`, refinement of the fair `ListenerContract` |
| `proxy` | 2 connections, 1 caller, 2 Closes, 1 error of the wrapped listener | 379,980 | types, `Custody`, `HandshakeDone`, `CloseCompletes`, `NoPanic`, `Shutdown`, `NoHeadOfLineBlocking`, refinement of `ListenerContract` |
| `proxy_unix` | 1 connection, 1 goroutine in http.Serve, 1 Close, 1 failing accept, 1 failing Lstat | 163,332 | `StackShutdown`, `ClientsAnswered`, `ServesOn` |
| `proxy_stop` | the same | | `StopReported` **fails** |
| `unix` | 2 calls of Listen, 1 failing Lstat | 81,690 | types, `PathReachable`, `CleanedUp`, `ReplaceOnly`, `SupersededCloses`, `WatchEnds` |
| `cache` | 1 file, 2 loaders, 2 certificates, 2 changes | 203,839 | `Reloaded`, `ExpiredLeave` |
| `cache_coarse_time` | 1 file, 1 loader, 3 changes, equal times allowed | | `Reloaded` **fails** |
| `cert_directory` | 2 handshakes of 4 kinds of clients, 6 files, 1 change | 2,986,500 | `Best` |
| `proxied_hello` | 6 headers, with and without TLVs, 7 faults, segments of 1, 5, 16, 60 bytes, a ClientHello of 3 bytes in 4 of data | 270,324 | `RoundTrip`, `Verdict`, `Replayed`, `Answered`, `Progress` |
| `open` | 2 openers with 9 pairs of argument lists, 2 registrars, 5 descriptors, 3 environments | 206,009 | `AllOrNothing`, `Complete`, `OneCache`, `NoMapRace`, `Returns` |
| `open_json` | 1 opener in OpenJSON, 1 in OpenAll, 1 registrar | | `AsWritten` **fails** |
| `pem_file` | files of up to 5 of 10 kinds of blocks | 348,682 | `FileVerdict`, `ChainInOrder` |

The bounds. In MultiListener two listeners race each other for a caller and two
callers for a listener; a connection and an error, or two connections, can be
held at once, and a goroutine is reused after each. Two calls of Close show every
race of Close that involves a pair, and the properties of Close are about pairs.
`MaxErrors` bounds a counter that nothing else depends on; a second error takes a
goroutine through the same loop as the first. In ProxyListener connections are
independent of each other except where they meet in the selects, which takes two; bad
headers are not bounded by `MaxErrors`. ProxyUnix is about what a stop of the socket does to one
connection wherever it is; pairs of connections and of calls of Close are what `proxy` checks. In UnixListener a third call of Listen would do to
the other two what `Disturb` does, which may also happen more than once. In FileCache
two loaders can overtake each other around a change, and two changes lead away from
a content and back to it; entries of different files do not touch. In CertDirectory one file is
there at the beginning and one change brings, damages or removes a file, so that a preferred
and a less preferred one exist together and one can go away during the search; a
handshake that ends calls again, with a cache that is no longer empty. The headers include
both families, IPv4 in 16 bytes, ports at the boundaries of a byte and of a sign bit, and addresses
that are neither TCP nor UDP; the ClientHello is shorter than the data, so that a read can stop
in it, at its end, and beyond. In OpenListeners five descriptors are too few for
two openers, which is one of the failures; the pairs of argument lists contain every type,
both notations, wrapped and not, and two TLS listeners that race for the cache;
the environments give `getAutocertCache` a directory of its own, one in the home directory, or
none, and `getAutocertEAB` a good or a bad key. Five blocks are one of each kind, or a file with two
keys, two responses or three certificates.

Only `cert_directory` uses symmetry, of the handshakes; it checks no liveness.

Deadlock is checked wherever the system goes on forever: in those models some
environment action is possible in every state, and what matters about blocking is in the
liveness properties. It is not checked (`CHECK_DEADLOCK FALSE`) where a behavior is one
connection, one file or one call, and ends: ProxiedHello, OpenListeners, PemFile.

### Fairness

Weak fairness of the steps of every goroutine: the Go scheduler runs what can
run. No fairness of the environment: clients need not connect or send, callers
need not call, wrapped listeners need not fail or stop. The exceptions are named:

* `ServeLoop` (MultiListener, ProxyListener, ProxyUnix): the caller calls `Accept` again after
  each return, as `http.Serve` does. Nothing is delivered otherwise. It is a premise of
  `Served`, `NoHeadOfLineBlocking`, and the liveness properties of ProxyUnix, which is about http.Serve.
* `Clock` (ProxyListener, ProxyUnix): a read deadline passes. It is a premise of `Shutdown`,
  `StackShutdown` and `ClientsAnswered`, and
  *not* of `NoHeadOfLineBlocking`, so that this property does not owe its truth to the timeout.
* In UnixListener and ProxyUnix `Listen` goes on once begun and ticks keep coming; strong
  fairness for the case `<-wl.closed` of the select in `watch`, because Go's
  select chooses at random among ready cases.
* In FileCache `Clean` is called again and again (`time.Tick`).
* In ProxiedHello a read returns when there is something to return, and the caller of
  PeekClientHello reads on. The peer need not send or hang up: `Answered` and `Progress` say what it must have done.
* In OpenListeners the goroutines run, and a system call returns.

### The findings

`cache_coarse_time`: `Load` compares modification times only. When a file is changed
twice with the same modification time, with a load in between, the second
change is not noticed, although README.md:139 says that certificate files "are
automatically reloaded when they change". With distinct times `Reloaded` holds (`cache`,
and in general by theorem `AlwaysReloaded`).

`proxy_stop`: unix/listener.go:80-82 says that when the socket file is removed or
changed, "the net.Listener will be closed, and Accept will return an error". The UNIX
listener does; but wrapped as `proxy:unix:PATH` (README.md:218) it is the proxy
listener's `handleAccepts` that gets the error, and it leaves its loop without a word
(proxy/listener.go:91). The caller's `Accept` blocks until the caller itself calls `Close`,
and http.Serve stays in its loop without a listener (`ProxyUnix`).
`multi.go:68` does the same when the last wrapped listener has stopped.

`open_json`: an object with an `"address"` cannot be opened, because `openTCPListener` looks for
the `"port"` only if there is no address (builtin.go:117, an `else if`); the same parameters in string
notation work. And `"autocert_hostnames"` must be a `[]string` (tls/listener.go:82), which
encoding/json never makes of a list, so that no decoded object can ask for automatic
certificates. OpenJSON is documented as "Open a listener with the given JSON notation" (open.go:71).

Two more divergences between documents and code have no run of their own, since reading shows them:

* cert/cert.go:42-44 and README.md:134 ask for exactly one `PRIVATE KEY` in PKCS#8
  format. `LoadCertificate` also takes `RSA PRIVATE KEY` and `EC PRIVATE KEY` blocks (cert.go:61), and on
  any key a `Usage` header (cert.go:111-135), which no document mentions. `FileVerdict` states the two
  formats apart: every file of the documented one is accepted, and of what goes beyond it only what is `Serviceable`.
* README.md:102 and 227 say the true client address is available
  through `LocalAddr`. It is in `RemoteAddr` (proxy/conn.go:42, proxy/listener.go:124-128);
  `LocalAddr` is the address that the client connected to. The code agrees with its own comment
  (proxy/listener.go:45-48), and so does the property `RoundTrip`, which therefore says the opposite of
  the README.

## What is proved

The theorems hold for all values of the constants that satisfy the assumption of the
module (`...Assumption`, stated next to the constants): any number of listeners,
connections, processes, files, goroutines. Every safety property that a run checks is
proved. Each argument is an inductive invariant: the
properties by themselves are not inductive, and what has to be added to them is the reason
why the code works. TLC checked each invariant on a small instance before it was proved.
There is a lemma for each action.

| module | theorem | property |
|---|---|---|
| `MultiListenerProofs` | `CustodyHolds`, `NeverPanics`, `WorkersPersist`, `CloseIsComplete`, `ClosedDeliversNothing` | `Custody`, `NoPanic`, `WorkerLifetime`, `CloseCompletes`, `NoLateDelivery` |
| | `ImplementsContract` | refinement of `ListenerContract` |
| `ProxyListenerProofs` | `TypeCorrect`, `CustodyHolds`, `HandshakesAreDone`, `CloseIsComplete`, `NeverPanics` | `TypeOK`, `Custody`, `HandshakeDone`, `CloseCompletes`, `NoPanic` |
| | `ErrClosedOnlyAfterClose`, `ImplementsContract` | refinement of `ListenerContract` |
| `UnixListenerProofs` | `TypeCorrect`, `PathStaysReachable`, `CleansUp`, `PathOnlyReplaced` | `TypeOK`, `PathReachable`, `CleanedUp`, `ReplaceOnly` |
| `ProxyUnixProofs` | `ImplementsUnix`, `ImplementsProxy`, `StackSafety`, `ServesUntilClose` | the safety of both components in their composition; `ServesOn` |
| `FileCacheProofs` | `AlwaysReloaded` | `Reloaded` |
| `CertDirectoryProofs` | `ImplementsCache`, `ReturnsBest` | `Best` |
| | `VerdictIsJust`, `LoadsInOrder` | `FileVerdict`, `ChainInOrder` of PemFile |
| `OpenListenersProofs` | `NoRaceOnMap`, `CacheIsOne`, `OpensAllOrNothing`, `OpensComplete` | `NoMapRace`, `OneCache`, `AllOrNothing`, `Complete` |
| `ProxiedHelloProofs` | `AddressesSurvive`, `VerdictIsRight`, `DataSurvive` | `RoundTrip`, `Verdict`, `Replayed` |

`TypeCorrect` of MultiListener and FileCache is proved only: their runs leave the types to it.

**MultiListener.** `MultiListenerAssumption` says only that the constants that stand for errors and
"no value" are distinct. `IInv` adds to the properties

* `ItemInv`: a goroutine carries something exactly between the return of
  `l.Accept` and the end of its send, and is refused only if `ml.closed` is closed;
* `ParkInv`: once `ml.closed` is closed nobody is parked. This is the heart of
  `NoLateDelivery`: a select can then find no ready communication;
* `MutexInv`: exactly the holder of `closeMu` is between Lock and Unlock;
* `CloseInv`: the wrapped listeners are closed only by the one loop that runs
  after `close(ml.closed)`, each once, and all of them when no loop runs.

`ImplementsContract` maps each step to one of
`ListenerContract` or to a stutter: meeting on `conns` is `Deliver`, on `errors`
`Report`, `close(ml.closed)` is `Close` together with the refusal of everybody
parked; all other steps of `Close` are invisible.

**ProxyListener.** The same four ideas (`OfferInv`, `ParkInv`, `MutexInv`, `CloseInv`), and
`HandlerInv`, which says for each place in `handleConnection` whether the socket is open, has
a deadline and has its header read. The invariant comes in two halves, since no step of a
connection touches what `Close` relies on: `ShutInv` for `Close`, `ConnInv` for the
connections. `ErrClosedOnlyAfterClose` is not checked by a run of this
module; it is what `ServesUntilClose` needs.

**UnixListener.** Any number of processes at one path, any failures, crashes and interference.
`ListenInv` says what a call of `Listen` has made by each of its steps, `LeftInv` which failed step
explains what it has not removed, `OwnerInv` who is to close
the socket: `Listen` until it starts `watch`, from then on `watch` and the holder of the
listener. `PathInv` is the argument: a socket file gets to the path by `rename` only, after
`chmod` and after the socket listens, and from then on the socket is closed only if its owner closes
it or crashes, or `watch` sees another file at the path, or Lstat fails although the file is there.

**ProxyUnix.** No new invariant. `ImplementsUnix` and `ImplementsProxy` show that the
specification of the stack implies that of each component: every step is one of the component's or leaves its
variables alone, and as far as the proxy listener can see `Listen` and `watch` do nothing
but stop what it wraps. So the theorems of both components hold in the stack (`StackSafety`).
`ServesUntilClose` follows: of what Accept returns in this stack only net.ErrClosed is not
`Temporary`, and it comes after `Close` only.

**FileCache.** If `CoarseTime` is false. The idea is `Good(v, f, t)`: a
certificate v that is to be found under modification time t is the present
content if t is the present time of the file, and has been seen by every call
that is going to look for time t. Entries of the cache are good (`EntryInv`), and
so are certificates that a loader is about to add (`CarryInv`), because `Load` takes the
time before it reads.

**CertDirectory.** If `CoarseTime` is false, for all names, clients and files.
`ImplementsCache` shows that the handshakes use the cache as FileCache allows, so that
`AlwaysReloaded` holds in it. That `SearchOrder` is the documented order is `SearchOrderIs`: it lists
all eligible files, and no file after one that it is preferred to. The invariant
(`SearchInv`) is that each file still in `todo` is eligible, that they are in that order, and
that every eligible file no longer in it was missing or damaged at some moment of the call,
which is what a failed `Load` means by `Reloaded`. `CertDirectoryAssumption` adds to that of
FileCache that some file can be asked for.

**PemFile.** For files of any length, with any blocks. Its theorems are in `CertDirectoryProofs`, next to
those about the search for the file. `PassInv` speaks of the prefix of the file that the loop has
read: what `Loaded` says of k blocks becomes true of k + 1 by storing block k + 1, or else that block,
a second one or an unusable key, is the reason why the file is not `Serviceable`. So an error in the
middle of a file is justified whatever comes after it. That the chain keeps the order of the file is
said by counting: the certificate in block i stands where the number of certificates up to block i
says, and one more block changes none of those numbers. `LeafRead` is what makes the check of `chain[1]` after
the loop one of the first certificate of the file.

**OpenListeners.** Three invariants, none of which needs another:

* `LockInv`: the RWMutex of the table excludes, from who holds it to who waits for it;
* `CacheInv`: at most one opener is making the cache, there is none before that and one
  after it, and no other is used;
* `WorkInv`, for `AllOrNothing` and `Complete`: `PlaceInv` (where an opener is in its argument),
  `SocketInv` (a descriptor is free, as it was passed, or held by an opener, which was asked for its
  socket; the listeners of an opener have different descriptors; a passed descriptor stays until
  the opener that was asked for it has come to it, and no longer) and `ListInv` (the listeners opened so far
  answer the argument one by one, and the layers collected so far are those around the present element).

The hard part is that file descriptors are reused: a descriptor is a number, and
`CloseFile` clears one number while the same socket lives on under another. `OpenListenersAssumption` is
what the environment must respect: wrapping types are outermost, the names
in `$LISTEN_FDNAMES` are those of passed descriptors, an `fd:` argument is malformed or
names a passed one, and no socket is asked for twice.

**ProxiedHello.** For all headers, TLVs, data, and ways in which the bytes arrive.
About operators: `Payload` and `Heading` are the layout of what `Format`
writes, `Announced` and `MessageForm` that of what the peer may make of it, `Interpreted`
that ReadHeader reads from an intact header what Format was given, whichever form the IPv4
address had. The invariant: `Streaming` (the stream is the message and the data),
`Counters`, `Reading` (what was read so far is the beginning of the stream; ReadHeader has
taken 16 bytes and then as many as these announced, never more) and `Replaying` (there are n and k
such that the n first bytes of the data have been replayed, `peeked` has those from n to
k, and k bytes beyond the header have been taken off the connection). `Replayed` is the case in which nothing
is left of the peeked bytes. `ProxyHeaderAssumption` says what Format takes for granted: ports of 16
bits, addresses of 4 or 16 bytes, both of one type (`OneFamily` for the family), a payload whose
length fits in 16 bits.

Only model-checked:

* liveness, everywhere, and the refinement with fairness of `ListenerContract` (`multi`): fairness
  is stated with ENABLED, which the prover does not reason about. These are
  `Shutdown`, `Served`, `NoHeadOfLineBlocking`, `StackShutdown`, `ClientsAnswered`,
  `SupersededCloses`, `WatchEnds`, `ExpiredLeave`, `Answered`, `Progress`, `Returns`.

## What is not modelled

The ACME protocol behind `cert/auto.go` is the library's; the server and the e-mail address that
it is configured with are passed on. That `getAutocertEAB` drops a malformed key without
an error is in the model (`AutocertEAB`), and no document says otherwise. How a string is split
at its colons is abstracted to the parameters it gives; a nil list of host names,
which means any host, comes from no specification. `Addr` methods and the wording of errors are left out.
Outside of the models: real time (only the order of events), memory (nothing bounds the
number of `handleConnection` goroutines that wait for a caller), the parsing of keys and
certificates, and the TLS handshake. OpenListeners takes `unix.Listen` for one step:
that a failing `OpenAll` may already have replaced the socket file of a running
process is visible only in UnixListener, where it is a call of Listen followed by `Close`.

## Plan

Done: the modules above, and the proofs of all safety properties that the runs check. What could be added:

1. `OpenListeners` with `unix.Listen` in steps, to state what a failing `OpenAll` does to a running server.
2. Refinement mappings at a higher level: the directory as one atomic choice per call, the header codec as a
   channel of addresses and data.
