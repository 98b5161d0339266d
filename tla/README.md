# Formal models of goper

goper is a recording man-in-the-middle proxy: it relays HTTP and HTTPS, keeps
the exchanges it sees in a bounded in-memory store, shows them over an HTTP API
with a live feed, writes JSON bodies to disk, and in transparent mode redirects
a machine's web traffic to itself with iptables. This directory holds TLA+
models of its stateful parts, TLC runs over small instances of them, and TLAPS
proofs of their safety properties for every instance.

File references below are relative to the root of the repository.

## 1. The system

| Component | State | Operations | What is hard about it |
|---|---|---|---|
| Capture store (`internal/capture/store.go`, `entry.go`) | ring of entries with head, tail, count; id index; lifetime counters; subscriber channels; global id counter | Push, Get, List, Clear, Stats, Subscribe, Unsubscribe | one goroutine per exchange; notification happens after the lock is released; wrap-around and eviction against the index |
| Live feed (`internal/api/handlers_sse.go`) | one handler per client: history to replay, a channel, a connection | connect, replay history, subscribe, forward, ping, leave | history and subscription are two separate steps; clients vanish at any time |
| Exchange and recorder (`internal/proxy/proxy.go`, `proxy_body.go`, `internal/capture/capture.go`) | the two bodies, how much was read for capture, framing, the entry | request hook, response hook, bounded read, rewire, record | reading for capture must not lose, reorder, hold back or re-frame what is relayed |
| MITM certificates (`internal/proxy/mitm*.go`) | two CA files, the CA in memory, a cache of leaf certificates | load or create, GetCertificate | a crash between two files; two handshakes that miss together; expiry |
| Rule manager and process (`internal/iptables/iptables.go`, `cmd/goper/main.go`) | the nat OUTPUT chain, which outlives the process | Setup, Teardown, start, signal, fatal exit | kills between two commands, failing commands, rules found from earlier runs, rule order |
| Transparent connections (`internal/proxy/transparent_loop.go`) | accept loop; per connection: deadline, buffered reader, host names, one-shot listener, inner connection | accept, peek, dispatch, handshake, serve, rewrite URLs, close | bytes arrive in pieces, clients stop or leave anywhere; a listener that only its own connection releases |
| ClientHello parser (`transparent_shared.go`) | offsets into one record | find the server name | nested lengths chosen by the peer; a hello cut by the end of its record |
| Output writers (`internal/output/file_writer.go`) | a file per entry, or an append stream per domain with a mutex; both outlive the process | WriteEntry | writes cut by errors and crashes, concurrent appends, ids that start over, directory names made of Host headers |
| HTTP API and replay (`internal/api`) | replays in progress | list, get, clear, stats, download CA, replay | an entry evicted or cleared while it is replayed; query values from outside |
| Dashboard page, configuration, HTTP helper | browser state, flags | – | – |

How they interact: the request hook of the proxy reads the request body and
stores the partial entry in the proxy context; the response hook reads the
response body, combines both into an entry (which takes an id from the global
counter), pushes it into the store and hands it to the output writers. `Push`
offers the entry to each subscriber's channel; the SSE handler of each client
owns one such channel. The API reads and clears the same store, and a replay
re-sends an entry it was given by it. TLS handshakes,
from CONNECT or from transparent mode, ask the certificate cache, which signs
with the CA that was loaded or created before anything else started. `run` in
`main.go` installs the rules before it starts the servers and removes them when
a signal arrives.

`PROJECT.json` lists the components, the hazards (with the line where each one
bites), the correspondence between definitions and source lines, the runs, and
the theorems.

## 2. Modules

| Module | Models | Extends / uses |
|---|---|---|
| `CaptureLog` | what the store promises: a bounded log, oldest first, with lifetime counters | – |
| `CaptureStore` | the ring buffer, id counter and subscribers, with the goroutines that push | refines `CaptureLog` |
| `LiveFeed` | the SSE handlers, composed with the store | `CaptureStore` |
| `CaptureAPI` | the other API handlers and replay, composed with the store | `CaptureStore` |
| `Exchange` | one proxied exchange | – |
| `Certificates` | CA files, CA in memory, leaf cache | – |
| `Lifecycle` | runs of the process and the rules they leave | – |
| `ClientHello` | the walk through a ClientHello, and the reference encoding of one | – |
| `Transparent` | the accept loop and one transparent connection, with the SNI peek | `ClientHello` |
| `Outputs` | the output writers, over several runs of the process | – |
| `MC…` | constants for TLC | the module they are named after |
| `…Proofs` | theorems and their proofs | the module they are named after; `LiveFeedProofs` and `CaptureAPIProofs` also `CaptureStoreProofs`; `TransparentProofs` covers `ClientHello` too |

Definitions keep the names of the Go functions they translate. A definition
whose name has a suffix after an underscore (`evictOldest_KeepsIndex`) is a
deliberately broken variant: replacing the original by it must make the property
it is listed with in `PROJECT.json` fail. No specification uses one.

### CaptureStore

`rb` is the `RingBuffer` struct, `subscribers` its slice, `chState` and `chBuf`
the channels, `idCounter` the atomic counter; `pc`, `cur` and `pending` are the
program counter, entry and remaining subscribers of each goroutine. A critical
section is one action. `CombineEntry` takes an id and a timestamp, `Push` is the
locked half of `RingBuffer.Push`, and `NotifySend` / `NotifyPanic` are one turn
each of the loop in `notifySubscribers`. `captured` is what the recorder keeps of
an exchange: headers are names with a value, and credentials are redacted there,
before anything is stored (`headersToMap`). `Get`, `List` and `Stats` hold the read
lock throughout and change nothing, so they are operators on `rb`. The clock is
read separately from the counter, so a timestamp may be any reading. A goroutine
that panics stays where it is: what becomes of it depends on who recovers.

`Push` assigns an id only to entries without one. The proxy never pushes such an
entry, so `finalizeEntry` changes nothing here.

### LiveFeed

Each handler is identified with the channel its `Subscribe` will make and moves
through `none`, `backfill`, `stream`, `exit` and `gone`. `Connect` takes the
history (`backfillSSE` calling `List`), `WriteBackfill` writes one entry of it,
`StartStream` subscribes, `StreamEntry` and `StreamEnds` are the cases of
`streamSelect`, `HandlerExit` the deferred `Unsubscribe`. A write to a client
that has gone may fail or may still be swallowed by the socket. Pings that
succeed change nothing; JSON encoding of an entry never fails, as an entry has
only strings, numbers and maps of them. `LiveFeed` does not take `Receive`,
`Subscribe` and `Unsubscribe` from the store's own next-state relation: handlers
are the store's only subscribers.

### CaptureAPI

List, Get and Stats are one call of the store, so their answers are operators:
`listOptsFromQuery` turns the query values as written (absent, unparsable,
negative) into the store's options, and `List` does the rest. `ClearRequests`
and the four steps of a replay are actions: `ReplayRequest` looks the entry up,
`BuildReplay` rebuilds the request, `ReplayAnswered` and `ReplayFailed` end it,
the latter also by the 30 s timeout of `replayClient`. Between them pushes and
Clears change the store. What was redacted when the entry was made and what
`copyReplayHeaders` leaves out decide what a replay sends. A replay holds the
entry it was given: entries are not changed after `Push`. The middlewares and the JSON envelope are left out.

### Exchange

A body is a stream of numbered bytes from a source that may pause for ever, end
or break off. `taken` counts the bytes the proxy has read off the source,
`front` is what was put back before it, `got` what the receiver was sent. The
capture reads go byte by byte up to `Bound`, which is the LimitReader's bound
with `limit + 1` computed in `MaxInt`-sized integers. The configuration, the
lengths and the kind of the response are chosen once, in `Init`. goproxy and
net/http are represented by what the hooks rely on: the body handed to a hook is
relayed afterwards, a response arrives after the request body has been relayed,
and a failed round trip calls the response hook with nil. Receivers keep
reading. Responses to HEAD requests, whose announced length has no body, are not
in the model.

### Certificates

A file is missing, partial or complete; keys and certificates are the number of
the generation they were made in, so a pair matches when the numbers are equal.
`os.WriteFile` is two actions, create and write, each of which may fail or be
the last one the process takes. A start looks for the certificate file with
`os.Stat`, of which any error counts as "absent": `stat` keeps what it said, and
`"error"` is a failing Stat of a file that is there, after which the start
generates and writes over it. `ReadFails` is a pair that cannot be read. `Stop` ends the process at any point. A
handshake is `Lookup` under the read lock, then `certOrGenerate` under the write
lock. `readCAPEM` is the second read of the certificate file in `main.go`, whose
result the API hands out for download; it may fail, and the download endpoint
then has nothing to serve. Validity dates are left out: no code looks at them.

### Lifecycle

`chain` is the nat OUTPUT chain with goper's rules in it. Setup and Teardown
take one action per rule; a failing `-C` is `EnsureMisreads` (any exit status
counts as absent) or `SetupFails` (iptables cannot run), a failing `-A` is
`SetupFails`, a failing `-D` is `TeardownFails`. `Crash` is a kill or
`os.Exit(1)` in `runServer`; `SignalUnhandled` is a signal before
`signal.Notify`. `partial` is a history variable, not part of the program: it
records that some teardown ended, or was killed, with rules still in the chain.
`verdict` evaluates the chain first match first and gives the port a packet is
redirected to, if any. Each run chooses its port. goper is taken to run as one
uid, the one its owner rule names.

### ClientHello

One action is one field of the hello or one turn of one of the two loops, so the
offset of every read is in the state, under the name it has in Go. `byteAt` and
`uint16At` are the index expressions, and a read outside the record would be an
evaluation error in TLC where it is a panic in Go. The definitions from
`vector8` on are not code of goper: `Hello` is what a client wants to say,
`Encode` and `ServerName` are how RFC 8446 and RFC 6066 write it and the name it
carries. A vector too long for its length field gives a number that is not a
byte, which no client sends.

### Transparent

`phase` is where `handleTransparentConn` is, `filled` and `inner` how far the
`bufio.Reader` and the TLS or HTTP server have read, `served` and `closes` the
`singleConnListener`, `conn` the goroutine of `http.Server` for the connection.
`scheme` is the argument each of the two handlers gives `serveInner`, `request`
the request being handled, and a client's `resolves` says whether its original
destination can be found out.
`Fill` is one read of the socket inside a Peek; `PeekFails` is the client gone,
the deadline passed, or a record larger than the buffer. `Arrive` and `Leave`
are the client. crypto/tls, net/http and goproxy are represented by what the
handler relies on: the handshake reads through `bufferedConn` and asks
`tlsConfigFor` for a certificate with the name it found in all records together;
a connection that is finished is closed through the wrapper, by `http.Server` or
by whoever hijacked it. Connections share nothing that changes after the loop
has started except the certificate cache, so one is followed; its accept loop
may fail and retry around it. A client that is `whole` or `split` writes a hello
of `Hellos` into one or two records; a `garbled` one sends any other bytes that
start like a record.

### Outputs

A document is written in two halves, and after each the write may have been cut
by an error or by the end of the process; `torn` collects the entries to which
that happened. `Start` and `Stop` frame a run: `Start` picks the writer
(`setupOutputs`) and resets the id counter, which lives in memory. `lock` and
`unlock` are the mutex of the NDJSON writer; the JSON writer has none, as each
entry has its own file. Host names are sequences of characters, since the
directory is computed from them; `splitHostname` follows `net.SplitHostPort`,
which also takes the brackets off a host. `Capture` is the end of `captureResponse`:
entries without a JSON body are not written. A failing Close after a complete
write counts as a success: the bytes are there.

## 3. Runs

All instances use two or three of everything that can race or repeat.

| Run | Instance | Shows |
|---|---|---|
| `api` | capacity 3, 4 entries of 2 kinds, 2 goroutines, 1 API client, 17 query strings | the index is exact and the endpoints agree; every filter and page; refinement of `CaptureLog`; no id comes back or changes its entry; a replay sends the entry asked for, without credentials; all through wrap-around and any number of Clears |
| `push_panic` | 2 goroutines, 2 channels of capacity 1, 3 entries | **finding**: a push can panic |
| `live` | `--buffer 0` (default capacity 1), 2 clients, 2 goroutines, 2 entries, channels of capacity 1 | nothing is delivered twice; the subscriber list is exact; subscriptions are scoped to handlers; the handler of a lost client ends; a push goes through all its subscribers, or dies in the panic that `push_panic` shows |
| `live_gap` | 1 client, 3 entries, channels that never overflow | **finding**: an entry can be missed |
| `exchange` | limits 0 (unlimited), 1 and 2, safety cap 3, bodies of 0, 2, 3 and 4 bytes | relay, framing, storage, memory, one record per exchange, streaming is not held back |
| `capture_cap` | unlimited capture, safety cap 3, bodies of 0 and 4 bytes | **finding**: a cut body is stored as whole |
| `transparent` | 5 hellos: whole, split into two records at every byte, and two of them with any one byte replaced; empty and oversized records; plain HTTP; original destinations known and unknown; up to 2 requests | reads stay in the record; the name peeked is never a wrong one; nothing peeked is lost; the certificate is for the name asked for; requests get the scheme of their connection and the host that is known; silent clients are dropped; the handler of a lost client ends |
| `outputs` | 2 goroutines, 2 hosts, 3 entries, 2 runs of any format, one second | appended lines are not mixed and a cut one costs at most one other; files of one run are never overwritten within it; directories stay inside; the mutex is always released |
| `certificates` | 2 handshakes, 3 kinds of hello, 3 CAs, 3 leaves | the CA in use is the one on disk and the one handed out, complete pairs are kept unless a Stat fails, one certificate per host |
| `ca_restart` | 1 handshake | **finding**: half a pair blocks all later starts |
| `lifecycle` | 3 runs in either mode with either of 2 ports, killed anywhere, 2 failing commands | redirection holds while serving, to the right port unless another one's redirect was left; teardown is as complete as the failures allow; no loop while teardowns empty the chain |
| `lifecycle_loop` | 2 runs, no failing command | **finding**: a loop after a kill in the middle of Teardown |

Why the bounds suffice. A capacity of 3 with 4 pushes makes the ring full,
evict and wrap, and lets Clear fall anywhere, so that head and tail also wrap
apart; the proofs remove the bound for the store altogether. Channels of
capacity 1 overflow at the second entry. The races are between two goroutines,
two handlers or two handshakes at a time: a third one adds no new pair of steps.
Three runs give one that leaves rules, one that adopts them, and one that sees
what the second left, and two ports a run that finds redirects which are not its
own. Setup and Teardown only know the rules of their own port, so those stay
until a run with the old port removes them, and the properties say what holds
all the same. The body lengths contain, for
limit 2, a body below the limit, at it, one over and further over, and for the
safety cap of 3 bodies below, at and over it. The hellos have an extension
before the server name and after it, two server name lists, entries of another
type, an empty name, and no extensions; `VersionRandomLen` is 2 instead of 34,
which only shortens a field that is skipped, and the buffer is 60 bytes, so that
one record does not fit. Two runs within one second make ids repeat; three
entries let one line be cut, one be glued to it and one follow. Deadlock
checking is off where the system may stop: when the exchange or the connection
is over, or the bounds on restarts and generations are used up.

Named bounds: `MaxEntries`, `MaxTime` (store, feed, API), `MaxRuns`, `MaxFaults`
(lifecycle), `MaxGens`, `MaxLeaves` (certificates), `Lengths` (exchange),
`MaxRequests` (transparent), `MaxEntries`, `MaxRuns`, `MaxClock` (outputs).
Symmetry is used for handshakes, in runs without liveness properties.

### Fairness

- `LiveFeed!FairLiveSpec`: a goroutine that has combined an entry keeps running:
  Go schedules runnable goroutines, the lock is held for bounded work only, and
  the sends do not block. Handlers whose client is gone keep running; net/http
  cancels their context and their writes return. Nothing is assumed of handlers
  otherwise, and nothing of writes to a connected client, which may stop
  reading.
- `Transparent!FairSpec`: the handler and the goroutine of its inner server run
  when they can, and the peek deadline passes. Reads of a connection whose
  client is gone return, and net/http and goproxy then close it. Clients owe
  nothing: they may stop at any byte and stay.
- `Outputs!FairSpec`: system calls return. The mutex is strongly fair, as
  `sync.Mutex` hands itself to a waiter that has starved for a millisecond.
  The process may be stopped at any time, which also ends a write.
- `Exchange!FairSpec`: the goroutine of the exchange runs when it can. The
  sources owe nothing, so a peer may send part of a body and then nothing.

## 4. Proofs

The theorems hold for every value of the constants: any capacity, number of
goroutines, clients, handshakes, runs, entries and failures, any body length and
limit, any bytes a peer sends. Each temporal theorem has the same last step: an
inductive invariant, whose parts TLC also confirms on the instance of the run,
and the property as its consequence.

### Capture store, live feed and API

| Module | Theorem | Statement |
|---|---|---|
| `CaptureStoreProofs` | `TypeCorrect` | `Spec => []TypeOK` |
| | `RingCorrect` | `Spec => [](RingShape /\ IndexExact /\ IdsUnique)` |
| | `SubscribersCorrect` | `Spec => []SubscribersExact` |
| | `StoreImplementsLog` | `Spec => ImplementsLog` |
| | `IdsStayUnique` | `Spec => IdsNeverReused`, an action property |
| `LiveFeedProofs` | `FeedUsesStore` | `LiveSpec => Spec` |
| | `ChannelScoped` | `LiveSpec => []SubscriptionScoped` |
| | `DeliveredOnce` | `LiveSpec => []NoDuplicateDelivery` |
| `CaptureAPIProofs` | `ApiUsesStore` | `ApiSpec => Spec` |
| | `OneStory` | `ApiSpec => []EndpointsAgree` |
| | `PagesExact` | `ApiSpec => []ListAnswer` |
| | `ReplaysFaithful` | `ApiSpec => []ReplayFaithful` |

None of the ring's invariants is inductive alone. That the evicted slot holds an
entry whose index key can be deleted needs the window shape; that inserting
keeps the index exact needs the id to be new; that it is new needs the counter
to be ahead of every id in use. The inductive invariant is therefore
`Inv == TypeOK /\ RingShape /\ IndexExact /\ IdsUnique`. The ring is handled by
lemmas about the pure functions: `WrapOnce` reduces the modulus to one
conditional subtraction, `EvictWellFormed`, `InsertWellFormed` and
`ClearWellFormed` say that each function keeps a well-formed ring well formed,
and `EvictTails` and `InsertAppends` say what it does to `Contents`. The steps
of the specification then only quote those. `StoreImplementsLog` maps the log to
`Contents(rb)` and the counters to themselves: Push is `Record`, Clear is
`Forget`, and everything else stutters.

`IdsNeverReused` is about what clients hold on to, the ids. `IdKept` says that a
step neither gives an id another entry nor brings one back: once an id is
`Retired` (handed out, and its entry neither retained nor on its way) it stays
so. It rests on `IndexExact` for what Get answers, and on `IdsUnique` for the
one step that could break it, a push.

`FeedUsesStore` and `ApiUsesStore` show that the composed modules are the store
with its callers filled in, so the store's theorems hold under both.

That nothing is delivered twice (`DeliveredOnce`) needs to know what a goroutine
that is still notifying may be about to send. `NewInv` says that the entry it
holds is unknown to every channel left in its snapshot; this survives a handler
taking the history in the middle of a notification only because the channel of
that handler is not made yet (`ScopeInv`), so it cannot be in a snapshot taken
earlier, and because a snapshot lists a channel once (`SnapshotInv`).

What `scan` collects is proved by induction over the number of turns its loop
has made (`NatSetInduction`, from the well-foundedness of the naturals):
`ScanLoop` and `ScanOrder` say that after n turns the result holds the wanted
ones among the first n slots, in their order. `ListAnswer` speaks of ranks: the
k-th entry of a page is the wanted entry with rank offset + k, and `ScanRanked`
carries the loop over to ranks. For `OneStory` the counters need `Accounted`:
evicted, retained and waiting entries together are no more than the ids handed
out.

### Exchange

| Theorem of `ExchangeProofs` | Statement |
|---|---|
| `TypeCorrect` | `Spec => []TypeOK` |
| `NothingLost` | `Spec => []RelayComplete` |
| `AnnouncedLength` | `Spec => [](limit["resp"] # MaxInt => FramingExact)` |
| `KeptWhole` | `Spec => []((\A s \in Sides : limit[s] # MaxInt) => StoredWhole)` |
| `BoundedCapture` | `Spec => []BufferBounded` |
| `RecordedExactlyOnce` | `Spec => []RecordedOnce` |

The invariant ties the three places a byte can be in: for each side, what the
receiver has got followed by what was put back in front of the source is exactly
what was read, `1 .. taken` (`SideInv`), and nothing is got before the capture
read is over. The one way to lose bytes, a request whose capture read fails, is
named (`Lost`) and ends in an error. `RecordInv` follows the entry through the
response hook. Two theorems except a limit equal to the largest int64: there
`limit + 1` overflows, the bound of the reader is 0, and the properties are
false (section 5). The memory bound needs no such exception.

### Certificates

| Theorem of `CertificatesProofs` | Statement |
|---|---|
| `TypeCorrect` | `Spec => []TypeOK` |
| `PersistedCAServed` | `Spec => []ServesPersistedCA` |
| `DownloadSigns` | `Spec => []DownloadedCASigns` |
| `OneCertificatePerHost` | `Spec => []OneCertPerHost` |
| `PairNeverReplaced` | `Spec => PersistedCAKept`, an action property |

`DiskInv` records what the two files hold at each step of a start; its key part
is that a missing certificate file means a missing key file, in every state a
crash can leave, which is why a start whose Stat did not fail never generates
over a complete pair. The one that does keeps `stat = "error"` while it writes,
and then signs with the pair it has written.
`CacheInv` says that a handshake holds nothing but what the cache has for its
host: the second look under the write lock keeps it when two handshakes miss
together.

### Lifecycle

| Theorem of `LifecycleProofs` | Statement |
|---|---|
| `TypeCorrect` | `Spec => []TypeOK` |
| `TeardownLeavesNothing` | `Spec => []TeardownComplete` |
| `TrafficForced` | `Spec => []ForcedThroughProxy` |
| `OwnTraffic` | `Spec => []OwnTrafficSkipped` |

They hold for any set of ports. `CountInv` is the counting argument behind
`TeardownComplete`: the chain is no longer than the failed commands plus the
number of different rules in it that no teardown under way has passed (`Kept`).
A failing `-C` appends a second copy and a failing `-D` leaves one behind, and
each is paid for by one fault. The rules of all ports are counted together,
since runs with different ports share the owner rule and adopt each other's.
When a teardown has passed its whole list, what is kept are rules of other
ports; they take up at least as many positions of the chain, and the rest, which
is the teardown's own, is bounded by the faults (`NothingCounted`). `OrderInv`
says that while teardowns empty the chain it is empty or starts with the owner
rule. That condition cannot be dropped: a run with another port leaves, without
any failure, the redirects it does not know of and takes the owner rule away
from in front of them. `ForcedThroughProxy` is conditional for the same reason:
Setup appends, so an older redirect to another port comes first.

### Output writers

| Theorem of `OutputsProofs` | Statement |
|---|---|
| `NoTraversal` | `Spec => []DirsContained` |
| `WrittenStays` | `Spec => []FilesKept` |
| `DamageBounded` | `Spec => []DamageContained` |

`IdInv` keeps the entries of one run apart, `MutexInv` gives an append stream
one writer at a time, and `FileInv` says what the file of an open writer ends
with. On these rests `StreamInv`, the grammar of an append stream: a newline
follows its own head, and a head without its newline was cut or is the last one
and still being written. `DamageBounded` then maps every unreadable entry to a
cut one, itself or its predecessor, and shows that no two are mapped to the
same. `KeptInv` says that a written JSON file is as it was written or has been
opened by a later run.

### ClientHello and transparent connections

| Theorem of `TransparentProofs` | Statement |
|---|---|
| `HelloTypeCorrect` | `HelloSpec => []HelloTypeOK` |
| `ReadsStayInBounds` | `HelloSpec => []ReadsInBounds` |
| `HandlerWalks` | `Spec => HelloSpec` |
| `NameNeverWrong` | `Spec => []NeverMisread` |
| `HandlerReadsInBounds` | `Spec => []ReadsInBounds` |
| `TypeCorrect` | `Spec => []TypeOK` |
| `NothingConsumed` | `Spec => []PeekedBytesKept` |
| `CertificateMatches` | `Spec => []CertificateForName` |
| `RoutesKnown` | `Spec => []RequestsRoutable` |

The two loops of the ClientHello walk never compare an offset with the length of
the record: they compare with `end` and `nameEnd`. So the invariant that carries
`ReadsStayInBounds` says where those lie (`Clamped`): the extensions end within
the record, and while the walk is in a server name list, the extension that
holds it ends within the extensions and the list within the extension. The
fields before the loops are allowed to skip past the end of the record, and
`FieldStep` shows that they only ever reach another field, which tests for it.

For the connection, `BytesInv` says that the inner server has read a beginning
of what the client sent, and no more than the `bufio.Reader` has taken;
`PhaseInv` gives each phase of the handler the bytes it relies on being in the
buffer and ties the inner connection to the phase that serves it. `HandlerWalks`
needs it to show that the handler gives the parser bytes of the client only.
`RoutingInv` follows the scheme and the fallback host from the handler that was
chosen by the first byte to the URL of each request. What the fallback is worth
comes from `NameNeverWrong`: the name peeked is the client's server name or,
when the record cut it off, none, and then it is the original destination
(`PeekedHost`).

`NameNeverWrong` compares the walk with the reference encoding, for every hello
that can be written and every cut of it. The encoding is concatenations and
folds, the walk is offsets, so the first half of the proof lays the hello out:
`Holds(m, a, p)` says that message m has the bytes p at offset a, and
`FieldsWritten`, `ExtensionsLaid` and `NamesLaid` give the offset of every field,
extension and name. What a fold concatenates is an induction over its turns
(`FlattenLoop`, by `NatSetInduction`: induction stated with a set in place of a
predicate). `Follows(h)` is then the invariant of the walk: the offset is where
the encoding of h has the field it reads next, and no DNS name was passed over
(`NoneBefore`), in the extensions before or in this list. That is what makes the
first name found the server name, and a walk that runs into the end of the data
answer with none. A part of a hello is treated like a whole one: the data is a
beginning of the encoding (`DataOf`), and only at its full length must the
answer be the name. The step that needs most care is an extension that the
record cuts: the walk skips it or jumps past the data, and must not take up
again behind it (`ExtensionFollows`). `Reading` ties it to the connection: the
handler starts the walk on exactly the first record of what the client wrote,
which `HelloPeeked` derives from the length in the record header.

### Assumptions

Every assumption is an `ASSUME` of the module that declares the constants, and
TLC evaluates it in each run of that module.

| Assumption | Says | Because |
|---|---|---|
| `StoreAssumption` | sizes are integers or naturals, body lengths naturals or nil; nil and the absent key are no real values | Go types |
| `FeedAssumption` | the default backfill is a natural, a requested one an integer or absent | `strconv.Atoi` or no value |
| `ApiAssumption` | times and numbers of a query are integers, absent or unparsable; method and URL filters are neither nil nor unparsable | they are strings of the query |
| `ExchangeAssumption` | limits lie within int64; body lengths and the safety cap too, a length with room for one more | a body of 2^63 - 1 bytes cannot be sent |
| `CertificatesAssumption` | bounds are naturals; nil is no certificate | – |
| `LifecycleAssumption` | the redirected ports are different numbers | they are 80 and 443 (`iptables.go:55-64`) |
| `OutputsAssumption` | host names are sequences of characters; the formats are those `main.go` accepts | `main.go:276` |
| `HelloAssumption` | the fixed part has a natural number of bytes | it is 34 |
| `TransparentAssumption` | clients send bytes and pause within them; a client is a plain HTTP one iff its first byte is not 22; one that is `whole` or `split` writes a hello of `Hellos` in one or two records and asks for its server name | that is how the handler tells them apart, and what the kinds mean; `garbled` clients send anything else |

### Only model-checked

The liveness properties (`LostClientReleased`, `IngestionNeverStalls`,
`StreamingForwarded`, `SilentClientDropped`, `HandlerEnds`,
`WriteReturns`): they need fairness and ENABLED, which the prover does not
support. All other properties of the passing runs are theorems, with the one
exception above for the largest int64.

## 5. What the models say about the code

What holds is in the table of runs. Five statements of the repository's own
documents and comments do not hold for the code; each has a run that produces
the counterexample, and `findings` in `PROJECT.json` quotes the statement:

1. `Push` panics if a subscriber leaves between the snapshot and the send
   (`store.go:106`).
2. Entries captured between the backfill and the subscription are lost, where
   the comment says they may come twice (`handlers_sse.go:36-40`).
3. In unlimited mode, a response of unknown length that is cut at the safety cap
   is stored as if it were complete (`proxy_body.go:108`): the recorder is not
   told of the cut, although `proxy_body.go:61` says it drops such a body.
4. A run killed in the middle of Teardown, which removes the owner rule first,
   leaves a redirect; the next run appends its owner rule behind it and proxies
   its own traffic to itself (`iptables.go:112`). A removal that fails leaves
   the same state, but the run needs no failing command.
5. A start interrupted between the two CA files makes all later starts fail
   (`mitm_ca_store.go:18`, `:68-71`).

Further observations made while modelling:

- a signal between the installation of the rules and `signal.Notify`
  (`main.go:55-64`, action `SignalUnhandled`) ends the process with the rules in
  place; the next transparent run adopts and removes them;
- a run with another port after a crash finds the owner rule, and its teardown
  removes it and leaves the old redirects, without anything failing; the owner
  rule of the run after that comes behind them (`partial` in
  `OwnTrafficSkipped`; `iptables.go:83`, `:112`);
- cached leaf certificates are served past their expiry
  (`mitm_cert_cache.go:46-50`), where `PLAN.md:289` says "regenerate on demand";
- with the largest int64 as body limit, `limit + 1` overflows (`plusOne`) and
  responses are framed as empty (`proxy_body.go:117`); the runs use smaller
  limits;
- the "always terminates" of `proxy_body.go:112` bounds bytes, not time: an
  upstream that pauses holds the capture read (`ReadForCapture` waits for it);
- the SSE backfill replays the oldest N entries, since it calls `List` with a
  limit only (`handlers_sse.go:85`), where `handlers_sse.go:78` and
  `FEATURES.md:50` say the N most recent;
- a Stat of the certificate that fails for another reason than a missing file
  makes the start replace a complete CA pair (`mitm_ca_store.go:18`, action
  `Start` with `stat = "error"`), where `PLAN.md:269` says "goper reloads
  persisted CA"; `PersistedCAKept` states the exception;
- the peek deadline is cleared after the first byte (`transparent_loop.go:186`),
  before the SNI peek at `:220` that the comment at `:191` says it bounds, and
  the handshake has none: a client that sends one TLS byte and then nothing
  holds its handler for as long as it stays connected. `SilentClientDropped` and
  `HandlerEnds` state what does hold;
- a line of an append stream that was cut has no newline, so the next entry of
  that domain is glued to it and unreadable too (`DamageContained` shows that it
  is only that one);
- entry ids are a second and a counter that starts over with the process, so a
  restart within a second, or a clock set back, overwrites captured files
  (`FilesKept` states the exception);
- a limit or offset that is not a positive number is treated as absent, without
  an error (`ListAnswer`);
- a replay sends the redaction marker in place of credentials, and an empty body
  where the captured one was dropped for its size;
- the dashboard's clear button empties the page after the DELETE has returned
  (`internal/api/static/index.html:240`), so an entry captured in between
  vanishes from the page although the store has it.

## 6. Not modelled

Formatting, logging, media types, X.509 contents, the regular expressions of the
filters, the middlewares of the API and flag parsing are data or wording that no
property looks at. Left out as parts:

- the dashboard page: browser code without state that the server depends on;
- the configuration: flag definitions and their defaults, read once before
  anything starts. Where a value matters (`--buffer 0`, limits of 0, the output
  format) the modules take it as a constant or choose it in `Init`;
- `JSONWriter` in `internal/output/output.go`, which nothing constructs;
- the platform half of transparent mode (the `SO_ORIGINAL_DST` system call): it
  yields an address or fails, which is how `Transparent` uses it;
- responses to HEAD requests in `Exchange`: goproxy's treatment of a rewritten
  Content-Length on them is outside the repository;
- the growth of the certificate cache, and expired certificates in it: the code
  has neither a bound nor a check to state a property of;
- the browser image and its scripts.

## 7. State and plan

All components of section 1 but the dashboard page and the configuration are
modelled and checked, and every safety property of the passing runs is proved.

Left to model: clients that stop reading in `Exchange`, HEAD responses, and
`Startup`, the composition of `Certificates` and `Lifecycle` along `run`.

Left to prove: that the transparent handler uses the certificate cache as
`Certificates` models it.
