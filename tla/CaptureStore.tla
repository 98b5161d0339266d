---------------------------- MODULE CaptureStore ----------------------------
(***************************************************************************)
(* The in-memory capture store of goper: internal/capture/store.go (type   *)
(* RingBuffer) and the part of internal/capture/capture.go and entry.go    *)
(* that names and stamps an entry before it is pushed.                     *)
(*                                                                         *)
(* Every proxied exchange runs in a goroutine of its own.  It combines     *)
(* request and response into an entry, pushes it into the ring under the   *)
(* write lock, copies the subscriber list under the same lock, and then,   *)
(* with the lock released, offers the entry to each subscriber's channel   *)
(* in turn.  One critical section is one action; the notification loop     *)
(* takes one action per subscriber, so Clear, Subscribe and Unsubscribe    *)
(* interleave with it.  Readers hold the read lock for a whole operation,  *)
(* so Get, List and Stats are functions of the ring.                       *)
(***************************************************************************)
EXTENDS Integers, SequencesExt

CONSTANTS
    BufferSize,       \* the --buffer flag, as given
    DefaultCapacity,  \* capacity used when the flag is not positive (10000)
    ChanCap,          \* capacity of a subscriber channel (100)
    Goroutines,       \* goroutines handling proxied exchanges
    Channels,         \* channel identities: each Subscribe makes a fresh one
    Kinds,            \* what an exchange looked like: a set of records with
                      \* fields method, status, url, reqLen, respLen and
                      \* headers, the names of its request headers
    MaxEntries,       \* bound: entry ids the process hands out
    MaxTime,          \* bound: wall-clock readings are 1 .. MaxTime
    Nil,              \* the nil pointer: an empty slot, an absent body
    Absent            \* no such key in the id index

(* NewRingBuffer: a capacity that is not positive means the default.       *)
NewCapacity(capacity) == IF capacity <= 0 THEN DefaultCapacity ELSE capacity

Capacity == NewCapacity(BufferSize)

redactedHeaders == {"authorization", "cookie", "set-cookie", "proxy-authorization"}

(* Broken variant: credentials are stored as they are.                     *)
headersToMap_Clear(names) == [h \in names |-> "value"]

(* headersToMap: credentials are replaced before an entry is stored.       *)
headersToMap(names) ==
    [h \in names |-> IF h \in redactedHeaders THEN "***REDACTED***" ELSE "value"]

(* What captureRequest and CombineEntry keep of an exchange.               *)
captured(k) ==
    [method  |-> k.method, status |-> k.status, url |-> k.url,
     reqLen  |-> k.reqLen, respLen |-> k.respLen,
     headers |-> headersToMap(k.headers)]

Slots == 0 .. Capacity - 1
Ids   == 1 .. MaxEntries
Entry == [id : Ids, ts : 1 .. MaxTime, kind : {captured(k) : k \in Kinds}]

ASSUME StoreAssumption ==
    /\ BufferSize \in Int
    /\ DefaultCapacity \in Nat \ {0}
    /\ ChanCap \in Nat \ {0}
    /\ MaxEntries \in Nat
    /\ MaxTime \in Nat
    /\ \A k \in Kinds : /\ k.reqLen \in Nat \cup {Nil}
                        /\ k.respLen \in Nat \cup {Nil}
    /\ Nil \notin Nat
    /\ Nil \notin Entry
    /\ Absent \notin Int

VARIABLES
    rb,           \* the RingBuffer struct, without its subscriber list
    subscribers,  \* RingBuffer.subscribers, in subscription order
    chState,      \* per channel: not made yet, open or closed
    chBuf,        \* per channel: the entries buffered in it
    idCounter,    \* the package-level atomic counter of entry ids
    pc,           \* per goroutine: where it is
    cur,          \* per goroutine: the entry it is pushing
    pending       \* per goroutine: subscribers not yet offered its entry

ringVars == <<rb>>
feedVars == <<subscribers, chState, chBuf>>
pushVars == <<pc, cur, pending>>
vars == <<rb, subscribers, chState, chBuf, idCounter, pc, cur, pending>>

-----------------------------------------------------------------------------
(* The ring: pure functions on the RingBuffer record.                      *)

NewRingBuffer ==
    [buffer        |-> [i \in Slots |-> Nil],
     head          |-> 0,
     tail          |-> 0,
     count         |-> 0,
     idIndex       |-> [id \in Ids |-> Absent],
     evictions     |-> 0,
     bytesCaptured |-> 0]

bodyLen(body) == IF body = Nil THEN 0 ELSE body

(* Body bytes an entry retains; a body that was skipped counts zero.       *)
entryBytes(e) == bodyLen(e.kind.reqLen) + bodyLen(e.kind.respLen)

advance(i) == (i + 1) % Capacity

(* Broken variant: the evicted id stays in the index.                      *)
evictOldest_KeepsIndex(r) ==
    [r EXCEPT !.buffer[r.head] = Nil,
              !.head = advance(r.head),
              !.count = @ - 1,
              !.evictions = @ + 1]

evictOldest(r) ==
    [r EXCEPT !.idIndex[r.buffer[r.head].id] = Absent,
              !.buffer[r.head] = Nil,
              !.head = advance(r.head),
              !.count = @ - 1,
              !.evictions = @ + 1]

(* The writes of Push once there is room.                                  *)
insert(r, e) ==
    [r EXCEPT !.bytesCaptured = @ + entryBytes(e),
              !.buffer[r.tail] = e,
              !.idIndex[e.id] = r.tail,
              !.tail = advance(r.tail),
              !.count = @ + 1]

(* The critical section of Push on the ring.  CombineEntry has already     *)
(* given the entry its id and timestamp, so finalizeEntry changes nothing. *)
pushRing(r, e) ==
    insert(IF r.count = Capacity THEN evictOldest(r) ELSE r, e)

(* Broken variant: clearing also forgets the lifetime eviction count.      *)
clearRing_ResetsStats(r) == NewRingBuffer

clearRing(r) ==
    [NewRingBuffer EXCEPT !.evictions = r.evictions,
                          !.bytesCaptured = r.bytesCaptured]

-----------------------------------------------------------------------------
(* Reads under the read lock.                                              *)

Get(r, id) == IF r.idIndex[id] = Absent THEN Nil ELSE r.buffer[r.idIndex[id]]

(* List filters: opts is a record with fields since, method, status, url,  *)
(* limit and offset, in which 0 and Nil mean "not given".                  *)
sinceExcludes(opts, e)  == opts.since # 0 /\ e.ts < opts.since
methodExcludes(opts, e) == opts.method # Nil /\ e.kind.method # opts.method
statusExcludes(opts, e) == opts.status > 0 /\ e.kind.status # opts.status
urlExcludes(opts, e)    == opts.url # Nil /\ e.kind.url # opts.url

Matches(opts, e) ==
    /\ ~sinceExcludes(opts, e)
    /\ ~methodExcludes(opts, e)
    /\ ~statusExcludes(opts, e)
    /\ ~urlExcludes(opts, e)

keep(opts, e) == e # Nil /\ Matches(opts, e)

(* The slot i steps after the head, wrapping around.                       *)
slotAt(r, i) == (r.head + i) % Capacity

(* One turn of scan's loop: slot i after the head, if the filters allow.   *)
collect(result, r, opts, i) ==
    IF keep(opts, r.buffer[slotAt(r, i)])
    THEN Append(result, r.buffer[slotAt(r, i)])
    ELSE result

(* Every slot of the ring from the head on; result[n] is what n turns of   *)
(* the loop have collected.                                                *)
scan(r, opts) ==
    LET result[n \in 0 .. Capacity] ==
            IF n = 0 THEN << >> ELSE collect(result[n - 1], r, opts, n - 1)
    IN  result[Capacity]

capResult(result, limit) ==
    IF limit > 0 /\ limit < Len(result) THEN SubSeq(result, 1, limit) ELSE result

(* Broken variant: an offset past the end returns the whole list.          *)
paginate_PastEndIsAll(result, opts) ==
    IF opts.offset > 0 /\ opts.offset < Len(result)
    THEN capResult(SubSeq(result, opts.offset + 1, Len(result)), opts.limit)
    ELSE capResult(result, opts.limit)

paginate(result, opts) ==
    IF opts.offset > 0
    THEN IF opts.offset >= Len(result)
         THEN << >>
         ELSE capResult(SubSeq(result, opts.offset + 1, Len(result)), opts.limit)
    ELSE capResult(result, opts.limit)

List(r, opts) == IF r.count = 0 THEN << >> ELSE paginate(scan(r, opts), opts)

Stats(r) == [count |-> r.count, capacity |-> Capacity,
             evictions |-> r.evictions, bytesCaptured |-> r.bytesCaptured]

-----------------------------------------------------------------------------
Init ==
    /\ rb = NewRingBuffer
    /\ subscribers = << >>
    /\ chState = [c \in Channels |-> "unmade"]
    /\ chBuf = [c \in Channels |-> << >>]
    /\ idCounter = 0
    /\ pc = [g \in Goroutines |-> "idle"]
    /\ cur = [g \in Goroutines |-> Nil]
    /\ pending = [g \in Goroutines |-> << >>]

(* Broken variant: the counter is read here and advanced by someone else's *)
(* store, as with a counter that is not atomic.                            *)
CombineEntry_LostIncrement(g, k) ==
    /\ pc[g] = "idle"
    /\ idCounter < MaxEntries
    /\ idCounter' \in {idCounter, idCounter + 1}
    /\ cur' = [cur EXCEPT ![g] = [id |-> idCounter + 1, ts |-> 1, kind |-> captured(k)]]
    /\ pc' = [pc EXCEPT ![g] = "combined"]
    /\ UNCHANGED <<rb, subscribers, chState, chBuf, pending>>

(* CombineEntry: the exchange is over; the entry gets the next id of the   *)
(* atomic counter, and a timestamp.  The clock is read separately from the *)
(* counter, so timestamps need not follow the ids: any reading is allowed. *)
CombineEntry(g, k) ==
    /\ pc[g] = "idle"
    /\ idCounter < MaxEntries
    /\ idCounter' = idCounter + 1
    /\ \E t \in 1 .. MaxTime :
         cur' = [cur EXCEPT ![g] = [id |-> idCounter + 1, ts |-> t, kind |-> captured(k)]]
    /\ pc' = [pc EXCEPT ![g] = "combined"]
    /\ UNCHANGED <<rb, subscribers, chState, chBuf, pending>>

(* Where a push goes once the listed subscribers remain: it is done, and   *)
(* lets go of the entry, when there are none.                              *)
continueNotify(g, rest) ==
    /\ pending' = [pending EXCEPT ![g] = rest]
    /\ pc' = [pc EXCEPT ![g] = IF rest = << >> THEN "idle" ELSE "notify"]
    /\ cur' = IF rest = << >> THEN [cur EXCEPT ![g] = Nil] ELSE cur

(* Push, lock to unlock: store the entry and snapshot the subscribers.     *)
Push(g) ==
    /\ pc[g] = "combined"
    /\ rb' = pushRing(rb, cur[g])
    /\ continueNotify(g, subscribers)
    /\ UNCHANGED <<subscribers, chState, chBuf, idCounter>>

(* Broken variant: the send waits for room instead of dropping the entry.  *)
NotifySend_Blocking(g) ==
    /\ pc[g] = "notify"
    /\ chState[Head(pending[g])] = "open"
    /\ Len(chBuf[Head(pending[g])]) < ChanCap
    /\ chBuf' = [chBuf EXCEPT ![Head(pending[g])] = Append(@, cur[g])]
    /\ continueNotify(g, Tail(pending[g]))
    /\ UNCHANGED <<rb, subscribers, chState, idCounter>>

(* Broken variant: a channel that never refuses a send.                    *)
NotifySend_Unbounded(g) ==
    /\ pc[g] = "notify"
    /\ chState[Head(pending[g])] = "open"
    /\ chBuf' = [chBuf EXCEPT ![Head(pending[g])] = Append(@, cur[g])]
    /\ continueNotify(g, Tail(pending[g]))
    /\ UNCHANGED <<rb, subscribers, chState, idCounter>>

(* One turn of notifySubscribers on an open channel: the send succeeds if  *)
(* there is room, else the default branch drops the entry.                 *)
NotifySend(g) ==
    /\ pc[g] = "notify"
    /\ LET c == Head(pending[g])
       IN  /\ chState[c] = "open"
           /\ chBuf' = IF Len(chBuf[c]) < ChanCap
                       THEN [chBuf EXCEPT ![c] = Append(@, cur[g])]
                       ELSE chBuf
    /\ continueNotify(g, Tail(pending[g]))
    /\ UNCHANGED <<rb, subscribers, chState, idCounter>>

(* The channel was closed by Unsubscribe after the snapshot: a send on a   *)
(* closed channel panics, select or not, and unwinds the goroutine.        *)
NotifyPanic(g) ==
    /\ pc[g] = "notify"
    /\ chState[Head(pending[g])] = "closed"
    /\ pc' = [pc EXCEPT ![g] = "panicked"]
    /\ pending' = [pending EXCEPT ![g] = << >>]
    /\ cur' = [cur EXCEPT ![g] = Nil]
    /\ UNCHANGED <<rb, subscribers, chState, chBuf, idCounter>>

(* Broken variant: after a Clear the ids start again from one.             *)
Clear_RestartsIds ==
    /\ rb' = clearRing(rb)
    /\ idCounter' = 0
    /\ UNCHANGED <<subscribers, chState, chBuf, pc, cur, pending>>

Clear ==
    /\ rb' = clearRing(rb)
    /\ UNCHANGED <<subscribers, chState, chBuf, idCounter, pc, cur, pending>>

(* Subscribe makes a fresh channel c and registers it.                     *)
Subscribe(c) ==
    /\ chState[c] = "unmade"
    /\ chState' = [chState EXCEPT ![c] = "open"]
    /\ subscribers' = Append(subscribers, c)
    /\ UNCHANGED <<rb, chBuf, idCounter, pc, cur, pending>>

(* Broken variant: the channel is closed but stays registered.             *)
Unsubscribe_KeepsRegistered(c) ==
    /\ Contains(subscribers, c)
    /\ chState' = [chState EXCEPT ![c] = "closed"]
    /\ UNCHANGED <<rb, subscribers, chBuf, idCounter, pc, cur, pending>>

(* Broken variant: pushes share the subscriber slice instead of copying    *)
(* it, so the in-place removal shifts what they have still to notify and   *)
(* repeats the last subscriber.                                            *)
Unsubscribe_SharedSlice(c) ==
    /\ Contains(subscribers, c)
    /\ subscribers' = RemoveFirst(subscribers, c)
    /\ chState' = [chState EXCEPT ![c] = "closed"]
    /\ pending' = [g \in Goroutines |->
                     IF Contains(pending[g], c)
                     THEN Append(RemoveFirst(pending[g], c), Last(pending[g]))
                     ELSE pending[g]]
    /\ UNCHANGED <<rb, chBuf, idCounter, pc, cur>>

(* Unsubscribe removes the first registration of the channel and closes    *)
(* it; a channel that is not registered is left alone.  What the channel   *)
(* still buffers stays readable.                                           *)
Unsubscribe(c) ==
    /\ \E i \in 1 .. Len(subscribers) :
         /\ subscribers[i] = c
         /\ \A j \in 1 .. i - 1 : subscribers[j] # c
         /\ subscribers' = RemoveAt(subscribers, i)
    /\ chState' = [chState EXCEPT ![c] = "closed"]
    /\ UNCHANGED <<rb, chBuf, idCounter, pc, cur, pending>>

(* A subscriber takes the oldest entry its channel buffers.                *)
Receive(c) ==
    /\ chBuf[c] # << >>
    /\ chBuf' = [chBuf EXCEPT ![c] = Tail(@)]
    /\ UNCHANGED <<rb, subscribers, chState, idCounter, pc, cur, pending>>

Ingest(g) ==
    \/ \E k \in Kinds : CombineEntry(g, k)
    \/ Push(g)
    \/ NotifySend(g)
    \/ NotifyPanic(g)

Next ==
    \/ \E g \in Goroutines : Ingest(g)
    \/ Clear
    \/ \E c \in Channels : Subscribe(c) \/ Unsubscribe(c) \/ Receive(c)

Spec == Init /\ [][Next]_vars

-----------------------------------------------------------------------------
(* The entries the ring holds, oldest first.                               *)
Contents(r) == [i \in 1 .. r.count |-> r.buffer[slotAt(r, i - 1)]]

RingBuffers ==
    [buffer        : [Slots -> Entry \cup {Nil}],
     head          : Slots,
     tail          : Slots,
     count         : 0 .. Capacity,
     idIndex       : [Ids -> Slots \cup {Absent}],
     evictions     : Nat,
     bytesCaptured : Nat]

(* Every variable has the type its Go declaration gives it, and a channel  *)
(* never buffers more than its capacity (make(chan, 100) in Subscribe).    *)
TypeOK ==
    /\ rb \in RingBuffers
    /\ subscribers \in Seq(Channels)
    /\ chState \in [Channels -> {"unmade", "open", "closed"}]
    /\ chBuf \in [Channels -> Seq(Entry)]
    /\ \A c \in Channels : Len(chBuf[c]) <= ChanCap
    /\ idCounter \in 0 .. MaxEntries
    /\ pc \in [Goroutines -> {"idle", "combined", "notify", "panicked"}]
    /\ cur \in [Goroutines -> Entry \cup {Nil}]
    /\ pending \in [Goroutines -> Seq(Channels)]
    /\ \A g \in Goroutines : pc[g] \in {"combined", "notify"} => cur[g] \in Entry
    /\ \A g \in Goroutines : pc[g] = "notify" => pending[g] # << >>

(* The slot i is one of the count slots that start at the head.            *)
Occupied(r, i) ==
    IF i >= r.head THEN i - r.head < r.count
                   ELSE i + Capacity - r.head < r.count

(* The ring is a window of count slots from head up to tail, modulo the    *)
(* capacity: the slots in it hold entries and the others hold nil.  After  *)
(* any history of Push, eviction and Clear, scanning all capacity slots    *)
(* from the head (as scan does) meets the entries in the order of Push.    *)
RingShape ==
    /\ rb.tail = slotAt(rb, rb.count)
    /\ \A i \in Slots : rb.buffer[i] # Nil <=> Occupied(rb, i)

(* No two entries that are retained or about to be pushed share an id, and *)
(* the counter is ahead of them all: "Entry IDs: ... unique"               *)
(* (FEATURES.md:37), within one run of the process.                        *)
IdsUnique ==
    /\ \A i \in Slots : rb.buffer[i] # Nil => rb.buffer[i].id <= idCounter
    /\ \A g \in Goroutines :
         pc[g] = "combined" =>
            /\ cur[g].id <= idCounter
            /\ \A i \in Slots : rb.buffer[i] # Nil => rb.buffer[i].id # cur[g].id
    /\ \A g, h \in Goroutines :
         pc[g] = "combined" /\ pc[h] = "combined" /\ cur[g].id = cur[h].id => g = h

(* The id index is exact: an id maps to a slot iff that slot holds the     *)
(* entry with that id, so Get finds every retained entry and never returns *)
(* an evicted, cleared or different one.                                   *)
IndexExact ==
    \A id \in Ids, i \in Slots :
        rb.idIndex[id] = i <=> rb.buffer[i] # Nil /\ rb.buffer[i].id = id

(* The subscriber list is exactly the open channels, each once: Subscribe  *)
(* and Unsubscribe never leave a closed channel registered (a later push   *)
(* would panic on it for certain) nor an open one forgotten, and no entry  *)
(* is offered twice to a channel by one push.                              *)
SubscribersExact ==
    /\ \A c \in Channels : Contains(subscribers, c) <=> chState[c] = "open"
    /\ \A i, j \in 1 .. Len(subscribers) :
         subscribers[i] = subscribers[j] => i = j

(* The ring implements the abstract log: Push appends and drops the oldest *)
(* entry only when full, Clear empties, and the lifetime counters survive. *)
Log == INSTANCE CaptureLog WITH
           Captures <- Entry,
           BytesOf <- entryBytes,
           log <- Contents(rb),
           evicted <- rb.evictions,
           bytes <- rb.bytesCaptured

ImplementsLog == Log!Spec

(* The id was handed out, and its entry has left the ring: it is neither   *)
(* retained nor on its way.                                                *)
Retired(id) ==
    /\ id <= idCounter
    /\ Get(rb, id) = Nil
    /\ \A g \in Goroutines : pc[g] = "combined" => cur[g].id # id

(* What an id stands for: the same entry for as long as Get finds one, and *)
(* nothing ever again once that is evicted or cleared.                     *)
IdKept(id) ==
    /\ Get(rb, id) # Nil => Get(rb', id) \in {Get(rb, id), Nil}
    /\ Retired(id) => Retired(id)'

(* An id never changes its entry and never comes back: a client that asks  *)
(* for an entry it has seen before (GET /api/requests/{id}, or its replay) *)
(* gets that one or a 404, and after a 404 for it always a 404, whatever   *)
(* is pushed, evicted and cleared in between (store.go:57-79, :112-125).   *)
IdsNeverReused == [][\A id \in Ids : IdKept(id)]_vars

(* No subscriber holds a push up: once past its critical section a push    *)
(* goes through its whole notification loop, or dies in the send on a      *)
(* closed channel that NoPushPanics is about.  "A slow (or blocking)       *)
(* subscriber never stalls ingestion" (store.go:72).                       *)
IngestionNeverStalls ==
    \A g \in Goroutines :
        pc[g] = "notify" ~> \/ pc[g] = "idle" /\ pending[g] = << >>
                            \/ pc[g] = "panicked"

(* No push dies in notifySubscribers: the store is documented as           *)
(* thread-safe, with subscribers coming and going (FEATURES.md:38).        *)
NoPushPanics == \A g \in Goroutines : pc[g] # "panicked"
=============================================================================
