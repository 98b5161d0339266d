--------------------------- MODULE LiveFeedProofs ---------------------------
(***************************************************************************)
(* Proofs about LiveFeed, for every number of clients, pushing goroutines  *)
(* and entries and every capacity: the handlers use the store only through *)
(* its operations, a channel lives exactly as long as its handler streams, *)
(* and no client is sent an entry twice.                                   *)
(***************************************************************************)
EXTENDS LiveFeed, CaptureStoreProofs

-----------------------------------------------------------------------------
(* The feed refines the store: every step of a handler is one operation of *)
(* the store or leaves the store alone.                                    *)

LEMMA FeedStep == [LiveNext]_liveVars => [Next]_vars
  <1> SUFFICES ASSUME [LiveNext]_liveVars PROVE [Next]_vars
    OBVIOUS
  <1>1. CASE UNCHANGED liveVars
    BY <1>1 DEF liveVars, vars
  <1>2. CASE (\E g \in Goroutines : Ingest(g)) \/ Clear
    BY <1>2 DEF Next
  <1>3. ASSUME NEW c \in Channels, Handle(c)
        PROVE  Subscribe(c) \/ Receive(c) \/ Unsubscribe(c) \/ UNCHANGED vars
    BY <1>3 DEF Handle, Connect, WriteBackfill, StartStream, StreamEntry, StreamEnds,
                HandlerExit, Disconnect
  <1>4. CASE \E c \in Channels : Handle(c)
    BY <1>3, <1>4 DEF Next
  <1> QED BY <1>1, <1>2, <1>4 DEF LiveNext

(* Whatever the handlers and their clients do, the store sees a legal      *)
(* history of calls: what is proved of the store holds under the feed.     *)
THEOREM FeedUsesStore == LiveSpec => Spec
  <1>1. LiveInit => Init
    BY DEF LiveInit
  <1> QED BY <1>1, FeedStep, PTL DEF LiveSpec, Spec

-----------------------------------------------------------------------------
(* Sequences of entries and the ids in them.                               *)

Distinct(s) == \A i, j \in 1 .. Len(s) : s[i].id = s[j].id => i = j

LEMMA NoIds == idsOf(<< >>) = {} /\ Distinct(<< >>)
  BY DEF idsOf, Distinct

LEMMA IdsOfAppend ==
  ASSUME NEW s \in Seq(Entry), NEW e \in Entry
  PROVE  /\ idsOf(Append(s, e)) = idsOf(s) \cup {e.id}
         /\ Distinct(s) /\ e.id \notin idsOf(s) => Distinct(Append(s, e))
  <1>1. /\ Len(s) \in Nat
        /\ Len(Append(s, e)) = Len(s) + 1
        /\ \A i \in 1 .. Len(s) : Append(s, e)[i] = s[i]
        /\ Append(s, e)[Len(s) + 1] = e
    BY AppendProperties, LenProperties
  <1> DEFINE t == Append(s, e)
  <1> HIDE DEF t
  <1>2. /\ Len(t) = Len(s) + 1
        /\ \A i \in 1 .. Len(s) : t[i] = s[i]
        /\ t[Len(s) + 1] = e
    BY <1>1 DEF t
  <1>3. idsOf(t) = idsOf(s) \cup {e.id}
    <2>1. ASSUME NEW i \in 1 .. Len(s) + 1 PROVE t[i].id \in idsOf(s) \cup {e.id}
      BY <1>1, <1>2 DEF idsOf
    <2>2. \A i \in 1 .. Len(s) : s[i].id \in idsOf(t)
      BY <1>1, <1>2 DEF idsOf
    <2>3. e.id \in idsOf(t)
      BY <1>1, <1>2 DEF idsOf
    <2> QED BY <1>2, <2>1, <2>2, <2>3 DEF idsOf
  <1>4. ASSUME Distinct(s), e.id \notin idsOf(s) PROVE Distinct(t)
    <2>1. \A i \in 1 .. Len(s) : s[i].id # e.id
      BY <1>4 DEF idsOf
    <2>2. ASSUME NEW i \in 1 .. Len(s) + 1, NEW j \in 1 .. Len(s) + 1, t[i].id = t[j].id
          PROVE  i = j
      <3>1. CASE i \in 1 .. Len(s) /\ j \in 1 .. Len(s)
        BY <1>2, <1>4, <2>2, <3>1 DEF Distinct
      <3>2. CASE i = Len(s) + 1 /\ j \in 1 .. Len(s)
        BY <1>2, <2>1, <2>2, <3>2
      <3>3. CASE j = Len(s) + 1 /\ i \in 1 .. Len(s)
        BY <1>2, <2>1, <2>2, <3>3
      <3> QED BY <1>1, <3>1, <3>2, <3>3
    <2> QED BY <1>2, <2>2 DEF Distinct
  <1> QED BY <1>3, <1>4 DEF t

LEMMA IdsOfTail ==
  ASSUME NEW s \in Seq(Entry), s # << >>, Distinct(s)
  PROVE  /\ Head(s) \in Entry /\ Tail(s) \in Seq(Entry)
         /\ Distinct(Tail(s))
         /\ Head(s).id \in idsOf(s)
         /\ Head(s).id \notin idsOf(Tail(s))
         /\ idsOf(Tail(s)) \subseteq idsOf(s)
  <1> DEFINE n == Len(s)
             t == Tail(s)
  <1>1. /\ Head(s) \in Entry /\ t \in Seq(Entry)
        /\ n \in Nat /\ n > 0 /\ Len(t) = n - 1
        /\ Head(s) = s[1]
        /\ \A i \in 1 .. n - 1 : t[i] = s[i + 1]
    BY HeadTailProperties, LenProperties, EmptySeq
  <1> HIDE DEF n, t
  <1>2. \A i, j \in 1 .. n : s[i].id = s[j].id => i = j
    BY DEF Distinct, n
  <1>3. idsOf(s) = {s[i].id : i \in 1 .. n} /\ idsOf(t) = {t[i].id : i \in 1 .. n - 1}
    BY <1>1 DEF idsOf, n
  <1>4. \A i \in 1 .. n - 1 : i + 1 \in 1 .. n /\ i + 1 # 1
    BY <1>1
  <1>5. Distinct(t)
    BY <1>1, <1>2, <1>4 DEF Distinct
  <1>6. Head(s).id \in idsOf(s) /\ Head(s).id \notin idsOf(t)
    <2>1. 1 \in 1 .. n
      BY <1>1
    <2>2. \A i \in 1 .. n - 1 : t[i].id # s[1].id
      BY <1>1, <1>2, <1>4, <2>1
    <2> QED BY <1>1, <1>3, <2>1, <2>2
  <1>7. idsOf(t) \subseteq idsOf(s)
    BY <1>1, <1>3, <1>4
  <1> QED BY <1>1, <1>5, <1>6, <1>7 DEF t

-----------------------------------------------------------------------------
(* The history of a new client: entries of the ring, none of them twice.   *)

RingIds(r) == {r.buffer[i].id : i \in {j \in Slots : r.buffer[j] # Nil}}

LEMMA HistoryFacts ==
  ASSUME NEW r, WellFormed(r), NEW v \in Backfills
  PROVE  LET h == history(r, backfillCount(v))
         IN  /\ h \in Seq(Entry)
             /\ Distinct(h)
             /\ idsOf(h) \subseteq RingIds(r)
  <1> DEFINE n == backfillCount(v)
             opts == backfillOpts(n)
             s == scan(r, opts)
  <1>1. n \in Nat
    BY FeedAssumption DEF backfillCount
  <1>2. /\ s \in Seq(Entry) /\ Len(s) \in Nat
        /\ \A k \in 1 .. Len(s) : \E i \in Slots : r.buffer[i] # Nil /\ s[k] = r.buffer[i]
        /\ \A k, l \in 1 .. Len(s) : s[k].id = s[l].id => k = l
    BY ScanResult, LenProperties
  <1>3. \/ history(r, n) = << >>
        \/ history(r, n) = s
        \/ n <= Len(s) /\ history(r, n) = SubSeq(s, 1, n)
    <2>1. opts.offset = 0 /\ opts.limit = n
      BY DEF backfillOpts
    <2>2. paginate(s, opts) = capResult(s, n)
      BY <2>1 DEF paginate
    <2> HIDE DEF s, opts
    <2>3. n < Len(s) => n <= Len(s)
      BY <1>1, <1>2
    <2> QED BY <2>2, <2>3 DEF history, List, capResult, s, opts
  <1> HIDE DEF s, n, opts
  <1>4. ASSUME NEW h \in Seq(Entry), Len(h) <= Len(s),
               \A k \in 1 .. Len(h) : h[k] = s[k]
        PROVE  Distinct(h) /\ idsOf(h) \subseteq RingIds(r)
    <2>1. Len(h) \in Nat /\ \A k \in 1 .. Len(h) : k \in 1 .. Len(s)
      BY <1>2, <1>4, LenProperties
    <2>2. Distinct(h)
      BY <1>2, <1>4, <2>1 DEF Distinct
    <2>3. \A k \in 1 .. Len(h) : h[k].id \in RingIds(r)
      BY <1>2, <1>4, <2>1 DEF RingIds
    <2> QED BY <2>2, <2>3 DEF idsOf
  <1>5. CASE history(r, n) = << >>
    BY <1>5, NoIds DEF n
  <1>6. CASE history(r, n) = s
    BY <1>2, <1>4, <1>6 DEF n
  <1>7. CASE n <= Len(s) /\ history(r, n) = SubSeq(s, 1, n)
    <2>1. /\ SubSeq(s, 1, n) \in Seq(Entry)
          /\ Len(SubSeq(s, 1, n)) = n
          /\ \A k \in 1 .. n : SubSeq(s, 1, n)[k] = s[k]
      <3>1. \A k \in 1 .. n : s[k] \in Entry
        BY <1>1, <1>2, <1>7, ElementOfSeq
      <3> QED BY <1>1, <1>2, <1>7, <3>1, SubSeqProperties
    <2> QED BY <1>4, <1>7, <2>1 DEF n
  <1> QED BY <1>3, <1>5, <1>6, <1>7

-----------------------------------------------------------------------------
(* The inductive invariant.  SubscriptionScoped needs what a handler that  *)
(* has not subscribed has not made.  NoDuplicateDelivery needs where an    *)
(* entry can still be: with a goroutine that will offer it, in a channel,  *)
(* in the history a handler is writing, or sent; and that it never is in   *)
(* two of these places for one client, nor twice in one of them.           *)

HandlerTypes ==
    /\ phase \in [Channels -> {"none", "backfill", "stream", "exit", "gone"}]
    /\ out \in [Channels -> Seq(Entry)]
    /\ sent \in [Channels -> Seq(Entry)]
    /\ up \in [Channels -> BOOLEAN]

(* A channel that is not made yet is in no snapshot and buffers nothing.   *)
ScopeInv ==
    /\ SubscriptionScoped
    /\ \A c \in Channels : phase[c] \in {"none", "backfill"} => chState[c] = "unmade"
    /\ \A c \in Channels : chState[c] = "unmade" => chBuf[c] = << >>
    /\ \A g \in Goroutines : \A i \in 1 .. Len(pending[g]) :
          chState[pending[g][i]] # "unmade"

(* A snapshot of the subscribers lists each of them once.                  *)
SnapshotInv ==
    \A g \in Goroutines : \A i, j \in 1 .. Len(pending[g]) :
        pending[g][i] = pending[g][j] => i = j

(* What has reached client c or its handler is there once.                 *)
OnceInv ==
    \A c \in Channels :
        /\ Distinct(sent[c]) /\ Distinct(out[c]) /\ Distinct(chBuf[c])
        /\ phase[c] = "none" => sent[c] = << >>
        /\ phase[c] = "backfill" => idsOf(sent[c]) \cap idsOf(out[c]) = {}
        /\ idsOf(sent[c]) \cap idsOf(chBuf[c]) = {}

Pushing(g) == pc[g] \in {"combined", "notify"}

reached(c) == idsOf(sent[c]) \cup idsOf(out[c]) \cup idsOf(chBuf[c])

(* What a goroutine pushes is new: to everybody before it is stored, and   *)
(* afterwards to those it has still to offer it to.                        *)
NewInv ==
    /\ \A c \in Channels : \A n \in reached(c) : n <= idCounter
    /\ \A g \in Goroutines : Pushing(g) => cur[g].id <= idCounter
    /\ \A g, h \in Goroutines :
          Pushing(g) /\ Pushing(h) /\ cur[g].id = cur[h].id => g = h
    /\ \A g \in Goroutines, c \in Channels :
          pc[g] = "combined" => cur[g].id \notin reached(c)
    /\ \A g \in Goroutines : pc[g] = "notify" =>
          \A i \in 1 .. Len(pending[g]) :
            cur[g].id \notin idsOf(sent[pending[g][i]]) \cup idsOf(chBuf[pending[g][i]])

FeedInv == HandlerTypes /\ ScopeInv /\ SnapshotInv /\ OnceInv /\ NewInv

LiveInv == Inv /\ SubscribersExact /\ FeedInv

LEMMA LiveInitInv == LiveInit => LiveInv
  <1> SUFFICES ASSUME LiveInit PROVE LiveInv
    OBVIOUS
  <1>1. Inv
    BY InitInv DEF LiveInit
  <1>2. SubscribersExact
    BY DEF LiveInit, Init, SubscribersExact, Contains
  <1>3. HandlerTypes /\ ScopeInv /\ SnapshotInv
    BY DEF LiveInit, Init, HandlerTypes, ScopeInv, SubscriptionScoped, SnapshotInv
  <1>4. OnceInv /\ NewInv
    BY NoIds DEF LiveInit, Init, OnceInv, NewInv, Pushing, reached
  <1> QED BY <1>1, <1>2, <1>3, <1>4 DEF LiveInv, FeedInv

(* Steps that touch neither the handlers, the channels nor the pushes.     *)
LEMMA FeedUntouched ==
  ASSUME FeedInv, UNCHANGED <<handlerVars, chState, chBuf, idCounter, pc, cur, pending>>
  PROVE  FeedInv'
  BY DEF FeedInv, HandlerTypes, ScopeInv, SubscriptionScoped, SnapshotInv, OnceInv, NewInv,
         Pushing, reached, handlerVars, Distinct

-----------------------------------------------------------------------------
(* The pushing goroutines.                                                 *)

(* A new entry has the next id, which nothing has yet.                     *)
LEMMA CombineFeed ==
  ASSUME LiveInv, NEW g \in Goroutines, NEW k \in Kinds, CombineEntry(g, k),
         UNCHANGED handlerVars
  PROVE  FeedInv'
  <1>1. /\ HandlerTypes' /\ ScopeInv' /\ SnapshotInv' /\ OnceInv'
    BY DEF LiveInv, FeedInv, CombineEntry, handlerVars, HandlerTypes, ScopeInv,
           SubscriptionScoped, SnapshotInv, OnceInv, Distinct
  <1>2. /\ cur' = [cur EXCEPT ![g] = cur'[g]]
        /\ cur'[g].id = idCounter + 1
        /\ idCounter \in Nat /\ idCounter' = idCounter + 1
        /\ pc' = [pc EXCEPT ![g] = "combined"]
        /\ UNCHANGED <<sent, out, chBuf, pending>>
        /\ cur \in [Goroutines -> Entry \cup {Nil}]
        /\ pc \in [Goroutines -> {"idle", "combined", "notify", "panicked"}]
        /\ pc[g] = "idle"
    BY DEF CombineEntry, LiveInv, Inv, TypeOK, handlerVars
  <1>3. \A c \in Channels : \A n \in reached(c) : n \in Int
    <2>1. \A s \in Seq(Entry) : idsOf(s) \subseteq Int
      <3> SUFFICES ASSUME NEW s \in Seq(Entry), NEW i \in 1 .. Len(s) PROVE s[i].id \in Int
        BY DEF idsOf
      <3>1. s[i] \in Entry
        BY ElementOfSeq
      <3> QED BY <3>1, StoreAssumption DEF Entry, Ids
    <2> QED BY <2>1 DEF LiveInv, Inv, TypeOK, FeedInv, HandlerTypes, reached
  <1>4. \A h \in Goroutines : Pushing(h) => cur[h].id \in Int
    BY StoreAssumption DEF LiveInv, Inv, TypeOK, Pushing, Entry, Ids
  <1>5. \A h \in Goroutines : h # g => pc'[h] = pc[h] /\ cur'[h] = cur[h]
    BY <1>2
  <1>6. \A c \in Channels : reached(c)' = reached(c)
    BY <1>2 DEF reached
  <1>7. NewInv'
    <2>1. \A c \in Channels : \A n \in reached(c) : n <= idCounter' /\ n # cur'[g].id
      BY <1>2, <1>3 DEF LiveInv, FeedInv, NewInv
    <2>2. \A h \in Goroutines : Pushing(h)' /\ h # g =>
            cur'[h].id <= idCounter /\ cur'[h].id \in Int
      BY <1>4, <1>5 DEF LiveInv, FeedInv, NewInv, Pushing
    <2>3. \A h, i \in Goroutines : Pushing(h)' /\ Pushing(i)' /\ cur'[h].id = cur'[i].id => h = i
      <3>1. \A h \in Goroutines : Pushing(h)' /\ h # g => cur'[h].id # cur'[g].id
        BY <1>2, <2>2
      <3> QED BY <1>5, <3>1 DEF LiveInv, FeedInv, NewInv, Pushing
    <2>4. \A h \in Goroutines : Pushing(h)' => cur'[h].id <= idCounter'
      BY <1>2, <2>2
    <2>5. \A h \in Goroutines, c \in Channels :
            pc'[h] = "combined" => cur'[h].id \notin reached(c)
      BY <1>5, <2>1 DEF LiveInv, FeedInv, NewInv
    <2>6. \A h \in Goroutines : pc'[h] = "notify" => h # g /\ pc[h] = "notify"
      BY <1>2
    <2>7. \A h \in Goroutines : pc'[h] = "notify" =>
            \A i \in 1 .. Len(pending[h]) :
              cur'[h].id \notin idsOf(sent[pending[h][i]]) \cup idsOf(chBuf[pending[h][i]])
      BY <1>5, <2>6 DEF LiveInv, FeedInv, NewInv
    <2> QED BY <1>2, <1>6, <2>1, <2>3, <2>4, <2>5, <2>7 DEF NewInv
  <1> QED BY <1>1, <1>7 DEF FeedInv

(* What a turn of the notification loop leaves of the pushes.              *)
LEMMA ContinueFeed ==
  ASSUME TypeOK, NEW g \in Goroutines, NEW rest, continueNotify(g, rest)
  PROVE  /\ \A h \in Goroutines : h # g =>
              pc'[h] = pc[h] /\ cur'[h] = cur[h] /\ pending'[h] = pending[h]
         /\ pending'[g] = rest
         /\ pc'[g] \in {"idle", "notify"}
         /\ pc'[g] = "notify" => cur'[g] = cur[g]
  BY DEF TypeOK, continueNotify

(* Push offers the entry to the subscribers of the moment, to all of whom  *)
(* it is new.                                                              *)
LEMMA PushFeed ==
  ASSUME LiveInv, NEW g \in Goroutines, Push(g), UNCHANGED handlerVars
  PROVE  FeedInv'
  <1>1. /\ \A h \in Goroutines : h # g =>
             pc'[h] = pc[h] /\ cur'[h] = cur[h] /\ pending'[h] = pending[h]
        /\ pending'[g] = subscribers
        /\ pc'[g] \in {"idle", "notify"}
        /\ pc'[g] = "notify" => cur'[g] = cur[g]
    BY ContinueFeed DEF LiveInv, Inv, Push
  <1>2. UNCHANGED <<phase, out, sent, up, chState, chBuf, idCounter>> /\ pc[g] = "combined"
    BY DEF Push, handlerVars
  <1>3. subscribers \in Seq(Channels) /\ \A i \in 1 .. Len(subscribers) : subscribers[i] \in Channels
    BY ElementOfSeq DEF LiveInv, Inv, TypeOK
  <1>4. /\ \A i \in 1 .. Len(subscribers) : chState[subscribers[i]] # "unmade"
        /\ \A i, j \in 1 .. Len(subscribers) : subscribers[i] = subscribers[j] => i = j
    BY <1>3 DEF LiveInv, SubscribersExact, Contains
  <1>5. HandlerTypes' /\ OnceInv'
    BY <1>2 DEF LiveInv, FeedInv, HandlerTypes, OnceInv, Distinct
  <1>6. ScopeInv' /\ SnapshotInv'
    <2>1. SubscriptionScoped'
      BY <1>2 DEF LiveInv, FeedInv, ScopeInv, SubscriptionScoped
    <2>2. \A h \in Goroutines : \A i \in 1 .. Len(pending'[h]) :
            chState[pending'[h][i]] # "unmade"
      BY <1>1, <1>4 DEF LiveInv, FeedInv, ScopeInv
    <2>3. \A h \in Goroutines : \A i, j \in 1 .. Len(pending'[h]) :
            pending'[h][i] = pending'[h][j] => i = j
      BY <1>1, <1>4 DEF LiveInv, FeedInv, SnapshotInv
    <2> QED BY <1>2, <2>1, <2>2, <2>3 DEF LiveInv, FeedInv, ScopeInv, SnapshotInv
  <1>7. NewInv'
    <2>1. \A c \in Channels : reached(c)' = reached(c)
      BY <1>2 DEF reached
    <2>2. \A h \in Goroutines : Pushing(h)' => Pushing(h) /\ cur'[h] = cur[h]
      BY <1>1, <1>2 DEF Pushing
    <2>3. \A h \in Goroutines : pc'[h] = "combined" => pc[h] = "combined" /\ cur'[h] = cur[h]
      BY <1>1
    <2>4. ASSUME NEW h \in Goroutines, pc'[h] = "notify", NEW i \in 1 .. Len(pending'[h])
          PROVE  cur'[h].id \notin idsOf(sent[pending'[h][i]]) \cup idsOf(chBuf[pending'[h][i]])
      <3>1. CASE h = g
        <4>1. subscribers[i] \in Channels
          BY <1>1, <1>3, <2>4, <3>1
        <4>2. cur[g].id \notin reached(subscribers[i])
          BY <1>2, <4>1 DEF LiveInv, FeedInv, NewInv
        <4> QED BY <1>1, <2>4, <3>1, <4>2 DEF reached
      <3>2. CASE h # g
        BY <1>1, <2>4, <3>2 DEF LiveInv, FeedInv, NewInv
      <3> QED BY <3>1, <3>2
    <2> QED BY <1>2, <2>1, <2>2, <2>3, <2>4 DEF LiveInv, FeedInv, NewInv
  <1> QED BY <1>5, <1>6, <1>7 DEF FeedInv

(* The entry goes to the next channel of the snapshot, which does not have *)
(* it, or nowhere; later channels of the snapshot are other channels.      *)
LEMMA NotifySendFeed ==
  ASSUME LiveInv, NEW g \in Goroutines, NotifySend(g), UNCHANGED handlerVars
  PROVE  FeedInv'
  <1> DEFINE p == pending[g]
             c == Head(p)
             e == cur[g]
  <1>1. /\ \A h \in Goroutines : h # g =>
             pc'[h] = pc[h] /\ cur'[h] = cur[h] /\ pending'[h] = pending[h]
        /\ pending'[g] = Tail(p)
        /\ pc'[g] \in {"idle", "notify"}
        /\ pc'[g] = "notify" => cur'[g] = e
    BY ContinueFeed DEF LiveInv, Inv, NotifySend
  <1>2. /\ UNCHANGED <<phase, out, sent, up, chState, idCounter>>
        /\ pc[g] = "notify" /\ p # << >> /\ p \in Seq(Channels)
        /\ e \in Entry
        /\ chState[c] = "open"
        /\ chBuf \in [Channels -> Seq(Entry)]
    BY DEF NotifySend, handlerVars, LiveInv, Inv, TypeOK
  <1>3. chBuf' = [chBuf EXCEPT ![c] = Append(chBuf[c], e)] \/ chBuf' = chBuf
    BY DEF NotifySend
  <1> HIDE DEF p, c, e
  <1>4. /\ c \in Channels /\ Len(p) \in Nat /\ 1 \in 1 .. Len(p) /\ p[1] = c
        /\ Len(Tail(p)) = Len(p) - 1
        /\ \A i \in 1 .. Len(p) - 1 : Tail(p)[i] = p[i + 1] /\ i + 1 \in 1 .. Len(p) /\ i + 1 # 1
    BY <1>2, HeadTailProperties, LenProperties, EmptySeq DEF c
  <1>5. \A i, j \in 1 .. Len(p) : p[i] = p[j] => i = j
    BY DEF LiveInv, FeedInv, SnapshotInv, p
  <1>6. /\ e.id \notin idsOf(sent[c]) \cup idsOf(chBuf[c])
        /\ \A i \in 1 .. Len(p) : e.id \notin idsOf(sent[p[i]]) \cup idsOf(chBuf[p[i]])
    BY <1>2, <1>4 DEF LiveInv, FeedInv, NewInv, p, e
  <1>7. /\ \A d \in Channels : d # c => chBuf'[d] = chBuf[d]
        /\ idsOf(chBuf'[c]) \subseteq idsOf(chBuf[c]) \cup {e.id}
        /\ Distinct(chBuf'[c])
    <2>1. Distinct(chBuf[c]) /\ chBuf[c] \in Seq(Entry)
      BY <1>2, <1>4 DEF LiveInv, FeedInv, OnceInv
    <2>2. CASE chBuf' = chBuf
      BY <2>1, <2>2
    <2>3. CASE chBuf' = [chBuf EXCEPT ![c] = Append(chBuf[c], e)]
      <3>1. chBuf'[c] = Append(chBuf[c], e)
        BY <1>2, <1>4, <2>3
      <3> QED BY <1>2, <1>6, <2>1, <2>3, <3>1, IdsOfAppend
    <2> QED BY <1>3, <2>2, <2>3
  <1>8. HandlerTypes'
    BY <1>2 DEF LiveInv, FeedInv, HandlerTypes
  <1>9. ScopeInv' /\ SnapshotInv'
    <2>1. SubscriptionScoped'
      BY <1>2 DEF LiveInv, FeedInv, ScopeInv, SubscriptionScoped
    <2>2. \A d \in Channels : chState[d] = "unmade" => chBuf'[d] = << >>
      BY <1>2, <1>4, <1>7 DEF LiveInv, FeedInv, ScopeInv
    <2>3. \A h \in Goroutines : \A i \in 1 .. Len(pending'[h]) :
            chState[pending'[h][i]] # "unmade"
      <3>1. \A h \in Goroutines : \A i \in 1 .. Len(pending[h]) :
              chState[pending[h][i]] # "unmade"
        BY DEF LiveInv, FeedInv, ScopeInv
      <3>2. \A i \in 1 .. Len(p) - 1 : chState[Tail(p)[i]] # "unmade"
        BY <1>4, <3>1 DEF p
      <3> QED BY <1>1, <1>4, <3>1, <3>2
    <2>4. \A i, j \in 1 .. Len(p) - 1 : Tail(p)[i] = Tail(p)[j] => i = j
      BY <1>4, <1>5
    <2>5. \A h \in Goroutines : \A i, j \in 1 .. Len(pending'[h]) :
            pending'[h][i] = pending'[h][j] => i = j
      <3>1. \A h \in Goroutines : \A i, j \in 1 .. Len(pending[h]) :
              pending[h][i] = pending[h][j] => i = j
        BY DEF LiveInv, FeedInv, SnapshotInv
      <3>2. ASSUME NEW h \in Goroutines, h # g
            PROVE  \A i, j \in 1 .. Len(pending'[h]) : pending'[h][i] = pending'[h][j] => i = j
        <4>1. pending'[h] = pending[h]
          BY <1>1, <3>2
        <4> QED BY <3>1, <4>1
      <3>3. \A i, j \in 1 .. Len(pending'[g]) : pending'[g][i] = pending'[g][j] => i = j
        BY <1>1, <1>4, <2>4
      <3> QED BY <3>2, <3>3
    <2> QED BY <1>2, <2>1, <2>2, <2>3, <2>5 DEF LiveInv, FeedInv, ScopeInv, SnapshotInv
  <1>10. OnceInv'
    <2>1. ASSUME NEW d \in Channels
          PROVE  /\ Distinct(sent[d]) /\ Distinct(out[d])
                 /\ phase[d] = "none" => sent[d] = << >>
                 /\ phase[d] = "backfill" => idsOf(sent[d]) \cap idsOf(out[d]) = {}
                 /\ Distinct(chBuf[d])
                 /\ idsOf(sent[d]) \cap idsOf(chBuf[d]) = {}
      BY DEF LiveInv, FeedInv, OnceInv
    <2>2. ASSUME NEW d \in Channels
          PROVE  Distinct(chBuf'[d]) /\ idsOf(sent[d]) \cap idsOf(chBuf'[d]) = {}
      <3>1. CASE d = c
        BY <1>6, <1>7, <2>1, <3>1
      <3>2. CASE d # c
        BY <1>7, <2>1, <3>2
      <3> QED BY <3>1, <3>2
    <2> QED BY <1>2, <2>1, <2>2 DEF OnceInv, Distinct
  <1>11. NewInv'
    <2>1. \A d \in Channels : reached(d)' \subseteq reached(d) \cup {e.id}
      BY <1>2, <1>7 DEF reached
    <2>2. /\ Pushing(g)
          /\ \A h \in Goroutines : Pushing(h)' => Pushing(h) /\ cur'[h] = cur[h]
      BY <1>1, <1>2 DEF Pushing, e
    <2>3. \A h \in Goroutines : Pushing(h) /\ h # g => cur[h].id # e.id
      BY <2>2 DEF LiveInv, FeedInv, NewInv, e
    <2>4. \A h \in Goroutines : pc'[h] = "combined" =>
            h # g /\ pc[h] = "combined" /\ cur'[h] = cur[h] /\ cur[h].id # e.id
      BY <1>1, <2>3 DEF Pushing
    <2>5. ASSUME NEW h \in Goroutines, pc'[h] = "notify", NEW i \in 1 .. Len(pending'[h])
          PROVE  cur'[h].id \notin idsOf(sent[pending'[h][i]]) \cup idsOf(chBuf'[pending'[h][i]])
      <3>1. CASE h = g
        <4>1. i \in 1 .. Len(p) - 1 /\ pending'[h][i] = p[i + 1]
          BY <1>1, <1>4, <2>5, <3>1
        <4>2. p[i + 1] # c /\ p[i + 1] \in Channels
          BY <1>2, <1>4, <1>5, <4>1, ElementOfSeq
        <4>3. chBuf'[p[i + 1]] = chBuf[p[i + 1]]
          BY <1>7, <4>2
        <4> QED BY <1>1, <1>4, <1>6, <2>5, <3>1, <4>1, <4>3
      <3>2. CASE h # g
        <4>1. /\ pending'[h][i] = pending[h][i] /\ i \in 1 .. Len(pending[h])
              /\ pending[h][i] \in Channels
          BY <1>1, <2>5, <3>2, ElementOfSeq DEF LiveInv, Inv, TypeOK
        <4>2. /\ cur[h].id \notin idsOf(sent[pending[h][i]]) \cup idsOf(chBuf[pending[h][i]])
              /\ cur'[h] = cur[h] /\ cur[h].id # e.id
          BY <1>1, <2>3, <2>5, <3>2, <4>1 DEF LiveInv, FeedInv, NewInv, Pushing
        <4> QED BY <1>7, <4>1, <4>2
      <3> QED BY <3>1, <3>2
    <2>6. \A d \in Channels : \A n \in reached(d)' : n <= idCounter
      <3>1. e.id <= idCounter /\ \A d \in Channels : \A n \in reached(d) : n <= idCounter
        BY <2>2 DEF LiveInv, FeedInv, NewInv, e
      <3> QED BY <2>1, <3>1
    <2>7. \A h \in Goroutines, d \in Channels :
            pc'[h] = "combined" => cur'[h].id \notin reached(d)'
      <3>1. \A h \in Goroutines, d \in Channels :
              pc[h] = "combined" => cur[h].id \notin reached(d)
        BY DEF LiveInv, FeedInv, NewInv
      <3> QED BY <2>1, <2>4, <3>1
    <2>8. /\ \A h \in Goroutines : Pushing(h)' => cur'[h].id <= idCounter
          /\ \A h, i \in Goroutines :
               Pushing(h)' /\ Pushing(i)' /\ cur'[h].id = cur'[i].id => h = i
      BY <2>2 DEF LiveInv, FeedInv, NewInv
    <2> QED BY <1>2, <2>5, <2>6, <2>7, <2>8 DEF NewInv
  <1> QED BY <1>8, <1>9, <1>10, <1>11 DEF FeedInv

(* A panic unwinds the push: it offers the entry to nobody any more.       *)
LEMMA NotifyPanicFeed ==
  ASSUME LiveInv, NEW g \in Goroutines, NotifyPanic(g), UNCHANGED handlerVars
  PROVE  FeedInv'
  <1>1. /\ \A h \in Goroutines : h # g =>
             pc'[h] = pc[h] /\ cur'[h] = cur[h] /\ pending'[h] = pending[h]
        /\ pc'[g] = "panicked" /\ pending'[g] = << >>
        /\ UNCHANGED <<phase, out, sent, up, chState, chBuf, idCounter>>
    BY DEF LiveInv, Inv, TypeOK, NotifyPanic, handlerVars
  <1>2. HandlerTypes' /\ OnceInv'
    BY <1>1 DEF LiveInv, FeedInv, HandlerTypes, OnceInv, Distinct
  <1>3. ScopeInv' /\ SnapshotInv'
    BY <1>1 DEF LiveInv, FeedInv, ScopeInv, SubscriptionScoped, SnapshotInv
  <1>4. NewInv'
    <2>1. \A c \in Channels : reached(c)' = reached(c)
      BY <1>1 DEF reached
    <2>2. \A h \in Goroutines :
            Pushing(h)' => h # g /\ Pushing(h) /\ cur'[h] = cur[h] /\ pending'[h] = pending[h]
      BY <1>1 DEF Pushing
    <2>3. \A h \in Goroutines : pc'[h] \in {"combined", "notify"} => pc[h] = pc'[h] /\ Pushing(h)'
      BY <1>1 DEF Pushing
    <2> QED BY <1>1, <2>1, <2>2, <2>3 DEF LiveInv, FeedInv, NewInv
  <1> QED BY <1>2, <1>3, <1>4 DEF FeedInv

-----------------------------------------------------------------------------
(* The handlers.  A step of the handler of channel c changes nothing of    *)
(* another client, and no push.                                            *)

(* What must be shown of a step that changes only what has reached c.      *)
LEMMA HandlerStep ==
  ASSUME LiveInv, NEW c \in Channels, HandlerTypes', ScopeInv',
         UNCHANGED <<idCounter, pc, cur, pending>>,
         \A d \in Channels : d # c =>
            phase'[d] = phase[d] /\ out'[d] = out[d] /\ sent'[d] = sent[d] /\ chBuf'[d] = chBuf[d],
         Distinct(sent'[c]), Distinct(out'[c]), Distinct(chBuf'[c]),
         phase'[c] # "none",
         phase'[c] = "backfill" => idsOf(sent'[c]) \cap idsOf(out'[c]) = {},
         idsOf(sent'[c]) \cap idsOf(chBuf'[c]) = {},
         \A n \in reached(c)' : n <= idCounter,
         \A g \in Goroutines : pc[g] = "combined" => cur[g].id \notin reached(c)',
         \A g \in Goroutines : pc[g] = "notify" =>
            \A i \in 1 .. Len(pending[g]) :
               pending[g][i] = c => cur[g].id \notin idsOf(sent'[c]) \cup idsOf(chBuf'[c])
  PROVE  FeedInv'
  <1>1. SnapshotInv'
    BY DEF LiveInv, FeedInv, SnapshotInv
  <1>2. OnceInv'
    <2>1. ASSUME NEW d \in Channels, d # c
          PROVE  /\ Distinct(sent'[d]) /\ Distinct(out'[d]) /\ Distinct(chBuf'[d])
                 /\ phase'[d] = "none" => sent'[d] = << >>
                 /\ phase'[d] = "backfill" => idsOf(sent'[d]) \cap idsOf(out'[d]) = {}
                 /\ idsOf(sent'[d]) \cap idsOf(chBuf'[d]) = {}
      BY <2>1 DEF LiveInv, FeedInv, OnceInv
    <2> QED BY <2>1 DEF OnceInv, Distinct
  <1>3. NewInv'
    <2>1. \A d \in Channels : d # c => reached(d)' = reached(d)
      BY DEF reached
    <2>2. \A d \in Channels : \A n \in reached(d)' : n <= idCounter
      BY <2>1 DEF LiveInv, FeedInv, NewInv
    <2>3. \A g \in Goroutines, d \in Channels :
            pc[g] = "combined" => cur[g].id \notin reached(d)'
      BY <2>1 DEF LiveInv, FeedInv, NewInv
    <2>4. ASSUME NEW g \in Goroutines, pc[g] = "notify", NEW i \in 1 .. Len(pending[g])
          PROVE  cur[g].id \notin idsOf(sent'[pending[g][i]]) \cup idsOf(chBuf'[pending[g][i]])
      <3>1. CASE pending[g][i] = c
        BY <2>4, <3>1
      <3>2. CASE pending[g][i] # c
        <4>1. pending[g][i] \in Channels
          BY ElementOfSeq DEF LiveInv, Inv, TypeOK
        <4> QED BY <2>4, <3>2, <4>1 DEF LiveInv, FeedInv, NewInv
      <3> QED BY <3>1, <3>2
    <2>5. /\ \A g \in Goroutines : Pushing(g)' => cur[g].id <= idCounter
          /\ \A g, h \in Goroutines :
               Pushing(g)' /\ Pushing(h)' /\ cur[g].id = cur[h].id => g = h
      BY DEF LiveInv, FeedInv, NewInv, Pushing
    <2> QED BY <2>2, <2>3, <2>4, <2>5 DEF NewInv
  <1> QED BY <1>1, <1>2, <1>3 DEF FeedInv

(* What the invariant says of one client.                                  *)
LEMMA ClientFacts ==
  ASSUME LiveInv, NEW c \in Channels
  PROVE  /\ sent[c] \in Seq(Entry) /\ out[c] \in Seq(Entry) /\ chBuf[c] \in Seq(Entry)
         /\ Distinct(sent[c]) /\ Distinct(out[c]) /\ Distinct(chBuf[c])
         /\ phase[c] = "none" => sent[c] = << >>
         /\ phase[c] = "backfill" => idsOf(sent[c]) \cap idsOf(out[c]) = {}
         /\ idsOf(sent[c]) \cap idsOf(chBuf[c]) = {}
         /\ phase[c] \in {"none", "backfill"} => chState[c] = "unmade"
         /\ chState[c] = "unmade" => chBuf[c] = << >>
         /\ \A n \in reached(c) : n <= idCounter
         /\ \A g \in Goroutines : pc[g] = "combined" => cur[g].id \notin reached(c)
         /\ \A g \in Goroutines : \A i \in 1 .. Len(pending[g]) :
              pending[g][i] = c => chState[c] # "unmade"
         /\ \A g \in Goroutines : pc[g] = "notify" =>
              \A i \in 1 .. Len(pending[g]) :
                pending[g][i] = c => cur[g].id \notin idsOf(sent[c]) \cup idsOf(chBuf[c])
  <1>1. sent[c] \in Seq(Entry) /\ out[c] \in Seq(Entry) /\ chBuf[c] \in Seq(Entry)
    BY DEF LiveInv, Inv, TypeOK, FeedInv, HandlerTypes
  <1>2. /\ Distinct(sent[c]) /\ Distinct(out[c]) /\ Distinct(chBuf[c])
        /\ phase[c] = "none" => sent[c] = << >>
        /\ phase[c] = "backfill" => idsOf(sent[c]) \cap idsOf(out[c]) = {}
        /\ idsOf(sent[c]) \cap idsOf(chBuf[c]) = {}
    BY DEF LiveInv, FeedInv, OnceInv
  <1>3. /\ phase[c] \in {"none", "backfill"} => chState[c] = "unmade"
        /\ chState[c] = "unmade" => chBuf[c] = << >>
        /\ \A g \in Goroutines : \A i \in 1 .. Len(pending[g]) :
              pending[g][i] = c => chState[c] # "unmade"
    BY DEF LiveInv, FeedInv, ScopeInv
  <1>4. /\ \A n \in reached(c) : n <= idCounter
        /\ \A g \in Goroutines : pc[g] = "combined" => cur[g].id \notin reached(c)
        /\ \A g \in Goroutines : pc[g] = "notify" =>
             \A i \in 1 .. Len(pending[g]) :
               pending[g][i] = c => cur[g].id \notin idsOf(sent[c]) \cup idsOf(chBuf[c])
    BY DEF LiveInv, FeedInv, NewInv
  <1> QED BY <1>1, <1>2, <1>3, <1>4

(* The history is in the ring, so it is of pushes that were stored, and no *)
(* goroutine will store its entry again.                                   *)
LEMMA ConnectFeed ==
  ASSUME LiveInv, NEW c \in Channels, NEW v \in Backfills, Connect(c, v)
  PROVE  FeedInv'
  <1> DEFINE h == history(rb, backfillCount(v))
  <1>1. WellFormed(rb)
    BY RingWellFormed DEF LiveInv, Inv
  <1>2. h \in Seq(Entry) /\ Distinct(h) /\ idsOf(h) \subseteq RingIds(rb)
    BY <1>1, HistoryFacts
  <1> HIDE DEF h
  <1>3. /\ phase[c] = "none"
        /\ phase' = [phase EXCEPT ![c] = "backfill"]
        /\ up' = [up EXCEPT ![c] = TRUE]
        /\ out' = [out EXCEPT ![c] = h]
        /\ UNCHANGED <<sent, chState, chBuf, idCounter, pc, cur, pending>>
    BY DEF Connect, vars, h
  <1>4. HandlerTypes
    BY DEF LiveInv, FeedInv
  <1>5. HandlerTypes'
    BY <1>2, <1>3, <1>4 DEF HandlerTypes
  <1>6. /\ \A d \in Channels : d # c =>
             phase'[d] = phase[d] /\ out'[d] = out[d] /\ sent'[d] = sent[d] /\ chBuf'[d] = chBuf[d]
        /\ phase'[c] = "backfill" /\ out'[c] = h
    BY <1>3, <1>4 DEF HandlerTypes
  <1>7. sent[c] = << >> /\ chBuf[c] = << >> /\ chState[c] = "unmade"
    BY <1>3, ClientFacts
  <1>8. ScopeInv'
    <2>1. SubscriptionScoped'
      BY <1>3, <1>6, <1>7 DEF LiveInv, FeedInv, ScopeInv, SubscriptionScoped
    <2> QED BY <1>3, <1>6, <1>7, <2>1 DEF LiveInv, FeedInv, ScopeInv
  <1>9. reached(c)' = idsOf(h)
    BY <1>3, <1>6, <1>7, NoIds DEF reached
  <1>10. /\ \A n \in RingIds(rb) : n <= idCounter
         /\ \A g \in Goroutines : pc[g] = "combined" => cur[g].id \notin RingIds(rb)
    BY DEF LiveInv, Inv, IdsUnique, RingIds
  <1>11. \A g \in Goroutines : \A i \in 1 .. Len(pending[g]) : pending[g][i] # c
    BY <1>7, ClientFacts
  <1>12. Distinct(sent'[c]) /\ Distinct(chBuf'[c]) /\ idsOf(sent'[c]) = {} /\ Distinct(out'[c])
    BY <1>2, <1>3, <1>6, <1>7, NoIds
  <1>13. /\ \A n \in reached(c)' : n <= idCounter
         /\ \A g \in Goroutines : pc[g] = "combined" => cur[g].id \notin reached(c)'
    BY <1>2, <1>9, <1>10
  <1>14. /\ phase'[c] # "none"
         /\ phase'[c] = "backfill" => idsOf(sent'[c]) \cap idsOf(out'[c]) = {}
         /\ idsOf(sent'[c]) \cap idsOf(chBuf'[c]) = {}
    BY <1>6, <1>12
  <1>15. \A g \in Goroutines : pc[g] = "notify" =>
            \A i \in 1 .. Len(pending[g]) :
               pending[g][i] = c => cur[g].id \notin idsOf(sent'[c]) \cup idsOf(chBuf'[c])
    BY <1>11
  <1>16. UNCHANGED <<idCounter, pc, cur, pending>>
    BY <1>3
  <1> HIDE DEF Distinct
  <1> QED BY <1>5, <1>6, <1>8, <1>12, <1>13, <1>14, <1>15, <1>16, HandlerStep

(* The entry written is one of the history, which the client did not have. *)
LEMMA WriteBackfillFeed ==
  ASSUME LiveInv, NEW c \in Channels, WriteBackfill(c)
  PROVE  FeedInv'
  <1> DEFINE e == Head(out[c])
  <1>1. HandlerTypes
    BY DEF LiveInv, FeedInv
  <1>2. /\ phase[c] = "backfill"
        /\ out[c] # << >>
        /\ out' = [out EXCEPT ![c] = Tail(out[c])]
        /\ UNCHANGED <<up, chState, chBuf, idCounter, pc, cur, pending>>
        /\ \/ sent' = [sent EXCEPT ![c] = Append(sent[c], e)] /\ phase' = phase
           \/ sent' = sent /\ phase' = phase
           \/ sent' = sent /\ phase' = [phase EXCEPT ![c] = "gone"]
    BY DEF WriteBackfill, writeSSE, vars
  <1>3. /\ Distinct(out[c]) /\ Distinct(sent[c])
        /\ out[c] \in Seq(Entry) /\ sent[c] \in Seq(Entry)
        /\ idsOf(sent[c]) \cap idsOf(out[c]) = {}
        /\ chState[c] = "unmade" /\ chBuf[c] = << >>
        /\ \A n \in reached(c) : n <= idCounter
        /\ \A g \in Goroutines : pc[g] = "combined" => cur[g].id \notin reached(c)
        /\ \A g \in Goroutines : \A i \in 1 .. Len(pending[g]) : pending[g][i] # c
    BY <1>2, ClientFacts
  <1> HIDE DEF Distinct
  <1>4. /\ e \in Entry /\ Tail(out[c]) \in Seq(Entry)
        /\ Distinct(Tail(out[c]))
        /\ e.id \in idsOf(out[c])
        /\ e.id \notin idsOf(Tail(out[c]))
        /\ idsOf(Tail(out[c])) \subseteq idsOf(out[c])
    BY <1>2, <1>3, IdsOfTail
  <1> HIDE DEF e
  <1>5. /\ Append(sent[c], e) \in Seq(Entry)
        /\ idsOf(Append(sent[c], e)) = idsOf(sent[c]) \cup {e.id}
        /\ Distinct(Append(sent[c], e))
    BY <1>3, <1>4, IdsOfAppend, AppendProperties
  <1>6. /\ \A d \in Channels : d # c =>
             phase'[d] = phase[d] /\ out'[d] = out[d] /\ sent'[d] = sent[d] /\ chBuf'[d] = chBuf[d]
        /\ phase'[c] \in {"backfill", "gone"}
        /\ out'[c] = Tail(out[c]) /\ chBuf'[c] = << >>
        /\ sent'[c] \in {sent[c], Append(sent[c], e)}
    BY <1>1, <1>2, <1>3 DEF HandlerTypes
  <1>7. HandlerTypes'
    BY <1>1, <1>2, <1>4, <1>5 DEF HandlerTypes
  <1>8. ScopeInv'
    <2>1. SubscriptionScoped'
      BY <1>2, <1>3, <1>6 DEF LiveInv, FeedInv, ScopeInv, SubscriptionScoped
    <2> QED BY <1>2, <1>3, <1>6, <2>1 DEF LiveInv, FeedInv, ScopeInv
  <1>9. /\ Distinct(sent'[c]) /\ Distinct(out'[c]) /\ Distinct(chBuf'[c])
        /\ idsOf(chBuf'[c]) = {}
        /\ idsOf(sent'[c]) \subseteq idsOf(sent[c]) \cup {e.id}
        /\ idsOf(out'[c]) \subseteq idsOf(out[c]) \ {e.id}
    BY <1>3, <1>4, <1>5, <1>6, NoIds
  <1>10. reached(c)' \subseteq reached(c)
    BY <1>4, <1>9 DEF reached
  <1>11. /\ \A n \in reached(c)' : n <= idCounter
         /\ \A g \in Goroutines : pc[g] = "combined" => cur[g].id \notin reached(c)'
    BY <1>3, <1>10
  <1>12. /\ phase'[c] # "none"
         /\ phase'[c] = "backfill" => idsOf(sent'[c]) \cap idsOf(out'[c]) = {}
         /\ idsOf(sent'[c]) \cap idsOf(chBuf'[c]) = {}
    BY <1>3, <1>6, <1>9
  <1>13. \A g \in Goroutines : pc[g] = "notify" =>
            \A i \in 1 .. Len(pending[g]) :
               pending[g][i] = c => cur[g].id \notin idsOf(sent'[c]) \cup idsOf(chBuf'[c])
    BY <1>3
  <1>14. UNCHANGED <<idCounter, pc, cur, pending>>
    BY <1>2
  <1> QED BY <1>6, <1>7, <1>8, <1>9, <1>11, <1>12, <1>13, <1>14, HandlerStep

(* The entry taken from the channel is one the client did not have.        *)
LEMMA StreamEntryFeed ==
  ASSUME LiveInv, NEW c \in Channels, StreamEntry(c)
  PROVE  FeedInv'
  <1> DEFINE e == Head(chBuf[c])
  <1>1. HandlerTypes /\ chBuf \in [Channels -> Seq(Entry)]
    BY DEF LiveInv, FeedInv, Inv, TypeOK
  <1>2. /\ phase[c] = "stream"
        /\ chBuf[c] # << >>
        /\ chBuf' = [chBuf EXCEPT ![c] = Tail(chBuf[c])]
        /\ UNCHANGED <<out, up, chState, idCounter, pc, cur, pending>>
        /\ \/ sent' = [sent EXCEPT ![c] = Append(sent[c], e)] /\ phase' = phase
           \/ sent' = sent /\ phase' = phase
           \/ sent' = sent /\ phase' = [phase EXCEPT ![c] = "exit"]
    BY DEF StreamEntry, Receive, writeSSE
  <1>3. /\ Distinct(chBuf[c]) /\ Distinct(sent[c]) /\ Distinct(out[c])
        /\ chBuf[c] \in Seq(Entry) /\ sent[c] \in Seq(Entry)
        /\ idsOf(sent[c]) \cap idsOf(chBuf[c]) = {}
        /\ \A n \in reached(c) : n <= idCounter
        /\ \A g \in Goroutines : pc[g] = "combined" => cur[g].id \notin reached(c)
        /\ \A g \in Goroutines : pc[g] = "notify" =>
             \A i \in 1 .. Len(pending[g]) :
               pending[g][i] = c => cur[g].id \notin idsOf(sent[c]) \cup idsOf(chBuf[c])
    BY <1>2, ClientFacts
  <1> HIDE DEF Distinct
  <1>4. /\ e \in Entry /\ Tail(chBuf[c]) \in Seq(Entry)
        /\ Distinct(Tail(chBuf[c]))
        /\ e.id \in idsOf(chBuf[c])
        /\ e.id \notin idsOf(Tail(chBuf[c]))
        /\ idsOf(Tail(chBuf[c])) \subseteq idsOf(chBuf[c])
    BY <1>2, <1>3, IdsOfTail
  <1> HIDE DEF e
  <1>5. /\ Append(sent[c], e) \in Seq(Entry)
        /\ idsOf(Append(sent[c], e)) = idsOf(sent[c]) \cup {e.id}
        /\ Distinct(Append(sent[c], e))
    BY <1>3, <1>4, IdsOfAppend, AppendProperties
  <1>6. /\ \A d \in Channels : d # c =>
             phase'[d] = phase[d] /\ out'[d] = out[d] /\ sent'[d] = sent[d] /\ chBuf'[d] = chBuf[d]
        /\ phase'[c] \in {"stream", "exit"}
        /\ out'[c] = out[c] /\ chBuf'[c] = Tail(chBuf[c])
        /\ sent'[c] \in {sent[c], Append(sent[c], e)}
    BY <1>1, <1>2 DEF HandlerTypes
  <1>7. HandlerTypes'
    BY <1>1, <1>2, <1>5 DEF HandlerTypes
  <1>8. ScopeInv'
    <2>1. SubscriptionScoped'
      BY <1>2, <1>6 DEF LiveInv, FeedInv, ScopeInv, SubscriptionScoped
    <2>2. chState[c] = "open"
      BY <1>2 DEF LiveInv, FeedInv, ScopeInv, SubscriptionScoped
    <2> QED BY <1>2, <1>6, <2>1, <2>2 DEF LiveInv, FeedInv, ScopeInv
  <1>9. /\ Distinct(sent'[c]) /\ Distinct(out'[c]) /\ Distinct(chBuf'[c])
        /\ idsOf(sent'[c]) \subseteq idsOf(sent[c]) \cup {e.id}
        /\ idsOf(chBuf'[c]) \subseteq idsOf(chBuf[c]) \ {e.id}
    BY <1>3, <1>4, <1>5, <1>6
  <1>10. reached(c)' \subseteq reached(c)
    BY <1>4, <1>6, <1>9 DEF reached
  <1>11. /\ \A n \in reached(c)' : n <= idCounter
         /\ \A g \in Goroutines : pc[g] = "combined" => cur[g].id \notin reached(c)'
    BY <1>3, <1>10
  <1>12. /\ phase'[c] # "none"
         /\ phase'[c] = "backfill" => idsOf(sent'[c]) \cap idsOf(out'[c]) = {}
         /\ idsOf(sent'[c]) \cap idsOf(chBuf'[c]) = {}
    BY <1>3, <1>6, <1>9
  <1>13. \A g \in Goroutines : pc[g] = "notify" =>
            \A i \in 1 .. Len(pending[g]) :
               pending[g][i] = c => cur[g].id \notin idsOf(sent'[c]) \cup idsOf(chBuf'[c])
    <2>1. idsOf(sent'[c]) \cup idsOf(chBuf'[c]) \subseteq idsOf(sent[c]) \cup idsOf(chBuf[c])
      BY <1>4, <1>9
    <2> QED BY <1>3, <2>1
  <1>14. UNCHANGED <<idCounter, pc, cur, pending>>
    BY <1>2
  <1> QED BY <1>6, <1>7, <1>8, <1>9, <1>11, <1>12, <1>13, <1>14, HandlerStep

(* The other steps of a handler move its phase, with the subscription, and *)
(* bring no entry anywhere.                                                *)
LEMMA PhaseFeed ==
  ASSUME LiveInv, NEW c \in Channels,
         StartStream(c) \/ StreamEnds(c) \/ HandlerExit(c) \/ Disconnect(c)
  PROVE  FeedInv'
  <1>1. HandlerTypes /\ ScopeInv /\ chState \in [Channels -> {"unmade", "open", "closed"}]
    BY DEF LiveInv, FeedInv, Inv, TypeOK
  <1>2. UNCHANGED <<out, sent, chBuf, idCounter, pc, cur, pending>>
    BY DEF StartStream, Subscribe, StreamEnds, HandlerExit, Unsubscribe, Disconnect, vars
  <1>3. HandlerTypes' /\ ScopeInv'
    <2>1. CASE StartStream(c)
      <3>1. /\ phase' = [phase EXCEPT ![c] = "stream"] /\ up' = up
            /\ chState' = [chState EXCEPT ![c] = "open"]
        BY <2>1 DEF StartStream, Subscribe
      <3> QED BY <1>1, <1>2, <3>1 DEF HandlerTypes, ScopeInv, SubscriptionScoped
    <2>2. CASE StreamEnds(c)
      <3>1. phase[c] = "stream" /\ phase' = [phase EXCEPT ![c] = "exit"] /\ UNCHANGED <<up, chState>>
        BY <2>2 DEF StreamEnds, vars
      <3> QED BY <1>1, <1>2, <3>1 DEF HandlerTypes, ScopeInv, SubscriptionScoped
    <2>3. CASE HandlerExit(c)
      <3>1. /\ phase' = [phase EXCEPT ![c] = "gone"] /\ up' = up
            /\ chState' = [chState EXCEPT ![c] = "closed"]
        BY <2>3 DEF HandlerExit, Unsubscribe
      <3> QED BY <1>1, <1>2, <3>1 DEF HandlerTypes, ScopeInv, SubscriptionScoped
    <2>4. CASE Disconnect(c)
      <3>1. up' = [up EXCEPT ![c] = FALSE] /\ UNCHANGED <<phase, chState>>
        BY <2>4 DEF Disconnect, vars
      <3> QED BY <1>1, <1>2, <3>1 DEF HandlerTypes, ScopeInv, SubscriptionScoped
    <2> QED BY <2>1, <2>2, <2>3, <2>4
  <1>4. \A d \in Channels : phase'[d] \in {"none", "backfill"} => phase'[d] = phase[d]
    BY <1>1 DEF HandlerTypes, StartStream, StreamEnds, HandlerExit, Disconnect
  <1>5. SnapshotInv' /\ NewInv'
    BY <1>2 DEF LiveInv, FeedInv, SnapshotInv, NewInv, Pushing, reached
  <1>6. OnceInv'
    BY <1>2, <1>4 DEF LiveInv, FeedInv, OnceInv, Distinct
  <1> QED BY <1>3, <1>5, <1>6 DEF FeedInv

-----------------------------------------------------------------------------
LEMMA LiveNextInv == LiveInv /\ [LiveNext]_liveVars => LiveInv'
  <1> SUFFICES ASSUME LiveInv, [LiveNext]_liveVars PROVE LiveInv'
    OBVIOUS
  <1>1. Inv' /\ SubscribersExact'
    <2>1. [Next]_vars
      BY FeedStep
    <2> QED BY <2>1, NextInv, SubscribersStep DEF LiveInv, Inv
  <1>2. ASSUME NEW g \in Goroutines, Ingest(g), UNCHANGED handlerVars PROVE FeedInv'
    BY <1>2, CombineFeed, PushFeed, NotifySendFeed, NotifyPanicFeed DEF Ingest
  <1>3. ASSUME (Clear /\ UNCHANGED handlerVars) \/ UNCHANGED liveVars PROVE FeedInv'
    BY <1>3, FeedUntouched DEF LiveInv, Clear, liveVars, handlerVars
  <1>4. ASSUME NEW c \in Channels, Handle(c) PROVE FeedInv'
    BY <1>4, ConnectFeed, WriteBackfillFeed, StreamEntryFeed, PhaseFeed DEF Handle
  <1>5. FeedInv'
    BY <1>2, <1>3, <1>4 DEF LiveNext
  <1> QED BY <1>1, <1>5 DEF LiveInv

(* The invariant holds in every state of the feed.                         *)
THEOREM LiveInvariance == LiveSpec => []LiveInv
  BY LiveInitInv, LiveNextInv, PTL DEF LiveSpec

(* For any number of clients: the channel of a handler is open exactly     *)
(* between its Subscribe and its deferred Unsubscribe.                     *)
THEOREM ChannelScoped == LiveSpec => []SubscriptionScoped
  <1>1. LiveInv => SubscriptionScoped
    BY DEF LiveInv, FeedInv, ScopeInv
  <1> QED BY <1>1, LiveInvariance, PTL

(* For any number of clients, pushes and entries: no client is sent an     *)
(* entry twice, neither by history and live feed together nor by two       *)
(* sends.                                                                  *)
THEOREM DeliveredOnce == LiveSpec => []NoDuplicateDelivery
  <1>1. LiveInv => NoDuplicateDelivery
    BY DEF LiveInv, FeedInv, OnceInv, NoDuplicateDelivery, Distinct
  <1> QED BY <1>1, LiveInvariance, PTL
====
