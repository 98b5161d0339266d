-------------------------- MODULE CaptureAPIProofs --------------------------
(***************************************************************************)
(* Proofs about CaptureAPI, for every capacity, query, number of clients   *)
(* and history of the store: the endpoints agree, a list is the page that  *)
(* was asked for, and a replay sends the entry it was asked for.           *)
(***************************************************************************)
EXTENDS CaptureAPI, CaptureStoreProofs, FiniteSetTheorems

-----------------------------------------------------------------------------
(* The API refines the store: its handlers read it, or clear it.           *)

LEMMA ApiStep == [ApiNext]_allVars => [Next]_vars
  <1> SUFFICES ASSUME [ApiNext]_allVars PROVE [Next]_vars
    OBVIOUS
  <1>1. CASE UNCHANGED allVars
    BY <1>1 DEF allVars, vars
  <1>2. CASE \E g \in Goroutines : Ingest(g)
    BY <1>2 DEF Next
  <1>3. ASSUME NEW a \in ApiClients, Call(a) PROVE Clear \/ UNCHANGED vars
    BY <1>3 DEF Call, ClearRequests, ReplayRequest, BuildReplay, ReplayAnswered, ReplayFailed
  <1>4. CASE \E a \in ApiClients : Call(a)
    BY <1>3, <1>4 DEF Next
  <1> QED BY <1>1, <1>2, <1>4 DEF ApiNext

(* Whatever its clients ask, the API makes legal calls of the store: what  *)
(* is proved of the store holds under the API.                             *)
THEOREM ApiUsesStore == ApiSpec => Spec
  <1>1. ApiInit => Init
    BY DEF ApiInit
  <1> QED BY <1>1, ApiStep, PTL DEF ApiSpec, Spec

-----------------------------------------------------------------------------
(* Replays.                                                                *)

(* What Get returns for an id is the entry with that id.                   *)
LEMMA GetExact ==
  ASSUME Inv, NEW id \in Ids
  PROVE  /\ Get(rb, id) # Nil => Get(rb, id) \in Entry /\ Get(rb, id).id = id
         /\ Get(rb, id) # Nil => \E i \in Slots : rb.buffer[i] = Get(rb, id)
         /\ Get(rb, id) = Nil =>
              \A i \in Slots : rb.buffer[i] # Nil => rb.buffer[i].id # id
  <1>1. /\ rb.buffer \in [Slots -> Entry \cup {Nil}]
        /\ rb.idIndex \in [Ids -> Slots \cup {Absent}]
        /\ Absent \notin Slots
    BY StoreAssumption, CapacityPositive DEF Inv, TypeOK, RingBuffers, Slots
  <1>2. \A i \in Slots : rb.idIndex[id] = i <=> rb.buffer[i] # Nil /\ rb.buffer[i].id = id
    BY DEF Inv, IndexExact
  <1>3. CASE rb.idIndex[id] = Absent
    <2>1. Get(rb, id) = Nil
      BY <1>3 DEF Get
    <2> QED BY <1>1, <1>2, <1>3, <2>1
  <1>4. CASE rb.idIndex[id] # Absent
    <2>1. rb.idIndex[id] \in Slots /\ Get(rb, id) = rb.buffer[rb.idIndex[id]]
      BY <1>1, <1>4 DEF Get
    <2> QED BY <1>1, <1>2, <2>1
  <1> QED BY <1>3, <1>4

(* The handlers' variables have their types; ReplayFaithful is inductive   *)
(* beside them and the invariant of the store.                             *)
ApiTypes ==
    /\ api \in [ApiClients -> {"idle", "build", "sent"}]
    /\ asked \in [ApiClients -> Ids \cup {0}]
    /\ held \in [ApiClients -> Entry \cup {Nil}]
    /\ request = [a \in ApiClients |-> request[a]]
    /\ reply \in [ApiClients -> Nat]

(* The request that buildReplayRequest makes has what was captured.        *)
LEMMA BuiltFaithfully ==
  ASSUME NEW e \in Entry
  PROVE  LET r == buildReplayRequest(e)
         IN  /\ r.url = e.kind.url
             /\ r.body = e.kind.reqLen
             /\ DOMAIN r.headers = DOMAIN e.kind.headers \ hopByHopHeaders
             /\ \A h \in DOMAIN r.headers : r.headers[h] = "value" <=> h \notin redactedHeaders
  <1> DEFINE m == e.kind.headers
             H == DOMAIN m
  <1>1. \A h \in H : m[h] = "value" <=> h \notin redactedHeaders
    <2>1. PICK k \in Kinds : e.kind = captured(k)
      BY DEF Entry
    <2>2. m = headersToMap(k.headers)
      BY <2>1 DEF captured
    <2> QED BY <2>2 DEF headersToMap
  <1>2. buildReplayRequest(e).headers = [h \in H \ hopByHopHeaders |-> m[h]]
    BY DEF buildReplayRequest, Restrict
  <1>3. buildReplayRequest(e).url = e.kind.url /\ buildReplayRequest(e).body = e.kind.reqLen
    BY DEF buildReplayRequest
  <1> HIDE DEF m, H
  <1> QED BY <1>1, <1>2, <1>3 DEF H, m

LEMMA AnsweredFaithful ==
  ASSUME ApiTypes, ReplayFaithful, NEW a \in ApiClients, NEW status \in Nat,
         writeJSON(a, status)
  PROVE  ApiTypes' /\ ReplayFaithful'
  <1>1. ApiTypes'
    BY DEF ApiTypes, writeJSON
  <1>2. /\ \A b \in ApiClients : b # a =>
             /\ api'[b] = api[b] /\ asked'[b] = asked[b]
             /\ held'[b] = held[b] /\ request'[b] = request[b]
        /\ api'[a] = "idle"
    BY DEF ApiTypes, writeJSON
  <1> QED BY <1>1, <1>2 DEF ReplayFaithful

LEMMA ReplayStep ==
  ASSUME Inv, ApiTypes, ReplayFaithful, [ApiNext]_allVars
  PROVE  ApiTypes' /\ ReplayFaithful'
  <1>1. ASSUME UNCHANGED <<api, asked, held, request, reply>>
        PROVE  ApiTypes' /\ ReplayFaithful'
    BY <1>1 DEF ApiTypes, ReplayFaithful
  <1>2. ASSUME NEW a \in ApiClients, ClearRequests(a) \/ ReplayAnswered(a) \/ ReplayFailed(a)
        PROVE  ApiTypes' /\ ReplayFaithful'
    BY <1>2, AnsweredFaithful DEF ClearRequests, ReplayAnswered, ReplayFailed
  <1>3. ASSUME NEW a \in ApiClients, NEW id \in Ids, ReplayRequest(a, id)
        PROVE  ApiTypes' /\ ReplayFaithful'
    <2>1. CASE Get(rb, id) = Nil
      BY <1>3, <2>1, AnsweredFaithful DEF ReplayRequest
    <2>2. CASE Get(rb, id) # Nil
      <3>1. /\ asked' = [asked EXCEPT ![a] = id]
            /\ held' = [held EXCEPT ![a] = Get(rb, id)]
            /\ api' = [api EXCEPT ![a] = "build"]
            /\ UNCHANGED <<request, reply>>
        BY <1>3, <2>2 DEF ReplayRequest
      <3>2. Get(rb, id) \in Entry /\ Get(rb, id).id = id
        BY <2>2, GetExact
      <3>3. ApiTypes'
        BY <3>1, <3>2 DEF ApiTypes
      <3>4. /\ \A b \in ApiClients : b # a =>
                 /\ api'[b] = api[b] /\ asked'[b] = asked[b]
                 /\ held'[b] = held[b] /\ request'[b] = request[b]
            /\ api'[a] = "build" /\ asked'[a] = id /\ held'[a] = Get(rb, id)
        BY <3>1 DEF ApiTypes
      <3> QED BY <2>2, <3>2, <3>3, <3>4 DEF ReplayFaithful
    <2> QED BY <2>1, <2>2
  <1>4. ASSUME NEW a \in ApiClients, BuildReplay(a)
        PROVE  ApiTypes' /\ ReplayFaithful'
    <2>1. CASE held[a].kind.url \in BadURLs
      BY <1>4, <2>1, AnsweredFaithful DEF BuildReplay
    <2>2. CASE held[a].kind.url \notin BadURLs
      <3> DEFINE e == held[a]
      <3>1. /\ api' = [api EXCEPT ![a] = "sent"]
            /\ request' = [request EXCEPT ![a] = buildReplayRequest(e)]
            /\ UNCHANGED <<asked, held, reply>>
            /\ api[a] = "build"
        BY <1>4, <2>2 DEF BuildReplay
      <3>2. ApiTypes'
        BY <3>1 DEF ApiTypes
      <3>3. /\ \A b \in ApiClients : b # a =>
                 /\ api'[b] = api[b] /\ asked'[b] = asked[b]
                 /\ held'[b] = held[b] /\ request'[b] = request[b]
            /\ asked'[a] = asked[a] /\ held'[a] = e
            /\ request'[a] = buildReplayRequest(e)
        BY <3>1 DEF ApiTypes
      <3>4. e # Nil /\ e.id = asked[a] /\ e \in Entry
        BY <3>1 DEF ReplayFaithful, ApiTypes
      <3> HIDE DEF e
      <3>5. /\ request'[a].url = e.kind.url
            /\ request'[a].body = e.kind.reqLen
            /\ DOMAIN request'[a].headers = DOMAIN e.kind.headers \ hopByHopHeaders
            /\ \A h \in DOMAIN request'[a].headers :
                 request'[a].headers[h] = "value" <=> h \notin redactedHeaders
        BY <3>3, <3>4, BuiltFaithfully
      <3> QED BY <3>2, <3>3, <3>4, <3>5 DEF ReplayFaithful
    <2> QED BY <2>1, <2>2
  <1> QED BY <1>1, <1>2, <1>3, <1>4 DEF ApiNext, Call, allVars

(* For any number of clients and any history of the store: a replay sends  *)
(* the entry it was asked for, with its end-to-end headers and without     *)
(* credentials, also when the store has dropped that entry since.          *)
THEOREM ReplaysFaithful == ApiSpec => []ReplayFaithful
  <1>1. ApiInit => Inv /\ ApiTypes /\ ReplayFaithful
    <2> SUFFICES ASSUME ApiInit PROVE Inv /\ ApiTypes /\ ReplayFaithful
      OBVIOUS
    <2>1. Inv
      BY InitInv DEF ApiInit
    <2>2. ApiTypes
      BY DEF ApiInit, ApiTypes
    <2>3. ReplayFaithful
      BY DEF ApiInit, ReplayFaithful
    <2> QED BY <2>1, <2>2, <2>3
  <1>2. Inv /\ ApiTypes /\ ReplayFaithful /\ [ApiNext]_allVars
          => Inv' /\ ApiTypes' /\ ReplayFaithful'
    BY ApiStep, NextInv, ReplayStep
  <1> QED BY <1>1, <1>2, PTL DEF ApiSpec

-----------------------------------------------------------------------------
(* The endpoints.                                                          *)

(* The ids handed out and not yet stored.                                  *)
Waiting == {cur[g].id : g \in {h \in Goroutines : pc[h] = "combined"}}

(* An id is stored at most once: what was ever stored, beside what waits   *)
(* to be, is no more than the ids handed out.                              *)
Accounted == rb.evictions + rb.count + Cardinality(Waiting) <= idCounter

LEMMA WaitingFinite ==
  ASSUME Inv
  PROVE  /\ IsFiniteSet(Waiting) /\ Cardinality(Waiting) \in Nat
         /\ idCounter + 1 \notin Waiting
         /\ idCounter \in Nat /\ rb.count \in Nat /\ rb.evictions \in Nat
  <1>1. idCounter \in Nat /\ rb.count \in Nat /\ rb.evictions \in Nat
    BY CapacityPositive DEF Inv, TypeOK, RingBuffers
  <1>2. \A n \in Waiting : n \in 1 .. idCounter
    <2> SUFFICES ASSUME NEW g \in Goroutines, pc[g] = "combined"
                 PROVE  cur[g].id \in 1 .. idCounter
      BY DEF Waiting
    <2>1. cur[g].id \in Ids /\ cur[g].id <= idCounter
      BY DEF Inv, TypeOK, IdsUnique, Entry
    <2> QED BY <1>1, <2>1, StoreAssumption DEF Ids
  <1>3. IsFiniteSet(1 .. idCounter)
    BY <1>1, FS_Interval
  <1>4. IsFiniteSet(Waiting)
    BY <1>2, <1>3, FS_Subset
  <1>5. idCounter + 1 \notin 1 .. idCounter
    BY <1>1
  <1> QED BY <1>1, <1>2, <1>4, <1>5, FS_CardinalityType

LEMMA AccountedStep ==
  ASSUME Inv, Accounted, [Next]_vars
  PROVE  Accounted'
  <1>1. ASSUME UNCHANGED <<rb, idCounter>>, Waiting' = Waiting PROVE Accounted'
    BY <1>1 DEF Accounted
  <1>2. ASSUME NEW g \in Goroutines, NEW k \in Kinds, CombineEntry(g, k) PROVE Accounted'
    <2>1. /\ pc[g] = "idle" /\ cur'[g].id = idCounter + 1 /\ pc'[g] = "combined"
          /\ \A h \in Goroutines : h # g => pc'[h] = pc[h] /\ cur'[h] = cur[h]
          /\ idCounter' = idCounter + 1 /\ rb' = rb
      BY <1>2 DEF CombineEntry, Inv, TypeOK
    <2>2. Waiting' = Waiting \cup {idCounter + 1}
      BY <2>1 DEF Waiting
    <2>3. Cardinality(Waiting') = Cardinality(Waiting) + 1
      BY <2>2, WaitingFinite, FS_AddElement
    <2> QED BY <2>1, <2>3, WaitingFinite DEF Accounted
  <1>3. ASSUME NEW g \in Goroutines, Push(g) PROVE Accounted'
    <2>1. /\ pc[g] = "combined" /\ pc'[g] # "combined"
          /\ \A h \in Goroutines : h # g => pc'[h] = pc[h] /\ cur'[h] = cur[h]
          /\ idCounter' = idCounter /\ rb' = pushRing(rb, cur[g])
      BY <1>3 DEF Push, continueNotify, Inv, TypeOK
    <2>2. \A h \in Goroutines : pc[h] = "combined" /\ h # g => cur[h].id # cur[g].id
      BY <2>1 DEF Inv, IdsUnique
    <2>3. Waiting' = Waiting \ {cur[g].id} /\ cur[g].id \in Waiting
      BY <2>1, <2>2 DEF Waiting
    <2>4. Cardinality(Waiting') = Cardinality(Waiting) - 1
      BY <2>3, WaitingFinite, FS_RemoveElement
    <2>5. rb'.evictions + rb'.count = rb.evictions + rb.count + 1
      <3>1. /\ rb \in RingBuffers /\ rb.evictions \in Nat /\ rb.count \in 0 .. Capacity
        BY DEF Inv, TypeOK, RingBuffers
      <3>2. CASE rb.count = Capacity
        <4>1. /\ evictOldest(rb).evictions = rb.evictions + 1
              /\ evictOldest(rb).count = rb.count - 1
          BY <3>1 DEF evictOldest, RingBuffers
        <4>2. rb' = insert(evictOldest(rb), cur[g])
          BY <2>1, <3>2 DEF pushRing
        <4>3. /\ rb'.evictions = evictOldest(rb).evictions
              /\ rb'.count = evictOldest(rb).count + 1
          BY <3>1, <4>2 DEF insert, evictOldest, RingBuffers
        <4> QED BY <3>1, <4>1, <4>3, CapacityPositive
      <3>3. CASE rb.count # Capacity
        <4>1. rb' = insert(rb, cur[g])
          BY <2>1, <3>3 DEF pushRing
        <4>2. rb'.evictions = rb.evictions /\ rb'.count = rb.count + 1
          BY <3>1, <4>1 DEF insert, RingBuffers
        <4> QED BY <3>1, <4>2, CapacityPositive
      <3> QED BY <3>2, <3>3
    <2> QED BY <2>1, <2>4, <2>5, WaitingFinite DEF Accounted
  <1>4. ASSUME Clear PROVE Accounted'
    <2>1. rb'.evictions = rb.evictions /\ rb'.count = 0
      BY <1>4 DEF Clear, clearRing, NewRingBuffer
    <2>2. idCounter' = idCounter /\ Waiting' = Waiting
      BY <1>4 DEF Clear, Waiting
    <2> QED BY <2>1, <2>2, WaitingFinite DEF Accounted
  <1>5. ASSUME NEW g \in Goroutines, NotifySend(g) \/ NotifyPanic(g) PROVE Accounted'
    <2>1. /\ pc[g] # "combined" /\ pc'[g] # "combined"
          /\ \A h \in Goroutines : h # g => pc'[h] = pc[h] /\ cur'[h] = cur[h]
          /\ UNCHANGED <<rb, idCounter>>
      BY <1>5 DEF NotifySend, NotifyPanic, continueNotify, Inv, TypeOK
    <2>2. Waiting' = Waiting
      BY <2>1 DEF Waiting
    <2> QED BY <1>1, <2>1, <2>2
  <1>6. ASSUME UNCHANGED vars \/ \E c \in Channels : Subscribe(c) \/ Unsubscribe(c) \/ Receive(c)
        PROVE  Accounted'
    <2>1. UNCHANGED <<rb, idCounter, pc, cur>>
      BY <1>6 DEF vars, Subscribe, Unsubscribe, Receive
    <2> QED BY <1>1, <2>1 DEF Waiting
  <1> QED BY <1>2, <1>3, <1>4, <1>5, <1>6 DEF Next, Ingest

(* The unfiltered list is what the ring holds.                             *)
LEMMA ListsAll ==
  ASSUME Inv
  PROVE  ListRequests(NoQuery) = Contents(rb)
  <1> DEFINE opts == listOptsFromQuery(NoQuery)
  <1>1. opts = [since |-> 0, method |-> Nil, status |-> 0, url |-> Nil, limit |-> 0, offset |-> 0]
    BY DEF listOptsFromQuery, NoQuery, parseIntQuery, parseTimeQuery, parsePositiveIntQuery, get
  <1>2. \A e \in Entry : Matches(opts, e)
    BY <1>1 DEF Matches, sinceExcludes, methodExcludes, statusExcludes, urlExcludes
  <1>3. WellFormed(rb)
    BY RingWellFormed DEF Inv
  <1> HIDE DEF opts
  <1>4. scan(rb, opts) = Contents(rb)
    BY <1>2, <1>3, ScanAll
  <1>5. paginate(scan(rb, opts), opts) = scan(rb, opts)
    BY <1>1 DEF paginate, capResult
  <1>6. rb.count = 0 => Contents(rb) = << >>
    BY DEF Contents
  <1> QED BY <1>4, <1>5, <1>6 DEF ListRequests, List, opts

(* A slot that holds an entry is one of those Contents lists.              *)
LEMMA ContentsHold ==
  ASSUME Inv
  PROVE  /\ Len(Contents(rb)) = rb.count
         /\ \A i \in Slots : rb.buffer[i] # Nil =>
              \E n \in 1 .. rb.count : Contents(rb)[n] = rb.buffer[i]
         /\ \A n \in 1 .. rb.count :
              \E i \in Slots : rb.buffer[i] # Nil /\ Contents(rb)[n] = rb.buffer[i]
  <1>1. /\ rb \in RingBuffers /\ WellFormed(rb)
        /\ rb.head \in 0 .. Capacity - 1 /\ rb.count \in 0 .. Capacity
    BY RingWellFormed DEF Inv, TypeOK, RingBuffers, Slots
  <1>2. \A k \in 0 .. Capacity :
          /\ slotAt(rb, k) \in Slots
          /\ slotAt(rb, k) = IF rb.head + k < Capacity THEN rb.head + k
                                                       ELSE rb.head + k - Capacity
    BY <1>1, SlotAtIs
  <1>3. ASSUME NEW i \in Slots, rb.buffer[i] # Nil
        PROVE  \E n \in 1 .. rb.count : Contents(rb)[n] = rb.buffer[i]
    <2>1. Occupied(rb, i)
      BY <1>1, <1>3 DEF WellFormed, Shape
    <2> DEFINE n == IF i >= rb.head THEN i - rb.head ELSE i + Capacity - rb.head
    <2>2. i \in 0 .. Capacity - 1
      BY DEF Slots
    <2>3. n \in 0 .. Capacity /\ n < rb.count /\ n + 1 \in 1 .. rb.count /\ (n + 1) - 1 = n
      BY <1>1, <2>1, <2>2, CapacityPositive DEF Occupied
    <2>4. slotAt(rb, n) = i
      BY <1>1, <1>2, <2>2, <2>3, CapacityPositive
    <2> HIDE DEF n
    <2>5. Contents(rb)[n + 1] = rb.buffer[i]
      BY <2>3, <2>4 DEF Contents
    <2> QED BY <2>3, <2>5
  <1>4. ASSUME NEW n \in 1 .. rb.count
        PROVE  \E i \in Slots : rb.buffer[i] # Nil /\ Contents(rb)[n] = rb.buffer[i]
    <2>1. n - 1 \in 0 .. Capacity - 1 /\ n - 1 < rb.count /\ n - 1 \in 0 .. Capacity
      BY <1>1, CapacityPositive
    <2>2. rb.buffer[slotAt(rb, n - 1)] # Nil
      BY <1>1, <2>1, ScanOrder
    <2>3. Contents(rb)[n] = rb.buffer[slotAt(rb, n - 1)]
      BY DEF Contents
    <2> QED BY <1>2, <2>1, <2>2, <2>3
  <1>5. Len(Contents(rb)) = rb.count
    BY <1>1 DEF Contents
  <1> QED BY <1>3, <1>4, <1>5

LEMMA Agree == Inv /\ Accounted => EndpointsAgree
  <1> SUFFICES ASSUME Inv, Accounted PROVE EndpointsAgree
    OBVIOUS
  <1> DEFINE all == Contents(rb)
  <1>1. /\ DOMAIN all = 1 .. rb.count /\ Len(all) = rb.count
        /\ \A i \in Slots : rb.buffer[i] # Nil => \E n \in 1 .. rb.count : all[n] = rb.buffer[i]
        /\ \A n \in 1 .. rb.count : \E i \in Slots : rb.buffer[i] # Nil /\ all[n] = rb.buffer[i]
    BY ContentsHold DEF Contents
  <1>2. ListRequests(NoQuery) = all
    BY ListsAll
  <1> HIDE DEF all
  <1>3. ASSUME NEW id \in Ids
        PROVE  IF GetRequest(id).status = 404
               THEN \A i \in DOMAIN all : all[i].id # id
               ELSE GetRequest(id).data.id = id /\ Contains(all, GetRequest(id).data)
    <2>1. /\ GetRequest(id).data = Get(rb, id)
          /\ GetRequest(id).status = 404 <=> Get(rb, id) = Nil
      BY DEF GetRequest
    <2>2. CASE Get(rb, id) = Nil
      BY <1>1, <2>1, <2>2, GetExact
    <2>3. CASE Get(rb, id) # Nil
      <3>1. Get(rb, id).id = id
        BY <2>3, GetExact
      <3>2. PICK i \in Slots : rb.buffer[i] = Get(rb, id)
        BY <2>3, GetExact
      <3>3. \E n \in 1 .. Len(all) : all[n] = Get(rb, id)
        BY <1>1, <2>3, <3>2
      <3> QED BY <2>1, <2>3, <3>1, <3>3 DEF Contains
    <2> QED BY <2>2, <2>3
  <1>4. rb.evictions + rb.count <= idCounter
    BY WaitingFinite DEF Accounted
  <1>5. GetStats.count = Len(all) /\ GetStats.evictions + GetStats.count <= idCounter
    BY <1>1, <1>4 DEF GetStats, Stats
  <1> QED BY <1>2, <1>3, <1>5 DEF EndpointsAgree

(* For every capacity and every history of pushes, evictions and clears:   *)
(* an id can be fetched iff the list shows it, with the same entry; the    *)
(* statistics count what the list shows, and no entry is counted that was  *)
(* not captured.                                                           *)
THEOREM OneStory == ApiSpec => []EndpointsAgree
  <1>1. Init => Accounted
    <2> SUFFICES ASSUME Init PROVE Accounted
      OBVIOUS
    <2>1. Waiting = {} /\ rb.evictions = 0 /\ rb.count = 0 /\ idCounter = 0
      BY DEF Init, Waiting, NewRingBuffer
    <2> QED BY <2>1, FS_EmptySet DEF Accounted
  <1>2. Inv /\ Accounted /\ [Next]_vars => Inv' /\ Accounted'
    BY NextInv, AccountedStep
  <1>3. Spec => [](Inv /\ Accounted)
    BY <1>1, <1>2, InitInv, PTL DEF Spec
  <1> QED BY <1>3, Agree, ApiUsesStore, PTL

-----------------------------------------------------------------------------
(* Pages of the list.                                                      *)

(* How many of the first i retained entries the filters let through.       *)
Rank(r, opts, i) == Cardinality({j \in 1 .. i : Matches(opts, Contents(r)[j])})

LEMMA RankStep ==
  ASSUME NEW r, NEW opts, NEW i \in Nat
  PROVE  /\ Rank(r, opts, 0) = 0
         /\ Rank(r, opts, i) \in Nat
         /\ Rank(r, opts, i + 1) = IF Matches(opts, Contents(r)[i + 1])
                                   THEN Rank(r, opts, i) + 1 ELSE Rank(r, opts, i)
  <1> DEFINE M(j) == Matches(opts, Contents(r)[j])
             W(n) == {j \in 1 .. n : M(j)}
  <1> HIDE DEF M
  <1>1. W(0) = {}
    OBVIOUS
  <1>2. IsFiniteSet(W(i)) /\ i + 1 \notin W(i)
    <2>1. IsFiniteSet(1 .. i)
      BY FS_Interval
    <2> QED BY <2>1, FS_Subset
  <1>3. W(i + 1) = IF M(i + 1) THEN W(i) \cup {i + 1} ELSE W(i)
    OBVIOUS
  <1> HIDE DEF W
  <1>4. /\ Cardinality(W(0)) = 0 /\ Cardinality(W(i)) \in Nat
        /\ Cardinality(W(i + 1)) = IF M(i + 1) THEN Cardinality(W(i)) + 1 ELSE Cardinality(W(i))
    <2>1. Cardinality(W(0)) = 0
      BY <1>1, FS_EmptySet
    <2>2. Cardinality(W(i)) \in Nat
      BY <1>2, FS_CardinalityType
    <2>3. Cardinality(W(i) \cup {i + 1}) = Cardinality(W(i)) + 1
      BY <1>2, FS_AddElement
    <2> QED BY <1>3, <2>1, <2>2, <2>3
  <1> QED BY <1>4 DEF Rank, W, M

(* scan returns the retained entries that match, each at its rank.         *)
LEMMA ScanRanked ==
  ASSUME NEW r, WellFormed(r), NEW opts
  PROVE  /\ Len(scan(r, opts)) = Rank(r, opts, r.count)
         /\ \A k \in 1 .. Len(scan(r, opts)) :
              \E i \in 1 .. r.count :
                 /\ Matches(opts, Contents(r)[i])
                 /\ Rank(r, opts, i) = k
                 /\ scan(r, opts)[k] = Contents(r)[i]
  <1>1. r \in RingBuffers /\ r.count \in 0 .. Capacity
    BY DEF WellFormed, RingBuffers
  <1>2. PICK f \in [0 .. Capacity -> Seq(Entry)] :
           /\ f[0] = << >>
           /\ \A n \in 1 .. Capacity : f[n] = collect(f[n - 1], r, opts, n - 1)
           /\ scan(r, opts) = f[Capacity]
    BY <1>1, ScanLoop
  <1> DEFINE all == Contents(r)
             m(n) == IF n < r.count THEN n ELSE r.count
             Long(n) == Len(f[n]) = Rank(r, opts, m(n))
             AtRank(n) == \A k \in 1 .. Len(f[n]) :
                            \E i \in 1 .. m(n) :
                               /\ Matches(opts, all[i])
                               /\ Rank(r, opts, i) = k
                               /\ f[n][k] = all[i]
             S == {n \in Nat : n <= Capacity => Long(n) /\ AtRank(n)}
  <1>3. 0 \in S
    <2>1. m(0) = 0
      BY <1>1
    <2>2. Len(f[0]) = 0 /\ Rank(r, opts, 0) = 0
      BY <1>2, RankStep
    <2> HIDE DEF m
    <2> QED BY <2>1, <2>2
  <1>4. ASSUME NEW n \in Nat, n \in S, n + 1 <= Capacity
        PROVE  Long(n + 1) /\ AtRank(n + 1)
    <2> DEFINE e == r.buffer[slotAt(r, n)]
    <2>1. /\ n \in 0 .. Capacity /\ n + 1 \in 1 .. Capacity /\ n \in 0 .. Capacity - 1
          /\ (n + 1) - 1 = n
      BY <1>4, CapacityPositive
    <2>2. Long(n) /\ AtRank(n)
      BY <1>4, <2>1
    <2>3. f[n] \in Seq(Entry) /\ Len(f[n]) \in Nat
      BY <2>1, LenProperties
    <2>4. f[n + 1] = IF keep(opts, e) THEN Append(f[n], e) ELSE f[n]
      BY <1>2, <2>1 DEF collect
    <2>5. e # Nil <=> n < r.count
      BY <2>1, ScanOrder
    <2>6. n < r.count => e = all[n + 1]
      <3>1. n < r.count => n + 1 \in 1 .. r.count
        BY <1>1
      <3> QED BY <2>1, <3>1 DEF Contents
    <2> HIDE DEF e, all
    <2>7. CASE ~(n < r.count)
      <3>1. m(n) = r.count /\ m(n + 1) = r.count
        BY <1>1, <2>7
      <3>2. f[n + 1] = f[n]
        BY <2>4, <2>5, <2>7 DEF keep
      <3> HIDE DEF m
      <3> QED BY <2>2, <3>1, <3>2
    <2>8. CASE n < r.count /\ ~Matches(opts, all[n + 1])
      <3>1. m(n) = n /\ m(n + 1) = n + 1
        BY <1>1, <2>8
      <3>2. f[n + 1] = f[n]
        BY <2>4, <2>6, <2>8 DEF keep
      <3>3. Rank(r, opts, n + 1) = Rank(r, opts, n)
        BY <2>8, RankStep DEF all
      <3> HIDE DEF m
      <3>4. Long(n + 1)
        BY <2>2, <3>1, <3>2, <3>3
      <3>5. AtRank(n + 1)
        BY <2>2, <3>1, <3>2
      <3> QED BY <3>4, <3>5
    <2>9. CASE n < r.count /\ Matches(opts, all[n + 1])
      <3>1. m(n) = n /\ m(n + 1) = n + 1
        BY <1>1, <2>9
      <3>2. /\ Len(f[n + 1]) = Len(f[n]) + 1
            /\ \A k \in 1 .. Len(f[n]) : f[n + 1][k] = f[n][k]
            /\ f[n + 1][Len(f[n]) + 1] = all[n + 1]
        <4>1. f[n + 1] = Append(f[n], all[n + 1]) /\ e \in Entry
          <5>1. slotAt(r, n) \in Slots
            BY <1>1, <2>1, SlotAtIs
          <5>2. e \in Entry
            BY <1>1, <2>5, <2>9, <5>1 DEF e, RingBuffers
          <5> QED BY <2>4, <2>5, <2>6, <2>9, <5>2 DEF keep
        <4> QED BY <2>3, <2>6, <2>9, <4>1, AppendProperties
      <3>3. Rank(r, opts, n + 1) = Rank(r, opts, n) + 1
        BY <2>9, RankStep DEF all
      <3> HIDE DEF m
      <3>4. Len(f[n]) = Rank(r, opts, n)
        BY <2>2, <3>1
      <3>5. Long(n + 1)
        BY <3>1, <3>2, <3>3, <3>4
      <3>6. ASSUME NEW k \in 1 .. Len(f[n + 1])
            PROVE  \E i \in 1 .. n + 1 : /\ Matches(opts, all[i])
                                         /\ Rank(r, opts, i) = k
                                         /\ f[n + 1][k] = all[i]
        <4>1. CASE k \in 1 .. Len(f[n])
          <5>1. PICK i \in 1 .. n : /\ Matches(opts, all[i])
                                    /\ Rank(r, opts, i) = k
                                    /\ f[n][k] = all[i]
            BY <2>2, <3>1, <4>1
          <5>2. i \in 1 .. n + 1
            OBVIOUS
          <5> QED BY <3>2, <4>1, <5>1, <5>2
        <4>2. CASE k = Len(f[n]) + 1
          <5>1. n + 1 \in 1 .. n + 1 /\ Rank(r, opts, n + 1) = k
            BY <3>3, <3>4, <4>2
          <5> QED BY <2>9, <3>2, <4>2, <5>1
        <4>3. k \in 1 .. Len(f[n]) \/ k = Len(f[n]) + 1
          BY <2>3, <3>2
        <4> QED BY <4>1, <4>2, <4>3
      <3> QED BY <3>1, <3>5, <3>6
    <2> QED BY <2>7, <2>8, <2>9
  <1>5. \A n \in Nat : n \in S => n + 1 \in S
    <2> HIDE DEF Long, AtRank
    <2> QED BY <1>4
  <1>6. Capacity \in S
    <2> HIDE DEF S
    <2> QED BY <1>3, <1>5, CapacityPositive, NatSetInduction
  <1>7. m(Capacity) = r.count
    BY <1>1, CapacityPositive
  <1>8. Long(Capacity) /\ AtRank(Capacity)
    <2> HIDE DEF Long, AtRank
    <2> QED BY <1>6, CapacityPositive
  <1> HIDE DEF m
  <1> QED BY <1>2, <1>7, <1>8

(* paginate skips offset entries and keeps at most limit, if one is given. *)
LEMMA PageIs ==
  ASSUME NEW s \in Seq(Entry), NEW opts, opts.offset \in Nat, opts.limit \in Nat
  PROVE  LET p    == paginate(s, opts)
             left == IF Len(s) > opts.offset THEN Len(s) - opts.offset ELSE 0
         IN  /\ Len(p) = IF opts.limit > 0 /\ opts.limit < left THEN opts.limit ELSE left
             /\ \A k \in 1 .. Len(p) :
                  opts.offset + k \in 1 .. Len(s) /\ p[k] = s[opts.offset + k]
  <1> DEFINE o == opts.offset
             l == opts.limit
             t == IF o > 0 THEN SubSeq(s, o + 1, Len(s)) ELSE s
             left == IF Len(s) > o THEN Len(s) - o ELSE 0
  <1>0. o \in Nat /\ l \in Nat /\ Len(s) \in Nat /\ \A i \in 1 .. Len(s) : s[i] \in Entry
    BY LenProperties, ElementOfSeq
  <1>1. CASE o > 0 /\ o >= Len(s)
    <2>1. paginate(s, opts) = << >> /\ left = 0
      BY <1>0, <1>1 DEF paginate
    <2> QED BY <1>0, <2>1
  <1>2. CASE ~(o > 0 /\ o >= Len(s))
    <2>1. paginate(s, opts) = capResult(t, l)
      BY <1>2 DEF paginate
    <2>2. t \in Seq(Entry) /\ Len(t) = left /\ \A k \in 1 .. left : t[k] = s[o + k]
      <3>1. CASE o = 0
        BY <1>0, <3>1
      <3>2. CASE o # 0
        <4>1. o > 0 /\ o < Len(s) /\ o + 1 \in Nat /\ left = Len(s) - o
          BY <1>0, <1>2, <3>2
        <4>2. \A i \in o + 1 .. Len(s) : s[i] \in Entry
          BY <1>0
        <4>3. /\ SubSeq(s, o + 1, Len(s)) \in Seq(Entry)
              /\ Len(SubSeq(s, o + 1, Len(s))) = Len(s) - o
              /\ \A k \in 1 .. Len(s) - o : SubSeq(s, o + 1, Len(s))[k] = s[o + k]
          <5>1. o + 1 <= Len(s) + 1 /\ Len(s) - (o + 1) + 1 = Len(s) - o
            BY <1>0, <4>1
          <5>2. \A k \in 1 .. Len(s) - o : (o + 1) + k - 1 = o + k
            BY <1>0
          <5> DEFINE a == o + 1
                     b == Len(s)
          <5>3. a \in Int /\ b \in Int /\ a <= b
            BY <1>0, <4>1
          <5> HIDE DEF a, b
          <5>4. \A i \in a .. b : s[i] \in Entry
            BY <4>2 DEF a, b
          <5>5. /\ SubSeq(s, a, b) \in Seq(Entry)
                /\ Len(SubSeq(s, a, b)) = b - a + 1
                /\ \A k \in 1 .. b - a + 1 : SubSeq(s, a, b)[k] = s[a + k - 1]
            BY <5>3, <5>4, SubSeqProperties
          <5> HIDE DEF o
          <5> QED BY <5>1, <5>2, <5>5 DEF a, b
        <4> HIDE DEF o, left
        <4> QED BY <4>1, <4>3
      <3> QED BY <3>1, <3>2
    <2>3. left \in Nat /\ \A k \in 1 .. left : o + k \in 1 .. Len(s)
      BY <1>0
    <2> HIDE DEF t, left, o, l
    <2>4. CASE l > 0 /\ l < left
      <3>1. capResult(t, l) = SubSeq(t, 1, l)
        BY <2>2, <2>4 DEF capResult
      <3>2. \A i \in 1 .. l : i \in 1 .. Len(t) /\ t[i] \in Entry
        BY <1>0, <2>2, <2>3, <2>4, ElementOfSeq
      <3>3. Len(SubSeq(t, 1, l)) = l /\ \A k \in 1 .. l : SubSeq(t, 1, l)[k] = t[k]
        BY <1>0, <2>2, <3>2, SubSeqProperties
      <3>4. \A k \in 1 .. l : k \in 1 .. left
        BY <1>0, <2>3, <2>4
      <3> QED BY <2>1, <2>2, <2>3, <2>4, <3>1, <3>3, <3>4 DEF left, o, l
    <2>5. CASE ~(l > 0 /\ l < left)
      <3>1. capResult(t, l) = t
        BY <2>2, <2>5 DEF capResult
      <3> QED BY <2>1, <2>2, <2>3, <2>5, <3>1 DEF left, o, l
    <2> QED BY <2>4, <2>5
  <1> QED BY <1>1, <1>2

(* The parsed query asks for what the client asked for.                    *)
LEMMA QueryIs ==
  ASSUME NEW q \in RawQueries
  PROVE  LET opts == listOptsFromQuery(q)
         IN  /\ opts.offset \in Nat /\ opts.limit \in Nat
             /\ opts.offset = IF given(q.offset) /\ q.offset > 0 THEN q.offset ELSE 0
             /\ opts.limit = IF given(q.limit) /\ q.limit > 0 THEN q.limit ELSE 0
             /\ \A e \in Entry :
                  Matches(opts, e) <=>
                    /\ given(q.since) => e.ts >= q.since
                    /\ given(q.method) => e.kind.method = q.method
                    /\ given(q.status) /\ q.status > 0 => e.kind.status = q.status
                    /\ given(q.url) => e.kind.url = q.url
  <1> DEFINE opts == listOptsFromQuery(q)
  <1>1. /\ Absent \notin Int /\ Unparsable \notin Int
        /\ q.since \in Int \cup {Absent, Unparsable}
        /\ q.status \in Int \cup {Absent, Unparsable}
        /\ q.limit \in Int \cup {Absent, Unparsable}
        /\ q.offset \in Int \cup {Absent, Unparsable}
        /\ q.method # Nil /\ q.url # Nil /\ q.method # Unparsable /\ q.url # Unparsable
    BY StoreAssumption, ApiAssumption
  <1>2. /\ opts.since = IF given(q.since) THEN q.since ELSE 0
        /\ opts.status = IF given(q.status) THEN q.status ELSE 0
        /\ opts.method = IF given(q.method) THEN q.method ELSE Nil
        /\ opts.url = IF given(q.url) THEN q.url ELSE Nil
        /\ opts.limit = IF given(q.limit) THEN (IF q.limit <= 0 THEN 0 ELSE q.limit) ELSE 0
        /\ opts.offset = IF given(q.offset) THEN (IF q.offset <= 0 THEN 0 ELSE q.offset) ELSE 0
    BY <1>1 DEF listOptsFromQuery, parseTimeQuery, parseIntQuery, parsePositiveIntQuery, get, given
  <1>3. /\ given(q.since) => q.since \in Int
        /\ given(q.status) => q.status \in Int
        /\ given(q.limit) => q.limit \in Int
        /\ given(q.offset) => q.offset \in Int
    BY <1>1 DEF given
  <1> HIDE DEF opts
  <1>4. /\ opts.offset \in Nat /\ opts.limit \in Nat
        /\ opts.offset = IF given(q.offset) /\ q.offset > 0 THEN q.offset ELSE 0
        /\ opts.limit = IF given(q.limit) /\ q.limit > 0 THEN q.limit ELSE 0
    BY <1>2, <1>3
  <1>5. ASSUME NEW e \in Entry
        PROVE  Matches(opts, e) <=>
                    /\ given(q.since) => e.ts >= q.since
                    /\ given(q.method) => e.kind.method = q.method
                    /\ given(q.status) /\ q.status > 0 => e.kind.status = q.status
                    /\ given(q.url) => e.kind.url = q.url
    <2>1. e.ts \in Nat /\ e.ts > 0
      BY StoreAssumption DEF Entry
    <2>2. ~sinceExcludes(opts, e) <=> (given(q.since) => e.ts >= q.since)
      BY <1>2, <1>3, <2>1 DEF sinceExcludes
    <2>3. ~methodExcludes(opts, e) <=> (given(q.method) => e.kind.method = q.method)
      BY <1>1, <1>2 DEF methodExcludes
    <2>4. ~statusExcludes(opts, e) <=> (given(q.status) /\ q.status > 0 => e.kind.status = q.status)
      BY <1>2, <1>3 DEF statusExcludes
    <2>5. ~urlExcludes(opts, e) <=> (given(q.url) => e.kind.url = q.url)
      BY <1>1, <1>2 DEF urlExcludes
    <2> QED BY <2>2, <2>3, <2>4, <2>5 DEF Matches
  <1> QED BY <1>4, <1>5 DEF opts

LEMMA Answers == Inv => ListAnswer
  <1> SUFFICES ASSUME Inv, NEW q \in RawQueries
               PROVE  LET all  == Contents(rb)
                          page == ListRequests(q)
                          wantedBy(e) ==
                              /\ given(q.since) => e.ts >= q.since
                              /\ given(q.method) => e.kind.method = q.method
                              /\ given(q.status) /\ q.status > 0 => e.kind.status = q.status
                              /\ given(q.url) => e.kind.url = q.url
                          wanted == {i \in 1 .. Len(all) : wantedBy(all[i])}
                          rank(i) == Cardinality({j \in wanted : j <= i})
                          skip == IF given(q.offset) /\ q.offset > 0 THEN q.offset ELSE 0
                          left == IF rank(Len(all)) > skip THEN rank(Len(all)) - skip ELSE 0
                      IN  /\ Len(page) = IF given(q.limit) /\ q.limit > 0 /\ q.limit < left
                                         THEN q.limit ELSE left
                          /\ \A k \in 1 .. Len(page) :
                               \E i \in wanted : rank(i) = skip + k /\ page[k] = all[i]
    BY DEF ListAnswer
  <1> DEFINE all  == Contents(rb)
             page == ListRequests(q)
             wantedBy(e) ==
                 /\ given(q.since) => e.ts >= q.since
                 /\ given(q.method) => e.kind.method = q.method
                 /\ given(q.status) /\ q.status > 0 => e.kind.status = q.status
                 /\ given(q.url) => e.kind.url = q.url
             wanted == {i \in 1 .. Len(all) : wantedBy(all[i])}
             rank(i) == Cardinality({j \in wanted : j <= i})
             skip == IF given(q.offset) /\ q.offset > 0 THEN q.offset ELSE 0
             left == IF rank(Len(all)) > skip THEN rank(Len(all)) - skip ELSE 0
             opts == listOptsFromQuery(q)
             s == scan(rb, opts)
  <1>1. WellFormed(rb) /\ rb.count \in Nat
    BY RingWellFormed, CapacityPositive DEF Inv, TypeOK, RingBuffers
  <1>2. /\ opts.offset \in Nat /\ opts.limit \in Nat /\ opts.offset = skip
        /\ opts.limit = IF given(q.limit) /\ q.limit > 0 THEN q.limit ELSE 0
        /\ \A e \in Entry : Matches(opts, e) <=> wantedBy(e)
    BY QueryIs
  <1>3. s \in Seq(Entry)
    BY <1>1, ScanResult
  <1>4. /\ Len(s) = Rank(rb, opts, rb.count)
        /\ \A k \in 1 .. Len(s) :
              \E i \in 1 .. rb.count :
                 /\ Matches(opts, all[i]) /\ Rank(rb, opts, i) = k /\ s[k] = all[i]
    BY <1>1, ScanRanked
  <1>5. Len(all) = rb.count /\ \A i \in 1 .. rb.count : all[i] \in Entry
    <2>1. \A i \in Slots : rb.buffer[i] # Nil => rb.buffer[i] \in Entry
      BY DEF Inv, TypeOK, RingBuffers
    <2> QED BY <2>1, ContentsHold
  <1> HIDE DEF all, wantedBy, opts, s, skip, page
  <1>6. \A i \in 0 .. rb.count : Rank(rb, opts, i) = rank(i)
    <2> SUFFICES ASSUME NEW i \in 0 .. rb.count PROVE Rank(rb, opts, i) = rank(i)
      OBVIOUS
    <2>1. \A j \in 1 .. i : Matches(opts, all[j]) <=> wantedBy(all[j])
      BY <1>1, <1>2, <1>5
    <2>2. {j \in 1 .. i : Matches(opts, all[j])} = {j \in wanted : j <= i}
      BY <1>1, <1>5, <2>1
    <2> QED BY <2>2 DEF Rank, all
  <1> HIDE DEF rank, wanted
  <1>7. Len(s) = rank(Len(all)) /\ Len(s) \in Nat
    BY <1>1, <1>3, <1>4, <1>5, <1>6, LenProperties
  <1>8. \A k \in 1 .. Len(s) : \E i \in wanted : rank(i) = k /\ s[k] = all[i]
    BY <1>1, <1>2, <1>4, <1>5, <1>6 DEF wanted
  <1>9. /\ Len(page) = IF opts.limit > 0 /\ opts.limit < left THEN opts.limit ELSE left
        /\ \A k \in 1 .. Len(page) : skip + k \in 1 .. Len(s) /\ page[k] = s[skip + k]
    <2>1. CASE rb.count = 0
      <3>1. page = << >>
        BY <2>1 DEF page, ListRequests, List, opts
      <3>2. rank(Len(all)) = 0
        BY <1>5, <1>6, <2>1, RankStep
      <3> QED BY <1>2, <3>1, <3>2
    <2>2. CASE rb.count # 0
      <3>1. page = paginate(s, opts)
        BY <2>2 DEF page, ListRequests, List, s, opts
      <3> QED BY <1>2, <1>3, <1>7, <3>1, PageIs
    <2> QED BY <2>1, <2>2
  <1>10. Len(page) = IF given(q.limit) /\ q.limit > 0 /\ q.limit < left THEN q.limit ELSE left
    <2>1. left \in Nat
      BY <1>2, <1>7
    <2> HIDE DEF left
    <2> QED BY <1>2, <1>9, <2>1
  <1>11. \A k \in 1 .. Len(page) : \E i \in wanted :
           rank(i) = skip + k /\ page[k] = all[i]
    BY <1>8, <1>9
  <1> QED BY <1>10, <1>11 DEF all, wantedBy, wanted, rank, skip, page

(* For every capacity, history and query string: /api/requests answers     *)
(* with the page asked for, cut from the retained entries that the filters *)
(* let through, in the order of Push.                                      *)
THEOREM PagesExact == ApiSpec => []ListAnswer
  BY Answers, InitInv, NextInv, ApiUsesStore, PTL DEF Spec
====
