------------------------- MODULE CaptureStoreProofs -------------------------
(***************************************************************************)
(* Proofs about CaptureStore, for every capacity, channel capacity, number *)
(* of goroutines, subscribers and entries.                                 *)
(***************************************************************************)
EXTENDS CaptureStore, SequenceTheorems, WellFoundedInduction, TLAPS

-----------------------------------------------------------------------------
(* Arithmetic of the ring.                                                 *)

(* NewRingBuffer never makes an empty ring, whatever the flag.             *)
LEMMA CapacityPositive == Capacity \in Nat /\ Capacity > 0
  BY StoreAssumption DEF Capacity, NewCapacity

(* Going k slots on from slot h wraps around at most once.                 *)
LEMMA WrapOnce ==
  ASSUME NEW C \in Nat, C > 0, NEW h \in 0 .. C - 1, NEW k \in 0 .. C
  PROVE  (h + k) % C = IF h + k < C THEN h + k ELSE h + k - C
  <1>1. CASE h + k < C
    BY <1>1
  <1>2. CASE h + k >= C
    BY <1>2
  <1> QED BY <1>1, <1>2

-----------------------------------------------------------------------------
(* What the ring operations do to a well-formed ring, field by field.      *)

Shape(r) ==
    /\ r.tail = slotAt(r, r.count)
    /\ \A i \in Slots : r.buffer[i] # Nil <=> Occupied(r, i)

Index(r) ==
    \A id \in Ids, i \in Slots :
        r.idIndex[id] = i <=> r.buffer[i] # Nil /\ r.buffer[i].id = id

WellFormed(r) == r \in RingBuffers /\ Shape(r) /\ Index(r)

(* The id of an entry about to be inserted is not in the ring.             *)
NewId(r, e) == \A i \in Slots : r.buffer[i] # Nil => r.buffer[i].id # e.id

LEMMA AdvanceIs ==
  ASSUME NEW i \in Slots
  PROVE  /\ advance(i) \in Slots
         /\ advance(i) = IF i = Capacity - 1 THEN 0 ELSE i + 1
  <1>1. (i + 1) % Capacity = IF i + 1 < Capacity THEN i + 1 ELSE i + 1 - Capacity
    BY CapacityPositive, WrapOnce DEF Slots
  <1> QED BY <1>1, CapacityPositive DEF Slots, advance

LEMMA SlotAtIs ==
  ASSUME NEW r \in RingBuffers, NEW k \in 0 .. Capacity
  PROVE  /\ slotAt(r, k) \in Slots
         /\ slotAt(r, k) = IF r.head + k < Capacity THEN r.head + k
                                                    ELSE r.head + k - Capacity
  <1>1. r.head \in 0 .. Capacity - 1
    BY DEF RingBuffers, Slots
  <1>2. (r.head + k) % Capacity = IF r.head + k < Capacity THEN r.head + k
                                                          ELSE r.head + k - Capacity
    BY <1>1, CapacityPositive, WrapOnce
  <1> QED BY <1>1, <1>2, CapacityPositive DEF slotAt, Slots

(* A new ring is well formed and holds nothing.                            *)
LEMMA NewRingWellFormed == WellFormed(NewRingBuffer) /\ NewRingBuffer.count = 0
  <1>1. NewRingBuffer \in RingBuffers
    BY CapacityPositive DEF NewRingBuffer, RingBuffers, Slots
  <1>2. slotAt(NewRingBuffer, 0) = 0
    BY <1>1, SlotAtIs, CapacityPositive DEF NewRingBuffer
  <1>3. Shape(NewRingBuffer)
    BY <1>1, <1>2, CapacityPositive DEF Shape, Occupied, NewRingBuffer, Slots
  <1>4. Index(NewRingBuffer)
    BY StoreAssumption, CapacityPositive DEF Index, NewRingBuffer, Slots
  <1> QED BY <1>1, <1>3, <1>4 DEF WellFormed, NewRingBuffer

LEMMA ClearWellFormed ==
  ASSUME NEW r, WellFormed(r)
  PROVE  WellFormed(clearRing(r))
  <1> DEFINE c == clearRing(r)
  <1>1. /\ c \in RingBuffers
        /\ c.buffer = NewRingBuffer.buffer
        /\ c.head = NewRingBuffer.head
        /\ c.tail = NewRingBuffer.tail
        /\ c.count = NewRingBuffer.count
        /\ c.idIndex = NewRingBuffer.idIndex
    BY NewRingWellFormed DEF WellFormed, clearRing, RingBuffers, NewRingBuffer
  <1>2. Shape(c) /\ Index(c)
    BY <1>1, NewRingWellFormed DEF WellFormed, Shape, Index, Occupied, slotAt
  <1> QED BY <1>1, <1>2 DEF WellFormed

LEMMA EvictWellFormed ==
  ASSUME NEW r, WellFormed(r), r.count = Capacity
  PROVE  LET v == evictOldest(r)
         IN  /\ WellFormed(v)
             /\ v.head = advance(r.head)
             /\ v.count = Capacity - 1
             /\ v.buffer = [r.buffer EXCEPT ![r.head] = Nil]
             /\ v.evictions = r.evictions + 1
             /\ v.bytesCaptured = r.bytesCaptured
  <1> DEFINE v == evictOldest(r)
  <1>1. /\ r \in RingBuffers
        /\ r.head \in Slots
        /\ r.buffer \in [Slots -> Entry \cup {Nil}]
        /\ r.idIndex \in [Ids -> Slots \cup {Absent}]
        /\ r.evictions \in Nat
    BY DEF WellFormed, RingBuffers
  <1>2. \A i \in Slots : r.buffer[i] # Nil /\ r.buffer[i] \in Entry
    BY <1>1, CapacityPositive DEF WellFormed, Shape, Occupied, Slots
  <1> DEFINE old == r.buffer[r.head].id
  <1>3. old \in Ids
    BY <1>1, <1>2 DEF Entry
  <1>4. /\ v.buffer = [r.buffer EXCEPT ![r.head] = Nil]
        /\ v.head = advance(r.head)
        /\ v.tail = r.tail
        /\ v.count = Capacity - 1
        /\ v.idIndex = [r.idIndex EXCEPT ![old] = Absent]
        /\ v.evictions = r.evictions + 1
        /\ v.bytesCaptured = r.bytesCaptured
    BY <1>1 DEF evictOldest, RingBuffers
  <1>5. v \in RingBuffers
    <2>1. /\ [r.buffer EXCEPT ![r.head] = Nil] \in [Slots -> Entry \cup {Nil}]
          /\ [r.idIndex EXCEPT ![old] = Absent] \in [Ids -> Slots \cup {Absent}]
          /\ advance(r.head) \in Slots
          /\ r.count - 1 \in 0 .. Capacity
          /\ r.evictions + 1 \in Nat
      BY <1>1, <1>3, AdvanceIs, CapacityPositive
    <2> QED BY <1>1, <2>1 DEF evictOldest, RingBuffers
  <1>6. r.tail = r.head
    BY <1>1, SlotAtIs, CapacityPositive DEF WellFormed, Shape, Slots
  <1>7. slotAt(v, v.count) = v.tail
    <2> HIDE DEF v
    <2>1. v.count \in 0 .. Capacity
      BY <1>4, CapacityPositive
    <2>2. slotAt(v, v.count) = IF v.head + v.count < Capacity THEN v.head + v.count
                                              ELSE v.head + v.count - Capacity
      BY <1>5, <2>1, SlotAtIs
    <2>3. v.head = IF r.head = Capacity - 1 THEN 0 ELSE r.head + 1
      BY <1>1, <1>4, AdvanceIs
    <2>4. r.head \in 0 .. Capacity - 1
      BY <1>1 DEF Slots
    <2> QED BY <1>4, <1>6, <2>2, <2>3, <2>4, CapacityPositive
  <1>8. ASSUME NEW i \in Slots
        PROVE  v.buffer[i] # Nil <=> Occupied(v, i)
    <2> HIDE DEF v
    <2>1. v.buffer[i] = IF i = r.head THEN Nil ELSE r.buffer[i]
      BY <1>1, <1>4
    <2>2. v.buffer[i] # Nil <=> i # r.head
      BY <1>2, <2>1
    <2>3. /\ i \in 0 .. Capacity - 1
          /\ r.head \in 0 .. Capacity - 1
          /\ v.head = IF r.head = Capacity - 1 THEN 0 ELSE r.head + 1
      BY <1>1, <1>4, AdvanceIs DEF Slots
    <2>4. Occupied(v, i) <=> i # r.head
      BY <1>4, <2>3, CapacityPositive DEF Occupied
    <2> QED BY <2>2, <2>4
  <1>9. Index(v)
    <2> SUFFICES ASSUME NEW id \in Ids, NEW i \in Slots
                 PROVE  v.idIndex[id] = i <=> v.buffer[i] # Nil /\ v.buffer[i].id = id
      BY DEF Index
    <2>1. r.idIndex[id] = i <=> r.buffer[i] # Nil /\ r.buffer[i].id = id
      BY DEF WellFormed, Index
    <2>2. r.idIndex[old] = r.head
      BY <1>1, <1>2, <1>3 DEF WellFormed, Index
    <2>3. i # Absent
      BY StoreAssumption, CapacityPositive DEF Slots
    <2> QED BY <1>1, <1>3, <1>4, <2>1, <2>2, <2>3
  <1> QED BY <1>4, <1>5, <1>7, <1>8, <1>9 DEF WellFormed, Shape

LEMMA InsertWellFormed ==
  ASSUME NEW r, WellFormed(r), r.count < Capacity,
         NEW e \in Entry, NewId(r, e)
  PROVE  LET n == insert(r, e)
         IN  /\ WellFormed(n)
             /\ n.head = r.head
             /\ n.count = r.count + 1
             /\ n.buffer = [r.buffer EXCEPT ![r.tail] = e]
             /\ n.evictions = r.evictions
             /\ n.bytesCaptured = r.bytesCaptured + entryBytes(e)
  <1> DEFINE n == insert(r, e)
  <1>1. /\ r \in RingBuffers
        /\ r.head \in Slots
        /\ r.tail \in Slots
        /\ r.count \in 0 .. Capacity
        /\ r.buffer \in [Slots -> Entry \cup {Nil}]
        /\ r.idIndex \in [Ids -> Slots \cup {Absent}]
        /\ r.evictions \in Nat
        /\ r.bytesCaptured \in Nat
    BY DEF WellFormed, RingBuffers
  <1>2. e.id \in Ids /\ e # Nil
    BY StoreAssumption DEF Entry
  <1>3. entryBytes(e) \in Nat
    <2>1. PICK k \in Kinds : e.kind = captured(k)
      BY DEF Entry
    <2>2. e.kind.reqLen = k.reqLen /\ e.kind.respLen = k.respLen
      BY <2>1 DEF captured
    <2> QED BY <2>2, StoreAssumption DEF entryBytes, bodyLen
  <1>4. /\ n.buffer = [r.buffer EXCEPT ![r.tail] = e]
        /\ n.head = r.head
        /\ n.tail = advance(r.tail)
        /\ n.count = r.count + 1
        /\ n.idIndex = [r.idIndex EXCEPT ![e.id] = r.tail]
        /\ n.evictions = r.evictions
        /\ n.bytesCaptured = r.bytesCaptured + entryBytes(e)
    BY <1>1 DEF insert, RingBuffers
  <1>5. n \in RingBuffers
    <2>1. /\ [r.buffer EXCEPT ![r.tail] = e] \in [Slots -> Entry \cup {Nil}]
          /\ [r.idIndex EXCEPT ![e.id] = r.tail] \in [Ids -> Slots \cup {Absent}]
          /\ advance(r.tail) \in Slots
          /\ r.count + 1 \in 0 .. Capacity
          /\ r.bytesCaptured + entryBytes(e) \in Nat
      BY <1>1, <1>2, <1>3, AdvanceIs, CapacityPositive
    <2> QED BY <1>1, <2>1 DEF insert, RingBuffers
  <1>6. r.tail = IF r.head + r.count < Capacity THEN r.head + r.count
                                              ELSE r.head + r.count - Capacity
    BY <1>1, SlotAtIs DEF WellFormed, Shape
  <1> HIDE DEF n
  <1>7. slotAt(n, n.count) = n.tail
    <2>1. n.count \in 0 .. Capacity
      BY <1>1, <1>4, CapacityPositive
    <2>2. slotAt(n, n.count) = IF n.head + n.count < Capacity THEN n.head + n.count
                                              ELSE n.head + n.count - Capacity
      BY <1>5, <2>1, SlotAtIs
    <2>3. n.tail = IF r.tail = Capacity - 1 THEN 0 ELSE r.tail + 1
      BY <1>1, <1>4, AdvanceIs
    <2>4. r.head \in 0 .. Capacity - 1
      BY <1>1 DEF Slots
    <2> QED BY <1>1, <1>4, <1>6, <2>2, <2>3, <2>4, CapacityPositive
  <1>8. ASSUME NEW i \in Slots
        PROVE  n.buffer[i] # Nil <=> Occupied(n, i)
    <2>1. n.buffer[i] = IF i = r.tail THEN e ELSE r.buffer[i]
      BY <1>1, <1>4
    <2>2. r.buffer[i] # Nil <=> Occupied(r, i)
      BY DEF WellFormed, Shape
    <2>3. i \in 0 .. Capacity - 1 /\ r.head \in 0 .. Capacity - 1
      BY <1>1 DEF Slots
    <2>4. Occupied(n, i) <=> Occupied(r, i) \/ i = r.tail
      BY <1>1, <1>4, <1>6, <2>3, CapacityPositive DEF Occupied
    <2> QED BY <1>2, <2>1, <2>2, <2>4
  <1>9. Index(n)
    <2> SUFFICES ASSUME NEW id \in Ids, NEW i \in Slots
                 PROVE  n.idIndex[id] = i <=> n.buffer[i] # Nil /\ n.buffer[i].id = id
      BY DEF Index
    <2>1. r.idIndex[id] = i <=> r.buffer[i] # Nil /\ r.buffer[i].id = id
      BY DEF WellFormed, Index
    <2>2. r.buffer[r.tail] = Nil
      <3>1. ~Occupied(r, r.tail)
        BY <1>1, <1>6, CapacityPositive DEF Occupied, Slots
      <3> QED BY <1>1, <3>1 DEF WellFormed, Shape
    <2>3. r.buffer[i] # Nil => r.buffer[i].id # e.id
      BY DEF NewId
    <2> QED BY <1>1, <1>2, <1>4, <2>1, <2>2, <2>3
  <1> QED BY <1>4, <1>5, <1>7, <1>8, <1>9 DEF WellFormed, Shape, n

(* Push on a well-formed ring, whether or not it has to evict first.       *)
LEMMA PushWellFormed ==
  ASSUME NEW r, WellFormed(r), NEW e \in Entry, NewId(r, e)
  PROVE  LET p == pushRing(r, e)
         IN  /\ WellFormed(p)
             /\ \A i \in Slots : p.buffer[i] \in {e, r.buffer[i], Nil}
             /\ p.bytesCaptured = r.bytesCaptured + entryBytes(e)
             /\ p.evictions = IF r.count = Capacity THEN r.evictions + 1
                                                    ELSE r.evictions
  <1>1. /\ r.buffer \in [Slots -> Entry \cup {Nil}]
        /\ r.count \in 0 .. Capacity
        /\ r.tail \in Slots
        /\ r.head \in Slots
    BY DEF WellFormed, RingBuffers
  <1>2. CASE r.count = Capacity
    <2> DEFINE v == evictOldest(r)
    <2>1. /\ WellFormed(v)
          /\ v.count = Capacity - 1
          /\ v.buffer = [r.buffer EXCEPT ![r.head] = Nil]
          /\ v.evictions = r.evictions + 1
          /\ v.bytesCaptured = r.bytesCaptured
      BY <1>2, EvictWellFormed
    <2>2. pushRing(r, e) = insert(v, e)
      BY <1>2 DEF pushRing
    <2> HIDE DEF v
    <2>3. NewId(v, e)
      BY <1>1, <2>1 DEF NewId
    <2>4. v.count < Capacity
      BY <2>1, CapacityPositive
    <2>5. v.tail \in Slots /\ v.buffer \in [Slots -> Entry \cup {Nil}]
      BY <2>1 DEF WellFormed, RingBuffers
    <2>6. /\ WellFormed(insert(v, e))
          /\ insert(v, e).buffer = [v.buffer EXCEPT ![v.tail] = e]
          /\ insert(v, e).evictions = v.evictions
          /\ insert(v, e).bytesCaptured = v.bytesCaptured + entryBytes(e)
      BY <2>1, <2>3, <2>4, InsertWellFormed
    <2>7. \A i \in Slots : insert(v, e).buffer[i] \in {e, r.buffer[i], Nil}
      BY <1>1, <2>1, <2>5, <2>6
    <2> QED BY <1>2, <2>1, <2>2, <2>6, <2>7
  <1>3. CASE r.count # Capacity
    <2>1. r.count < Capacity
      BY <1>1, <1>3, CapacityPositive
    <2>2. pushRing(r, e) = insert(r, e)
      BY <1>3 DEF pushRing
    <2>3. /\ WellFormed(insert(r, e))
          /\ insert(r, e).buffer = [r.buffer EXCEPT ![r.tail] = e]
          /\ insert(r, e).evictions = r.evictions
          /\ insert(r, e).bytesCaptured = r.bytesCaptured + entryBytes(e)
      BY <2>1, InsertWellFormed
    <2>4. \A i \in Slots : insert(r, e).buffer[i] \in {e, r.buffer[i], Nil}
      BY <1>1, <2>3
    <2> QED BY <1>3, <2>2, <2>3, <2>4
  <1> QED BY <1>2, <1>3

(* Inserting into a ring with room appends to its contents.                *)
LEMMA InsertAppends ==
  ASSUME NEW r, WellFormed(r), r.count < Capacity,
         NEW e \in Entry, NewId(r, e)
  PROVE  Contents(insert(r, e)) = Append(Contents(r), e)
  <1> DEFINE n == insert(r, e)
  <1>1. /\ r \in RingBuffers
        /\ r.tail \in Slots
        /\ r.head \in 0 .. Capacity - 1
        /\ r.count \in 0 .. Capacity
        /\ r.buffer \in [Slots -> Entry \cup {Nil}]
    BY DEF WellFormed, RingBuffers, Slots
  <1>2. /\ n.head = r.head
        /\ n.count = r.count + 1
        /\ n.buffer = [r.buffer EXCEPT ![r.tail] = e]
    BY InsertWellFormed
  <1>3. r.tail = slotAt(r, r.count)
    BY DEF WellFormed, Shape
  <1> HIDE DEF n
  <1>4. ASSUME NEW i \in 1 .. r.count + 1
        PROVE  n.buffer[slotAt(n, i - 1)] = IF i = r.count + 1 THEN e
                                            ELSE r.buffer[slotAt(r, i - 1)]
    <2>1. i - 1 \in 0 .. Capacity /\ r.count \in 0 .. Capacity
      BY <1>1, CapacityPositive
    <2>2. slotAt(n, i - 1) = slotAt(r, i - 1)
      BY <1>2 DEF slotAt
    <2>3. slotAt(r, i - 1) \in Slots
      BY <1>1, <2>1, SlotAtIs
    <2>4. slotAt(r, i - 1) = r.tail <=> i = r.count + 1
      BY <1>1, <1>3, <2>1, SlotAtIs, CapacityPositive
    <2> QED BY <1>1, <1>2, <2>2, <2>3, <2>4
  <1>5. Contents(n) = [i \in 1 .. r.count + 1 |->
                         IF i = r.count + 1 THEN e ELSE r.buffer[slotAt(r, i - 1)]]
    BY <1>2, <1>4 DEF Contents
  <1>6. /\ Contents(r) = [i \in 1 .. r.count |-> r.buffer[slotAt(r, i - 1)]]
        /\ Len(Contents(r)) = r.count
    BY <1>1 DEF Contents
  <1>7. Append(Contents(r), e) = [i \in 1 .. r.count + 1 |->
                         IF i = r.count + 1 THEN e ELSE r.buffer[slotAt(r, i - 1)]]
    BY <1>1, <1>6
  <1> QED BY <1>5, <1>7 DEF n

(* Evicting from a full ring drops the head of its contents.               *)
LEMMA EvictTails ==
  ASSUME NEW r, WellFormed(r), r.count = Capacity
  PROVE  Contents(evictOldest(r)) = Tail(Contents(r))
  <1> DEFINE v == evictOldest(r)
  <1>1. /\ r \in RingBuffers
        /\ r.head \in 0 .. Capacity - 1
        /\ r.buffer \in [Slots -> Entry \cup {Nil}]
    BY DEF WellFormed, RingBuffers, Slots
  <1>2. /\ v \in RingBuffers
        /\ v.head = advance(r.head)
        /\ v.count = Capacity - 1
        /\ v.buffer = [r.buffer EXCEPT ![r.head] = Nil]
    BY EvictWellFormed DEF WellFormed
  <1> HIDE DEF v
  <1>3. ASSUME NEW i \in 1 .. Capacity - 1
        PROVE  v.buffer[slotAt(v, i - 1)] = r.buffer[slotAt(r, i)]
    <2>1. i - 1 \in 0 .. Capacity /\ i \in 0 .. Capacity
      BY CapacityPositive
    <2>2. v.head = IF r.head = Capacity - 1 THEN 0 ELSE r.head + 1
      BY <1>1, <1>2, AdvanceIs DEF Slots
    <2>3. slotAt(v, i - 1) = IF v.head + (i - 1) < Capacity THEN v.head + (i - 1)
                                          ELSE v.head + (i - 1) - Capacity
      BY <1>2, <2>1, SlotAtIs
    <2>4. /\ slotAt(r, i) \in Slots
          /\ slotAt(r, i) = IF r.head + i < Capacity THEN r.head + i
                                                     ELSE r.head + i - Capacity
      BY <1>1, <2>1, SlotAtIs
    <2>5. slotAt(v, i - 1) = slotAt(r, i) /\ slotAt(r, i) # r.head
      BY <1>1, <2>2, <2>3, <2>4, CapacityPositive
    <2> QED BY <1>1, <1>2, <2>4, <2>5
  <1>4. Contents(v) = [i \in 1 .. Capacity - 1 |-> r.buffer[slotAt(r, i)]]
    BY <1>2, <1>3 DEF Contents
  <1>5. /\ Contents(r) = [i \in 1 .. Capacity |-> r.buffer[slotAt(r, i - 1)]]
        /\ Len(Contents(r)) = Capacity
    BY CapacityPositive DEF Contents
  <1>6. Tail(Contents(r)) = [i \in 1 .. Capacity - 1 |-> r.buffer[slotAt(r, i)]]
    <2>1. Tail(Contents(r)) = [i \in 1 .. Capacity - 1 |-> Contents(r)[i + 1]]
      BY <1>5, CapacityPositive
    <2>2. ASSUME NEW i \in 1 .. Capacity - 1
          PROVE  Contents(r)[i + 1] = r.buffer[slotAt(r, i)]
      BY <1>5, CapacityPositive
    <2> QED BY <2>1, <2>2
  <1> QED BY <1>4, <1>6 DEF v

-----------------------------------------------------------------------------
(* The inductive invariant.  IndexExact needs IdsUnique (an id must not be *)
(* in the index when its entry is inserted), and both need RingShape (the  *)
(* tail slot is free and the head slot is not).                            *)
Inv == TypeOK /\ RingShape /\ IndexExact /\ IdsUnique

LEMMA RingWellFormed == TypeOK /\ RingShape /\ IndexExact <=>
                        TypeOK /\ WellFormed(rb)
  BY DEF TypeOK, RingShape, IndexExact, WellFormed, Shape, Index

LEMMA InitInv == Init => Inv
  <1> SUFFICES ASSUME Init PROVE Inv
    OBVIOUS
  <1>1. WellFormed(rb) /\ rb.count = 0
    BY NewRingWellFormed DEF Init
  <1>2. TypeOK
    BY <1>1, StoreAssumption DEF Init, TypeOK, WellFormed
  <1>3. IdsUnique
    BY DEF Init, IdsUnique, NewRingBuffer
  <1> QED BY <1>1, <1>2, <1>3, RingWellFormed DEF Inv

(* Facts about the notification loop that several actions share.           *)
LEMMA ContinueTyped ==
  ASSUME TypeOK, NEW g \in Goroutines, NEW rest \in Seq(Channels),
         pc[g] \in {"combined", "notify"}, continueNotify(g, rest)
  PROVE  /\ pc' \in [Goroutines -> {"idle", "combined", "notify", "panicked"}]
         /\ cur' \in [Goroutines -> Entry \cup {Nil}]
         /\ pending' \in [Goroutines -> Seq(Channels)]
         /\ \A h \in Goroutines : pc'[h] \in {"combined", "notify"} => cur'[h] \in Entry
         /\ \A h \in Goroutines : pc'[h] = "notify" => pending'[h] # << >>
         /\ \A h \in Goroutines :
              pc'[h] = "combined" => h # g /\ pc[h] = "combined" /\ cur'[h] = cur[h]
  BY DEF TypeOK, continueNotify

LEMMA CombineStep ==
  ASSUME Inv, NEW g \in Goroutines, NEW k \in Kinds, CombineEntry(g, k)
  PROVE  Inv'
  <1>1. PICK t \in 1 .. MaxTime :
          cur' = [cur EXCEPT ![g] = [id |-> idCounter + 1, ts |-> t, kind |-> captured(k)]]
    BY DEF CombineEntry
  <1>2. rb' = rb
    BY DEF CombineEntry
  <1>3. idCounter + 1 \in Ids /\ idCounter \in Nat /\ idCounter' = idCounter + 1
    BY StoreAssumption DEF Inv, TypeOK, CombineEntry, Ids
  <1>4. [id |-> idCounter + 1, ts |-> t, kind |-> captured(k)] \in Entry
    BY <1>3 DEF Entry
  <1>5. TypeOK'
    BY <1>1, <1>3, <1>4, StoreAssumption DEF Inv, TypeOK, CombineEntry, Ids
  <1>6. RingShape' /\ IndexExact'
    BY <1>2 DEF Inv, RingShape, IndexExact, Occupied, slotAt
  <1>7. IdsUnique'
    <2>1. /\ \A i \in Slots : rb.buffer[i] # Nil => rb.buffer[i].id \in Ids
          /\ \A h \in Goroutines : pc[h] = "combined" => cur[h].id \in Ids
      BY DEF Inv, TypeOK, RingBuffers, Entry
    <2>2. /\ cur'[g].id = idCounter + 1
          /\ \A h \in Goroutines : h # g => cur'[h] = cur[h] /\ pc'[h] = pc[h]
      BY <1>1 DEF Inv, TypeOK, CombineEntry
    <2> QED BY <1>2, <1>3, <2>1, <2>2 DEF Inv, IdsUnique, Ids
  <1> QED BY <1>5, <1>6, <1>7 DEF Inv

LEMMA PushStep ==
  ASSUME Inv, NEW g \in Goroutines, Push(g)
  PROVE  Inv'
  <1> DEFINE e == cur[g]
  <1>1. e \in Entry /\ subscribers \in Seq(Channels) /\ rb \in RingBuffers
    BY DEF Inv, TypeOK, Push
  <1>2. WellFormed(rb) /\ NewId(rb, e)
    BY RingWellFormed DEF Inv, IdsUnique, NewId, Push
  <1>3. /\ WellFormed(rb')
        /\ \A i \in Slots : rb'.buffer[i] \in {e, rb.buffer[i], Nil}
    BY <1>1, <1>2, PushWellFormed DEF Push
  <1> HIDE DEF e
  <1>4. TypeOK'
    BY <1>1, <1>3, ContinueTyped DEF Inv, TypeOK, Push, WellFormed
  <1>5. IdsUnique'
    <2>1. /\ \A h \in Goroutines :
              pc'[h] = "combined" => h # g /\ pc[h] = "combined" /\ cur'[h] = cur[h]
          /\ idCounter' = idCounter
          /\ pc[g] = "combined"
      BY <1>1, ContinueTyped DEF Inv, Push
    <2> QED BY <1>3, <2>1 DEF Inv, IdsUnique, e
  <1> QED BY <1>3, <1>4, <1>5, RingWellFormed DEF Inv, TypeOK, RingShape, IndexExact,
                                              WellFormed, Shape, Index

(* Steps that leave the ring, the counter and the unpushed entries alone.  *)
LEMMA RingUntouched ==
  ASSUME Inv, rb' = rb, idCounter' = idCounter,
         \A h \in Goroutines :
            pc'[h] = "combined" => pc[h] = "combined" /\ cur'[h] = cur[h]
  PROVE  RingShape' /\ IndexExact' /\ IdsUnique'
  BY DEF Inv, RingShape, IndexExact, IdsUnique, Occupied, slotAt

LEMMA NotifyStep ==
  ASSUME Inv, NEW g \in Goroutines, NotifySend(g) \/ NotifyPanic(g)
  PROVE  Inv'
  <1>1. /\ pending[g] \in Seq(Channels) /\ pending[g] # << >>
        /\ cur[g] \in Entry
        /\ pc[g] = "notify"
    BY DEF Inv, TypeOK, NotifySend, NotifyPanic
  <1>2. Head(pending[g]) \in Channels /\ Tail(pending[g]) \in Seq(Channels)
    BY <1>1
  <1>3. CASE NotifySend(g)
    <2>1. /\ chBuf' \in [Channels -> Seq(Entry)]
          /\ \A c \in Channels : Len(chBuf'[c]) <= ChanCap
      BY <1>1, <1>2, <1>3, StoreAssumption DEF Inv, TypeOK, NotifySend
    <2>2. TypeOK'
      BY <1>1, <1>2, <1>3, <2>1, ContinueTyped DEF Inv, TypeOK, NotifySend
    <2>3. RingShape' /\ IndexExact' /\ IdsUnique'
      BY <1>1, <1>2, <1>3, ContinueTyped, RingUntouched DEF Inv, NotifySend
    <2> QED BY <2>2, <2>3 DEF Inv
  <1>4. CASE NotifyPanic(g)
    <2>1. TypeOK'
      BY <1>4 DEF Inv, TypeOK, NotifyPanic
    <2>2. \A h \in Goroutines :
             pc'[h] = "combined" => pc[h] = "combined" /\ cur'[h] = cur[h]
      BY <1>4 DEF Inv, TypeOK, NotifyPanic
    <2>3. RingShape' /\ IndexExact' /\ IdsUnique'
      BY <1>4, <2>2, RingUntouched DEF NotifyPanic
    <2> QED BY <2>1, <2>3 DEF Inv
  <1> QED BY <1>3, <1>4

LEMMA ClearStep ==
  ASSUME Inv, Clear
  PROVE  Inv'
  <1>1. WellFormed(rb')
    BY RingWellFormed, ClearWellFormed DEF Inv, Clear
  <1>2. TypeOK'
    BY <1>1 DEF Inv, TypeOK, Clear, WellFormed
  <1>3. \A i \in Slots : rb'.buffer[i] = Nil
    BY DEF Clear, clearRing, NewRingBuffer
  <1>4. IdsUnique'
    BY <1>3 DEF Inv, IdsUnique, Clear
  <1> QED BY <1>1, <1>2, <1>4 DEF Inv, TypeOK, RingShape, IndexExact, WellFormed,
                                  Shape, Index

LEMMA RemoveAtTyped ==
  ASSUME NEW S, NEW q \in Seq(S), NEW i \in 1 .. Len(q)
  PROVE  /\ RemoveAt(q, i) \in Seq(S)
         /\ Len(RemoveAt(q, i)) = Len(q) - 1
         /\ \A j \in 1 .. Len(q) - 1 :
              RemoveAt(q, i)[j] = IF j < i THEN q[j] ELSE q[j + 1]
  <1> DEFINE a == SubSeq(q, 1, i - 1)
             b == SubSeq(q, i + 1, Len(q))
  <1>0. i \in Nat /\ Len(q) \in Nat /\ 1 <= i /\ i <= Len(q)
    BY LenProperties
  <1>1. /\ a \in Seq(S) /\ Len(a) = i - 1
        /\ \A j \in 1 .. i - 1 : a[j] = q[j]
    BY SubSeqProperties
  <1>2. /\ b \in Seq(S) /\ Len(b) = Len(q) - i
        /\ \A j \in 1 .. Len(q) - i : b[j] = q[i + j]
    BY SubSeqProperties
  <1>3. RemoveAt(q, i) = a \o b
    BY DEF RemoveAt
  <1> HIDE DEF a, b
  <1>4. /\ a \o b \in Seq(S)
        /\ Len(a \o b) = Len(q) - 1
        /\ \A j \in 1 .. Len(q) - 1 :
             (a \o b)[j] = IF j <= i - 1 THEN a[j] ELSE b[j - (i - 1)]
    <2>1. Len(a) + Len(b) = Len(q) - 1
      BY <1>0, <1>1, <1>2
    <2>2. /\ a \o b \in Seq(S)
          /\ Len(a \o b) = Len(a) + Len(b)
          /\ \A j \in 1 .. Len(a) + Len(b) :
               (a \o b)[j] = IF j <= Len(a) THEN a[j] ELSE b[j - Len(a)]
      BY <1>1, <1>2, ConcatProperties
    <2> QED BY <1>1, <2>1, <2>2
  <1>5. ASSUME NEW j \in 1 .. Len(q) - 1
        PROVE  (a \o b)[j] = IF j < i THEN q[j] ELSE q[j + 1]
    <2>1. CASE j < i
      BY <1>0, <1>1, <1>4, <2>1
    <2>2. CASE ~(j < i)
      <3>1. /\ j - (i - 1) \in 1 .. Len(q) - i
            /\ i + (j - (i - 1)) = j + 1
            /\ ~(j <= i - 1)
        BY <1>0, <2>2
      <3>2. (a \o b)[j] = b[j - (i - 1)]
        BY <1>4, <3>1
      <3>3. b[j - (i - 1)] = q[i + (j - (i - 1))]
        BY <1>2, <3>1
      <3> QED BY <2>2, <3>1, <3>2, <3>3
    <2> QED BY <2>1, <2>2
  <1> QED BY <1>3, <1>4, <1>5

LEMMA SubscriptionStep ==
  ASSUME Inv, NEW c \in Channels, Subscribe(c) \/ Unsubscribe(c) \/ Receive(c)
  PROVE  Inv'
  <1>1. RingShape' /\ IndexExact' /\ IdsUnique'
    BY RingUntouched DEF Subscribe, Unsubscribe, Receive
  <1>2. CASE Subscribe(c)
    BY <1>1, <1>2 DEF Inv, TypeOK, Subscribe
  <1>3. CASE Unsubscribe(c)
    <2>1. PICK i \in 1 .. Len(subscribers) : subscribers' = RemoveAt(subscribers, i)
      BY <1>3 DEF Unsubscribe
    <2>2. subscribers' \in Seq(Channels)
      BY <2>1, RemoveAtTyped DEF Inv, TypeOK
    <2>3. TypeOK'
      BY <1>3, <2>2 DEF Inv, TypeOK, Unsubscribe
    <2> QED BY <1>1, <2>3 DEF Inv
  <1>4. CASE Receive(c)
    <2>1. /\ chBuf' \in [Channels -> Seq(Entry)]
          /\ \A d \in Channels : Len(chBuf'[d]) <= ChanCap
      BY <1>4, StoreAssumption DEF Inv, TypeOK, Receive
    <2> QED BY <1>1, <1>4, <2>1 DEF Inv, TypeOK, Receive
  <1> QED BY <1>2, <1>3, <1>4

LEMMA NextInv == Inv /\ [Next]_vars => Inv'
  <1> SUFFICES ASSUME Inv, [Next]_vars PROVE Inv'
    OBVIOUS
  <1>1. ASSUME NEW g \in Goroutines, Ingest(g) PROVE Inv'
    BY <1>1, CombineStep, PushStep, NotifyStep DEF Ingest
  <1>2. CASE UNCHANGED vars
    BY <1>2, RingUntouched DEF Inv, TypeOK, vars
  <1> QED BY <1>1, <1>2, ClearStep, SubscriptionStep DEF Next

(* The store keeps every variable in its type, in particular head, tail    *)
(* and count within the ring and every channel within its capacity.        *)
THEOREM TypeCorrect == Spec => []TypeOK
  <1>1. Inv => TypeOK
    BY DEF Inv
  <1> QED BY <1>1, InitInv, NextInv, PTL DEF Spec

(* For every capacity: the ring is a window of entries from head to tail,  *)
(* its id index is exact, and ids in it and on their way to it are unique. *)
THEOREM RingCorrect == Spec => [](RingShape /\ IndexExact /\ IdsUnique)
  <1>1. Inv => RingShape /\ IndexExact /\ IdsUnique
    BY DEF Inv
  <1> QED BY <1>1, InitInv, NextInv, PTL DEF Spec

-----------------------------------------------------------------------------
(* Entry ids over time.                                                    *)

(* What Get answers, in terms of the slots.                                *)
LEMMA GetFinds ==
  ASSUME NEW r, WellFormed(r), NEW id \in Ids
  PROVE  /\ Get(r, id) # Nil =>
              Get(r, id).id = id /\ \E i \in Slots : r.buffer[i] = Get(r, id)
         /\ \A i \in Slots : r.buffer[i] # Nil /\ r.buffer[i].id = id =>
              r.buffer[i] = Get(r, id)
  <1>1. r.idIndex[id] \in Slots \cup {Absent} /\ Absent \notin Slots
    BY StoreAssumption, CapacityPositive DEF WellFormed, RingBuffers, Slots
  <1>2. \A i \in Slots : r.idIndex[id] = i <=> r.buffer[i] # Nil /\ r.buffer[i].id = id
    BY DEF WellFormed, Index
  <1> QED BY <1>1, <1>2 DEF Get

LEMMA PushKeepsIds ==
  ASSUME Inv, NEW g \in Goroutines, Push(g), NEW id \in Ids
  PROVE  IdKept(id)
  <1> DEFINE e == cur[g]
  <1>1. e \in Entry /\ subscribers \in Seq(Channels) /\ pc[g] = "combined"
    BY DEF Inv, TypeOK, Push
  <1>2. WellFormed(rb) /\ NewId(rb, e)
    BY RingWellFormed DEF Inv, IdsUnique, NewId, Push
  <1>3. /\ WellFormed(rb')
        /\ \A i \in Slots : rb'.buffer[i] \in {e, rb.buffer[i], Nil}
    BY <1>1, <1>2, PushWellFormed DEF Push
  <1>4. ASSUME id # e.id PROVE Get(rb', id) \in {Get(rb, id), Nil}
    <2> SUFFICES ASSUME Get(rb', id) # Nil PROVE Get(rb', id) = Get(rb, id)
      OBVIOUS
    <2>1. PICK i \in Slots : rb'.buffer[i] = Get(rb', id) /\ Get(rb', id).id = id
      BY <1>3, GetFinds
    <2>2. rb'.buffer[i] = rb.buffer[i] /\ rb.buffer[i] # Nil /\ rb.buffer[i].id = id
      BY <1>3, <1>4, <2>1
    <2> QED BY <1>2, <2>1, <2>2, GetFinds
  <1>5. Get(rb, id) # Nil => id # e.id
    <2>1. Get(rb, id) # Nil =>
            Get(rb, id).id = id /\ \E i \in Slots : rb.buffer[i] = Get(rb, id)
      BY <1>2, GetFinds
    <2> QED BY <1>2, <2>1 DEF NewId
  <1>6. \A h \in Goroutines : pc'[h] = "combined" => pc[h] = "combined" /\ cur'[h] = cur[h]
    BY <1>1, ContinueTyped DEF Inv, Push
  <1>7. Retired(id) => id # e.id
    BY <1>1 DEF Retired
  <1>8. idCounter' = idCounter
    BY DEF Push
  <1> HIDE DEF e
  <1>9. Retired(id) => Retired(id)'
    BY <1>4, <1>6, <1>7, <1>8 DEF Retired
  <1> QED BY <1>4, <1>5, <1>9 DEF IdKept

LEMMA ClearKeepsIds ==
  ASSUME Inv, Clear, NEW id \in Ids
  PROVE  IdKept(id)
  <1>1. Get(rb', id) = Nil
    BY DEF Clear, clearRing, NewRingBuffer, Get
  <1> QED BY <1>1 DEF IdKept, Retired, Clear

(* Steps that leave the ring alone, and bring no id into play but a new    *)
(* one.                                                                    *)
LEMMA OthersKeepIds ==
  ASSUME rb' = rb, idCounter \in Nat, idCounter' \in Nat, idCounter <= idCounter',
         \A h \in Goroutines :
           pc'[h] = "combined" => \/ pc[h] = "combined" /\ cur'[h] = cur[h]
                                 \/ cur'[h].id = idCounter + 1,
         NEW id \in Ids
  PROVE  IdKept(id)
  <1>1. id \in Nat
    BY DEF Ids
  <1>2. Retired(id) => Retired(id)'
    BY <1>1 DEF Retired
  <1> QED BY <1>2 DEF IdKept

(* For as long as the process runs, an id never changes its entry and      *)
(* never comes back: a client that asks for an entry it has seen before    *)
(* (GET /api/requests/{id}, or its replay) gets that one or a 404, and     *)
(* after a 404 for an entry it has seen, always a 404, whatever is pushed, *)
(* evicted and cleared in between (store.go:57-79, :112-125).              *)
THEOREM IdsStayUnique == Spec => IdsNeverReused
  <1>1. Inv /\ [Next]_vars => [\A id \in Ids : IdKept(id)]_vars
    <2> SUFFICES ASSUME Inv, Next, NEW id \in Ids PROVE IdKept(id)
      OBVIOUS
    <2>1. idCounter \in Nat /\ pc \in [Goroutines -> {"idle", "combined", "notify", "panicked"}]
          /\ cur \in [Goroutines -> Entry \cup {Nil}]
      BY StoreAssumption DEF Inv, TypeOK
    <2>2. ASSUME NEW g \in Goroutines, NEW k \in Kinds, CombineEntry(g, k) PROVE IdKept(id)
      <3>1. PICK t \in 1 .. MaxTime :
              cur' = [cur EXCEPT ![g] = [id |-> idCounter + 1, ts |-> t, kind |-> captured(k)]]
        BY <2>2 DEF CombineEntry
      <3>2. rb' = rb /\ idCounter' = idCounter + 1 /\ pc' = [pc EXCEPT ![g] = "combined"]
        BY <2>2 DEF CombineEntry
      <3>3. \A h \in Goroutines :
              pc'[h] = "combined" => \/ pc[h] = "combined" /\ cur'[h] = cur[h]
                                    \/ cur'[h].id = idCounter + 1
        BY <2>1, <3>1, <3>2
      <3> QED BY <2>1, <3>2, <3>3, OthersKeepIds
    <2>3. ASSUME NEW g \in Goroutines, NotifySend(g) \/ NotifyPanic(g) PROVE IdKept(id)
      <3>1. rb' = rb /\ idCounter' = idCounter
        BY <2>3 DEF NotifySend, NotifyPanic
      <3>2. \A h \in Goroutines : pc'[h] = "combined" => pc[h] = "combined" /\ cur'[h] = cur[h]
        BY <2>1, <2>3 DEF NotifySend, NotifyPanic, continueNotify
      <3> QED BY <2>1, <3>1, <3>2, OthersKeepIds
    <2>4. ASSUME NEW c \in Channels, Subscribe(c) \/ Unsubscribe(c) \/ Receive(c)
          PROVE  IdKept(id)
      <3>1. UNCHANGED <<rb, idCounter, pc, cur>>
        BY <2>4 DEF Subscribe, Unsubscribe, Receive
      <3> QED BY <2>1, <3>1, OthersKeepIds
    <2> QED BY <2>2, <2>3, <2>4, PushKeepsIds, ClearKeepsIds DEF Next, Ingest
  <1> QED BY <1>1, InitInv, NextInv, PTL DEF Spec, IdsNeverReused

-----------------------------------------------------------------------------
(* The subscriber list.                                                    *)

LEMMA UnsubscribeExact ==
  ASSUME TypeOK, SubscribersExact, NEW c \in Channels, Unsubscribe(c)
  PROVE  SubscribersExact'
  <1> DEFINE s == subscribers
             n == Len(subscribers)
  <1>1. PICK i \in 1 .. n : s[i] = c /\ subscribers' = RemoveAt(s, i)
    BY DEF Unsubscribe
  <1>2. s \in Seq(Channels) /\ n \in Nat
    BY LenProperties DEF TypeOK
  <1>3. /\ Len(subscribers') = n - 1
        /\ \A j \in 1 .. n - 1 : subscribers'[j] = IF j < i THEN s[j] ELSE s[j + 1]
    BY <1>1, <1>2, RemoveAtTyped
  <1>4. \A j, k \in 1 .. n : s[j] = s[k] => j = k
    BY DEF SubscribersExact
  <1>5. \A j, k \in 1 .. n - 1 : subscribers'[j] = subscribers'[k] => j = k
    BY <1>2, <1>3, <1>4
  <1>6. ASSUME NEW d \in Channels
        PROVE  Contains(subscribers', d) <=> chState'[d] = "open"
    <2>1. Contains(s, d) <=> chState[d] = "open"
      BY DEF SubscribersExact
    <2>2. chState'[d] = IF d = c THEN "closed" ELSE chState[d]
      BY DEF TypeOK, Unsubscribe
    <2>3. Contains(subscribers', d) <=> Contains(s, d) /\ d # c
      <3>1. ASSUME NEW j \in 1 .. n - 1, subscribers'[j] = d
            PROVE  Contains(s, d) /\ d # c
        <4>1. CASE j < i
          BY <1>1, <1>2, <1>3, <1>4, <3>1, <4>1 DEF Contains
        <4>2. CASE ~(j < i)
          BY <1>1, <1>2, <1>3, <1>4, <3>1, <4>2 DEF Contains
        <4> QED BY <4>1, <4>2
      <3>2. ASSUME NEW k \in 1 .. n, s[k] = d, d # c
            PROVE  \E j \in 1 .. n - 1 : subscribers'[j] = d
        <4>1. k # i
          BY <1>1, <3>2
        <4>2. CASE k < i
          BY <1>2, <1>3, <3>2, <4>2
        <4>3. CASE k > i
          <5>1. k - 1 \in 1 .. n - 1 /\ ~(k - 1 < i) /\ (k - 1) + 1 = k
            BY <1>2, <4>3
          <5>2. subscribers'[k - 1] = d
            BY <1>3, <3>2, <5>1
          <5> QED BY <5>1, <5>2
        <4> QED BY <1>2, <4>1, <4>2, <4>3
      <3> QED BY <1>3, <3>1, <3>2 DEF Contains
    <2> QED BY <2>1, <2>2, <2>3
  <1> QED BY <1>3, <1>5, <1>6 DEF SubscribersExact

LEMMA SubscribeExact ==
  ASSUME TypeOK, SubscribersExact, NEW c \in Channels, Subscribe(c)
  PROVE  SubscribersExact'
  <1> DEFINE s == subscribers
             n == Len(subscribers)
  <1>1. s \in Seq(Channels) /\ n \in Nat
    BY LenProperties DEF TypeOK
  <1>2. /\ Len(subscribers') = n + 1
        /\ \A j \in 1 .. n : subscribers'[j] = s[j]
        /\ subscribers'[n + 1] = c
    BY <1>1, AppendProperties DEF Subscribe
  <1>3. \A j \in 1 .. n : s[j] # c
    BY DEF Subscribe, SubscribersExact, Contains
  <1>4. \A j, k \in 1 .. n + 1 : subscribers'[j] = subscribers'[k] => j = k
    BY <1>1, <1>2, <1>3 DEF SubscribersExact
  <1>5. ASSUME NEW d \in Channels
        PROVE  Contains(subscribers', d) <=> chState'[d] = "open"
    <2>1. Contains(subscribers', d) <=> Contains(s, d) \/ d = c
      BY <1>1, <1>2 DEF Contains
    <2>2. chState'[d] = IF d = c THEN "open" ELSE chState[d]
      BY DEF TypeOK, Subscribe
    <2> QED BY <2>1, <2>2 DEF SubscribersExact
  <1> QED BY <1>2, <1>4, <1>5 DEF SubscribersExact

LEMMA SubscribersStep ==
  ASSUME TypeOK, SubscribersExact, [Next]_vars
  PROVE  SubscribersExact'
  <1>1. ASSUME UNCHANGED <<subscribers, chState>>
        PROVE  SubscribersExact'
    BY <1>1 DEF SubscribersExact, Contains
  <1>2. ASSUME NEW g \in Goroutines, Ingest(g) PROVE SubscribersExact'
    BY <1>1, <1>2 DEF Ingest, CombineEntry, Push, NotifySend, NotifyPanic
  <1>3. CASE Clear \/ UNCHANGED vars \/ \E c \in Channels : Receive(c)
    BY <1>1, <1>3 DEF Clear, vars, Receive
  <1> QED BY <1>2, <1>3, SubscribeExact, UnsubscribeExact DEF Next

(* The registered channels are exactly the open ones, each of them once.   *)
THEOREM SubscribersCorrect == Spec => []SubscribersExact
  <1>1. Init => SubscribersExact
    BY DEF Init, SubscribersExact, Contains
  <1>2. TypeOK /\ SubscribersExact /\ [Next]_vars => SubscribersExact'
    BY SubscribersStep
  <1> QED BY <1>1, <1>2, TypeCorrect, PTL DEF Spec

-----------------------------------------------------------------------------
(* Refinement: only Push and Clear change the ring, and they do to its     *)
(* contents what Record and Forget do to the abstract log.                 *)

LEMMA PushRecords ==
  ASSUME Inv, NEW g \in Goroutines, Push(g)
  PROVE  Log!Record(cur[g]) /\ cur[g] \in Entry
  <1> DEFINE e == cur[g]
  <1>1. e \in Entry /\ rb \in RingBuffers
    BY DEF Inv, TypeOK, Push
  <1>2. WellFormed(rb) /\ NewId(rb, e)
    BY RingWellFormed DEF Inv, IdsUnique, NewId, Push
  <1>3. /\ rb' = pushRing(rb, e)
        /\ rb'.bytesCaptured = rb.bytesCaptured + entryBytes(e)
        /\ rb'.evictions = IF rb.count = Capacity THEN rb.evictions + 1
                                                  ELSE rb.evictions
    BY <1>1, <1>2, PushWellFormed DEF Push
  <1>4. rb.count \in 0 .. Capacity /\ Len(Contents(rb)) = rb.count
    BY <1>1 DEF RingBuffers, Contains, Contents
  <1> HIDE DEF e
  <1>5. Contents(rb') = Append(IF rb.count = Capacity THEN Tail(Contents(rb))
                                                     ELSE Contents(rb), e)
    <2>1. CASE rb.count = Capacity
      <3> DEFINE v == evictOldest(rb)
      <3>1. /\ WellFormed(v)
            /\ v.count = Capacity - 1
            /\ v.buffer = [rb.buffer EXCEPT ![rb.head] = Nil]
        BY <1>2, <2>1, EvictWellFormed
      <3>2. Contents(v) = Tail(Contents(rb))
        BY <1>2, <2>1, EvictTails
      <3>3. rb' = insert(v, e)
        BY <1>3, <2>1 DEF pushRing
      <3> HIDE DEF v
      <3>4. NewId(v, e) /\ v.count < Capacity
        BY <1>1, <1>2, <3>1, CapacityPositive DEF NewId, RingBuffers
      <3> QED BY <1>1, <2>1, <3>1, <3>2, <3>3, <3>4, InsertAppends
    <2>2. CASE rb.count # Capacity
      <3>1. rb.count < Capacity
        BY <1>4, <2>2, CapacityPositive
      <3> QED BY <1>1, <1>2, <1>3, <2>2, <3>1, InsertAppends DEF pushRing
    <2> QED BY <2>1, <2>2
  <1> QED BY <1>1, <1>3, <1>4, <1>5 DEF Log!Record, Log!Full, e

(* Every behaviour of the store is a behaviour of the abstract log: the    *)
(* store retains the last Capacity captures since the last Clear, in the   *)
(* order of Push, and its lifetime counters are exact.                     *)
THEOREM StoreImplementsLog == Spec => ImplementsLog
  <1>1. Init => Log!Init
    BY DEF Init, Log!Init, NewRingBuffer, Contents
  <1>2. Inv /\ [Next]_vars => [Log!Next]_(Log!logVars)
    <2> SUFFICES ASSUME Inv, [Next]_vars PROVE [Log!Next]_(Log!logVars)
      OBVIOUS
    <2>1. ASSUME NEW g \in Goroutines, Push(g) PROVE Log!Next
      BY <2>1, PushRecords DEF Log!Next
    <2>2. CASE Clear
      <3>1. /\ rb'.count = 0
            /\ rb'.evictions = rb.evictions
            /\ rb'.bytesCaptured = rb.bytesCaptured
        BY <2>2 DEF Clear, clearRing, NewRingBuffer
      <3>2. Contents(rb') = << >>
        BY <3>1 DEF Contents
      <3> QED BY <3>1, <3>2 DEF Log!Next, Log!Forget
    <2>3. ASSUME rb' = rb PROVE UNCHANGED Log!logVars
      BY <2>3 DEF Log!logVars, Contents, slotAt
    <2>4. ASSUME NEW g \in Goroutines, Ingest(g) PROVE Push(g) \/ rb' = rb
      BY <2>4 DEF Ingest, CombineEntry, NotifySend, NotifyPanic
    <2>5. ASSUME NEW c \in Channels, Subscribe(c) \/ Unsubscribe(c) \/ Receive(c)
          PROVE  rb' = rb
      BY <2>5 DEF Subscribe, Unsubscribe, Receive
    <2> QED BY <2>1, <2>2, <2>3, <2>4, <2>5 DEF Next, vars
  <1> QED BY <1>1, <1>2, InitInv, NextInv, PTL DEF Spec, ImplementsLog, Log!Spec

-----------------------------------------------------------------------------
(* What List returns.  scan is a loop; the facts about it are proved by    *)
(* induction on the number of its turns, over a set of numbers.            *)

LEMMA NatSetInduction ==
  ASSUME NEW S, 0 \in S, \A n \in Nat : n \in S => n + 1 \in S
  PROVE  \A n \in Nat : n \in S
  <1> SUFFICES ASSUME Nat \ S # {} PROVE FALSE
    OBVIOUS
  <1>1. \E x \in Nat \ S : \A y \in Nat \ S : ~(<<y, x>> \in OpToRel(<, Nat))
    BY NatLessThanWellFounded, WFMin, Zenon
  <1>2. \A x, y \in Nat : y < x => <<y, x>> \in OpToRel(<, Nat)
    BY DEF OpToRel
  <1>3. PICK x \in Nat \ S : \A y \in Nat \ S : ~(y < x)
    BY <1>1, <1>2, Zenon
  <1>4. x # 0 /\ x - 1 \in Nat /\ x - 1 < x /\ (x - 1) + 1 = x
    OBVIOUS
  <1> QED BY <1>3, <1>4

(* The entries that n turns of scan's loop have collected are well defined.*)
LEMMA ScanLoop ==
  ASSUME NEW r \in RingBuffers, NEW opts
  PROVE  \E f \in [0 .. Capacity -> Seq(Entry)] :
           /\ f[0] = << >>
           /\ \A n \in 1 .. Capacity : f[n] = collect(f[n - 1], r, opts, n - 1)
           /\ scan(r, opts) = f[Capacity]
  <1> DEFINE Loop(f, m) ==
               /\ f \in [0 .. m -> Seq(Entry)]
               /\ f[0] = << >>
               /\ \A n \in 1 .. m : f[n] = collect(f[n - 1], r, opts, n - 1)
             S == {m \in Nat : m <= Capacity => \E f : Loop(f, m)}
  <1>1. 0 \in S
    <2>1. Loop([n \in 0 .. 0 |-> << >>], 0)
      OBVIOUS
    <2> QED BY <2>1
  <1>2. ASSUME NEW m \in Nat, m \in S PROVE m + 1 \in S
    <2>9. m + 1 \in Nat
      OBVIOUS
    <2> SUFFICES ASSUME m + 1 <= Capacity PROVE \E f : Loop(f, m + 1)
      BY <2>9, Zenon
    <2>0. m <= Capacity
      BY CapacityPositive
    <2>1. PICK f : Loop(f, m)
      BY <1>2, <2>0, Zenon
    <2> DEFINE g == [n \in 0 .. m + 1 |-> IF n <= m THEN f[n]
                                          ELSE collect(f[m], r, opts, m)]
    <2>2. collect(f[m], r, opts, m) \in Seq(Entry)
      <3>1. f[m] \in Seq(Entry)
        BY <2>1
      <3>2. slotAt(r, m) \in Slots
        BY SlotAtIs, CapacityPositive
      <3>3. keep(opts, r.buffer[slotAt(r, m)]) => r.buffer[slotAt(r, m)] \in Entry
        BY <3>2 DEF keep, RingBuffers
      <3> QED BY <3>1, <3>3, AppendProperties DEF collect
    <2>3. g \in [0 .. m + 1 -> Seq(Entry)] /\ g[0] = << >>
      BY <2>1, <2>2
    <2>4. ASSUME NEW n \in 1 .. m + 1
          PROVE  g[n] = collect(g[n - 1], r, opts, n - 1)
      <3>1. g[n - 1] = f[n - 1]
        OBVIOUS
      <3>2. CASE n <= m
        BY <2>1, <3>1, <3>2
      <3>3. CASE n = m + 1
        BY <3>1, <3>3
      <3> QED BY <3>2, <3>3
    <2> QED BY <2>3, <2>4
  <1>3. \A n \in Nat : n \in S
    <2> HIDE DEF S
    <2> QED BY <1>1, <1>2, NatSetInduction
  <1>4. PICK f : Loop(f, Capacity)
    <2>1. Capacity \in Nat /\ Capacity <= Capacity
      BY CapacityPositive
    <2> QED BY <1>3, <2>1, Zenon
  <1> DEFINE Turns(h) == h = [n \in 0 .. Capacity |->
                                IF n = 0 THEN << >> ELSE collect(h[n - 1], r, opts, n - 1)]
             res == CHOOSE h : Turns(h)
  <1>5. Turns(f)
    BY <1>4, CapacityPositive
  <1>6. Turns(res)
    BY <1>5
  <1>7. scan(r, opts) = res[Capacity]
    BY DEF scan
  <1> DEFINE E == {m \in Nat : m <= Capacity => res[m] = f[m]}
  <1>8. \A n \in Nat : n \in E
    <2>1. 0 \in E
      <3> HIDE DEF res
      <3>1. res = [n \in 0 .. Capacity |->
                    IF n = 0 THEN << >> ELSE collect(res[n - 1], r, opts, n - 1)]
        BY <1>6, Zenon
      <3>2. res[0] = << >>
        BY <3>1, CapacityPositive
      <3> QED BY <1>4, <3>2
    <2>2. ASSUME NEW m \in Nat, m \in E PROVE m + 1 \in E
      <3> SUFFICES ASSUME m + 1 <= Capacity PROVE res[m + 1] = f[m + 1]
        OBVIOUS
      <3> HIDE DEF res
      <3>1. res[m] = f[m] /\ m + 1 \in 1 .. Capacity /\ (m + 1) - 1 = m
        BY <2>2, CapacityPositive
      <3>8. res = [n \in 0 .. Capacity |->
                    IF n = 0 THEN << >> ELSE collect(res[n - 1], r, opts, n - 1)]
        BY <1>6, Zenon
      <3>9. m + 1 # 0 /\ m + 1 \in 0 .. Capacity
        BY <3>1
      <3>2. res[m + 1] = collect(res[m], r, opts, m)
        BY <3>1, <3>8, <3>9
      <3>3. f[m + 1] = collect(f[m], r, opts, m)
        BY <1>4, <3>1
      <3> QED BY <3>1, <3>2, <3>3
    <2> HIDE DEF E
    <2> QED BY <2>1, <2>2, NatSetInduction
  <1>9. scan(r, opts) = f[Capacity]
    BY <1>7, <1>8, CapacityPositive
  <1> QED BY <1>4, <1>9

(* The slot n after the head holds an entry iff n is below the count, and  *)
(* no two of the slots the loop visits hold the same id.                   *)
LEMMA ScanOrder ==
  ASSUME NEW r, WellFormed(r)
  PROVE  /\ \A n \in 0 .. Capacity - 1 : r.buffer[slotAt(r, n)] # Nil <=> n < r.count
         /\ \A n, m \in 0 .. Capacity - 1 :
              /\ r.buffer[slotAt(r, n)] # Nil
              /\ r.buffer[slotAt(r, m)] # Nil
              /\ r.buffer[slotAt(r, n)].id = r.buffer[slotAt(r, m)].id
              => n = m
  <1>1. /\ r \in RingBuffers
        /\ r.head \in 0 .. Capacity - 1
        /\ r.count \in 0 .. Capacity
        /\ r.buffer \in [Slots -> Entry \cup {Nil}]
    BY DEF WellFormed, RingBuffers, Slots
  <1>2. \A n \in 0 .. Capacity - 1 :
          /\ slotAt(r, n) \in Slots
          /\ slotAt(r, n) = IF r.head + n < Capacity THEN r.head + n
                                                     ELSE r.head + n - Capacity
    BY <1>1, SlotAtIs, CapacityPositive
  <1>3. ASSUME NEW n \in 0 .. Capacity - 1
        PROVE  r.buffer[slotAt(r, n)] # Nil <=> n < r.count
    <2>1. Occupied(r, slotAt(r, n)) <=> n < r.count
      BY <1>1, <1>2, CapacityPositive DEF Occupied
    <2> QED BY <1>2, <2>1 DEF WellFormed, Shape
  <1>4. ASSUME NEW n \in 0 .. Capacity - 1, NEW m \in 0 .. Capacity - 1,
               r.buffer[slotAt(r, n)] # Nil, r.buffer[slotAt(r, m)] # Nil,
               r.buffer[slotAt(r, n)].id = r.buffer[slotAt(r, m)].id
        PROVE  n = m
    <2> DEFINE id == r.buffer[slotAt(r, n)].id
    <2>1. id \in Ids
      BY <1>1, <1>2, <1>4 DEF Entry
    <2>2. r.idIndex[id] = slotAt(r, n) /\ r.idIndex[id] = slotAt(r, m)
      BY <1>2, <1>4, <2>1 DEF WellFormed, Index
    <2>3. slotAt(r, n) = slotAt(r, m)
      BY <2>2
    <2> QED BY <1>1, <1>2, <2>3, CapacityPositive
  <1> QED BY <1>3, <1>4

(* Whatever the filters, scan returns entries of the ring, none twice.     *)
LEMMA ScanResult ==
  ASSUME NEW r, WellFormed(r), NEW opts
  PROVE  /\ scan(r, opts) \in Seq(Entry)
         /\ \A k \in 1 .. Len(scan(r, opts)) :
              \E i \in Slots : r.buffer[i] # Nil /\ scan(r, opts)[k] = r.buffer[i]
         /\ \A k, l \in 1 .. Len(scan(r, opts)) :
              scan(r, opts)[k].id = scan(r, opts)[l].id => k = l
  <1>1. r \in RingBuffers
    BY DEF WellFormed
  <1>2. PICK f \in [0 .. Capacity -> Seq(Entry)] :
           /\ f[0] = << >>
           /\ \A n \in 1 .. Capacity : f[n] = collect(f[n - 1], r, opts, n - 1)
           /\ scan(r, opts) = f[Capacity]
    BY <1>1, ScanLoop
  <1> DEFINE at(j) == r.buffer[slotAt(r, j)]
             From(n) == \A k \in 1 .. Len(f[n]) :
                          \E j \in 0 .. n - 1 : at(j) # Nil /\ f[n][k] = at(j)
             Once(n) == \A k, l \in 1 .. Len(f[n]) : f[n][k].id = f[n][l].id => k = l
             S == {n \in Nat : n <= Capacity => From(n) /\ Once(n)}
  <1>3. 0 \in S
    BY <1>2
  <1>4. ASSUME NEW n \in Nat, n \in S, n + 1 <= Capacity
        PROVE  From(n + 1) /\ Once(n + 1)
    <2>1. /\ n \in 0 .. Capacity /\ n + 1 \in 1 .. Capacity /\ n \in 0 .. Capacity - 1
          /\ (n + 1) - 1 = n
      BY <1>4, CapacityPositive
    <2>2. From(n) /\ Once(n)
      BY <1>4, <2>1
    <2>3. f[n] \in Seq(Entry) /\ Len(f[n]) \in Nat
      BY <2>1, LenProperties
    <2>4. f[n + 1] = IF keep(opts, at(n)) THEN Append(f[n], at(n)) ELSE f[n]
      BY <1>2, <2>1 DEF collect
    <2> HIDE DEF at
    <2>5. CASE ~keep(opts, at(n))
      BY <2>2, <2>3, <2>4, <2>5
    <2>6. CASE keep(opts, at(n))
      <3>1. at(n) # Nil
        BY <2>6 DEF keep
      <3>2. /\ Len(f[n + 1]) = Len(f[n]) + 1
            /\ \A k \in 1 .. Len(f[n]) : f[n + 1][k] = f[n][k]
            /\ f[n + 1][Len(f[n]) + 1] = at(n)
        BY <2>3, <2>4, <2>6, AppendProperties
      <3>3. ASSUME NEW k \in 1 .. Len(f[n + 1])
            PROVE  \E j \in 0 .. (n + 1) - 1 : at(j) # Nil /\ f[n + 1][k] = at(j)
        <4>1. CASE k \in 1 .. Len(f[n])
          BY <2>2, <3>2, <4>1
        <4>2. CASE k = Len(f[n]) + 1
          BY <3>1, <3>2, <4>2
        <4> QED BY <2>3, <3>2, <4>1, <4>2
      <3>4. \A k \in 1 .. Len(f[n]) : f[n][k].id # at(n).id
        <4> SUFFICES ASSUME NEW k \in 1 .. Len(f[n]) PROVE f[n][k].id # at(n).id
          OBVIOUS
        <4>1. PICK j \in 0 .. n - 1 : at(j) # Nil /\ f[n][k] = at(j)
          BY <2>2
        <4>2. j \in 0 .. Capacity - 1 /\ j # n
          BY <2>1, CapacityPositive
        <4> QED BY <2>1, <3>1, <4>1, <4>2, ScanOrder DEF at
      <3>5. ASSUME NEW k \in 1 .. Len(f[n + 1]), NEW l \in 1 .. Len(f[n + 1]),
                   f[n + 1][k].id = f[n + 1][l].id
            PROVE  k = l
        <4> DEFINE m == Len(f[n])
        <4>1. m \in Nat /\ k \in 1 .. m + 1 /\ l \in 1 .. m + 1
          BY <2>3, <3>2
        <4>2. CASE k \in 1 .. m /\ l \in 1 .. m
          BY <2>2, <3>2, <3>5, <4>2
        <4>3. CASE k = m + 1 /\ l \in 1 .. m
          BY <3>2, <3>4, <3>5, <4>3
        <4>4. CASE k \in 1 .. m /\ l = m + 1
          BY <3>2, <3>4, <3>5, <4>4
        <4> HIDE DEF m
        <4> QED BY <4>1, <4>2, <4>3, <4>4
      <3> QED BY <3>3, <3>5
    <2> QED BY <2>5, <2>6
  <1>5. \A n \in Nat : n \in S => n + 1 \in S
    BY <1>4
  <1>6. Capacity \in S
    <2> HIDE DEF S
    <2> QED BY <1>3, <1>5, CapacityPositive, NatSetInduction
  <1>7. From(Capacity) /\ Once(Capacity)
    BY <1>6, CapacityPositive
  <1>8. \A j \in 0 .. Capacity - 1 : slotAt(r, j) \in Slots
    BY <1>1, SlotAtIs, CapacityPositive
  <1> DEFINE s == f[Capacity]
  <1>9. /\ s \in Seq(Entry)
        /\ \A k \in 1 .. Len(s) : \E i \in Slots : r.buffer[i] # Nil /\ s[k] = r.buffer[i]
        /\ \A k, l \in 1 .. Len(s) : s[k].id = s[l].id => k = l
    <2>1. s \in Seq(Entry)
      BY CapacityPositive
    <2>2. ASSUME NEW k \in 1 .. Len(s)
          PROVE  \E i \in Slots : r.buffer[i] # Nil /\ s[k] = r.buffer[i]
      <3>1. PICK j \in 0 .. Capacity - 1 : at(j) # Nil /\ s[k] = at(j)
        BY <1>7
      <3> QED BY <1>8, <3>1
    <2>3. \A k, l \in 1 .. Len(s) : s[k].id = s[l].id => k = l
      BY <1>7
    <2> QED BY <2>1, <2>2, <2>3
  <1> HIDE DEF s
  <1>10. scan(r, opts) = s
    BY <1>2 DEF s
  <1> QED BY <1>9, <1>10

(* Without filters, scan returns what the ring holds, oldest first.        *)
LEMMA ScanAll ==
  ASSUME NEW r, WellFormed(r), NEW opts, \A e \in Entry : Matches(opts, e)
  PROVE  scan(r, opts) = Contents(r)
  <1>1. /\ r \in RingBuffers
        /\ r.count \in 0 .. Capacity
        /\ r.buffer \in [Slots -> Entry \cup {Nil}]
    BY DEF WellFormed, RingBuffers
  <1>2. PICK f \in [0 .. Capacity -> Seq(Entry)] :
           /\ f[0] = << >>
           /\ \A n \in 1 .. Capacity : f[n] = collect(f[n - 1], r, opts, n - 1)
           /\ scan(r, opts) = f[Capacity]
    BY <1>1, ScanLoop
  <1> DEFINE at(j) == r.buffer[slotAt(r, j)]
             Filled(n) == /\ Len(f[n]) = IF n < r.count THEN n ELSE r.count
                          /\ \A k \in 1 .. Len(f[n]) : f[n][k] = at(k - 1)
             S == {n \in Nat : n <= Capacity => Filled(n)}
  <1>3. 0 \in S
    BY <1>1, <1>2
  <1>4. ASSUME NEW n \in Nat, n \in S, n + 1 <= Capacity
        PROVE  Filled(n + 1)
    <2>1. /\ n \in 0 .. Capacity /\ n + 1 \in 1 .. Capacity /\ n \in 0 .. Capacity - 1
          /\ (n + 1) - 1 = n
      BY <1>4, CapacityPositive
    <2>2. Filled(n)
      BY <1>4, <2>1
    <2>3. f[n] \in Seq(Entry) /\ Len(f[n]) \in Nat
      BY <2>1, LenProperties
    <2>4. f[n + 1] = IF keep(opts, at(n)) THEN Append(f[n], at(n)) ELSE f[n]
      BY <1>2, <2>1 DEF collect
    <2>5. keep(opts, at(n)) <=> n < r.count
      <3>1. at(n) # Nil <=> n < r.count
        BY <2>1, ScanOrder
      <3>2. slotAt(r, n) \in Slots
        BY <1>1, <2>1, SlotAtIs, CapacityPositive
      <3> QED BY <1>1, <3>1, <3>2 DEF keep
    <2> HIDE DEF at
    <2>6. CASE ~(n < r.count)
      BY <1>1, <2>2, <2>3, <2>4, <2>5, <2>6
    <2>7. CASE n < r.count
      <3>1. Len(f[n]) = n
        BY <2>2, <2>7
      <3>2. /\ Len(f[n + 1]) = n + 1
            /\ \A k \in 1 .. n : f[n + 1][k] = f[n][k]
            /\ f[n + 1][n + 1] = at(n)
        BY <2>3, <2>4, <2>5, <2>7, <3>1, AppendProperties
      <3>3. n + 1 = IF n + 1 < r.count THEN n + 1 ELSE r.count
        BY <1>1, <2>7
      <3>4. ASSUME NEW k \in 1 .. n + 1 PROVE f[n + 1][k] = at(k - 1)
        <4>1. CASE k \in 1 .. n
          BY <2>2, <3>1, <3>2, <4>1
        <4>2. CASE k = n + 1
          BY <2>1, <3>2, <4>2
        <4> QED BY <4>1, <4>2
      <3> QED BY <3>2, <3>3, <3>4
    <2> QED BY <2>6, <2>7
  <1>5. \A n \in Nat : n \in S => n + 1 \in S
    <2> HIDE DEF Filled
    <2> QED BY <1>4
  <1>6. Capacity \in S
    <2> HIDE DEF S
    <2> QED BY <1>3, <1>5, CapacityPositive, NatSetInduction
  <1>7. /\ Len(f[Capacity]) = r.count
        /\ \A k \in 1 .. r.count : f[Capacity][k] = at(k - 1)
    BY <1>1, <1>6, CapacityPositive
  <1>8. f[Capacity] \in Seq(Entry)
    BY CapacityPositive
  <1>9. f[Capacity] = [k \in 1 .. r.count |-> at(k - 1)]
    BY <1>7, <1>8
  <1> QED BY <1>2, <1>9 DEF Contents
====
