--------------------------- MODULE ExchangeProofs ---------------------------
(***************************************************************************)
(* Proofs about Exchange, for every set of limits and body lengths, every  *)
(* safety cap and every largest int64.                                     *)
(***************************************************************************)
EXTENDS Exchange, SequenceTheorems, TLAPS

(* What the exchange was started with keeps its type, and a source that    *)
(* has ended has produced its whole body.                                  *)
SourceInv ==
    /\ limit \in [Sides -> Limits]
    /\ wants \in BOOLEAN
    /\ total \in [Sides -> Lengths]
    /\ breaks \in [Sides -> BOOLEAN]
    /\ stream \in BOOLEAN
    /\ worth \in BOOLEAN
    /\ ended \in [Sides -> BOOLEAN]
    /\ \A s \in Sides : ended[s] => made[s] = total[s]

(* The phases in which a side has not been relayed yet.                    *)
Before(s) == IF s = "req" THEN {"request", "captureReq"}
             ELSE {"request", "captureReq", "relayReq", "sent", "response",
                   "captureResp"}

(* A request whose capture read failed: what was read is gone, and there   *)
(* is nothing left to relay but the error.                                 *)
Lost(s) ==
    /\ s = "req" /\ breaks[s] /\ ended[s]
    /\ taken[s] = made[s]
    /\ got[s] = << >> /\ front[s] = << >>

(* What the receiver has and what was put back are, in this order, the     *)
(* bytes that were read; nothing is relayed before the capture read is     *)
(* over, and a relay ends only when everything has been passed on.         *)
BytesInv(s) ==
    /\ \A i \in 1 .. Len(got[s]) : got[s][i] = i
    /\ \A i \in 1 .. Len(front[s]) : front[s][i] = Len(got[s]) + i

SideInv(s) ==
    /\ BytesInv(s)
    /\ phase \in Before(s) =>
         got[s] = << >> /\ front[s] = << >> /\ result[s] = "open"
    /\ phase \notin Before(s) =>
         Len(got[s]) + Len(front[s]) = taken[s] \/ Lost(s)
    /\ phase \in Before(s) /\ ~capturing(s) => taken[s] = 0
    /\ capturing(s) => wants /\ taken[s] <= Bound(s)
    /\ result[s] # "open" =>
         /\ front[s] = << >> /\ ended[s] /\ taken[s] = made[s]
         /\ result[s] = "eof" => ~breaks[s]

(* Until the response has been read, its length is the one upstream        *)
(* announced and no entry has been pushed; afterwards an entry has been    *)
(* pushed unless the traffic is filtered, the response broke off, or there *)
(* was none.                                                               *)
RecordInv ==
    /\ phase \in Before("req") => reqBody = Nil
    /\ phase \in Before("resp") =>
         /\ cl \in {-1, total["resp"] + (IF breaks["resp"] THEN 1 ELSE 0)}
         /\ pushes = 0 /\ entry = Nil
    /\ result["resp"] # "open" => phase = "done"
    /\ pushes = 0 => entry = Nil
    /\ pushes \in {0, 1} /\ (~wants => pushes = 0)
    /\ phase = "relayResp" /\ wants => pushes = 1 \/ breaks["resp"]
    /\ result["resp"] # "open" /\ wants => pushes = 1 \/ breaks["resp"]

(* limit + 1 overflows for the largest int64 only.                         *)
Representable(s) == limit[s] # MaxInt

(* The announced length and the bodies kept are those of the whole bodies. *)
ContentInv ==
    /\ Representable("resp") => FramingExact
    /\ Representable("req") => reqBody \in {Nil, total["req"]}
    /\ Representable("req") /\ entry # Nil => entry.req \in {Nil, total["req"]}
    /\ Representable("resp") /\ entry # Nil =>
         entry.resp \in {Nil, total["resp"]} \cup
                        (IF limit["resp"] <= 0 /\ cl = -1 THEN {SafetyCap} ELSE {})

Inv == /\ TypeOK
       /\ SourceInv
       /\ \A s \in Sides : SideInv(s)
       /\ RecordInv
       /\ ContentInv

-----------------------------------------------------------------------------
LEMMA ConstantsTyped ==
  /\ MaxInt \in Nat /\ SafetyCap \in 1 .. MaxInt
  /\ \A n \in Limits : n \in Int /\ n <= MaxInt
  /\ \A n \in Lengths : n \in Nat /\ n < MaxInt /\ n \in Lens
  /\ Nil \notin Int
  <1>1. MaxInt \in Nat /\ SafetyCap \in 1 .. MaxInt /\ Nil \notin Int
    BY ExchangeAssumption
  <1>2. \A n \in Limits : n \in Int /\ n <= MaxInt
    BY ExchangeAssumption
  <1>3. \A n \in Lengths : n \in Nat /\ n < MaxInt /\ n \in Lens
    BY ExchangeAssumption DEF Lens
  <1> QED BY <1>1, <1>2, <1>3

(* The bound of a read is a length: where limit + 1 overflows it is 0, and *)
(* no body is so long that it would meet the absence of a bound.           *)
LEMMA BoundTyped ==
  ASSUME SourceInv, cl \in Lens \cup {-1}, NEW s \in Sides
  PROVE  /\ Bound(s) \in Nat
         /\ limit[s] > 0 /\ Representable(s) => Bound(s) = limit[s] + 1
         /\ limit[s] > 0 => Bound(s) <= limit[s] + 1
         /\ limit[s] <= 0 /\ (s = "req" \/ cl >= 0) => Bound(s) = MaxInt
         /\ limit[s] <= 0 /\ s = "resp" /\ cl < 0 => Bound(s) = SafetyCap
  <1>1. limit[s] \in Int /\ limit[s] <= MaxInt /\ cl \in Int
    BY ConstantsTyped DEF SourceInv, Lens
  <1>2. CASE s = "req"
    BY <1>1, <1>2, ConstantsTyped
    DEF Bound, readBounded, atMost, plusOne, NoBound, Representable
  <1>3. CASE s = "resp"
    BY <1>1, <1>3, ConstantsTyped
    DEF Bound, readForCapture, atMost, plusOne, NoBound, Representable
  <1> QED BY <1>2, <1>3 DEF Sides

(* What the receiver got so far is a prefix of the body when its length    *)
(* says so.                                                                *)
LEMMA Prefix ==
  ASSUME NEW q \in Seq(Lens), \A i \in 1 .. Len(q) : q[i] = i
  PROVE  q = [i \in 1 .. Len(q) |-> i]
  BY LenProperties

LEMMA ConsumedTyped ==
  ASSUME NEW n \in Lens
  PROVE  LET c == [i \in 1 .. n |-> i]
         IN  c \in Seq(Lens) /\ Len(c) = n /\ \A i \in 1 .. n : c[i] = i
  <1>1. n \in Nat /\ \A i \in 1 .. n : i \in Lens
    BY ConstantsTyped DEF Lens
  <1> QED BY <1>1

LEMMA InitInv == Init => Inv
  <1> SUFFICES ASSUME Init PROVE Inv
    OBVIOUS
  <1> USE ConstantsTyped
  <1>1. SourceInv
    BY DEF Init, SourceInv, Sides
  <1>2. total["resp"] \in Nat /\ total["resp"] < MaxInt
    BY <1>1 DEF SourceInv, Sides
  <1>3. cl \in Lens \cup {-1} /\ 0 \in Lens
    BY <1>2 DEF Init, Lens
  <1>4. TypeOK
    <2>1. << >> \in Seq(Lens)
      OBVIOUS
    <2>2. \A s \in Sides : total[s] \in Nat
      BY <1>1 DEF SourceInv
    <2>3. /\ made \in [Sides -> Lens] /\ taken \in [Sides -> Lens]
          /\ \A s \in Sides : taken[s] = 0 /\ made[s] = 0
      BY <1>3 DEF Init
    <2>4. /\ front \in [Sides -> Seq(Lens)] /\ got \in [Sides -> Seq(Lens)]
          /\ result \in [Sides -> {"open", "eof", "error"}]
      BY <2>1 DEF Init
    <2> QED BY <1>3, <2>2, <2>3, <2>4 DEF Init, TypeOK
  <1>5. ASSUME NEW s \in Sides PROVE SideInv(s)
    <2>1. /\ got[s] = << >> /\ front[s] = << >> /\ result[s] = "open"
          /\ taken[s] = 0 /\ phase = "request"
      BY DEF Init
    <2>2. phase \in Before(s) /\ ~capturing(s)
      BY <2>1 DEF Before, capturing
    <2>3. BytesInv(s)
      BY <2>1 DEF BytesInv
    <2> QED BY <2>1, <2>2, <2>3 DEF SideInv
  <1>6. RecordInv
    <2>1. result["resp"] = "open"
      BY DEF Init, Sides
    <2> QED BY <2>1 DEF Init, RecordInv, Before
  <1>7. ContentInv
    <2>1. FramingExact
      BY <1>2 DEF Init, FramingExact
    <2> QED BY <2>1 DEF Init, ContentInv
  <1> QED BY <1>1, <1>4, <1>5, <1>6, <1>7 DEF Inv

-----------------------------------------------------------------------------
LEMMA LensTyped == \A n \in Lens : n \in Nat /\ n <= MaxInt
  <1>1. MaxInt \in Nat
    BY ExchangeAssumption
  <1> QED BY <1>1 DEF Lens

LEMMA SideTyped ==
  ASSUME TypeOK, SourceInv, NEW s \in Sides
  PROVE  /\ limit[s] \in Int /\ limit[s] <= MaxInt
         /\ total[s] \in Nat /\ made[s] \in Nat /\ taken[s] \in Nat
         /\ taken[s] <= made[s] /\ made[s] <= total[s] /\ total[s] < MaxInt
         /\ front[s] \in Seq(Lens) /\ Len(front[s]) \in Nat
         /\ got[s] \in Seq(Lens) /\ Len(got[s]) \in Nat
         /\ breaks[s] \in BOOLEAN /\ ended[s] \in BOOLEAN
         /\ ended[s] => made[s] = total[s]
  <1>1. limit[s] \in Limits /\ total[s] \in Lengths /\ breaks[s] \in BOOLEAN
        /\ ended[s] \in BOOLEAN /\ (ended[s] => made[s] = total[s])
    BY DEF SourceInv
  <1>2. made[s] \in Lens /\ taken[s] \in Lens
        /\ taken[s] <= made[s] /\ made[s] <= total[s]
    BY DEF TypeOK
  <1>3. front[s] \in Seq(Lens) /\ got[s] \in Seq(Lens)
    BY DEF TypeOK
  <1> QED BY <1>1, <1>2, <1>3, ConstantsTyped, LensTyped, LenProperties

(* A side that a step does not touch.                                      *)
LEMMA SideFrame ==
  ASSUME NEW s \in Sides, SideInv(s),
         got'[s] = got[s], front'[s] = front[s], taken'[s] = taken[s],
         result'[s] = result[s], limit' = limit, breaks' = breaks, wants' = wants,
         cl' = cl \/ ~capturing(s)',
         ended[s] => ended'[s] /\ made'[s] = made[s],
         phase' \in Before(s) <=> phase \in Before(s),
         capturing(s)' <=> capturing(s)
  PROVE  SideInv(s)'
  <1>1. capturing(s) => Bound(s)' = Bound(s)
    BY DEF Bound
  <1>2. Lost(s) => Lost(s)'
    BY DEF Lost, SideInv
  <1>3. BytesInv(s)'
    BY DEF SideInv, BytesInv
  <1>4. phase' \in Before(s) => got'[s] = << >> /\ front'[s] = << >> /\ result'[s] = "open"
    BY DEF SideInv
  <1>5. phase' \notin Before(s) =>
          Len(got'[s]) + Len(front'[s]) = taken'[s] \/ Lost(s)'
    BY <1>2 DEF SideInv
  <1>6. phase' \in Before(s) /\ ~capturing(s)' => taken'[s] = 0
    BY DEF SideInv
  <1>7. capturing(s)' => wants' /\ taken'[s] <= Bound(s)'
    BY <1>1 DEF SideInv
  <1>8. result'[s] # "open" =>
          /\ front'[s] = << >> /\ ended'[s] /\ taken'[s] = made'[s]
          /\ result'[s] = "eof" => ~breaks'[s]
    BY DEF SideInv
  <1> QED BY <1>3, <1>4, <1>5, <1>6, <1>7, <1>8 DEF SideInv, Before

(* The sources.                                                            *)
LEMMA SourceStep ==
  ASSUME Inv, NEW s \in Sides, Produce(s) \/ End(s)
  PROVE  Inv'
  <1>1. UNCHANGED <<config, cl, taken, front, got, result, phase, record>>
    BY DEF Produce, End
  <1> USE <1>1 DEF config, record
  <1>2. TypeOK /\ SourceInv
    BY DEF Inv
  <1>3. /\ made' \in [Sides -> Lens]
        /\ \A t \in Sides : made[t] <= made'[t] /\ made'[t] <= total[t]
    <2>1. made \in [Sides -> Lens] /\ \A t \in Sides : made[t] <= total[t] /\ made[t] \in Nat
      BY <1>2, SideTyped DEF TypeOK
    <2>2. CASE End(s)
      BY <2>1, <2>2 DEF End
    <2>3. CASE Produce(s)
      <3>1. made[s] + 1 <= total[s] /\ made[s] + 1 \in Lens
        BY <1>2, <2>3, SideTyped, ConstantsTyped DEF Produce, Lens
      <3>2. made' = [made EXCEPT ![s] = made[s] + 1]
        BY <2>3 DEF Produce
      <3> QED BY <2>1, <3>1, <3>2
    <2> QED BY <2>2, <2>3
  <1>4. TypeOK'
    <2>1. \A t \in Sides : taken'[t] <= made'[t] /\ made'[t] <= total'[t]
      <3> SUFFICES ASSUME NEW t \in Sides PROVE taken[t] <= made'[t] /\ made'[t] <= total[t]
        OBVIOUS
      <3>1. taken[t] \in Int /\ made[t] \in Int /\ made'[t] \in Int /\ taken[t] <= made[t]
        BY <1>2, <1>3, SideTyped, LensTyped
      <3> QED BY <1>3, <3>1
    <2> QED BY <1>2, <1>3, <2>1 DEF TypeOK
  <1>5. /\ ended' \in [Sides -> BOOLEAN]
        /\ \A t \in Sides : ended'[t] => made'[t] = total[t]
        /\ \A t \in Sides : ended[t] => ended'[t] /\ made'[t] = made[t]
    <2>1. /\ ended \in [Sides -> BOOLEAN]
          /\ \A t \in Sides : ended[t] => made[t] = total[t]
          /\ \A t \in Sides : made[t] \in Nat /\ total[t] \in Nat
      BY <1>2, SideTyped DEF SourceInv
    <2>2. CASE Produce(s)
      BY <2>1, <2>2 DEF Produce
    <2>3. CASE End(s)
      BY <2>1, <2>3 DEF End
    <2> QED BY <2>2, <2>3
  <1>6. SourceInv'
    BY <1>2, <1>5 DEF SourceInv
  <1>7. ASSUME NEW t \in Sides PROVE SideInv(t)'
    <2>1. capturing(t)' <=> capturing(t)
      BY DEF capturing
    <2> QED BY <1>5, <2>1, SideFrame DEF Inv
  <1>8. RecordInv'
    BY DEF Inv, RecordInv, Before
  <1>9. ContentInv'
    BY DEF Inv, ContentInv, FramingExact, Representable
  <1> QED BY <1>4, <1>6, <1>7, <1>8, <1>9 DEF Inv

(* The steps of the goroutine leave the sources and the configuration      *)
(* alone.                                                                  *)
LEMMA SourceFrame ==
  ASSUME Inv, UNCHANGED <<config, source>>
  PROVE  SourceInv'
  BY DEF Inv, SourceInv, config, source

LEMMA handleRequestStep ==
  ASSUME Inv, handleRequest
  PROVE  Inv'
  <1> USE ConstantsTyped
  <1>1. /\ UNCHANGED <<config, cl, source, taken, front, got, result, record>>
        /\ phase = "request" /\ phase' = IF wants THEN "captureReq" ELSE "relayReq"
    BY DEF handleRequest
  <1> USE DEF config, record, source
  <1>2. TypeOK'
    BY <1>1 DEF Inv, TypeOK
  <1>3. SourceInv'
    BY <1>1, SourceFrame
  <1>4. SideInv("req")'
    <2>1. SideInv("req") /\ "req" \in Sides
      BY DEF Inv, Sides
    <2>2. /\ got["req"] = << >> /\ front["req"] = << >> /\ result["req"] = "open"
          /\ taken["req"] = 0
      BY <1>1, <2>1 DEF SideInv, Before, capturing
    <2>3. Bound("req") \in Nat /\ Bound("req")' = Bound("req")
      BY <1>1, <2>1, BoundTyped DEF Inv, TypeOK, Bound
    <2>4. capturing("req")' => wants'
      BY <1>1 DEF capturing
    <2>5. got'["req"] = << >> /\ front'["req"] = << >> /\ result'["req"] = "open"
          /\ taken'["req"] = 0
      BY <1>1, <2>2
    <2>6. Len(got'["req"]) + Len(front'["req"]) = taken'["req"]
      BY <2>5
    <2>7. BytesInv("req")'
      BY <2>5 DEF BytesInv
    <2>8. capturing("req")' => wants' /\ taken'["req"] <= Bound("req")'
      <3>1. taken'["req"] <= Bound("req")'
        BY <2>3, <2>5
      <3> QED BY <2>4, <3>1
    <2> QED BY <2>5, <2>6, <2>7, <2>8 DEF SideInv
  <1>5. SideInv("resp")'
    <2>1. SideInv("resp") /\ "resp" \in Sides
      BY DEF Inv, Sides
    <2>2. ~capturing("resp") /\ ~capturing("resp")'
      BY <1>1 DEF capturing
    <2>3. phase' \in Before("resp") /\ phase \in Before("resp")
      BY <1>1 DEF Before
    <2> QED BY <1>1, <2>1, <2>2, <2>3, SideFrame
  <1>6. RecordInv'
    BY <1>1 DEF Inv, RecordInv, Before
  <1>7. ContentInv'
    BY <1>1 DEF Inv, ContentInv, FramingExact, Representable
  <1> QED BY <1>2, <1>3, <1>4, <1>5, <1>6, <1>7 DEF Inv, Sides

(* A step that leaves the record and the announced length alone.           *)
LEMMA ContentFrame ==
  ASSUME Inv, UNCHANGED <<config, cl, record>>
  PROVE  ContentInv'
  BY DEF Inv, ContentInv, FramingExact, Representable, config, record

LEMMA ReadForCaptureStep ==
  ASSUME Inv, NEW s \in Sides, ReadForCapture(s)
  PROVE  Inv'
  <1>1. /\ UNCHANGED <<config, cl, source, front, got, result, phase, record>>
        /\ capturing(s) /\ taken[s] < Bound(s) /\ taken[s] < made[s]
        /\ taken' = [taken EXCEPT ![s] = taken[s] + 1]
    BY DEF ReadForCapture
  <1> USE DEF config, record, source
  <1>2. TypeOK /\ SourceInv /\ SideInv(s)
    BY DEF Inv
  <1>3. /\ taken[s] + 1 \in Lens /\ taken[s] + 1 <= made[s]
        /\ taken[s] + 1 <= Bound(s) /\ Bound(s)' = Bound(s)
    <2>1. Bound(s) \in Nat
      BY <1>2, BoundTyped DEF TypeOK
    <2>2. taken[s] \in Nat /\ made[s] \in Nat /\ made[s] <= MaxInt
      BY <1>2, SideTyped, ConstantsTyped
    <2> QED BY <1>1, <2>1, <2>2, ConstantsTyped DEF Bound, Lens
  <1>4. taken \in [Sides -> Lens] /\ \A t \in Sides : taken[t] <= made[t]
    BY <1>2 DEF TypeOK
  <1>5. taken' \in [Sides -> Lens] /\ \A t \in Sides : taken'[t] <= made[t]
    BY <1>1, <1>3, <1>4
  <1>6. TypeOK'
    BY <1>1, <1>2, <1>5 DEF TypeOK
  <1>7. SourceInv'
    BY <1>1, SourceFrame
  <1>8. SideInv(s)'
    <2>1. phase \in Before(s)
      BY <1>1 DEF capturing, Before, Sides
    <2>2. got[s] = << >> /\ front[s] = << >> /\ result[s] = "open" /\ BytesInv(s) /\ wants
      BY <1>1, <1>2, <2>1 DEF SideInv
    <2>3. BytesInv(s)' /\ capturing(s)' /\ phase' \in Before(s)
      BY <1>1, <2>1, <2>2 DEF BytesInv, capturing
    <2>4. taken'[s] <= Bound(s)' /\ wants'
      BY <1>1, <1>3, <1>4, <2>2
    <2> QED BY <1>1, <2>2, <2>3, <2>4 DEF SideInv, Before
  <1>9. ASSUME NEW t \in Sides, t # s PROVE SideInv(t)'
    <2>1. capturing(t)' <=> capturing(t)
      BY <1>1 DEF capturing
    <2>2. taken'[t] = taken[t] /\ SideInv(t)
      BY <1>1, <1>4, <1>9 DEF Inv
    <2> QED BY <1>1, <2>1, <2>2, SideFrame
  <1>10. RecordInv'
    BY <1>1 DEF Inv, RecordInv, Before
  <1>11. ContentInv'
    BY <1>1, ContentFrame
  <1> QED BY <1>6, <1>7, <1>8, <1>9, <1>10, <1>11 DEF Inv

LEMMA RequestCapturedStep ==
  ASSUME Inv, RequestCaptured
  PROVE  Inv'
  <1>1. /\ UNCHANGED <<config, cl, source, taken, got, result, entry, pushes>>
        /\ capturing("req") /\ (taken["req"] = Bound("req") \/ finished("req"))
        /\ front' = [front EXCEPT !["req"] = consumed("req")]
        /\ reqBody' = CaptureRequest(limit["req"], taken["req"])
        /\ phase' = "relayReq" /\ phase = "captureReq"
    BY DEF RequestCaptured, ReadOver, capturing
  <1> USE DEF config, source
  <1>2. TypeOK /\ SourceInv /\ SideInv("req") /\ SideInv("resp")
    BY DEF Inv, Sides
  <1>3. "req" \in Sides /\ "resp" \in Sides
    BY DEF Sides
  <1>4. taken["req"] \in Lens
    BY <1>2, <1>3 DEF TypeOK
  <1>5. /\ consumed("req") \in Seq(Lens) /\ Len(consumed("req")) = taken["req"]
        /\ \A i \in 1 .. taken["req"] : consumed("req")[i] = i
    BY <1>4, ConsumedTyped DEF consumed
  <1>6. front \in [Sides -> Seq(Lens)]
    BY <1>2 DEF TypeOK
  <1>7. front' \in [Sides -> Seq(Lens)] /\ front'["req"] = consumed("req")
        /\ front'["resp"] = front["resp"]
    BY <1>1, <1>3, <1>5, <1>6
  <1>8. reqBody' \in Lens \cup {Nil}
    BY <1>1, <1>4 DEF CaptureRequest
  <1>9. TypeOK'
    BY <1>1, <1>2, <1>7, <1>8 DEF TypeOK
  <1>10. SourceInv'
    BY <1>1, SourceFrame
  <1>11. SideInv("req")'
    <2>1. got["req"] = << >> /\ result["req"] = "open"
      BY <1>1, <1>2 DEF SideInv, Before
    <2>2. got'["req"] = << >> /\ result'["req"] = "open" /\ Len(got'["req"]) = 0
      BY <1>1, <2>1
    <2>3. BytesInv("req")'
      BY <1>4, <1>5, <1>7, <2>2, LensTyped DEF BytesInv
    <2>4. phase' \notin Before("req") /\ ~capturing("req")'
      BY <1>1 DEF Before, capturing
    <2>5. Len(got'["req"]) + Len(front'["req"]) = taken'["req"]
      <3>1. taken'["req"] = taken["req"] /\ taken["req"] \in Nat
        BY <1>1, <1>4, LensTyped
      <3> QED BY <1>5, <1>7, <2>2, <3>1
    <2> QED BY <2>2, <2>3, <2>4, <2>5 DEF SideInv, Before
  <1>12. SideInv("resp")'
    <2>1. ~capturing("resp") /\ ~capturing("resp")'
      BY <1>1 DEF capturing
    <2>2. phase' \in Before("resp") /\ phase \in Before("resp")
      BY <1>1 DEF Before
    <2> QED BY <1>1, <1>2, <1>3, <1>7, <2>1, <2>2, SideFrame
  <1>13. RecordInv'
    BY <1>1 DEF Inv, RecordInv, Before
  <1>14. Representable("req") => reqBody' \in {Nil, total["req"]}
    <2> SUFFICES ASSUME Representable("req") PROVE reqBody' \in {Nil, total["req"]}
      OBVIOUS
    <2>1. /\ limit["req"] \in Int /\ taken["req"] \in Nat /\ total["req"] \in Nat
          /\ taken["req"] < MaxInt
      BY <1>2, <1>3, SideTyped, ConstantsTyped
    <2>2. finished("req") => taken["req"] = total["req"]
      BY <1>2, <1>3, SideTyped DEF finished
    <2>3. /\ limit["req"] > 0 => Bound("req") = limit["req"] + 1
          /\ limit["req"] <= 0 => Bound("req") = MaxInt
      BY <1>2, <1>3, BoundTyped DEF TypeOK
    <2>4. CASE limit["req"] > 0 /\ taken["req"] > limit["req"]
      BY <1>1, <2>4 DEF CaptureRequest, overLimit
    <2>5. CASE ~(limit["req"] > 0 /\ taken["req"] > limit["req"])
      <3>1. finished("req")
        <4>1. taken["req"] # Bound("req")
          BY <2>1, <2>3, <2>5, ConstantsTyped
        <4> QED BY <1>1, <4>1
      <3> QED BY <1>1, <2>2, <2>5, <3>1 DEF CaptureRequest, overLimit
    <2> QED BY <2>4, <2>5
  <1>15. ContentInv'
    BY <1>1, <1>14 DEF Inv, ContentInv, FramingExact, Representable
  <1> QED BY <1>9, <1>10, <1>11, <1>12, <1>13, <1>15 DEF Inv, Sides

LEMMA RequestBrokeStep ==
  ASSUME Inv, RequestBroke
  PROVE  Inv'
  <1>1. /\ UNCHANGED <<config, cl, source, taken, front, got, result, record>>
        /\ broken("req") /\ phase' = "relayReq" /\ phase = "captureReq"
    BY DEF RequestBroke, ReadBroke, capturing
  <1> USE DEF config, source, record
  <1>2. SideInv("req") /\ SideInv("resp") /\ "req" \in Sides /\ "resp" \in Sides
    BY DEF Inv, Sides
  <1>3. TypeOK'
    BY <1>1 DEF Inv, TypeOK
  <1>4. SourceInv'
    BY <1>1, SourceFrame
  <1>5. SideInv("req")'
    <2>1. got["req"] = << >> /\ front["req"] = << >> /\ result["req"] = "open"
          /\ BytesInv("req")
      BY <1>1, <1>2 DEF SideInv, Before
    <2>2. Lost("req")' /\ BytesInv("req")' /\ result'["req"] = "open"
      BY <1>1, <2>1 DEF Lost, broken, BytesInv
    <2>3. phase' \notin Before("req") /\ ~capturing("req")'
      BY <1>1 DEF Before, capturing
    <2> QED BY <2>2, <2>3 DEF SideInv, Before
  <1>6. SideInv("resp")'
    <2>1. ~capturing("resp") /\ ~capturing("resp")'
      BY <1>1 DEF capturing
    <2>2. phase' \in Before("resp") /\ phase \in Before("resp")
      BY <1>1 DEF Before
    <2> QED BY <1>1, <1>2, <2>1, <2>2, SideFrame
  <1>7. RecordInv'
    BY <1>1 DEF Inv, RecordInv, Before
  <1>8. ContentInv'
    BY <1>1, ContentFrame
  <1> QED BY <1>3, <1>4, <1>5, <1>6, <1>7, <1>8 DEF Inv, Sides

(* Relaying a byte moves the boundary between what the receiver has and    *)
(* what is still in front of it, or takes the next byte of the source.     *)
LEMMA RelayStep ==
  ASSUME Inv, NEW s \in Sides, Relay(s)
  PROVE  Inv'
  <1>1. /\ UNCHANGED <<config, cl, source, result, phase, record>>
        /\ relaying(s) /\ result[s] = "open"
    BY DEF Relay
  <1> USE DEF config, source, record
  <1>2. TypeOK /\ SourceInv /\ SideInv(s)
    BY DEF Inv
  <1>3. phase \notin Before(s) /\ ~capturing(s)
    BY <1>1 DEF Before, capturing, relaying, Sides
  <1>4. /\ BytesInv(s)
        /\ Len(got[s]) + Len(front[s]) = taken[s] \/ Lost(s)
    BY <1>2, <1>3 DEF SideInv
  <1>5. /\ got \in [Sides -> Seq(Lens)] /\ front \in [Sides -> Seq(Lens)]
        /\ taken \in [Sides -> Lens] /\ \A t \in Sides : taken[t] <= made[t]
    BY <1>2 DEF TypeOK
  <1>6. /\ taken[s] \in Nat /\ made[s] \in Nat /\ made[s] < MaxInt
        /\ got[s] \in Seq(Lens) /\ front[s] \in Seq(Lens)
        /\ Len(got[s]) \in Nat /\ Len(front[s]) \in Nat
    BY <1>2, SideTyped, ConstantsTyped
  <1>7. /\ got' \in [Sides -> Seq(Lens)] /\ front' \in [Sides -> Seq(Lens)]
        /\ taken' \in [Sides -> Lens] /\ \A t \in Sides : taken'[t] <= made[t]
        /\ BytesInv(s)'
        /\ Len(got'[s]) + Len(front'[s]) = taken'[s]
        /\ \A t \in Sides \ {s} :
             got'[t] = got[t] /\ front'[t] = front[t] /\ taken'[t] = taken[t]
    <2>1. CASE /\ front[s] # << >>
               /\ got' = [got EXCEPT ![s] = Append(got[s], Head(front[s]))]
               /\ front' = [front EXCEPT ![s] = Tail(front[s])]
               /\ taken' = taken
      <3> DEFINE h == Head(front[s])
      <3>1. /\ h \in Lens /\ Tail(front[s]) \in Seq(Lens)
            /\ Len(front[s]) >= 1 /\ h = front[s][1]
            /\ Len(Tail(front[s])) = Len(front[s]) - 1
            /\ \A i \in 1 .. Len(Tail(front[s])) : Tail(front[s])[i] = front[s][i + 1]
        BY <1>6, <2>1, HeadTailProperties, EmptySeq
      <3>2. h = Len(got[s]) + 1
        BY <1>4, <1>6, <3>1 DEF BytesInv
      <3>3. ~Lost(s)
        BY <2>1 DEF Lost
      <3> HIDE DEF h
      <3>4. /\ Append(got[s], h) \in Seq(Lens)
            /\ Len(Append(got[s], h)) = Len(got[s]) + 1
            /\ \A i \in 1 .. Len(got[s]) : Append(got[s], h)[i] = got[s][i]
            /\ Append(got[s], h)[Len(got[s]) + 1] = h
        BY <1>6, <3>1, AppendProperties
      <3>5. got'[s] = Append(got[s], h) /\ front'[s] = Tail(front[s])
        BY <1>5, <2>1 DEF h
      <3>6. \A i \in 1 .. Len(got'[s]) : got'[s][i] = i
        BY <1>4, <1>6, <3>2, <3>4, <3>5 DEF BytesInv
      <3>7. \A i \in 1 .. Len(front'[s]) : front'[s][i] = Len(got'[s]) + i
        <4> SUFFICES ASSUME NEW i \in 1 .. Len(front'[s])
                     PROVE  front'[s][i] = Len(got'[s]) + i
          OBVIOUS
        <4>1. i + 1 \in 1 .. Len(front[s]) /\ front'[s][i] = front[s][i + 1]
          BY <1>6, <3>1, <3>5
        <4>2. front[s][i + 1] = Len(got[s]) + (i + 1)
          BY <1>4, <4>1 DEF BytesInv
        <4>3. Len(got'[s]) = Len(got[s]) + 1
          BY <3>4, <3>5
        <4>4. Len(got[s]) \in Int /\ i \in Int
          BY <1>6
        <4>5. \A a, b \in Int : a + (b + 1) = (a + 1) + b
          OBVIOUS
        <4> QED BY <4>1, <4>2, <4>3, <4>4, <4>5
      <3>8. BytesInv(s)'
        BY <3>6, <3>7 DEF BytesInv
      <3>9. Len(got'[s]) + Len(front'[s]) = taken'[s]
        <4>1. Len(got'[s]) = Len(got[s]) + 1 /\ Len(front'[s]) = Len(front[s]) - 1
          BY <3>1, <3>4, <3>5
        <4>2. taken'[s] = Len(got[s]) + Len(front[s])
          BY <1>4, <2>1, <3>3
        <4>3. Len(got[s]) \in Int /\ Len(front[s]) \in Int
          BY <1>6
        <4>4. \A a, b \in Int : (a + 1) + (b - 1) = a + b
          OBVIOUS
        <4> QED BY <4>1, <4>2, <4>3, <4>4
      <3>10. got' \in [Sides -> Seq(Lens)] /\ front' \in [Sides -> Seq(Lens)]
        BY <1>5, <2>1, <3>1, <3>4 DEF h
      <3> QED BY <1>5, <2>1, <3>8, <3>9, <3>10
    <2>2. CASE /\ front[s] = << >>
               /\ taken[s] < made[s]
               /\ got' = [got EXCEPT ![s] = Append(got[s], taken[s] + 1)]
               /\ taken' = [taken EXCEPT ![s] = taken[s] + 1]
               /\ front' = front
      <3>1. taken[s] + 1 \in Lens /\ taken[s] + 1 <= made[s]
        BY <1>6, <2>2, ConstantsTyped DEF Lens
      <3>2. Len(got[s]) = taken[s]
        <4>1. Len(got[s]) + Len(front[s]) = taken[s]
          BY <1>4, <1>6, <2>2 DEF Lost
        <4> QED BY <1>6, <2>2, <4>1
      <3> DEFINE n == taken[s] + 1
      <3>3. n \in Lens /\ n = Len(got[s]) + 1
        BY <3>1, <3>2
      <3> HIDE DEF n
      <3>4. /\ Append(got[s], n) \in Seq(Lens)
            /\ Len(Append(got[s], n)) = Len(got[s]) + 1
            /\ \A i \in 1 .. Len(got[s]) : Append(got[s], n)[i] = got[s][i]
            /\ Append(got[s], n)[Len(got[s]) + 1] = n
        BY <1>6, <3>3, AppendProperties
      <3>5. got'[s] = Append(got[s], n) /\ front'[s] = << >> /\ taken'[s] = n
        BY <1>5, <2>2 DEF n
      <3>6. \A i \in 1 .. Len(got'[s]) : got'[s][i] = i
        BY <1>4, <1>6, <3>3, <3>4, <3>5 DEF BytesInv
      <3>7. BytesInv(s)'
        BY <3>5, <3>6 DEF BytesInv
      <3>8. Len(got'[s]) + Len(front'[s]) = taken'[s]
        BY <1>6, <3>3, <3>4, <3>5
      <3>9. got' \in [Sides -> Seq(Lens)]
        BY <1>5, <2>2, <3>4 DEF n
      <3>10. taken' \in [Sides -> Lens] /\ \A t \in Sides : taken'[t] <= made[t]
        BY <1>5, <2>2, <3>1
      <3> QED BY <1>5, <2>2, <3>7, <3>8, <3>9, <3>10
    <2> QED BY <2>1, <2>2 DEF Relay
  <1>8. TypeOK'
    BY <1>1, <1>2, <1>7 DEF TypeOK
  <1>9. SourceInv'
    BY <1>1, SourceFrame
  <1>10. SideInv(s)'
    <2>1. phase' \notin Before(s) /\ ~capturing(s)' /\ result'[s] = "open"
      BY <1>1, <1>3 DEF capturing
    <2> QED BY <1>7, <2>1 DEF SideInv, Before
  <1>11. ASSUME NEW t \in Sides, t # s PROVE SideInv(t)'
    <2>1. capturing(t)' <=> capturing(t)
      BY <1>1 DEF capturing
    <2>2. SideInv(t) /\ got'[t] = got[t] /\ front'[t] = front[t] /\ taken'[t] = taken[t]
      BY <1>7, <1>11 DEF Inv
    <2> QED BY <1>1, <2>1, <2>2, SideFrame
  <1>12. RecordInv'
    BY <1>1 DEF Inv, RecordInv, Before
  <1>13. ContentInv'
    BY <1>1, ContentFrame
  <1> QED BY <1>8, <1>9, <1>10, <1>11, <1>12, <1>13 DEF Inv

LEMMA RelayEndStep ==
  ASSUME Inv, NEW s \in Sides, RelayEnd(s)
  PROVE  Inv'
  <1>1. /\ UNCHANGED <<config, cl, source, taken, front, got, record>>
        /\ relaying(s) /\ front[s] = << >> /\ (finished(s) \/ broken(s))
        /\ result' = [result EXCEPT ![s] = IF breaks[s] THEN "error" ELSE "eof"]
        /\ phase' = IF s = "req" THEN "sent" ELSE "done"
    BY DEF RelayEnd
  <1> USE DEF config, source, record
  <1>2. TypeOK /\ SourceInv /\ SideInv(s) /\ RecordInv
    BY DEF Inv
  <1>3. /\ phase = IF s = "req" THEN "relayReq" ELSE "relayResp"
        /\ phase \notin Before(s) /\ phase' \notin Before(s)
        /\ ~capturing(s) /\ ~capturing(s)'
    BY <1>1 DEF Before, capturing, relaying, Sides
  <1>4. result \in [Sides -> {"open", "eof", "error"}]
    BY <1>2 DEF TypeOK
  <1>5. /\ result' \in [Sides -> {"open", "eof", "error"}]
        /\ result'[s] = (IF breaks[s] THEN "error" ELSE "eof")
        /\ \A t \in Sides : t # s => result'[t] = result[t]
    BY <1>1, <1>4
  <1>6. TypeOK'
    BY <1>1, <1>2, <1>5 DEF TypeOK
  <1>7. SourceInv'
    BY <1>1, SourceFrame
  <1>8. SideInv(s)'
    <2>1. BytesInv(s)' /\ (Len(got'[s]) + Len(front'[s]) = taken'[s] \/ Lost(s)')
      BY <1>1, <1>2, <1>3 DEF SideInv, BytesInv, Lost
    <2>2. front'[s] = << >> /\ ended'[s] /\ taken'[s] = made'[s]
      BY <1>1 DEF finished, broken
    <2>3. result'[s] = "eof" => ~breaks'[s]
      BY <1>1, <1>5
    <2> QED BY <1>3, <2>1, <2>2, <2>3 DEF SideInv, Before
  <1>9. ASSUME NEW t \in Sides, t # s PROVE SideInv(t)'
    <2>1. ~capturing(t) /\ ~capturing(t)' /\ (phase' \in Before(t) <=> phase \in Before(t))
      BY <1>1, <1>3, <1>9 DEF capturing, Before, Sides
    <2>2. SideInv(t)
      BY DEF Inv
    <2> QED BY <1>1, <1>5, <1>9, <2>1, <2>2, SideFrame
  <1>10. RecordInv'
    <2>1. "resp" \in Sides
      BY DEF Sides
    <2>2. CASE s = "req"
      <3>1. result'["resp"] = result["resp"] /\ phase = "relayReq" /\ phase' = "sent"
        BY <1>1, <1>3, <1>5, <2>1, <2>2
      <3> QED BY <1>1, <1>2, <3>1 DEF RecordInv, Before
    <2>3. CASE s # "req"
      <3>1. phase = "relayResp" /\ phase' = "done"
        BY <1>1, <1>3, <2>3
      <3> QED BY <1>1, <1>2, <3>1 DEF RecordInv, Before
    <2> QED BY <2>2, <2>3
  <1>11. ContentInv'
    BY <1>1, ContentFrame
  <1> QED BY <1>6, <1>7, <1>8, <1>9, <1>10, <1>11 DEF Inv

LEMMA RoundTripStep ==
  ASSUME Inv, RoundTrip
  PROVE  Inv'
  <1>1. /\ UNCHANGED <<config, cl, source, taken, front, got, result, record>>
        /\ phase = "sent" /\ phase' \in {"response", "done"}
    BY DEF RoundTrip
  <1> USE DEF config, source, record
  <1>2. SideInv("req") /\ SideInv("resp") /\ "req" \in Sides /\ "resp" \in Sides
    BY DEF Inv, Sides
  <1>3. TypeOK'
    BY <1>1 DEF Inv, TypeOK
  <1>4. SourceInv'
    BY <1>1, SourceFrame
  <1>5. SideInv("req")'
    <2>1. ~capturing("req") /\ ~capturing("req")'
      BY <1>1 DEF capturing
    <2>2. phase' \notin Before("req") /\ phase \notin Before("req")
      BY <1>1 DEF Before
    <2> QED BY <1>1, <1>2, <2>1, <2>2, SideFrame
  <1>6. SideInv("resp")'
    <2>1. phase \in Before("resp") /\ ~capturing("resp") /\ ~capturing("resp")'
      BY <1>1 DEF capturing, Before
    <2>2. /\ got["resp"] = << >> /\ front["resp"] = << >>
          /\ result["resp"] = "open" /\ taken["resp"] = 0
      BY <1>2, <2>1 DEF SideInv
    <2>3. /\ got'["resp"] = << >> /\ front'["resp"] = << >>
          /\ result'["resp"] = "open" /\ taken'["resp"] = 0
      BY <1>1, <2>2
    <2>4. BytesInv("resp")' /\ Len(got'["resp"]) + Len(front'["resp"]) = taken'["resp"]
      BY <2>3 DEF BytesInv
    <2> QED BY <2>1, <2>3, <2>4 DEF SideInv
  <1>7. RecordInv'
    <2>1. result["resp"] = "open"
      BY <1>1, <1>2 DEF SideInv, Before
    <2> QED BY <1>1, <2>1 DEF Inv, RecordInv, Before
  <1>8. ContentInv'
    BY <1>1, ContentFrame
  <1> QED BY <1>3, <1>4, <1>5, <1>6, <1>7, <1>8 DEF Inv, Sides

(* An entry as push makes it.                                              *)
LEMMA EntryTyped ==
  ASSUME NEW a \in Lens \cup {Nil}, NEW b \in Lens \cup {Nil}
  PROVE  LET e == [req |-> a, resp |-> b]
         IN  /\ e \in [req : Lens \cup {Nil}, resp : Lens \cup {Nil}]
             /\ e.req = a /\ e.resp = b
  OBVIOUS

LEMMA handleResponseStep ==
  ASSUME Inv, handleResponse
  PROVE  Inv'
  <1>1. /\ UNCHANGED <<config, cl, source, taken, front, got, result, reqBody>>
        /\ phase = "response"
        /\ \/ ~wants /\ phase' = "relayResp" /\ UNCHANGED record
           \/ wants /\ phase' = "relayResp" /\ push(Nil)
           \/ wants /\ phase' = "captureResp" /\ UNCHANGED record
    BY DEF handleResponse, push, record
  <1> USE DEF config, source, record
  <1>2. /\ SideInv("req") /\ SideInv("resp") /\ "req" \in Sides /\ "resp" \in Sides
        /\ TypeOK /\ SourceInv /\ RecordInv /\ ContentInv
    BY DEF Inv, Sides
  <1>3. /\ pushes = 0 /\ entry = Nil /\ reqBody \in Lens \cup {Nil}
        /\ result["resp"] = "open"
    BY <1>1, <1>2 DEF RecordInv, Before, TypeOK, SideInv
  <1> DEFINE e == [req |-> reqBody, resp |-> Nil]
  <1>e. /\ e \in [req : Lens \cup {Nil}, resp : Lens \cup {Nil}]
        /\ e.req = reqBody /\ e.resp = Nil
    BY <1>3, EntryTyped
  <1>p. push(Nil) => pushes' = pushes + 1 /\ entry' = e
    BY DEF push
  <1> HIDE DEF e
  <1>4. /\ \/ pushes' = 1 /\ entry' = e
           \/ pushes' = 0 /\ entry' = Nil
        /\ phase' \in {"captureResp", "relayResp"}
        /\ phase' = "captureResp" => wants /\ pushes' = 0
        /\ ~wants => pushes' = 0
        /\ phase' = "relayResp" /\ wants => pushes' = 1
    <2>1. CASE wants /\ phase' = "relayResp" /\ push(Nil)
      <3>1. pushes' = 1 /\ entry' = e
        <4>1. pushes' = pushes + 1 /\ entry' = e
          BY <1>p, <2>1
        <4> QED BY <1>3, <4>1
      <3> QED BY <2>1, <3>1
    <2>2. CASE ~wants /\ phase' = "relayResp" /\ UNCHANGED record
      BY <1>3, <2>2
    <2>3. CASE wants /\ phase' = "captureResp" /\ UNCHANGED record
      BY <1>3, <2>3
    <2> QED BY <1>1, <2>1, <2>2, <2>3
  <1>5. TypeOK'
    <2>1. entry' \in [req : Lens \cup {Nil}, resp : Lens \cup {Nil}] \cup {Nil}
      BY <1>4, <1>e
    <2>2. pushes' \in Nat
      <3>1. pushes' = 0 \/ pushes' = 1
        BY <1>4
      <3> QED BY <3>1
    <2>3. phase' \in {"captureResp", "relayResp"}
      BY <1>4
    <2> QED BY <1>1, <1>2, <2>1, <2>2, <2>3 DEF TypeOK
  <1>6. SourceInv'
    BY <1>1, SourceFrame
  <1>7. SideInv("req")'
    <2>1. ~capturing("req") /\ ~capturing("req")'
      BY <1>1 DEF capturing
    <2>2. phase' \notin Before("req") /\ phase \notin Before("req")
      BY <1>1 DEF Before
    <2> QED BY <1>1, <1>2, <2>1, <2>2, SideFrame
  <1>8. SideInv("resp")'
    <2>1. phase \in Before("resp") /\ ~capturing("resp")
      BY <1>1 DEF capturing, Before
    <2>2. /\ got["resp"] = << >> /\ front["resp"] = << >>
          /\ result["resp"] = "open" /\ taken["resp"] = 0
      BY <1>2, <2>1 DEF SideInv
    <2>3. /\ got'["resp"] = << >> /\ front'["resp"] = << >>
          /\ result'["resp"] = "open" /\ taken'["resp"] = 0
      BY <1>1, <2>2
    <2>4. BytesInv("resp")' /\ Len(got'["resp"]) + Len(front'["resp"]) = taken'["resp"]
      BY <2>3 DEF BytesInv
    <2>5. Bound("resp") \in Nat /\ Bound("resp")' = Bound("resp")
      BY <1>1, <1>2, BoundTyped DEF TypeOK, Bound
    <2>6. taken'["resp"] <= Bound("resp")'
      BY <2>3, <2>5
    <2>7. capturing("resp")' => wants'
      BY <1>1 DEF capturing
    <2> QED BY <2>3, <2>4, <2>6, <2>7 DEF SideInv
  <1>9. RecordInv'
    <2>1. UNCHANGED <<cl, total, breaks, wants, reqBody, result>>
      BY <1>1
    <2>2. /\ phase' \notin Before("req")
          /\ phase' \in Before("resp") <=> phase' = "captureResp"
      BY <1>4 DEF Before
    <2>3. /\ cl' \in {-1, total'["resp"] + (IF breaks'["resp"] THEN 1 ELSE 0)}
          /\ result'["resp"] = "open"
      BY <1>1, <1>2, <1>3, <2>1 DEF RecordInv, Before
    <2>4. /\ phase' = "captureResp" => pushes' = 0 /\ entry' = Nil
          /\ pushes' = 0 => entry' = Nil
          /\ pushes' \in {0, 1}
      <3>1. pushes' = 1 \/ (pushes' = 0 /\ entry' = Nil)
        BY <1>4
      <3>2. phase' = "captureResp" => pushes' = 0
        BY <1>4
      <3>3. pushes' \in Int
        BY <3>1
      <3>4. pushes' = 0 => entry' = Nil
        BY <3>1, <3>3
      <3> QED BY <3>1, <3>2, <3>4
    <2>5. /\ ~wants' => pushes' = 0
          /\ phase' = "relayResp" /\ wants' => pushes' = 1
      BY <1>4, <2>1
    <2> QED BY <2>2, <2>3, <2>4, <2>5 DEF RecordInv, Before
  <1>10. ContentInv'
    <2>1. Representable("req") => reqBody \in {Nil, total["req"]}
      BY <1>2 DEF ContentInv
    <2>2. entry' # Nil => entry'.req = reqBody /\ entry'.resp = Nil
      BY <1>4, <1>e
    <2> QED BY <1>1, <1>2, <2>1, <2>2 DEF ContentInv, FramingExact, Representable
  <1> QED BY <1>5, <1>6, <1>7, <1>8, <1>9, <1>10 DEF Inv, Sides

(* After the read of a response, whether it is recorded or broke off, what *)
(* was read is in front of the rest.                                       *)
LEMMA Rewired ==
  ASSUME TypeOK, SourceInv, SideInv("req"), SideInv("resp"),
         phase = "captureResp", phase' = "relayResp",
         front' = [front EXCEPT !["resp"] = consumed("resp")],
         UNCHANGED <<config, source, taken, got, result>>
  PROVE  /\ front' \in [Sides -> Seq(Lens)]
         /\ SideInv("req")' /\ SideInv("resp")'
         /\ result'["resp"] = "open"
  <1> USE DEF config, source
  <1>1. "req" \in Sides /\ "resp" \in Sides
    BY DEF Sides
  <1>2. taken["resp"] \in Lens /\ front \in [Sides -> Seq(Lens)]
    BY <1>1 DEF TypeOK
  <1>3. /\ consumed("resp") \in Seq(Lens) /\ Len(consumed("resp")) = taken["resp"]
        /\ \A i \in 1 .. taken["resp"] : consumed("resp")[i] = i
    BY <1>2, ConsumedTyped DEF consumed
  <1>4. /\ front' \in [Sides -> Seq(Lens)] /\ front'["resp"] = consumed("resp")
        /\ front'["req"] = front["req"]
    BY <1>1, <1>2, <1>3
  <1>5. got["resp"] = << >> /\ result["resp"] = "open"
    BY DEF SideInv, Before
  <1>6. got'["resp"] = << >> /\ result'["resp"] = "open" /\ Len(got'["resp"]) = 0
    BY <1>5
  <1>7. SideInv("resp")'
    <2>1. BytesInv("resp")'
      <3>1. Len(front'["resp"]) = taken["resp"]
        BY <1>3, <1>4
      <3>2. \A i \in 1 .. taken["resp"] : front'["resp"][i] = i /\ 0 + i = i
        BY <1>2, <1>3, <1>4, LensTyped
      <3> QED BY <1>6, <3>1, <3>2 DEF BytesInv
    <2>2. phase' \notin Before("resp") /\ ~capturing("resp")'
      BY DEF Before, capturing
    <2>3. taken'["resp"] = taken["resp"] /\ taken["resp"] \in Nat
      BY <1>2, LensTyped
    <2>4. Len(got'["resp"]) + Len(front'["resp"]) = taken'["resp"]
      <3>1. Len(front'["resp"]) = taken["resp"] /\ 0 + taken["resp"] = taken["resp"]
        BY <1>3, <1>4, <2>3
      <3> QED BY <1>6, <2>3, <3>1
    <2> QED BY <1>6, <2>1, <2>2, <2>4 DEF SideInv, Before
  <1>8. SideInv("req")'
    <2>1. ~capturing("req") /\ ~capturing("req")'
      BY DEF capturing
    <2>2. phase' \notin Before("req") /\ phase \notin Before("req")
      BY DEF Before
    <2> QED BY <1>1, <1>4, <2>1, <2>2, SideFrame
  <1> QED BY <1>4, <1>6, <1>7, <1>8

LEMMA ResponseBrokeStep ==
  ASSUME Inv, ResponseBroke
  PROVE  Inv'
  <1>1. /\ UNCHANGED <<config, cl, source, taken, got, result, record>>
        /\ front' = [front EXCEPT !["resp"] = consumed("resp")]
        /\ broken("resp") /\ phase' = "relayResp" /\ phase = "captureResp"
    BY DEF ResponseBroke, ReadBroke, capturing
  <1> USE DEF config, source, record
  <1>2. TypeOK /\ SourceInv /\ SideInv("req") /\ SideInv("resp")
    BY DEF Inv, Sides
  <1>3. front' \in [Sides -> Seq(Lens)] /\ SideInv("req")' /\ SideInv("resp")'
        /\ result'["resp"] = "open"
    BY <1>1, <1>2, Rewired
  <1>4. TypeOK'
    BY <1>1, <1>2, <1>3 DEF TypeOK
  <1>5. SourceInv'
    BY <1>1, SourceFrame
  <1>6. RecordInv'
    BY <1>1, <1>3 DEF Inv, RecordInv, Before, broken
  <1>7. ContentInv'
    BY <1>1, ContentFrame
  <1> QED BY <1>3, <1>4, <1>5, <1>6, <1>7 DEF Inv, Sides

(* A read that is over has reached the end of the body, or its bound; the  *)
(* latter is told apart by captureExceededLimit and by overLimit, unless   *)
(* limit + 1 overflows.                                                    *)
LEMMA WholeOrCut ==
  ASSUME TypeOK, SourceInv, RecordInv, phase = "captureResp",
         taken["resp"] = Bound("resp") \/ taken["resp"] = total["resp"],
         Representable("resp")
  PROVE  /\ ~captureExceededLimit(limit["resp"], cl, taken["resp"]) =>
              taken["resp"] = total["resp"]
         /\ \/ CaptureResponse(limit["resp"], taken["resp"]) \in {Nil, total["resp"]}
            \/ /\ limit["resp"] <= 0
               /\ captureExceededLimit(limit["resp"], cl, taken["resp"])
               /\ CaptureResponse(limit["resp"], taken["resp"]) = SafetyCap
  <1>1. "resp" \in Sides /\ cl \in Lens \cup {-1} /\ cl \in Int
    <2>1. cl \in Lens \cup {-1}
      BY DEF TypeOK
    <2>2. cl \in Int
      BY <2>1, LensTyped
    <2> QED BY <2>1, <2>2 DEF Sides
  <1>2. limit["resp"] \in Int
    BY <1>1, SideTyped
  <1>3. taken["resp"] \in Nat /\ taken["resp"] < MaxInt
    <2>1. /\ taken["resp"] \in Nat /\ made["resp"] \in Nat /\ total["resp"] \in Nat
          /\ taken["resp"] <= made["resp"] /\ made["resp"] <= total["resp"]
          /\ total["resp"] < MaxInt
      BY <1>1, SideTyped
    <2> QED BY <2>1, ConstantsTyped
  <1>4. /\ limit["resp"] > 0 => Bound("resp") = limit["resp"] + 1
        /\ limit["resp"] <= 0 /\ cl >= 0 => Bound("resp") = MaxInt
        /\ limit["resp"] <= 0 /\ cl < 0 => Bound("resp") = SafetyCap
    BY <1>1, BoundTyped
  <1>5. CASE taken["resp"] = total["resp"]
    BY <1>5 DEF CaptureResponse, captureBody
  <1>6. CASE taken["resp"] # total["resp"]
    <2>1. taken["resp"] = Bound("resp")
      BY <1>6
    <2>2. CASE limit["resp"] > 0
      <3>1. taken["resp"] = limit["resp"] + 1 /\ limit["resp"] # MaxInt
        BY <1>4, <2>1, <2>2 DEF Representable
      <3>2. captureExceededLimit(limit["resp"], cl, taken["resp"])
        BY <2>2, <3>1 DEF captureExceededLimit, plusOne
      <3>3. overLimit(limit["resp"], taken["resp"])
        BY <1>2, <2>2, <3>1 DEF overLimit
      <3> QED BY <3>2, <3>3 DEF CaptureResponse
    <2>3. CASE limit["resp"] <= 0
      <3>1. cl < 0 /\ taken["resp"] = SafetyCap /\ ~(limit["resp"] > 0)
        <4>1. ~(limit["resp"] > 0)
          BY <1>2, <2>3
        <4>2. ~(cl >= 0)
          BY <1>3, <1>4, <2>1, <2>3, ConstantsTyped
        <4>3. cl < 0
          BY <1>1, <4>2
        <4> QED BY <1>4, <2>1, <2>3, <4>1, <4>3
      <3>2. captureExceededLimit(limit["resp"], cl, taken["resp"])
        BY <3>1 DEF captureExceededLimit
      <3>3. CaptureResponse(limit["resp"], taken["resp"]) \in {Nil, SafetyCap}
        BY <3>1 DEF CaptureResponse, captureBody
      <3> QED BY <2>3, <3>2, <3>3
    <2> QED BY <1>2, <2>2, <2>3
  <1> QED BY <1>5, <1>6

LEMMA ResponseCapturedStep ==
  ASSUME Inv, ResponseCaptured
  PROVE  Inv'
  <1> DEFINE b == CaptureResponse(limit["resp"], taken["resp"])
  <1> DEFINE e == [req |-> reqBody, resp |-> b]
  <1>1. /\ UNCHANGED <<config, source, taken, got, result, reqBody>>
        /\ taken["resp"] = Bound("resp") \/ finished("resp")
        /\ front' = [front EXCEPT !["resp"] = consumed("resp")]
        /\ cl' = IF captureExceededLimit(limit["resp"], cl, taken["resp"])
                 THEN -1 ELSE taken["resp"]
        /\ pushes' = pushes + 1 /\ entry' = e
        /\ phase' = "relayResp" /\ phase = "captureResp"
    BY DEF ResponseCaptured, ReadOver, capturing, push
  <1> USE DEF config, source
  <1>2. TypeOK /\ SourceInv /\ SideInv("req") /\ SideInv("resp") /\ RecordInv /\ ContentInv
    BY DEF Inv, Sides
  <1>3. front' \in [Sides -> Seq(Lens)] /\ SideInv("req")' /\ SideInv("resp")'
        /\ result'["resp"] = "open"
    BY <1>1, <1>2, Rewired
  <1>4. taken["resp"] \in Lens /\ reqBody \in Lens \cup {Nil}
    BY <1>2 DEF TypeOK, Sides
  <1>5. /\ e \in [req : Lens \cup {Nil}, resp : Lens \cup {Nil}]
        /\ e.req = reqBody /\ e.resp = b
    <2>1. b \in Lens \cup {Nil}
      BY <1>4 DEF CaptureResponse, captureBody
    <2> HIDE DEF b
    <2> QED BY <1>4, <2>1, EntryTyped
  <1> HIDE DEF e
  <1>6. pushes = 0 /\ wants
    BY <1>1, <1>2 DEF RecordInv, Before, SideInv, capturing
  <1>7. pushes' = 1 /\ wants'
    <2>1. pushes' = pushes + 1 /\ wants' = wants
      BY <1>1
    <2>2. pushes' = 1
      BY <1>6, <2>1
    <2> QED BY <1>6, <2>1, <2>2
  <1>8. TypeOK'
    <2>1. pushes' \in Nat
      BY <1>7
    <2>2. cl' \in Lens \cup {-1}
      BY <1>1, <1>4
    <2>3. entry' \in [req : Lens \cup {Nil}, resp : Lens \cup {Nil}] \cup {Nil}
      BY <1>1, <1>5
    <2> QED BY <1>1, <1>2, <1>3, <2>1, <2>2, <2>3 DEF TypeOK
  <1>9. SourceInv'
    BY <1>1, SourceFrame
  <1>10. RecordInv'
    <2>1. phase' \notin Before("req") /\ phase' \notin Before("resp")
      BY <1>1 DEF Before
    <2>2. pushes' \in {0, 1} /\ pushes' # 0
      BY <1>7
    <2> QED BY <1>3, <1>7, <2>1, <2>2 DEF RecordInv, Before
  <1>11. ContentInv'
    <2>1. Representable("resp") =>
            /\ cl' \in {-1, total["resp"]}
            /\ b \in {Nil, total["resp"]} \cup
                     (IF limit["resp"] <= 0 /\ cl' = -1 THEN {SafetyCap} ELSE {})
      <3>1. taken["resp"] = Bound("resp") \/ taken["resp"] = total["resp"]
        <4>1. finished("resp") => taken["resp"] = total["resp"]
          BY <1>2, SideTyped DEF finished, Sides
        <4> QED BY <1>1, <4>1
      <3> QED BY <1>1, <1>2, <3>1, WholeOrCut
    <2>2. Representable("req") => reqBody \in {Nil, total["req"]}
      BY <1>2 DEF ContentInv
    <2> HIDE DEF b
    <2>3. entry'.req = reqBody /\ entry'.resp = b
      BY <1>1, <1>5
    <2> QED BY <1>1, <2>1, <2>2, <2>3 DEF ContentInv, FramingExact, Representable
  <1> QED BY <1>3, <1>8, <1>9, <1>10, <1>11 DEF Inv, Sides

LEMMA NextInv == Inv /\ [Next]_vars => Inv'
  <1> SUFFICES ASSUME Inv, [Next]_vars PROVE Inv'
    OBVIOUS
  <1>1. CASE UNCHANGED vars
    <2>1. TypeOK' /\ SourceInv'
      BY <1>1 DEF Inv, TypeOK, SourceInv, vars
    <2>2. ASSUME NEW s \in Sides PROVE SideInv(s)'
      <3>1. capturing(s)' <=> capturing(s)
        BY <1>1 DEF capturing, vars
      <3> QED BY <1>1, <3>1, SideFrame DEF Inv, vars
    <2>3. RecordInv' /\ ContentInv'
      BY <1>1 DEF Inv, RecordInv, Before, ContentInv, FramingExact, Representable, vars
    <2> QED BY <2>1, <2>2, <2>3 DEF Inv
  <1>2. CASE Next
    BY <1>2, SourceStep, handleRequestStep, RequestCapturedStep, RequestBrokeStep,
       RoundTripStep, handleResponseStep, ResponseCapturedStep, ResponseBrokeStep,
       ReadForCaptureStep, RelayStep, RelayEndStep
    DEF Next, Proxy
  <1> QED BY <1>1, <1>2

-----------------------------------------------------------------------------
(* The invariant holds throughout every exchange: any limits, lengths and  *)
(* framing, sources that pause, end or break off anywhere.                 *)
THEOREM Invariance == Spec => []Inv
  BY InitInv, NextInv, PTL DEF Spec

(* Counters and captured lengths are lengths, and no more is taken from a  *)
(* source than it has produced.                                            *)
THEOREM TypeCorrect == Spec => []TypeOK
  <1>1. Inv => TypeOK
    BY DEF Inv
  <1> QED BY <1>1, Invariance, PTL

(* The client loses no byte of a response and no complete request arrives  *)
(* short, whatever was read for capture and however that read ended.       *)
THEOREM NothingLost == Spec => []RelayComplete
  <1>1. ASSUME Inv PROVE RelayComplete
    <2> SUFFICES ASSUME NEW s \in Sides
                 PROVE  /\ got[s] = [i \in 1 .. Len(got[s]) |-> i]
                        /\ result[s] = "eof" \/ (s = "resp" /\ result[s] = "error") =>
                             Len(got[s]) = made[s]
      BY DEF RelayComplete
    <2>1. TypeOK /\ SourceInv /\ SideInv(s)
      BY <1>1 DEF Inv
    <2>2. got[s] \in Seq(Lens) /\ Len(got[s]) \in Nat
      BY <2>1, SideTyped
    <2>3. got[s] = [i \in 1 .. Len(got[s]) |-> i]
      BY <2>1, <2>2, Prefix DEF SideInv, BytesInv
    <2>4. ASSUME result[s] = "eof" \/ (s = "resp" /\ result[s] = "error")
          PROVE  Len(got[s]) = made[s]
      <3>1. result[s] # "open"
        BY <2>4
      <3>2. phase \notin Before(s) /\ ~Lost(s) /\ front[s] = << >> /\ taken[s] = made[s]
        BY <2>1, <2>4, <3>1 DEF SideInv, Lost
      <3>3. Len(got[s]) + Len(front[s]) = taken[s]
        BY <2>1, <3>2 DEF SideInv
      <3> QED BY <2>2, <3>2, <3>3
    <2> QED BY <2>3, <2>4
  <1> QED BY <1>1, Invariance, PTL

(* The client is told the length of what it gets, or none, for every limit *)
(* whose successor is an int64.                                            *)
THEOREM AnnouncedLength == Spec => [](limit["resp"] # MaxInt => FramingExact)
  <1>1. Inv => (limit["resp"] # MaxInt => FramingExact)
    BY DEF Inv, ContentInv, Representable
  <1> QED BY <1>1, Invariance, PTL

(* No body is kept in part, save that of a response of unknown length at   *)
(* the safety cap of an unlimited capture, for every pair of limits whose  *)
(* successors are int64s.                                                  *)
THEOREM KeptWhole ==
  Spec => []((\A s \in Sides : limit[s] # MaxInt) => StoredWhole)
  <1>1. Inv => ((\A s \in Sides : limit[s] # MaxInt) => StoredWhole)
    BY DEF Inv, ContentInv, StoredWhole, Representable, Sides
  <1> QED BY <1>1, Invariance, PTL

(* A capture buffer never exceeds its bound, the limits whose successor    *)
(* overflows included.                                                     *)
THEOREM BoundedCapture == Spec => []BufferBounded
  <1>1. ASSUME Inv PROVE BufferBounded
    <2>1. /\ SideInv("req") /\ SideInv("resp") /\ "req" \in Sides /\ "resp" \in Sides
          /\ TypeOK /\ SourceInv /\ cl \in Lens \cup {-1}
      BY <1>1 DEF Inv, Sides, TypeOK
    <2>2. /\ limit["req"] \in Int /\ limit["resp"] \in Int
          /\ taken["req"] \in Nat /\ taken["resp"] \in Nat
      BY <2>1, SideTyped
    <2>3. /\ phase = "captureReq" => taken["req"] <= Bound("req")
          /\ phase = "captureResp" => taken["resp"] <= Bound("resp")
      BY <2>1 DEF SideInv, capturing
    <2>4. /\ Bound("req") \in Nat /\ Bound("resp") \in Nat
          /\ limit["req"] > 0 => Bound("req") <= limit["req"] + 1
          /\ limit["resp"] > 0 => Bound("resp") <= limit["resp"] + 1
          /\ limit["resp"] <= 0 /\ cl < 0 => Bound("resp") = SafetyCap
      BY <2>1, BoundTyped
    <2>5. phase = "captureReq" /\ limit["req"] > 0 => taken["req"] <= limit["req"] + 1
      BY <2>2, <2>3, <2>4
    <2>6. ASSUME phase = "captureResp"
          PROVE  /\ limit["resp"] > 0 => taken["resp"] <= limit["resp"] + 1
                 /\ limit["resp"] <= 0 /\ cl < 0 => taken["resp"] <= SafetyCap
      BY <2>2, <2>3, <2>4, <2>6
    <2> QED BY <2>5, <2>6 DEF BufferBounded
  <1> QED BY <1>1, Invariance, PTL

(* A captured exchange that completes is recorded exactly once, and a      *)
(* filtered one never.                                                     *)
THEOREM RecordedExactlyOnce == Spec => []RecordedOnce
  <1>1. ASSUME Inv PROVE RecordedOnce
    <2>1. RecordInv /\ SideInv("resp")
      BY <1>1 DEF Inv, Sides
    <2>2. pushes <= 1
      <3>1. pushes \in {0, 1}
        BY <2>1 DEF RecordInv
      <3> QED BY <3>1
    <2>3. result["resp"] = "eof" => ~breaks["resp"]
      BY <2>1 DEF SideInv
    <2> QED BY <2>1, <2>2, <2>3 DEF RecordInv, RecordedOnce
  <1> QED BY <1>1, Invariance, PTL
=============================================================================
