------------------------- MODULE TransparentProofs --------------------------
(***************************************************************************)
(* Proofs about the ClientHello walk, for every sequence of bytes a peer   *)
(* can send and every length of the fixed part; and about Transparent, for *)
(* every set of clients, every buffer size, every way the bytes arrive and *)
(* every point at which a client leaves.                                   *)
(***************************************************************************)
EXTENDS Transparent, SequenceTheorems, WellFoundedInduction, TLAPS

-----------------------------------------------------------------------------
(* The ClientHello walk.                                                   *)

(* While the walk is in the extensions, they end within the data; while it *)
(* is in a server name list, the extension that holds the list ends within *)
(* the extensions, and the list within the extension.                      *)
Clamped ==
    /\ at \in {"extension", "names"} => end <= Len(data)
    /\ at = "names" => /\ offset + 4 <= end
                       /\ nameEnd <= nextExtension
                       /\ nextExtension <= end

HelloInv == HelloTypeOK /\ Clamped

-----------------------------------------------------------------------------
(* A byte read within the data is a byte.                                  *)
LEMMA ByteRead ==
  ASSUME HelloTypeOK, NEW i \in Nat, i + 1 <= Len(data)
  PROVE  byteAt(i) \in Nat
  <1>1. i + 1 \in 1 .. Len(data)
    BY LenProperties DEF HelloTypeOK
  <1>2. data[i + 1] \in Byte
    BY <1>1, ElementOfSeq DEF HelloTypeOK
  <1>3. \A b \in Byte : b \in Nat
    BY SMT DEF Byte
  <1> QED BY <1>2, <1>3 DEF byteAt

(* A length read within the data is a natural number.                     *)
LEMMA LengthRead ==
  ASSUME HelloTypeOK, NEW i \in Nat, i + 2 <= Len(data)
  PROVE  uint16At(i) \in Nat
  <1>1. byteAt(i) \in Nat /\ byteAt(i + 1) \in Nat
    <2>1. Len(data) \in Nat
      BY LenProperties DEF HelloTypeOK
    <2>2. i + 1 \in Nat /\ i + 1 <= Len(data) /\ (i + 1) + 1 <= Len(data)
      BY <2>1
    <2> QED BY <2>2, ByteRead
  <1> HIDE DEF byteAt
  <1> QED BY <1>1 DEF uint16At

LEMMA DataLength == HelloTypeOK => Len(data) \in Nat
  BY LenProperties DEF HelloTypeOK

(* The fields before the extensions keep the invariant: a field that is    *)
(* read at all gives a natural number to skip, and the walk does not reach *)
(* a loop through one of them.                                             *)
LEMMA FieldStep ==
  ASSUME HelloInv, NEW here, NEW width \in Nat, NEW skip,
         NEW next \in {"session", "ciphers", "compression", "length"},
         offset + width <= Len(data) => skip \in Nat,
         field(here, width, skip, next)
  PROVE  HelloInv'
  <1>1. offset' \in Nat
    BY DataLength DEF HelloInv, HelloTypeOK, field, giveUp
  <1>2. at' \in {"session", "ciphers", "compression", "length", "done"}
    BY DEF field, giveUp
  <1>3. UNCHANGED <<data, end, nameOffset, nameEnd, name>>
    BY DEF field
  <1> QED BY <1>1, <1>2, <1>3 DEF HelloInv, HelloTypeOK, Clamped

LEMMA FixedFields ==
  ASSUME HelloInv,
         \/ skipClientHelloVersionRandom \/ skipSessionID
         \/ skipCipherSuites \/ skipCompression
  PROVE  HelloInv'
  <1>1. offset \in Nat /\ HelloTypeOK
    BY DEF HelloInv, HelloTypeOK
  <1>2. CASE skipClientHelloVersionRandom
    BY <1>2, FieldStep, HelloAssumption DEF skipClientHelloVersionRandom
  <1>3. ASSUME offset + 1 <= Len(data) PROVE 1 + byteAt(offset) \in Nat
    BY <1>1, <1>3, ByteRead
  <1>4. CASE skipSessionID
    BY <1>3, <1>4, FieldStep DEF skipSessionID
  <1>5. CASE skipCompression
    BY <1>3, <1>5, FieldStep DEF skipCompression
  <1>6. ASSUME offset + 2 <= Len(data) PROVE 2 + uint16At(offset) \in Nat
    BY <1>1, <1>6, LengthRead
  <1>7. CASE skipCipherSuites
    BY <1>6, <1>7, FieldStep DEF skipCipherSuites
  <1> QED BY <1>2, <1>4, <1>5, <1>7

(* The end of the extensions block is clamped to the data.                 *)
LEMMA BlockStep ==
  ASSUME HelloInv, ExtensionsLength
  PROVE  HelloInv'
  <1>1. offset \in Nat /\ HelloTypeOK /\ Len(data) \in Nat
    BY DataLength DEF HelloInv, HelloTypeOK
  <1>2. CASE offset + 2 > Len(data)
    <2>1. at' = "done" /\ UNCHANGED <<data, offset, end, nameOffset, nameEnd, name>>
      BY <1>2 DEF ExtensionsLength, giveUp
    <2> QED BY <1>1, <2>1 DEF HelloInv, HelloTypeOK, Clamped
  <1>3. CASE offset + 2 <= Len(data)
    <2>1. uint16At(offset) \in Nat
      BY <1>1, <1>3, LengthRead
    <2>2. /\ at' = "extension"
          /\ offset' = offset + 2
          /\ end' = extensionsEnd(offset + 2)
          /\ UNCHANGED <<data, nameOffset, nameEnd, name>>
      BY <1>1, <1>3 DEF ExtensionsLength
    <2>3. end' \in Nat /\ end' <= Len(data)
      BY <1>1, <1>3, <2>1, <2>2 DEF extensionsEnd
    <2> QED BY <1>1, <2>2, <2>3 DEF HelloInv, HelloTypeOK, Clamped
  <1> QED BY <1>1, <1>2, <1>3

(* A server name extension is entered only if it fits in the block.        *)
LEMMA ExtensionStep ==
  ASSUME HelloInv, sniFromExtension
  PROVE  HelloInv'
  <1> DEFINE body   == offset + 4
             extLen == uint16At(offset + 2)
  <1>1. /\ offset \in Nat /\ end \in Nat /\ HelloTypeOK /\ Len(data) \in Nat
        /\ at = "extension" /\ body <= end /\ end <= Len(data)
    BY DataLength DEF HelloInv, HelloTypeOK, Clamped, sniFromExtension
  <1>2. extLen \in Nat
    <2>1. offset + 2 \in Nat /\ (offset + 2) + 2 <= Len(data)
      BY <1>1
    <2> QED BY <1>1, <2>1, LengthRead
  <1>3. CASE isSNIExtension(uint16At(offset), extLen, body)
    <2>1. extLen > 5 /\ body + extLen <= end
      BY <1>3 DEF isSNIExtension
    <2>2. uint16At(body) \in Nat
      <3>1. body \in Nat /\ body + 2 <= Len(data)
        BY <1>1, <1>2, <2>1
      <3> QED BY <1>1, <3>1, LengthRead
    <2>3. /\ at' = "names"
          /\ nameOffset' = body + 2
          /\ nameEnd' = clampServerNameListEnd(body + 2 + uint16At(body), body, extLen)
          /\ UNCHANGED <<data, offset, end, name>>
      BY <1>3 DEF sniFromExtension
    <2>4. nameEnd' \in Nat /\ nameEnd' <= body + extLen
      BY <1>1, <1>2, <2>2, <2>3 DEF clampServerNameListEnd
    <2>5. nextExtension' = body + extLen
      BY <2>3 DEF nextExtension, uint16At, byteAt
    <2>6. HelloTypeOK'
      BY <1>1, <2>3, <2>4 DEF HelloTypeOK
    <2> QED BY <1>1, <1>2, <2>1, <2>3, <2>4, <2>5, <2>6 DEF HelloInv, Clamped
  <1>4. CASE ~isSNIExtension(uint16At(offset), extLen, body)
    <2>1. /\ offset' = offset + 4 + extLen
          /\ UNCHANGED <<data, at, end, nameOffset, nameEnd, name>>
      BY <1>4 DEF sniFromExtension, nextExtension
    <2> QED BY <1>1, <1>2, <2>1 DEF HelloInv, HelloTypeOK, Clamped
  <1> QED BY <1>3, <1>4

(* The entries of a server name list.                                      *)
LEMMA NamesStep ==
  ASSUME HelloInv, sniFromServerNameList \/ NamesDone
  PROVE  HelloInv'
  <1>1. /\ HelloTypeOK /\ Len(data) \in Nat /\ at = "names"
        /\ offset \in Nat /\ end \in Nat /\ nameOffset \in Nat /\ nameEnd \in Nat
        /\ offset + 4 <= end /\ end <= Len(data)
        /\ nameEnd <= nextExtension /\ nextExtension <= end
    BY DataLength DEF HelloInv, HelloTypeOK, Clamped, sniFromServerNameList, NamesDone
  <1>2. nextExtension \in Nat
    <2>1. uint16At(offset + 2) \in Nat
      <3>1. offset + 2 \in Nat /\ (offset + 2) + 2 <= Len(data)
        BY <1>1
      <3> QED BY <1>1, <3>1, LengthRead
    <2> QED BY <1>1, <2>1 DEF nextExtension
  <1>3. nameEnd <= Len(data)
    BY <1>1, <1>2
  <1>4. CASE sniFromServerNameList
    <2> DEFINE nameLen == uint16At(nameOffset + 1)
               start   == nameOffset + 3
    <2>1. nameOffset + 3 <= nameEnd /\ UNCHANGED <<data, offset, end, nameEnd>>
      BY <1>4 DEF sniFromServerNameList
    <2>2. nameLen \in Nat
      <3>1. nameOffset + 1 \in Nat /\ (nameOffset + 1) + 2 <= Len(data)
        BY <1>1, <1>3, <2>1
      <3> QED BY <1>1, <3>1, LengthRead
    <2>3. UNCHANGED nextExtension
      BY <2>1 DEF nextExtension, uint16At, byteAt
    <2>4. CASE isDNSEntry(byteAt(nameOffset), nameLen, start)
      <3>1. nameLen > 0 /\ start + nameLen <= nameEnd
        BY <2>4 DEF isDNSEntry
      <3>2. /\ name' = SubSeq(data, start + 1, start + nameLen)
            /\ at' = "done" /\ UNCHANGED nameOffset
        BY <1>4, <2>4 DEF sniFromServerNameList
      <3>3. name' \in Seq(Byte)
        <4>1. start + 1 \in Int /\ start + nameLen \in Int
          BY <1>1, <2>2
        <4>2. \A i \in start + 1 .. start + nameLen : i \in 1 .. Len(data)
          BY <1>1, <1>3, <2>2, <3>1
        <4>3. data \in Seq(Byte)
          BY <1>1 DEF HelloTypeOK
        <4>4. \A i \in start + 1 .. start + nameLen : data[i] \in Byte
          BY <4>2, <4>3, ElementOfSeq
        <4> HIDE DEF start, nameLen
        <4>5. SubSeq(data, start + 1, start + nameLen) \in Seq(Byte)
          BY <4>1, <4>4, SubSeqProperties
        <4> QED BY <3>2, <4>5
      <3> QED BY <1>1, <2>1, <3>2, <3>3 DEF HelloInv, HelloTypeOK, Clamped
    <2>5. CASE ~isDNSEntry(byteAt(nameOffset), nameLen, start)
      <3>1. nameOffset' = start + nameLen /\ UNCHANGED <<at, name>>
        BY <1>4, <2>5 DEF sniFromServerNameList
      <3>2. HelloTypeOK'
        BY <1>1, <2>1, <2>2, <3>1 DEF HelloTypeOK
      <3> QED BY <1>1, <2>1, <2>3, <3>1, <3>2 DEF HelloInv, Clamped
    <2> QED BY <2>4, <2>5
  <1>5. CASE NamesDone
    <2>1. /\ at' = "extension" /\ offset' = nextExtension
          /\ UNCHANGED <<data, end, nameOffset, nameEnd, name>>
      BY <1>5 DEF NamesDone
    <2> QED BY <1>1, <1>2, <2>1 DEF HelloInv, HelloTypeOK, Clamped
  <1> QED BY <1>4, <1>5

-----------------------------------------------------------------------------
LEMMA HelloInitInv == HelloInit => HelloInv
  BY EmptySeq DEF HelloInit, HelloInv, HelloTypeOK, Clamped

LEMMA HelloNextInv == HelloInv /\ [HelloNext]_helloVars => HelloInv'
  <1> SUFFICES ASSUME HelloInv, [HelloNext]_helloVars PROVE HelloInv'
    OBVIOUS
  <1>1. ASSUME NEW d \in Seq(Byte), parseClientHello(d) PROVE HelloInv'
    BY <1>1 DEF parseClientHello, HelloInv, HelloTypeOK, Clamped
  <1>2. CASE HandshakeType
    <2>1. /\ at' \in {"random", "done"} /\ offset' \in Nat
          /\ UNCHANGED <<data, end, nameOffset, nameEnd, name>>
      BY <1>2 DEF HandshakeType, giveUp, HelloInv, HelloTypeOK
    <2> QED BY <2>1 DEF HelloInv, HelloTypeOK, Clamped
  <1>3. CASE ExtensionsDone
    BY <1>3 DEF ExtensionsDone, giveUp, HelloInv, HelloTypeOK, Clamped
  <1>4. CASE UNCHANGED helloVars
    BY <1>4 DEF helloVars, HelloInv, HelloTypeOK, Clamped, nextExtension, uint16At, byteAt
  <1> QED BY <1>1, <1>2, <1>3, <1>4, FixedFields, BlockStep, ExtensionStep, NamesStep
          DEF HelloNext, ParseStep

(* The clamps are enough: every index the loops use is within the data.    *)
LEMMA ClampsBoundReads == HelloInv => ReadsInBounds
  <1> SUFFICES ASSUME HelloInv PROVE ReadsInBounds
    OBVIOUS
  <1>1. /\ HelloTypeOK /\ Len(data) \in Nat
        /\ offset \in Nat /\ end \in Nat /\ nameOffset \in Nat /\ nameEnd \in Nat
    BY DataLength DEF HelloInv, HelloTypeOK
  <1>2. ASSUME at = "extension", offset + 4 <= end
        PROVE  /\ offset + 4 <= Len(data)
               /\ isSNIExtension(uint16At(offset), uint16At(offset + 2), offset + 4)
                     => offset + 6 <= Len(data)
    <2>1. end <= Len(data)
      BY <1>2 DEF HelloInv, Clamped
    <2>2. uint16At(offset + 2) \in Nat
      <3>1. offset + 2 \in Nat /\ (offset + 2) + 2 <= Len(data)
        BY <1>1, <1>2, <2>1
      <3> QED BY <1>1, <3>1, LengthRead
    <2> QED BY <1>1, <1>2, <2>1, <2>2 DEF isSNIExtension
  <1>3. ASSUME at = "names"
        PROVE  /\ offset + 4 <= Len(data)
               /\ nameOffset + 3 <= nameEnd =>
                    /\ nameOffset + 3 <= Len(data)
                    /\ isDNSEntry(byteAt(nameOffset), uint16At(nameOffset + 1),
                                  nameOffset + 3)
                          => nameOffset + 3 + uint16At(nameOffset + 1) <= Len(data)
    <2>1. /\ end <= Len(data) /\ offset + 4 <= end
          /\ nameEnd <= nextExtension /\ nextExtension <= end
      BY <1>3 DEF HelloInv, Clamped
    <2>2. nextExtension \in Nat
      <3>1. offset + 2 \in Nat /\ (offset + 2) + 2 <= Len(data)
        BY <1>1, <2>1
      <3>2. uint16At(offset + 2) \in Nat
        BY <1>1, <3>1, LengthRead
      <3> QED BY <1>1, <3>2 DEF nextExtension
    <2>3. nameEnd <= Len(data)
      BY <1>1, <2>1, <2>2
    <2>4. ASSUME nameOffset + 3 <= nameEnd
          PROVE  uint16At(nameOffset + 1) \in Nat
      <3>1. nameOffset + 1 \in Nat /\ (nameOffset + 1) + 2 <= Len(data)
        BY <1>1, <2>3, <2>4
      <3> QED BY <1>1, <3>1, LengthRead
    <2> QED BY <1>1, <2>1, <2>3, <2>4 DEF isDNSEntry
  <1> QED BY <1>2, <1>3 DEF ReadsInBounds

(* Whatever bytes a peer sends, offsets stay natural numbers, and what the *)
(* walk takes for a name is a sequence of bytes of the record.             *)
THEOREM HelloTypeCorrect == HelloSpec => []HelloTypeOK
  <1>1. HelloInv => HelloTypeOK
    BY DEF HelloInv
  <1> QED BY <1>1, HelloInitInv, HelloNextInv, PTL DEF HelloSpec

(* Whatever bytes a peer sends, no read of the ClientHello walk leaves the *)
(* record (transparent_shared.go:193-257).                                 *)
THEOREM ReadsStayInBounds == HelloSpec => []ReadsInBounds
  BY ClampsBoundReads, HelloInitInv, HelloNextInv, PTL DEF HelloSpec

-----------------------------------------------------------------------------
(* Induction over the naturals, for a property given as a set.             *)
LEMMA NatSetInduction ==
  ASSUME NEW S, 0 \in S, \A n \in Nat : n \in S => n + 1 \in S
  PROVE  \A n \in Nat : n \in S
  <1> SUFFICES ASSUME Nat \ S # {} PROVE FALSE
    OBVIOUS
  <1>1. \E x \in Nat \ S : \A y \in Nat \ S : ~(<<y, x>> \in OpToRel(<, Nat))
    BY NatLessThanWellFounded, WFMin, Zenon
  <1>2. \A x, y \in Nat : y < x => <<y, x>> \in OpToRel(<, Nat)
    BY DEF OpToRel
  <1>3. PICK x \in Nat \ S : \A y \in Nat \ S : ~(y < x)
    BY <1>1, <1>2, Zenon
  <1>4. x # 0 /\ x - 1 \in Nat /\ x - 1 < x /\ (x - 1) + 1 = x
    OBVIOUS
  <1> QED BY <1>3, <1>4

(* The bytes m have the bytes p at offset a.                               *)
Holds(m, a, p) ==
    /\ a + Len(p) <= Len(m)
    /\ \A k \in 1 .. Len(p) : m[a + k] = p[k]

(* What a hello is written as: numbers, until it is known that they fit.   *)
Bytes == Seq(Nat)

(* A slice that agrees with a sequence is that sequence.                   *)
LEMMA SliceIs ==
  ASSUME NEW S, NEW s \in Seq(S), NEW d \in Seq(S), NEW a \in Nat,
         a + Len(d) <= Len(s), \A k \in 1 .. Len(d) : s[a + k] = d[k]
  PROVE  SubSeq(s, a + 1, a + Len(d)) = d
  <1> DEFINE l == Len(d)
             L == Len(s)
             t == SubSeq(s, a + 1, a + l)
  <1>1. l \in Nat /\ L \in Nat /\ a + l <= L
    BY LenProperties
  <1> HIDE DEF l, L
  <1>2. a + 1 \in Int /\ a + l \in Int /\ (a + l) - (a + 1) + 1 = l
    BY <1>1
  <1>3. \A k \in a + 1 .. a + l : k \in 1 .. L
    BY <1>1
  <1>4. \A k \in a + 1 .. a + l : s[k] \in S
    BY <1>3, ElementOfSeq DEF L
  <1>5. /\ t \in Seq(S)
        /\ Len(t) = IF a + 1 <= a + l THEN (a + l) - (a + 1) + 1 ELSE 0
        /\ \A k \in 1 .. (a + l) - (a + 1) + 1 : t[k] = s[(a + 1) + k - 1]
    BY <1>2, <1>4, SubSeqProperties
  <1>6. Len(t) = l
    BY <1>1, <1>5
  <1>7. \A k \in 1 .. l : (a + 1) + k - 1 = a + k
    BY <1>1
  <1>8. \A k \in 1 .. l : t[k] = d[k]
    BY <1>2, <1>5, <1>7 DEF l
  <1> HIDE DEF t
  <1>9. t = d
    BY <1>5, <1>6, <1>8, SeqEqual DEF l
  <1> QED BY <1>9 DEF t, l

(* A part of a concatenation is where it was put.                          *)
LEMMA HoldsConcat ==
  ASSUME NEW s \in Bytes, NEW t \in Bytes
  PROVE  /\ s \o t \in Bytes /\ Len(s \o t) = Len(s) + Len(t)
         /\ Len(s) \in Nat /\ Len(t) \in Nat
         /\ Holds(s \o t, 0, s) /\ Holds(s \o t, Len(s), t)
  <1>1. s \o t \in Bytes /\ Len(s \o t) = Len(s) + Len(t)
    BY ConcatProperties DEF Bytes
  <1>2. Len(s) \in Nat /\ Len(t) \in Nat
    BY LenProperties DEF Bytes
  <1>3. \A i \in 1 .. Len(s) + Len(t) :
           (s \o t)[i] = IF i <= Len(s) THEN s[i] ELSE t[i - Len(s)]
    BY ConcatProperties DEF Bytes
  <1>4. Holds(s \o t, 0, s)
    <2>1. \A k \in 1 .. Len(s) : 0 + k = k /\ k \in 1 .. Len(s) + Len(t) /\ k <= Len(s)
      BY <1>2
    <2>2. 0 + Len(s) <= Len(s) + Len(t)
      BY <1>2
    <2>3. \A k \in 1 .. Len(s) : (s \o t)[0 + k] = s[k]
      BY <1>3, <2>1
    <2> QED BY <1>1, <2>2, <2>3 DEF Holds
  <1>5. Holds(s \o t, Len(s), t)
    <2>1. \A k \in 1 .. Len(t) : /\ Len(s) + k \in 1 .. Len(s) + Len(t)
                                 /\ ~(Len(s) + k <= Len(s))
                                 /\ (Len(s) + k) - Len(s) = k
      BY <1>2
    <2>2. Len(s) + Len(t) <= Len(s) + Len(t)
      BY <1>2
    <2>3. \A k \in 1 .. Len(t) : (s \o t)[Len(s) + k] = t[k]
      BY <1>3, <2>1
    <2> QED BY <1>1, <2>2, <2>3 DEF Holds
  <1> QED BY <1>1, <1>2, <1>4, <1>5

(* A part of a part, at the sum of the two offsets.                        *)
LEMMA HoldsTrans ==
  ASSUME NEW m \in Bytes, NEW p \in Bytes, NEW q \in Bytes, NEW a \in Nat, NEW b \in Nat,
         Holds(m, a, p), Holds(p, b, q)
  PROVE  Holds(m, a + b, q)
  <1>1. Len(m) \in Nat /\ Len(p) \in Nat /\ Len(q) \in Nat
    BY LenProperties DEF Bytes
  <1>2. a + Len(p) <= Len(m) /\ b + Len(q) <= Len(p)
    BY DEF Holds
  <1>3. (a + b) + Len(q) <= Len(m)
    BY <1>1, <1>2
  <1>4. ASSUME NEW k \in 1 .. Len(q) PROVE m[(a + b) + k] = q[k]
    <2>1. b + k \in 1 .. Len(p) /\ a + (b + k) = (a + b) + k
      BY <1>1, <1>2
    <2>2. m[a + (b + k)] = p[b + k]
      BY <2>1 DEF Holds
    <2>3. p[b + k] = q[k]
      BY DEF Holds
    <2> QED BY <2>1, <2>2, <2>3
  <1> QED BY <1>3, <1>4 DEF Holds

(* The loop of FlattenSeq.                                                 *)
LEMMA FlattenLoop ==
  ASSUME NEW parts \in Seq(Bytes), Len(parts) > 0
  PROVE  \E f \in [1 .. Len(parts) -> Bytes] :
           /\ f[1] = parts[1]
           /\ \A n \in 2 .. Len(parts) : f[n] = f[n - 1] \o parts[n]
           /\ FlattenSeq(parts) = f[Len(parts)]
  <1> DEFINE N == Len(parts)
  <1>0. N \in Nat /\ N > 0 /\ \A n \in 1 .. N : parts[n] \in Bytes
    BY LenProperties, ElementOfSeq
  <1> DEFINE turn(b, n) == b \o parts[n]
  <1>01. \A b \in Bytes, n \in 1 .. N : turn(b, n) \in Bytes
    BY <1>0, HoldsConcat
  <1> HIDE DEF turn
  <1> DEFINE Loop(f, m) ==
               /\ f \in [1 .. m + 1 -> Bytes]
               /\ f[1] = parts[1]
               /\ \A n \in 2 .. m + 1 : f[n] = turn(f[n - 1], n)
             S == {m \in Nat : m + 1 <= N => \E f : Loop(f, m)}
  <1> HIDE DEF N
  <1>1. 0 \in S
    <2>1. ASSUME 0 + 1 <= N PROVE Loop([n \in 1 .. 0 + 1 |-> parts[1]], 0)
      BY <1>0, <2>1
    <2> HIDE DEF Loop
    <2> QED BY <2>1
  <1>2. ASSUME NEW m \in Nat, m \in S PROVE m + 1 \in S
    <2>9. m + 1 \in Nat
      OBVIOUS
    <2> SUFFICES ASSUME (m + 1) + 1 <= N PROVE \E f : Loop(f, m + 1)
      BY <2>9, Zenon
    <2>0. m + 1 <= N
      BY <1>0
    <2>1. PICK f : Loop(f, m)
      BY <1>2, <2>0, Zenon
    <2> DEFINE g == [n \in 1 .. (m + 1) + 1 |-> IF n <= m + 1 THEN f[n]
                                                ELSE turn(f[m + 1], m + 2)]
    <2>2. turn(f[m + 1], m + 2) \in Bytes
      BY <1>0, <1>01, <2>1
    <2>3. g \in [1 .. (m + 1) + 1 -> Bytes] /\ g[1] = parts[1]
      BY <2>1, <2>2
    <2>5. /\ \A n \in 1 .. m + 1 : g[n] = f[n]
          /\ g[(m + 1) + 1] = turn(f[m + 1], m + 2)
      OBVIOUS
    <2> HIDE DEF g
    <2>4. ASSUME NEW n \in 2 .. (m + 1) + 1
          PROVE  g[n] = turn(g[n - 1], n)
      <3>1. n - 1 \in 1 .. m + 1 /\ g[n - 1] = f[n - 1]
        BY <2>5
      <3>2. CASE n <= m + 1
        <4>1. n \in 2 .. m + 1 /\ n \in 1 .. m + 1
          BY <3>2
        <4>2. g[n] = f[n]
          BY <2>5, <4>1
        <4>3. f[n] = turn(f[n - 1], n)
          BY <2>1, <4>1
        <4> QED BY <3>1, <4>2, <4>3
      <3>3. CASE n = m + 2
        <4>1. n = (m + 1) + 1 /\ n - 1 = m + 1
          BY <3>3
        <4> QED BY <2>5, <3>1, <3>3, <4>1
      <3>4. n <= m + 1 \/ n = m + 2
        OBVIOUS
      <3> QED BY <3>2, <3>3, <3>4
    <2> QED BY <2>3, <2>4
  <1>3. \A n \in Nat : n \in S
    <2> HIDE DEF S
    <2> QED BY <1>1, <1>2, NatSetInduction
  <1>4. PICK f : Loop(f, N - 1)
    <2>1. N - 1 \in Nat /\ (N - 1) + 1 <= N
      BY <1>0
    <2> QED BY <1>3, <2>1, Zenon
  <1>41. /\ f \in [1 .. N -> Bytes]
         /\ f[1] = parts[1]
         /\ \A n \in 2 .. N : f[n] = turn(f[n - 1], n)
    <2>1. (N - 1) + 1 = N
      BY <1>0
    <2> QED BY <1>4, <2>1
  <1> DEFINE Turns(h) == h = [i \in 1 .. N |->
                                IF i = 1 THEN parts[i] ELSE turn(h[i - 1], i)]
             res == CHOOSE h : Turns(h)
  <1>5. Turns(f)
    BY <1>41, <1>0
  <1>6. Turns(res)
    BY <1>5
  <1>7. FlattenSeq(parts) = res[N]
    <2>1. N # 0
      BY <1>0
    <2>2. FlattenSeq(parts) = IF N = 0 THEN parts ELSE res[N]
      BY Zenon DEF FlattenSeq, N, turn
    <2> QED BY <2>1, <2>2
  <1> DEFINE E == {m \in Nat : m + 1 <= N => res[m + 1] = f[m + 1]}
  <1> HIDE DEF res
  <1>8. \A m \in Nat : m \in E
    <2>1. 0 \in E
      BY <1>0, <1>41, <1>6
    <2>2. ASSUME NEW m \in Nat, m \in E PROVE m + 1 \in E
      <3>1. ASSUME (m + 1) + 1 <= N PROVE res[(m + 1) + 1] = f[(m + 1) + 1]
        <4>1. res[m + 1] = f[m + 1]
          BY <1>0, <2>2, <3>1
        <4>2. (m + 1) + 1 \in 2 .. N /\ ((m + 1) + 1) - 1 = m + 1 /\ (m + 1) + 1 # 1
          BY <1>0, <3>1
        <4>3. res[(m + 1) + 1] = turn(res[m + 1], (m + 1) + 1)
          <5>1. (m + 1) + 1 \in 1 .. N
            BY <1>0, <4>2
          <5>2. res[(m + 1) + 1] = IF (m + 1) + 1 = 1 THEN parts[(m + 1) + 1]
                                   ELSE turn(res[((m + 1) + 1) - 1], (m + 1) + 1)
            BY <1>6, <5>1, Zenon
          <5> QED BY <4>2, <5>2
        <4>4. f[(m + 1) + 1] = turn(f[m + 1], (m + 1) + 1)
          BY <1>41, <4>2
        <4> QED BY <4>1, <4>3, <4>4
      <3> QED BY <3>1
    <2> HIDE DEF E
    <2> QED BY <2>1, <2>2, NatSetInduction
  <1>9. FlattenSeq(parts) = f[N]
    <2>1. N - 1 \in Nat /\ (N - 1) + 1 = N
      BY <1>0
    <2> QED BY <1>7, <1>8, <2>1
  <1> QED BY <1>41, <1>9 DEF N, turn

-----------------------------------------------------------------------------
(* Where the parts of a flattened sequence begin.                          *)
StartsAt(parts, pos) ==
    /\ pos \in [1 .. Len(parts) + 1 -> Nat]
    /\ pos[1] = 0
    /\ pos[Len(parts) + 1] = Len(FlattenSeq(parts))
    /\ \A i \in 1 .. Len(parts) : /\ pos[i + 1] = pos[i] + Len(parts[i])
                                 /\ Holds(FlattenSeq(parts), pos[i], parts[i])

starts(parts) == CHOOSE pos : StartsAt(parts, pos)

(* Every list of parts has start positions, in the order of the parts.     *)
LEMMA StartsExist ==
  ASSUME NEW parts \in Seq(Bytes)
  PROVE  FlattenSeq(parts) \in Bytes /\ StartsAt(parts, starts(parts))
  <1> DEFINE N == Len(parts)
  <1>1. N \in Nat /\ \A n \in 1 .. N : parts[n] \in Bytes /\ Len(parts[n]) \in Nat
    BY LenProperties, ElementOfSeq DEF Bytes
  <1>2. CASE N = 0
    <2>1. FlattenSeq(parts) = << >>
      <3>1. parts = << >>
        BY <1>2, EmptySeq
      <3> QED BY <1>2, <3>1 DEF FlattenSeq
    <2>2. << >> \in Bytes /\ Len(<< >>) = 0
      BY EmptySeq DEF Bytes
    <2>3. StartsAt(parts, [i \in 1 .. 1 |-> 0])
      BY <1>2, <2>1, <2>2 DEF StartsAt
    <2> QED BY <2>1, <2>2, <2>3 DEF starts
  <1>3. CASE N > 0
    <2>1. PICK f \in [1 .. N -> Bytes] :
             /\ f[1] = parts[1]
             /\ \A n \in 2 .. N : f[n] = f[n - 1] \o parts[n]
             /\ FlattenSeq(parts) = f[N]
      BY <1>3, FlattenLoop
    <2>2. \A n \in 1 .. N : f[n] \in Bytes /\ Len(f[n]) \in Nat
      BY <2>1, LenProperties DEF Bytes
    <2> DEFINE pos == [i \in 1 .. N + 1 |-> IF i = 1 THEN 0 ELSE Len(f[i - 1])]
    <2>3. /\ pos \in [1 .. N + 1 -> Nat] /\ pos[1] = 0
          /\ \A n \in 1 .. N : pos[n + 1] = Len(f[n]) /\ pos[n] \in Nat
      <3>1. \A i \in 1 .. N + 1 : i # 1 => i - 1 \in 1 .. N
        BY <1>1
      <3>2. \A n \in 1 .. N : n + 1 \in 1 .. N + 1 /\ n + 1 # 1 /\ (n + 1) - 1 = n /\ n \in 1 .. N + 1
        BY <1>1
      <3>3. 1 \in 1 .. N + 1
        BY <1>1
      <3> HIDE DEF N
      <3> QED BY <2>2, <3>1, <3>2, <3>3
    <2> HIDE DEF pos
    <2>4. \A n \in 1 .. N : /\ pos[n + 1] = pos[n] + Len(parts[n])
                            /\ Holds(f[n], pos[n], parts[n])
                            /\ n > 1 => Holds(f[n], 0, f[n - 1])
      <3> SUFFICES ASSUME NEW n \in 1 .. N
                   PROVE  /\ pos[n + 1] = pos[n] + Len(parts[n])
                          /\ Holds(f[n], pos[n], parts[n])
                          /\ n > 1 => Holds(f[n], 0, f[n - 1])
        OBVIOUS
      <3>1. CASE n = 1
        <4>1. /\ pos[1] = 0 /\ f[1] = parts[1] /\ pos[1 + 1] = Len(f[1])
              /\ Len(parts[1]) \in Nat
          BY <1>1, <2>1, <2>3, <3>1
        <4>2. Holds(f[1], 0, parts[1])
          <5>1. 0 + Len(parts[1]) <= Len(f[1]) /\ \A k \in 1 .. Len(parts[1]) : 0 + k = k
            BY <4>1
          <5> QED BY <4>1, <5>1 DEF Holds
        <4> QED BY <3>1, <4>1, <4>2
      <3>2. CASE n > 1
        <4>1. n \in 2 .. N /\ n - 1 \in 1 .. N /\ (n - 1) + 1 = n
          BY <1>1, <3>2
        <4>2. f[n] = f[n - 1] \o parts[n] /\ f[n - 1] \in Bytes /\ parts[n] \in Bytes
          BY <1>1, <2>1, <4>1
        <4>3. /\ Len(f[n]) = Len(f[n - 1]) + Len(parts[n])
              /\ Holds(f[n], 0, f[n - 1]) /\ Holds(f[n], Len(f[n - 1]), parts[n])
          BY <4>2, HoldsConcat
        <4>4. pos[n] = Len(f[n - 1]) /\ pos[n + 1] = Len(f[n])
          BY <2>3, <4>1
        <4> QED BY <4>3, <4>4
      <3> QED BY <1>1, <3>1, <3>2
    <2> DEFINE S == {n \in Nat : n + 1 <= N => \A i \in 1 .. n + 1 : Holds(f[n + 1], pos[i], parts[i])}
    <2> HIDE DEF N
    <2>5. 0 \in S
      <3>1. ASSUME NEW i \in 1 .. 0 + 1 PROVE i = 1
        OBVIOUS
      <3>2. 1 \in 1 .. N /\ 0 + 1 = 1
        BY <1>1, <1>3
      <3> QED BY <2>4, <3>1, <3>2
    <2>6. ASSUME NEW n \in Nat, n \in S PROVE n + 1 \in S
      <3> SUFFICES ASSUME (n + 1) + 1 <= N, NEW i \in 1 .. (n + 1) + 1
                   PROVE  Holds(f[(n + 1) + 1], pos[i], parts[i])
        OBVIOUS
      <3>1. /\ n + 1 \in 1 .. N /\ (n + 1) + 1 \in 1 .. N /\ (n + 1) + 1 > 1
            /\ ((n + 1) + 1) - 1 = n + 1 /\ i \in 1 .. N /\ n + 1 <= N
        BY <1>1
      <3>2. CASE i = (n + 1) + 1
        BY <2>4, <3>1, <3>2
      <3>3. CASE i # (n + 1) + 1
        <4>1. i \in 1 .. n + 1
          BY <3>3
        <4>2. Holds(f[n + 1], pos[i], parts[i])
          BY <2>6, <3>1, <4>1
        <4>3. Holds(f[(n + 1) + 1], 0, f[n + 1])
          BY <2>4, <3>1
        <4>4. pos[i] \in Nat /\ 0 + pos[i] = pos[i]
          BY <2>3, <3>1
        <4>5. Holds(f[(n + 1) + 1], 0 + pos[i], parts[i])
          BY <1>1, <2>2, <3>1, <4>2, <4>3, <4>4, HoldsTrans
        <4> QED BY <4>4, <4>5
      <3> QED BY <3>2, <3>3
    <2>7. \A n \in Nat : n \in S
      <3> HIDE DEF S
      <3> QED BY <2>5, <2>6, NatSetInduction
    <2>8. \A i \in 1 .. N : Holds(f[N], pos[i], parts[i])
      <3>1. N - 1 \in Nat /\ (N - 1) + 1 = N /\ N <= N
        BY <1>1, <1>3
      <3> QED BY <2>7, <3>1
    <2>9. N \in 1 .. N
      BY <1>1, <1>3
    <2>10. StartsAt(parts, pos)
      BY <2>1, <2>3, <2>4, <2>8, <2>9 DEF StartsAt, N
    <2>11. FlattenSeq(parts) \in Bytes
      BY <2>1, <2>2, <2>9
    <2> QED BY <2>10, <2>11 DEF starts
  <1> QED BY <1>1, <1>2, <1>3

-----------------------------------------------------------------------------
(* How the parts of a hello lie in its encoding.                           *)

(* The two bytes at offset a, as a number.                                 *)
u16(m, a) == m[a + 1] * 256 + m[a + 1 + 1]

LEMMA Pair ==
  ASSUME NEW a \in Nat, NEW b \in Nat
  PROVE  /\ <<a, b>> \in Bytes /\ Len(<<a, b>>) = 2
         /\ <<a, b>>[1] = a /\ <<a, b>>[2] = b
  BY DEF Bytes

LEMMA Single ==
  ASSUME NEW a \in Nat
  PROVE  <<a>> \in Bytes /\ Len(<<a>>) = 1 /\ <<a>>[1] = a
  BY DEF Bytes

(* The two bytes of a length give it back.                                 *)
LEMMA Halves ==
  ASSUME NEW n \in Nat
  PROVE  n \div 256 \in Nat /\ n % 256 \in Nat /\ (n \div 256) * 256 + (n % 256) = n
  <1> DEFINE q == n \div 256
             r == n % 256
  <1>1. q \in Nat
    OBVIOUS
  <1>2. r \in Nat
    OBVIOUS
  <1>3. r = n - 256 * q
    BY SMTT(10)
  <1> HIDE DEF q, r
  <1>4. q * 256 + r = n
    BY <1>1, <1>2, <1>3
  <1> QED BY <1>1, <1>2, <1>4, Zenon DEF q, r

LEMMA PairBytes ==
  ASSUME NEW n \in Nat
  PROVE  <<n \div 256, n % 256>> \in Bytes
  BY Halves, Pair

(* Two bytes at an offset are read as the number they were written for.    *)
LEMMA PairIn ==
  ASSUME NEW m \in Bytes, NEW a \in Nat, NEW n \in Nat,
         Holds(m, a, <<n \div 256, n % 256>>)
  PROVE  u16(m, a) = n /\ a + 2 <= Len(m)
  <1>1. n \div 256 \in Nat /\ n % 256 \in Nat /\ (n \div 256) * 256 + (n % 256) = n
    BY Halves
  <1> DEFINE p == <<n \div 256, n % 256>>
  <1>2. Len(p) = 2 /\ p[1] = n \div 256 /\ p[2] = n % 256
    BY <1>1, Pair
  <1> HIDE DEF p
  <1>3. Holds(m, a, p)
    BY DEF p
  <1>4. a + 2 <= Len(m) /\ m[a + 1] = p[1] /\ m[a + 2] = p[2]
    BY <1>2, <1>3 DEF Holds
  <1>5. a + 1 + 1 = a + 2
    OBVIOUS
  <1> QED BY <1>1, <1>2, <1>4, <1>5 DEF u16

(* A vector with a two-byte length: the length, then the content.          *)
LEMMA Vector16 ==
  ASSUME NEW b \in Bytes
  PROVE  /\ vector16(b) \in Bytes /\ Len(vector16(b)) = 2 + Len(b) /\ Len(b) \in Nat
         /\ Holds(vector16(b), 0, <<Len(b) \div 256, Len(b) % 256>>)
         /\ Holds(vector16(b), 2, b)
  <1>1. Len(b) \in Nat
    BY LenProperties DEF Bytes
  <1>2. /\ <<Len(b) \div 256, Len(b) % 256>> \in Bytes
        /\ Len(<<Len(b) \div 256, Len(b) % 256>>) = 2
    BY <1>1, Halves, Pair
  <1> DEFINE s == <<Len(b) \div 256, Len(b) % 256>>
             v == vector16(b)
  <1>3. v = s \o b
    BY Zenon DEF vector16
  <1> HIDE DEF s, v
  <1>4. s \in Bytes /\ Len(s) = 2
    BY <1>2 DEF s
  <1>5. v \in Bytes /\ Len(v) = 2 + Len(b) /\ Holds(v, 0, s) /\ Holds(v, 2, b)
    BY <1>3, <1>4, HoldsConcat
  <1> QED BY <1>1, <1>5, Zenon DEF s, v

(* The same, for a vector that is part of a message.                       *)
LEMMA Vector16In ==
  ASSUME NEW m \in Bytes, NEW b \in Bytes, NEW a \in Nat, Holds(m, a, vector16(b))
  PROVE  u16(m, a) = Len(b) /\ Holds(m, a + 2, b) /\ a + 2 + Len(b) <= Len(m)
  <1>1. /\ Len(b) \in Nat /\ vector16(b) \in Bytes
        /\ <<Len(b) \div 256, Len(b) % 256>> \in Bytes
    BY Vector16, Halves, Pair
  <1>2. Holds(m, a + 0, <<Len(b) \div 256, Len(b) % 256>>) /\ Holds(m, a + 2, b)
    BY <1>1, Vector16, HoldsTrans
  <1>3. a + 0 = a
    OBVIOUS
  <1>4. u16(m, a) = Len(b)
    BY <1>1, <1>2, <1>3, PairIn
  <1> QED BY <1>2, <1>4 DEF Holds

(* A vector with a one-byte length.                                        *)
LEMMA Vector8 ==
  ASSUME NEW b \in Bytes
  PROVE  /\ vector8(b) \in Bytes /\ Len(vector8(b)) = 1 + Len(b) /\ Len(b) \in Nat
         /\ Holds(vector8(b), 0, <<Len(b)>>)
  <1>1. Len(b) \in Nat
    BY LenProperties DEF Bytes
  <1>2. <<Len(b)>> \in Bytes /\ Len(<<Len(b)>>) = 1
    BY <1>1, Single
  <1> QED BY <1>1, <1>2, HoldsConcat DEF vector8

LEMMA SingleIn ==
  ASSUME NEW m \in Bytes, NEW n \in Nat, NEW a \in Nat, Holds(m, a, <<n>>)
  PROVE  m[a + 1] = n
  <1>1. Len(<<n>>) = 1 /\ <<n>>[1] = n /\ 1 \in 1 .. 1
    BY Single
  <1> QED BY <1>1 DEF Holds

(* The same, for a vector that is part of a message.                       *)
LEMMA Vector8In ==
  ASSUME NEW m \in Bytes, NEW b \in Bytes, NEW a \in Nat, Holds(m, a, vector8(b))
  PROVE  m[a + 1] = Len(b)
  <1>1. Len(b) \in Nat /\ vector8(b) \in Bytes /\ <<Len(b)>> \in Bytes
    BY Vector8, Single
  <1>2. Holds(m, a + 0, <<Len(b)>>)
    BY <1>1, Vector8, HoldsTrans
  <1>3. a + 0 = a
    OBVIOUS
  <1> QED BY <1>1, <1>2, <1>3, SingleIn

nameParts(e) == [j \in 1 .. Len(e.names) |-> nameEntry(e.names[j])]
extParts(h) == [i \in 1 .. Len(h.exts) |-> extension(h.exts[i])]

(* Where the fields, the extensions and the names of a hello start.        *)
sessionAt == 4 + VersionRandomLen
ciphersAt(h) == sessionAt + 1 + Len(h.session)
compressionAt(h) == ciphersAt(h) + 2 + Len(h.ciphers)
lengthAt(h) == compressionAt(h) + 1 + Len(h.compression)
extAt(h, i) == lengthAt(h) + 2 + starts(extParts(h))[i]
nameAt(h, i, j) == extAt(h, i) + 6 + starts(nameParts(h.exts[i]))[j]

LEMMA ByteSeq == ASSUME NEW s \in Seq(Byte) PROVE s \in Bytes /\ Len(s) \in Nat
  <1>1. Byte \subseteq Nat
    BY DEF Byte
  <1> QED BY <1>1, SeqMonotonic, LenProperties DEF Bytes

(* The fields of a hello are byte strings that fit their lengths.          *)
LEMMA HelloParts ==
  ASSUME NEW h \in Hello
  PROVE  /\ h.session \in Bytes /\ h.ciphers \in Bytes /\ h.compression \in Bytes
         /\ Len(h.exts) \in Nat
         /\ \A i \in 1 .. Len(h.exts) : h.exts[i] \in Extension
  <1>1. /\ h.session \in Seq(Byte) /\ h.ciphers \in Seq(Byte)
        /\ h.compression \in Seq(Byte) /\ h.exts \in Seq(Extension)
    BY DEF Hello
  <1> QED BY <1>1, ByteSeq, LenProperties, ElementOfSeq

(* So are those of an extension.                                           *)
LEMMA ExtensionParts ==
  ASSUME NEW e \in Extension
  PROVE  /\ e.type \in Nat /\ e.body \in Bytes /\ Len(e.names) \in Nat
         /\ \A j \in 1 .. Len(e.names) :
               /\ e.names[j].type \in Nat /\ e.names[j].host \in Bytes
               /\ e.names[j].host \in Seq(Byte)
  <1>1. /\ e.type \in Uint16 /\ e.body \in Seq(Byte)
        /\ e.names \in Seq(NameEntry)
    BY DEF Extension
  <1>2. \A j \in 1 .. Len(e.names) : e.names[j] \in NameEntry
    BY <1>1, ElementOfSeq, Zenon
  <1>3. \A j \in 1 .. Len(e.names) :
           e.names[j].type \in Byte /\ e.names[j].host \in Seq(Byte)
    BY <1>2 DEF NameEntry
  <1>4. \A b \in Byte : b \in Nat
    BY DEF Byte
  <1>5. e.body \in Bytes /\ \A j \in 1 .. Len(e.names) : e.names[j].host \in Bytes
    BY <1>1, <1>3, ByteSeq, Zenon
  <1>6. Len(e.names) \in Nat
    BY <1>1, LenProperties, Zenon
  <1>7. \A n \in Uint16 : n \in Nat
    BY DEF Uint16
  <1> QED BY <1>1, <1>3, <1>4, <1>5, <1>6, <1>7, Zenon

(* How a name entry, a name list, an extension and the block of all        *)
(* extensions are written.                                                 *)
LEMMA EntryWritten ==
  ASSUME NEW n, n.type \in Nat, n.host \in Bytes
  PROVE  /\ nameEntry(n) \in Bytes /\ Len(nameEntry(n)) = 3 + Len(n.host)
         /\ Holds(nameEntry(n), 0, <<n.type>>)
         /\ Holds(nameEntry(n), 1, vector16(n.host))
  <1>1. <<n.type>> \in Bytes /\ Len(<<n.type>>) = 1
    BY Single
  <1>2. /\ vector16(n.host) \in Bytes /\ Len(vector16(n.host)) = 2 + Len(n.host)
        /\ Len(n.host) \in Nat
    BY Vector16
  <1>3. 1 + (2 + Len(n.host)) = 3 + Len(n.host)
    BY <1>2
  <1> QED BY <1>1, <1>2, <1>3, HoldsConcat DEF nameEntry

(* The body of an extension.                                               *)
extBody(e) == IF e.type = 0 THEN vector16(FlattenSeq(nameParts(e))) ELSE e.body

LEMMA NamesWritten ==
  ASSUME NEW e \in Extension
  PROVE  /\ nameParts(e) \in Seq(Bytes) /\ Len(nameParts(e)) = Len(e.names)
         /\ FlattenSeq(nameParts(e)) \in Bytes
         /\ StartsAt(nameParts(e), starts(nameParts(e)))
  <1>1. \A j \in 1 .. Len(e.names) : nameEntry(e.names[j]) \in Bytes
    BY ExtensionParts, EntryWritten
  <1>2. nameParts(e) \in Seq(Bytes) /\ Len(nameParts(e)) = Len(e.names)
    BY <1>1, ExtensionParts, IsASeq DEF nameParts
  <1> QED BY <1>2, StartsExist

LEMMA ExtensionWritten ==
  ASSUME NEW e \in Extension
  PROVE  /\ extBody(e) \in Bytes /\ Len(extBody(e)) \in Nat
         /\ extension(e) \in Bytes /\ Len(extension(e)) = 4 + Len(extBody(e))
         /\ Holds(extension(e), 0, <<e.type \div 256, e.type % 256>>)
         /\ Holds(extension(e), 2, vector16(extBody(e)))
  <1>1. extBody(e) \in Bytes
    BY NamesWritten, ExtensionParts, Vector16 DEF extBody
  <1>2. extension(e) = <<e.type \div 256, e.type % 256>> \o vector16(extBody(e))
    BY DEF extension, extBody, nameParts
  <1>3. /\ <<e.type \div 256, e.type % 256>> \in Bytes
        /\ Len(<<e.type \div 256, e.type % 256>>) = 2
    BY ExtensionParts, Halves, Pair
  <1>4. /\ vector16(extBody(e)) \in Bytes
        /\ Len(vector16(extBody(e))) = 2 + Len(extBody(e))
        /\ Len(extBody(e)) \in Nat
    BY <1>1, Vector16
  <1>5. 2 + (2 + Len(extBody(e))) = 4 + Len(extBody(e))
    BY <1>4
  <1> DEFINE s == <<e.type \div 256, e.type % 256>>
             t == vector16(extBody(e))
  <1> HIDE DEF s, t
  <1>6. s \in Bytes /\ t \in Bytes /\ extension(e) = s \o t /\ Len(s) = 2
    BY <1>2, <1>3, <1>4, Zenon DEF s, t
  <1>7. /\ extension(e) \in Bytes /\ Len(extension(e)) = 2 + Len(t)
        /\ Holds(extension(e), 0, s) /\ Holds(extension(e), 2, t)
    BY <1>6, HoldsConcat
  <1> QED BY <1>1, <1>4, <1>5, <1>7, Zenon DEF s, t

LEMMA ExtensionsWritten ==
  ASSUME NEW h \in Hello
  PROVE  /\ extParts(h) \in Seq(Bytes) /\ Len(extParts(h)) = Len(h.exts)
         /\ FlattenSeq(extParts(h)) \in Bytes
         /\ StartsAt(extParts(h), starts(extParts(h)))
  <1>1. \A i \in 1 .. Len(h.exts) : extension(h.exts[i]) \in Bytes
    BY HelloParts, ExtensionWritten
  <1>2. extParts(h) \in Seq(Bytes) /\ Len(extParts(h)) = Len(h.exts)
    BY <1>1, HelloParts, IsASeq DEF extParts
  <1> QED BY <1>2, StartsExist

(* Where the parts of a concatenation begin.                               *)
LEMMA Concat5 ==
  ASSUME NEW a \in Bytes, NEW b \in Bytes, NEW c \in Bytes, NEW d \in Bytes, NEW e \in Bytes
  PROVE  LET m == a \o b \o c \o d \o e
         IN  /\ m \in Bytes
             /\ Len(m) = Len(a) + Len(b) + Len(c) + Len(d) + Len(e)
             /\ Holds(m, Len(a), b)
             /\ Holds(m, Len(a) + Len(b), c)
             /\ Holds(m, Len(a) + Len(b) + Len(c), d)
             /\ Holds(m, Len(a) + Len(b) + Len(c) + Len(d), e)
  <1>0. /\ Len(a) \in Nat /\ Len(b) \in Nat /\ Len(c) \in Nat /\ Len(d) \in Nat
        /\ Len(e) \in Nat
    BY LenProperties DEF Bytes
  <1> DEFINE p == a \o b
             q == p \o c
             r == q \o d
             m == r \o e
  <1>1. p \in Bytes /\ Len(p) = Len(a) + Len(b) /\ Holds(p, Len(a), b)
    BY HoldsConcat
  <1> HIDE DEF p
  <1>2. q \in Bytes /\ Len(q) = Len(p) + Len(c) /\ Holds(q, 0, p) /\ Holds(q, Len(p), c)
    BY <1>1, HoldsConcat
  <1> HIDE DEF q
  <1>3. r \in Bytes /\ Len(r) = Len(q) + Len(d) /\ Holds(r, 0, q) /\ Holds(r, Len(q), d)
    BY <1>2, HoldsConcat
  <1> HIDE DEF r
  <1>4. m \in Bytes /\ Len(m) = Len(r) + Len(e) /\ Holds(m, 0, r) /\ Holds(m, Len(r), e)
    BY <1>3, HoldsConcat
  <1> HIDE DEF m
  <1>5. \A n \in Nat : 0 + n = n
    OBVIOUS
  <1>6. Len(p) \in Nat /\ Len(q) \in Nat /\ Len(r) \in Nat
    BY <1>0, <1>1, <1>2, <1>3
  <1>7. Holds(m, 0 + Len(q), d)
    BY <1>3, <1>4, <1>6, HoldsTrans
  <1>8. Holds(m, 0 + 0, q)
    BY <1>2, <1>3, <1>4, HoldsTrans
  <1>10. Holds(m, 0, q)
    BY <1>8, <1>5
  <1>11. Holds(m, 0 + Len(p), c) /\ Holds(m, 0 + 0, p)
    BY <1>1, <1>2, <1>4, <1>6, <1>10, HoldsTrans
  <1>12. Holds(m, 0, p)
    BY <1>11, <1>5
  <1>13. Holds(m, 0 + Len(a), b)
    BY <1>0, <1>1, <1>4, <1>12, HoldsTrans
  <1>14. /\ Len(q) = Len(a) + Len(b) + Len(c)
         /\ Len(r) = Len(a) + Len(b) + Len(c) + Len(d)
         /\ Len(m) = Len(a) + Len(b) + Len(c) + Len(d) + Len(e)
    BY <1>0, <1>1, <1>2, <1>3, <1>4
  <1>15. /\ Holds(m, Len(a), b) /\ Holds(m, Len(p), c) /\ Holds(m, Len(q), d)
    BY <1>0, <1>5, <1>6, <1>7, <1>11, <1>13
  <1> QED BY <1>1, <1>4, <1>14, <1>15, Zenon DEF m, p, q, r

(* The fields before the extensions.                                       *)
LEMMA FieldsWritten ==
  ASSUME NEW h \in Hello
  PROVE  LET m == Encode(h)
             flat == FlattenSeq(extParts(h))
         IN  /\ m \in Bytes /\ Len(m) \in Nat /\ Len(m) > 0 /\ m[1] = 1
             /\ Len(h.session) \in Nat /\ m[sessionAt + 1] = Len(h.session)
             /\ Len(h.ciphers) \in Nat /\ u16(m, ciphersAt(h)) = Len(h.ciphers)
             /\ Len(h.compression) \in Nat
             /\ m[compressionAt(h) + 1] = Len(h.compression)
             /\ lengthAt(h) \in Nat
             /\ Len(flat) \in Nat /\ u16(m, lengthAt(h)) = Len(flat)
             /\ Len(m) = lengthAt(h) + 2 + Len(flat)
             /\ Holds(m, lengthAt(h) + 2, flat)
  <1> DEFINE m == Encode(h)
             flat == FlattenSeq(extParts(h))
             z == [i \in 1 .. VersionRandomLen |-> 0]
             b == helloBody(h)
             V == VersionRandomLen
  <1>1. z \in Bytes /\ Len(z) = V /\ V \in Nat
    <2>1. z \in [1 .. V -> Nat]
      OBVIOUS
    <2> QED BY <2>1, HelloAssumption, SeqDef DEF Bytes
  <1>2. flat \in Bytes /\ h.session \in Bytes /\ h.ciphers \in Bytes /\ h.compression \in Bytes
    BY ExtensionsWritten, HelloParts
  <1> DEFINE vs == vector8(h.session)
             vc == vector16(h.ciphers)
             vm == vector8(h.compression)
             ve == vector16(flat)
  <1>3. /\ vs \in Bytes /\ Len(vs) = 1 + Len(h.session) /\ Len(h.session) \in Nat
        /\ vm \in Bytes /\ Len(vm) = 1 + Len(h.compression) /\ Len(h.compression) \in Nat
    BY <1>2, Vector8
  <1>4. /\ vc \in Bytes /\ Len(vc) = 2 + Len(h.ciphers) /\ Len(h.ciphers) \in Nat
        /\ ve \in Bytes /\ Len(ve) = 2 + Len(flat) /\ Len(flat) \in Nat
    BY <1>2, Vector16
  <1>5. b = z \o vs \o vc \o vm \o ve
    BY Zenon DEF helloBody, extParts
  <1> HIDE DEF z, vs, vc, vm, ve, flat, b
  <1>6. /\ b \in Bytes
        /\ Len(b) = Len(z) + Len(vs) + Len(vc) + Len(vm) + Len(ve)
        /\ Holds(b, Len(z), vs)
        /\ Holds(b, Len(z) + Len(vs), vc)
        /\ Holds(b, Len(z) + Len(vs) + Len(vc), vm)
        /\ Holds(b, Len(z) + Len(vs) + Len(vc) + Len(vm), ve)
    <2>1. z \in Bytes /\ vs \in Bytes /\ vc \in Bytes /\ vm \in Bytes /\ ve \in Bytes
      BY <1>1, <1>3, <1>4
    <2> DEFINE c5 == z \o vs \o vc \o vm \o ve
    <2>2. /\ c5 \in Bytes
          /\ Len(c5) = Len(z) + Len(vs) + Len(vc) + Len(vm) + Len(ve)
          /\ Holds(c5, Len(z), vs)
          /\ Holds(c5, Len(z) + Len(vs), vc)
          /\ Holds(c5, Len(z) + Len(vs) + Len(vc), vm)
          /\ Holds(c5, Len(z) + Len(vs) + Len(vc) + Len(vm), ve)
      BY <2>1, Concat5
    <2>3. b = c5
      BY <1>5
    <2> HIDE DEF c5
    <2> QED BY <2>2, <2>3, Zenon
  <1> DEFINE head == <<1, 0>>
             vb == vector16(b)
  <1>7. head \in Bytes /\ Len(head) = 2 /\ head[1] = 1
    BY Pair
  <1>8. vb \in Bytes /\ Len(vb) = 2 + Len(b) /\ Len(b) \in Nat
    BY <1>6, Vector16
  <1>9. m = head \o vb
    BY Zenon DEF Encode, b
  <1> HIDE DEF m, vb, head
  <1>10. m \in Bytes /\ Len(m) = 2 + Len(vb) /\ Holds(m, 0, head) /\ Holds(m, 2, vb)
    BY <1>7, <1>8, <1>9, HoldsConcat
  <1>11. Len(m) \in Nat /\ Len(m) > 0 /\ Len(m) = 4 + Len(b)
    BY <1>8, <1>10
  <1>12. m[1] = 1
    <2>1. m[0 + 1] = head[1]
      BY <1>7, <1>10 DEF Holds
    <2> QED BY <1>7, <2>1
  <1>13. Holds(m, 2 + 2, b)
    BY <1>6, <1>10, Vector16In DEF vb
  <1>14. Holds(m, 4, b)
    BY <1>13
  <1> DEFINE s0 == sessionAt
             c0 == ciphersAt(h)
             m0 == compressionAt(h)
             l0 == lengthAt(h)
  <1>15. /\ s0 = 4 + Len(z) /\ c0 = 4 + (Len(z) + Len(vs))
         /\ m0 = 4 + (Len(z) + Len(vs) + Len(vc))
         /\ l0 = 4 + (Len(z) + Len(vs) + Len(vc) + Len(vm))
         /\ s0 \in Nat /\ c0 \in Nat /\ m0 \in Nat /\ l0 \in Nat
         /\ Len(z) \in Nat /\ Len(z) + Len(vs) \in Nat /\ Len(z) + Len(vs) + Len(vc) \in Nat
         /\ Len(z) + Len(vs) + Len(vc) + Len(vm) \in Nat
         /\ Len(m) = l0 + 2 + Len(flat)
    <2> DEFINE ls == Len(h.session)
               lc == Len(h.ciphers)
               lm == Len(h.compression)
               lf == Len(flat)
    <2>1. /\ V \in Nat /\ ls \in Nat /\ lc \in Nat /\ lm \in Nat /\ lf \in Nat
          /\ Len(z) = V /\ Len(vs) = 1 + ls /\ Len(vc) = 2 + lc /\ Len(vm) = 1 + lm
          /\ Len(ve) = 2 + lf
      BY <1>1, <1>3, <1>4
    <2>2. /\ s0 = 4 + V /\ c0 = s0 + 1 + ls /\ m0 = c0 + 2 + lc /\ l0 = m0 + 1 + lm
      BY DEF sessionAt, ciphersAt, compressionAt, lengthAt
    <2>3. /\ Len(b) = Len(z) + Len(vs) + Len(vc) + Len(vm) + Len(ve)
          /\ Len(m) = 4 + Len(b)
      BY <1>6, <1>11
    <2> HIDE DEF ls, lc, lm, lf, V, s0, c0, m0, l0
    <2> QED BY <2>1, <2>2, <2>3 DEF lf
  <1> HIDE DEF s0, c0, m0, l0
  <1>16. Holds(m, s0, vs) /\ Holds(m, c0, vc) /\ Holds(m, m0, vm) /\ Holds(m, l0, ve)
    <2>1. \A a \in Nat, v \in Bytes : Holds(b, a, v) => Holds(m, 4 + a, v)
      BY <1>6, <1>10, <1>14, HoldsTrans
    <2>2. vs \in Bytes /\ vc \in Bytes /\ vm \in Bytes /\ ve \in Bytes
      BY <1>3, <1>4
    <2>3. /\ Holds(m, 4 + Len(z), vs)
          /\ Holds(m, 4 + (Len(z) + Len(vs)), vc)
          /\ Holds(m, 4 + (Len(z) + Len(vs) + Len(vc)), vm)
          /\ Holds(m, 4 + (Len(z) + Len(vs) + Len(vc) + Len(vm)), ve)
      BY <1>6, <1>15, <2>1, <2>2, Zenon
    <2> QED BY <1>15, <2>3, Zenon
  <1>17. m[s0 + 1] = Len(h.session) /\ m[m0 + 1] = Len(h.compression)
    <2>1. \A a \in Nat, v \in Bytes : Holds(m, a, vector8(v)) => m[a + 1] = Len(v)
      BY <1>10, Vector8In
    <2> QED BY <1>2, <1>15, <1>16, <2>1, Zenon DEF vs, vm
  <1>18. u16(m, c0) = Len(h.ciphers) /\ u16(m, l0) = Len(flat) /\ Holds(m, l0 + 2, flat)
    <2>1. \A a \in Nat, v \in Bytes :
             Holds(m, a, vector16(v)) => u16(m, a) = Len(v) /\ Holds(m, a + 2, v)
      BY <1>10, Vector16In
    <2> QED BY <1>2, <1>15, <1>16, <2>1, Zenon DEF vc, ve
  <1> QED BY <1>3, <1>4, <1>10, <1>11, <1>12, <1>15, <1>17, <1>18 DEF s0, c0, m0, l0, flat, m

(* Positions within a part, as positions of the whole.                     *)
LEMMA Shifted ==
  ASSUME NEW base \in Nat, NEW n \in Nat, NEW pos \in [1 .. n + 1 -> Nat], pos[1] = 0
  PROVE  /\ base + pos[1] = base
         /\ \A i \in 1 .. n + 1 : base + pos[i] \in Nat /\ pos[i] \in Nat
  OBVIOUS

(* The extensions.                                                         *)
LEMMA ExtensionsLaid ==
  ASSUME NEW h \in Hello
  PROVE  LET m == Encode(h)
         IN  /\ extAt(h, 1) = lengthAt(h) + 2
             /\ extAt(h, Len(h.exts) + 1) = Len(m)
             /\ \A i \in 1 .. Len(h.exts) + 1 : extAt(h, i) \in Nat
             /\ \A i \in 1 .. Len(h.exts) :
                  LET e == h.exts[i]
                  IN  /\ Len(extBody(e)) \in Nat /\ extBody(e) \in Bytes
                      /\ extAt(h, i + 1) = extAt(h, i) + 4 + Len(extBody(e))
                      /\ u16(m, extAt(h, i)) = e.type
                      /\ u16(m, extAt(h, i) + 2) = Len(extBody(e))
                      /\ Holds(m, extAt(h, i) + 4, extBody(e))
  <1> DEFINE m == Encode(h)
             parts == extParts(h)
             flat == FlattenSeq(parts)
             pos == starts(parts)
             n == Len(h.exts)
             base == lengthAt(h) + 2
  <1>1. /\ m \in Bytes /\ base \in Nat /\ Len(flat) \in Nat
        /\ Len(m) = base + Len(flat) /\ Holds(m, base, flat)
    BY FieldsWritten
  <1>2. parts \in Seq(Bytes) /\ Len(parts) = n /\ flat \in Bytes /\ StartsAt(parts, pos)
    BY ExtensionsWritten
  <1>3. n \in Nat
    BY HelloParts
  <1> HIDE DEF m, flat, pos, base
  <1>4. /\ pos \in [1 .. n + 1 -> Nat] /\ pos[1] = 0 /\ pos[n + 1] = Len(flat)
        /\ \A i \in 1 .. n : /\ pos[i + 1] = pos[i] + Len(parts[i])
                              /\ Holds(flat, pos[i], parts[i])
    BY <1>2 DEF StartsAt, flat
  <1>5. \A i : extAt(h, i) = base + pos[i]
    BY DEF extAt, base, pos
  <1>51. /\ base + pos[1] = base /\ base + pos[n + 1] = Len(m)
         /\ \A i \in 1 .. n + 1 : base + pos[i] \in Nat /\ pos[i] \in Nat
    BY <1>1, <1>3, <1>4, Shifted, Zenon
  <1>6. extAt(h, 1) = base /\ extAt(h, n + 1) = Len(m)
    BY <1>5, <1>51, Zenon
  <1>7. \A i \in 1 .. n + 1 : extAt(h, i) \in Nat /\ pos[i] \in Nat
    BY <1>5, <1>51, Zenon
  <1>8. ASSUME NEW i \in 1 .. n
        PROVE  LET e == h.exts[i]
               IN  /\ Len(extBody(e)) \in Nat /\ extBody(e) \in Bytes
                   /\ extAt(h, i + 1) = extAt(h, i) + 4 + Len(extBody(e))
                   /\ u16(m, extAt(h, i)) = e.type
                   /\ u16(m, extAt(h, i) + 2) = Len(extBody(e))
                   /\ Holds(m, extAt(h, i) + 4, extBody(e))
    <2> DEFINE e == h.exts[i]
               a == extAt(h, i)
               x == extension(e)
    <2>1. e \in Extension
      BY HelloParts
    <2>2. parts[i] = x
      BY DEF extParts
    <2>3. /\ extBody(e) \in Bytes /\ Len(extBody(e)) \in Nat
          /\ x \in Bytes /\ Len(x) = 4 + Len(extBody(e))
          /\ Holds(x, 0, <<e.type \div 256, e.type % 256>>)
          /\ Holds(x, 2, vector16(extBody(e)))
      BY <2>1, ExtensionWritten
    <2>4. i \in 1 .. n + 1 /\ i + 1 \in 1 .. n + 1 /\ pos[i] \in Nat /\ a \in Nat
      BY <1>3, <1>7
    <2>5. e.type \in Nat
      BY <2>1, ExtensionParts
    <2>6. /\ <<e.type \div 256, e.type % 256>> \in Bytes
          /\ vector16(extBody(e)) \in Bytes
      BY <2>3, <2>5, PairBytes, Vector16, Zenon
    <2> HIDE DEF e, x
    <2>7. Holds(flat, pos[i], x) /\ pos[i + 1] = pos[i] + Len(x)
      BY <1>4, <2>2
    <2>8. Holds(m, base + pos[i], x)
      BY <1>1, <1>2, <2>3, <2>4, <2>7, HoldsTrans
    <2>9. a = base + pos[i]
      BY <1>5
    <2>16. extAt(h, i + 1) = a + 4 + Len(extBody(e))
      <3>1. extAt(h, i + 1) = base + pos[i + 1]
        BY <1>5
      <3>2. Len(x) = 4 + Len(extBody(e))
        BY <2>3
      <3>3. base + (pos[i] + (4 + Len(extBody(e)))) = (base + pos[i]) + 4 + Len(extBody(e))
        <4> DEFINE p == pos[i]
                   l == Len(extBody(e))
        <4>1. p \in Nat /\ l \in Nat /\ base \in Nat
          BY <1>1, <2>3, <2>4
        <4> HIDE DEF p, l
        <4>2. base + (p + (4 + l)) = (base + p) + 4 + l
          BY <4>1
        <4> QED BY <4>2 DEF p, l
      <3> QED BY <2>7, <2>9, <3>1, <3>2, <3>3, Zenon
    <2> HIDE DEF a
    <2>10. Holds(m, a, x)
      BY <2>8, <2>9
    <2>11. /\ Holds(m, a + 0, <<e.type \div 256, e.type % 256>>)
           /\ Holds(m, a + 2, vector16(extBody(e)))
      BY <1>1, <2>3, <2>4, <2>6, <2>10, HoldsTrans
    <2>12. a + 0 = a /\ a + 2 \in Nat /\ (a + 2) + 2 = a + 4
      BY <2>4
    <2>13. u16(m, a) = e.type
      BY <1>1, <2>4, <2>5, <2>11, <2>12, PairIn
    <2>14. u16(m, a + 2) = Len(extBody(e)) /\ Holds(m, (a + 2) + 2, extBody(e))
      BY <1>1, <2>3, <2>11, <2>12, Vector16In
    <2> QED BY <2>3, <2>12, <2>13, <2>14, <2>16 DEF a, e
  <1> QED BY <1>6, <1>7, <1>8, Zenon DEF m, base

(* The names of a server name extension.                                   *)
LEMMA NamesLaid ==
  ASSUME NEW h \in Hello, NEW i \in 1 .. Len(h.exts), h.exts[i].type = 0
  PROVE  LET m == Encode(h)
             ns == h.exts[i].names
         IN  /\ u16(m, extAt(h, i) + 4) = Len(extBody(h.exts[i])) - 2
             /\ nameAt(h, i, 1) = extAt(h, i) + 6
             /\ nameAt(h, i, Len(ns) + 1) = extAt(h, i + 1)
             /\ \A j \in 1 .. Len(ns) + 1 : nameAt(h, i, j) \in Nat
             /\ \A j \in 1 .. Len(ns) :
                  /\ extAt(h, i) + 6 <= nameAt(h, i, j)
                  /\ nameAt(h, i, j) + 3 + Len(ns[j].host) <= extAt(h, i + 1)
                  /\ Len(ns[j].host) \in Nat
                  /\ nameAt(h, i, j + 1) = nameAt(h, i, j) + 3 + Len(ns[j].host)
                  /\ m[nameAt(h, i, j) + 1] = ns[j].type
                  /\ u16(m, nameAt(h, i, j) + 1) = Len(ns[j].host)
                  /\ Holds(m, nameAt(h, i, j) + 3, ns[j].host)
  <1> DEFINE m == Encode(h)
             e == h.exts[i]
             ns == e.names
             parts == nameParts(e)
             flat == FlattenSeq(parts)
             pos == starts(parts)
             n == Len(ns)
             base == extAt(h, i) + 6
  <1>1. e \in Extension /\ extAt(h, i) \in Nat /\ m \in Bytes
    <2>1. i \in 1 .. Len(h.exts) + 1
      BY HelloParts
    <2> QED BY <2>1, HelloParts, ExtensionsLaid, FieldsWritten
  <1>2. parts \in Seq(Bytes) /\ Len(parts) = n /\ flat \in Bytes /\ StartsAt(parts, pos)
    BY <1>1, NamesWritten
  <1>3. /\ n \in Nat
        /\ \A j \in 1 .. n : ns[j].type \in Nat /\ ns[j].host \in Bytes
    BY <1>1, ExtensionParts
  <1>4. extBody(e) = vector16(flat)
    BY DEF extBody
  <1>5. Holds(m, extAt(h, i) + 4, extBody(e)) /\ Len(extBody(e)) \in Nat
        /\ extAt(h, i + 1) = extAt(h, i) + 4 + Len(extBody(e))
    BY ExtensionsLaid
  <1>6. Len(extBody(e)) = 2 + Len(flat) /\ Len(flat) \in Nat
    BY <1>2, <1>4, Vector16
  <1> DEFINE a == extAt(h, i)
  <1> HIDE DEF m, e, flat, pos, a
  <1>7. a \in Nat /\ a + 4 \in Nat /\ (a + 4) + 2 = a + 6 /\ base = a + 6 /\ base \in Nat
    BY <1>1 DEF a
  <1>8. u16(m, a + 4) = Len(flat) /\ Holds(m, (a + 4) + 2, flat)
    BY <1>1, <1>2, <1>4, <1>5, <1>7, Vector16In DEF a
  <1> HIDE DEF base
  <1>9. Holds(m, base, flat)
    BY <1>7, <1>8
  <1>10. /\ pos \in [1 .. n + 1 -> Nat] /\ pos[1] = 0 /\ pos[n + 1] = Len(flat)
         /\ \A j \in 1 .. n : /\ pos[j + 1] = pos[j] + Len(parts[j])
                               /\ Holds(flat, pos[j], parts[j])
    BY <1>2 DEF StartsAt, flat
  <1>11. \A j : nameAt(h, i, j) = base + pos[j]
    BY DEF nameAt, base, pos, e
  <1>12. nameAt(h, i, 1) = base /\ nameAt(h, i, n + 1) = extAt(h, i + 1)
    <2>1. extAt(h, i + 1) = base + Len(flat)
      BY <1>5, <1>6, <1>7 DEF a
    <2>2. base + pos[1] = base /\ base + pos[n + 1] = base + Len(flat)
      <3>1. base + 0 = base
        BY <1>7
      <3>2. pos[1] = 0 /\ pos[n + 1] = Len(flat)
        BY <1>10
      <3> QED BY <3>1, <3>2, Zenon
    <2> QED BY <1>11, <2>1, <2>2, Zenon
  <1>13. \A j \in 1 .. n + 1 : nameAt(h, i, j) \in Nat /\ pos[j] \in Nat
    BY <1>7, <1>10, <1>11
  <1>14. ASSUME NEW j \in 1 .. n
         PROVE  /\ extAt(h, i) + 6 <= nameAt(h, i, j)
                /\ nameAt(h, i, j) + 3 + Len(ns[j].host) <= extAt(h, i + 1)
                /\ Len(ns[j].host) \in Nat
                /\ nameAt(h, i, j + 1) = nameAt(h, i, j) + 3 + Len(ns[j].host)
                /\ m[nameAt(h, i, j) + 1] = ns[j].type
                /\ u16(m, nameAt(h, i, j) + 1) = Len(ns[j].host)
                /\ Holds(m, nameAt(h, i, j) + 3, ns[j].host)
    <2> DEFINE x == nameEntry(ns[j])
               c == nameAt(h, i, j)
               t == ns[j].type
               d == ns[j].host
    <2>1. t \in Nat /\ d \in Bytes
      BY <1>3
    <2>2. /\ x \in Bytes /\ Len(x) = 3 + Len(d) /\ Holds(x, 0, <<t>>) /\ Holds(x, 1, vector16(d))
      BY <2>1, EntryWritten
    <2>3. parts[j] = x
      BY DEF nameParts
    <2>4. <<t>> \in Bytes /\ vector16(d) \in Bytes /\ Len(d) \in Nat
      BY <2>1, Single, Vector16
    <2> HIDE DEF x, t, d
    <2>5. j \in 1 .. n + 1 /\ pos[j] \in Nat /\ c \in Nat /\ c = base + pos[j]
      BY <1>3, <1>11, <1>13
    <2>6. Holds(flat, pos[j], x) /\ pos[j + 1] = pos[j] + Len(x)
      BY <1>10, <2>3
    <2>7. nameAt(h, i, j + 1) = c + 3 + Len(d)
      <3>1. nameAt(h, i, j + 1) = base + pos[j + 1]
        BY <1>11
      <3>2. base + (pos[j] + (3 + Len(d))) = (base + pos[j]) + 3 + Len(d)
        <4> DEFINE p == pos[j]
                   l == Len(d)
        <4>1. p \in Nat /\ l \in Nat /\ base \in Nat
          BY <1>7, <2>4, <2>5
        <4> HIDE DEF p, l
        <4>2. base + (p + (3 + l)) = (base + p) + 3 + l
          BY <4>1
        <4> QED BY <4>2 DEF p, l
      <3> QED BY <2>2, <2>5, <2>6, <3>1, <3>2, Zenon
    <2>14. a + 6 <= c /\ c + 3 + Len(d) <= extAt(h, i + 1)
      <3>1. pos[j] + Len(x) <= Len(flat)
        BY <2>6 DEF Holds
      <3>2. extAt(h, i + 1) = base + Len(flat)
        BY <1>5, <1>6, <1>7 DEF a
      <3> DEFINE q == pos[j]
                 l == Len(d)
                 f == Len(flat)
                 t1 == extAt(h, i + 1)
      <3>3. /\ q \in Nat /\ l \in Nat /\ f \in Nat /\ q + (3 + l) <= f
            /\ t1 = base + f /\ base = a + 6 /\ a \in Nat /\ c = base + q
        BY <1>6, <1>7, <2>2, <2>4, <2>5, <3>1, <3>2
      <3> HIDE DEF q, l, f, t1, c
      <3>4. a + 6 <= c /\ c + 3 + l <= t1
        BY <3>3
      <3> QED BY <3>4 DEF l, t1
    <2>8. Holds(m, base + pos[j], x)
      BY <1>1, <1>2, <1>7, <1>9, <2>2, <2>5, <2>6, HoldsTrans
    <2> HIDE DEF c
    <2>9. Holds(m, c, x)
      BY <2>5, <2>8
    <2>10. Holds(m, c + 0, <<t>>) /\ Holds(m, c + 1, vector16(d))
      BY <1>1, <2>2, <2>4, <2>5, <2>9, HoldsTrans
    <2>11. c + 0 = c /\ c + 1 \in Nat /\ (c + 1) + 2 = c + 3
      BY <2>5
    <2>12. m[c + 1] = t
      BY <1>1, <2>1, <2>5, <2>10, <2>11, SingleIn
    <2>13. u16(m, c + 1) = Len(d) /\ Holds(m, (c + 1) + 2, d)
      BY <1>1, <2>1, <2>10, <2>11, Vector16In
    <2> QED BY <2>4, <2>7, <2>11, <2>12, <2>13, <2>14 DEF c, t, d, a
  <1>15. u16(m, a + 4) = Len(extBody(e)) - 2
    BY <1>6, <1>8
  <1> QED BY <1>7, <1>12, <1>13, <1>14, <1>15, Zenon DEF m, e, a, base

-----------------------------------------------------------------------------
(* The first DNS name of a hello.                                          *)

isDNSName(h, i, j) ==
    h.exts[i].type = 0 /\ h.exts[i].names[j].type = 0 /\ h.exts[i].names[j].host # << >>

(* What the reference collects are the DNS names of the hello, in order.   *)
LEMMA DnsNames ==
  ASSUME NEW h, NEW p
  PROVE  p \in dnsNames(h) <=>
           \E i \in 1 .. Len(h.exts) : \E j \in 1 .. Len(h.exts[i].names) :
              p = <<i, j>> /\ isDNSName(h, i, j)
  <1> DEFINE X == {k \in 1 .. Len(h.exts) : h.exts[k].type = 0}
             N(i) == {k \in 1 .. Len(h.exts[i].names) :
                        /\ h.exts[i].names[k].type = 0
                        /\ h.exts[i].names[k].host # << >>}
  <1>1. \A i : i \in X <=> i \in 1 .. Len(h.exts) /\ h.exts[i].type = 0
    BY Zenon
  <1>2. \A i, j : j \in N(i) <=> /\ j \in 1 .. Len(h.exts[i].names)
                                 /\ h.exts[i].names[j].type = 0
                                 /\ h.exts[i].names[j].host # << >>
    BY Zenon
  <1>3. dnsNames(h) = UNION {{<<i, j>> : j \in N(i)} : i \in X}
    BY Zenon DEF dnsNames
  <1> HIDE DEF X, N
  <1>4. p \in dnsNames(h) <=> \E i \in X : \E j \in N(i) : p = <<i, j>>
    <2> DEFINE Row(i) == {<<i, j>> : j \in N(i)}
    <2>1. p \in UNION {Row(i) : i \in X} <=> \E i \in X : p \in Row(i)
      <3> HIDE DEF Row
      <3> QED OBVIOUS
    <2>2. \A i : p \in Row(i) <=> \E j \in N(i) : p = <<i, j>>
      OBVIOUS
    <2>3. dnsNames(h) = UNION {Row(i) : i \in X}
      BY <1>3
    <2> HIDE DEF Row
    <2> QED BY <2>1, <2>2, <2>3
  <1>5. ASSUME NEW i \in X, NEW j \in N(i), p = <<i, j>>
        PROVE  \E k \in 1 .. Len(h.exts) : \E l \in 1 .. Len(h.exts[k].names) :
                 p = <<k, l>> /\ isDNSName(h, k, l)
    <2>1. i \in 1 .. Len(h.exts) /\ h.exts[i].type = 0
      BY <1>1
    <2>2. /\ j \in 1 .. Len(h.exts[i].names)
          /\ h.exts[i].names[j].type = 0 /\ h.exts[i].names[j].host # << >>
      BY <1>2
    <2>3. isDNSName(h, i, j)
      BY <2>1, <2>2 DEF isDNSName
    <2> QED BY <1>5, <2>1, <2>2, <2>3, Zenon
  <1>6. ASSUME NEW i \in 1 .. Len(h.exts), NEW j \in 1 .. Len(h.exts[i].names),
               p = <<i, j>>, isDNSName(h, i, j)
        PROVE  \E k \in X : \E l \in N(k) : p = <<k, l>>
    BY <1>1, <1>2, <1>6, Zenon DEF isDNSName
  <1> QED BY <1>4, <1>5, <1>6, Zenon

(* No DNS name comes before entry j of extension i.                        *)
NoneBefore(h, i, j) ==
    \A k \in 1 .. Len(h.exts) : \A l \in 1 .. Len(h.exts[k].names) :
       isDNSName(h, k, l) => k > i \/ (k = i /\ l >= j)

(* The first DNS name is the server name, if nothing before it is one.     *)
LEMMA FirstName ==
  ASSUME NEW h \in Hello, NEW i \in 1 .. Len(h.exts), NEW j \in 1 .. Len(h.exts[i].names),
         isDNSName(h, i, j), NoneBefore(h, i, j)
  PROVE  ServerName(h) = h.exts[i].names[j].host
  <1> DEFINE D == dnsNames(h)
             First(p) == \A q \in D : q = p \/ before(p, q)
             f == CHOOSE p \in D : First(p)
  <1>1. <<i, j>> \in D
    BY DnsNames
  <1>2. ASSUME NEW q \in D PROVE q = <<i, j>> \/ before(<<i, j>>, q)
    <2>1. PICK k \in 1 .. Len(h.exts) : \E l \in 1 .. Len(h.exts[k].names) :
             q = <<k, l>> /\ isDNSName(h, k, l)
      BY <1>2, DnsNames, Zenon
    <2>2. PICK l \in 1 .. Len(h.exts[k].names) : q = <<k, l>> /\ isDNSName(h, k, l)
      BY <2>1
    <2>3. k > i \/ (k = i /\ l >= j)
      BY <2>2 DEF NoneBefore
    <2>4. k \in Int /\ l \in Int /\ i \in Int /\ j \in Int
      OBVIOUS
    <2>5. i < k \/ (i = k /\ j < l) \/ (i = k /\ j = l)
      BY <2>3, <2>4
    <2> QED BY <2>2, <2>5 DEF before
  <1>3. First(<<i, j>>)
    BY <1>2
  <1>4. f \in D /\ First(f)
    BY <1>1, <1>3
  <1>5. f = <<i, j>>
    <2>1. <<i, j>> = f \/ before(f, <<i, j>>)
      BY <1>1, <1>4
    <2>2. f = <<i, j>> \/ before(<<i, j>>, f)
      BY <1>2, <1>4
    <2>3. PICK a \in 1 .. Len(h.exts) : \E b \in 1 .. Len(h.exts[a].names) : f = <<a, b>>
      BY <1>4, DnsNames, Zenon
    <2>4. PICK b \in 1 .. Len(h.exts[a].names) : f = <<a, b>>
      BY <2>3
    <2>5. i \in Int /\ j \in Int
      OBVIOUS
    <2>6. before(<<a, b>>, <<i, j>>) /\ before(<<i, j>>, <<a, b>>) => FALSE
      BY <2>5 DEF before
    <2> QED BY <2>1, <2>2, <2>4, <2>6
  <1>6. D # {}
    BY <1>1
  <1>7. ServerName(h) = h.exts[f[1]].names[f[2]].host
    BY <1>6, Zenon DEF ServerName
  <1> HIDE DEF f
  <1> QED BY <1>5, <1>7

(* A hello in which no entry is a DNS name has no server name.             *)
LEMMA NoName ==
  ASSUME NEW h \in Hello, NoneBefore(h, Len(h.exts) + 1, 1)
  PROVE  ServerName(h) = << >>
  <1>1. dnsNames(h) = {}
    <2> SUFFICES ASSUME NEW p \in dnsNames(h) PROVE FALSE
      OBVIOUS
    <2>1. PICK k \in 1 .. Len(h.exts) : \E l \in 1 .. Len(h.exts[k].names) : isDNSName(h, k, l)
      BY DnsNames, Zenon
    <2>2. k > Len(h.exts) + 1 \/ k = Len(h.exts) + 1
      BY <2>1 DEF NoneBefore
    <2> QED BY <2>2, HelloParts
  <1> QED BY <1>1 DEF ServerName

-----------------------------------------------------------------------------
(* The walk over a hello, or over the first part of one.                   *)

(* The parser was given the hello h, or its beginning.                     *)
DataOf(h) ==
    /\ Len(data) <= Len(Encode(h))
    /\ \A k \in 1 .. Len(data) : data[k] = Encode(h)[k]

(* The walk is at an extension, and no DNS name was passed over; or it has *)
(* jumped past the end of the data.                                        *)
AtExtension(h) ==
    /\ end = Len(data)
    /\ \E i \in 1 .. Len(h.exts) + 1 :
          /\ offset = extAt(h, i)
          /\ offset > Len(data) \/ NoneBefore(h, i, 1)

(* The walk is at an entry of a server name list, and no DNS name was      *)
(* passed over.                                                            *)
AtName(h) ==
    /\ end = Len(data)
    /\ \E i \in 1 .. Len(h.exts) :
          /\ h.exts[i].type = 0
          /\ offset = extAt(h, i)
          /\ nameEnd = extAt(h, i + 1)
          /\ nameEnd <= Len(data)
          /\ \E j \in 1 .. Len(h.exts[i].names) + 1 :
                nameOffset = nameAt(h, i, j) /\ NoneBefore(h, i, j)

(* What the parser may answer: the name of h or, unless all of h was       *)
(* there, none.                                                            *)
Answered(h) ==
    /\ name \in {<< >>, ServerName(h)}
    /\ Len(data) = Len(Encode(h)) => name = ServerName(h)

(* The walk is where the encoding of h has the field that it reads next.   *)
Follows(h) ==
    /\ DataOf(h)
    /\ at = "random" => offset = 4
    /\ at = "session" => offset = sessionAt
    /\ at = "ciphers" => offset = ciphersAt(h)
    /\ at = "compression" => offset = compressionAt(h)
    /\ at = "length" => offset = lengthAt(h)
    /\ at = "extension" => AtExtension(h)
    /\ at = "names" => AtName(h)
    /\ at # "done" => name = << >>
    /\ at = "done" => Answered(h)

(* What the walk reads within the data is what the hello has there.        *)
LEMMA ReadsHello ==
  ASSUME HelloTypeOK, NEW h \in Hello, DataOf(h), NEW a \in Nat
  PROVE  /\ a + 1 <= Len(data) => byteAt(a) = Encode(h)[a + 1]
         /\ a + 2 <= Len(data) => uint16At(a) = u16(Encode(h), a)
  <1>1. Len(data) \in Nat
    BY LenProperties DEF HelloTypeOK
  <1>2. \A k \in Nat : k + 1 <= Len(data) => byteAt(k) = Encode(h)[k + 1]
    <2> SUFFICES ASSUME NEW k \in Nat, k + 1 <= Len(data) PROVE byteAt(k) = Encode(h)[k + 1]
      OBVIOUS
    <2>1. k + 1 \in 1 .. Len(data)
      BY <1>1
    <2> QED BY <2>1 DEF DataOf, byteAt
  <1>3. ASSUME a + 2 <= Len(data) PROVE uint16At(a) = u16(Encode(h), a)
    <2>1. a + 1 \in Nat /\ a + 1 <= Len(data) /\ (a + 1) + 1 <= Len(data)
      BY <1>1, <1>3
    <2>2. byteAt(a) = Encode(h)[a + 1] /\ byteAt(a + 1) = Encode(h)[(a + 1) + 1]
      BY <1>2, <2>1
    <2> QED BY <2>2 DEF uint16At, u16
  <1> QED BY <1>2, <1>3

(* A walk that stops early has found no name, which is right unless the    *)
(* whole hello was there.                                                  *)
LEMMA GivesUp ==
  ASSUME NEW h \in Hello, Follows(h), at # "done", giveUp, UNCHANGED <<data, name>>,
         Len(data) # Len(Encode(h)) \/ ServerName(h) = << >>
  PROVE  Follows(h)'
  <1>1. name' = << >> /\ at' = "done" /\ DataOf(h)'
    BY DEF Follows, giveUp, DataOf
  <1>2. Answered(h)'
    BY <1>1 DEF Answered
  <1> QED BY <1>1, <1>2 DEF Follows

(* The first step, which checks the message type.                          *)
LEMMA TypeFollows ==
  ASSUME HelloTypeOK, NEW h \in Hello, Follows(h), HandshakeType
  PROVE  Follows(h)'
  <1>0. at = "type" /\ UNCHANGED <<data, name>> /\ name = << >> /\ DataOf(h)
    BY DEF HandshakeType, Follows
  <1>1. CASE isHandshakeType
    <2>1. at' = "random" /\ offset' = 4 /\ DataOf(h)'
      BY <1>0, <1>1 DEF HandshakeType, DataOf
    <2> QED BY <1>0, <2>1 DEF Follows
  <1>2. CASE ~isHandshakeType
    <2>1. giveUp
      BY <1>2 DEF HandshakeType
    <2>2. Len(data) # Len(Encode(h))
      <3> SUFFICES ASSUME Len(data) = Len(Encode(h)) PROVE FALSE
        OBVIOUS
      <3>1. /\ Len(Encode(h)) = lengthAt(h) + 2 + Len(FlattenSeq(extParts(h)))
            /\ Len(FlattenSeq(extParts(h))) \in Nat /\ lengthAt(h) \in Nat
            /\ Encode(h)[1] = 1
        BY FieldsWritten
      <3>2. Len(data) >= 2
        BY <3>1
      <3>3. byteAt(0) = Encode(h)[0 + 1]
        BY <1>0, <3>2, ReadsHello DEF HelloTypeOK
      <3> QED BY <1>2, <3>1, <3>2, <3>3 DEF isHandshakeType
    <2> QED BY <1>0, <2>1, <2>2, GivesUp
  <1> QED BY <1>1, <1>2

(* A field before the extensions: it is where the walk expects it, and so  *)
(* is what comes after it.                                                 *)
LEMMA FieldFollows ==
  ASSUME HelloTypeOK, NEW h \in Hello, Follows(h), NEW here, NEW width, NEW skip, NEW next,
         field(here, width, skip, next), here # "done",
         Len(data) = Len(Encode(h)) => offset + width <= Len(data),
         \/ next = "session" /\ (offset + width <= Len(data) => offset + skip = sessionAt)
         \/ next = "ciphers" /\ (offset + width <= Len(data) => offset + skip = ciphersAt(h))
         \/ next = "compression" /\ (offset + width <= Len(data) => offset + skip = compressionAt(h))
         \/ next = "length" /\ (offset + width <= Len(data) => offset + skip = lengthAt(h)),
         width \in Nat
  PROVE  Follows(h)'
  <1>0. at = here /\ UNCHANGED <<data, name>> /\ name = << >> /\ DataOf(h)
    BY DEF field, Follows
  <1>1. offset \in Nat /\ Len(data) \in Nat
    BY LenProperties DEF HelloTypeOK
  <1>2. CASE offset + width > Len(data)
    <2>1. giveUp /\ Len(data) # Len(Encode(h))
      BY <1>1, <1>2 DEF field
    <2> QED BY <1>0, <2>1, GivesUp
  <1>3. CASE offset + width <= Len(data)
    <2>1. at' = next /\ offset' = offset + skip /\ DataOf(h)'
      BY <1>0, <1>1, <1>3 DEF field, DataOf
    <2> QED BY <1>0, <1>3, <2>1 DEF Follows
  <1> QED BY <1>1, <1>2, <1>3

(* The fields before the extensions lie within the hello, in order.        *)
LEMMA FieldOrder ==
  ASSUME NEW h \in Hello
  PROVE  LET m == Encode(h)
         IN  /\ Len(m) \in Nat /\ sessionAt \in Nat /\ ciphersAt(h) \in Nat
             /\ compressionAt(h) \in Nat /\ lengthAt(h) \in Nat
             /\ 4 + VersionRandomLen = sessionAt
             /\ sessionAt + (1 + Len(h.session)) = ciphersAt(h)
             /\ ciphersAt(h) + (2 + Len(h.ciphers)) = compressionAt(h)
             /\ compressionAt(h) + (1 + Len(h.compression)) = lengthAt(h)
             /\ sessionAt <= Len(m) /\ sessionAt + 1 <= Len(m) /\ ciphersAt(h) + 2 <= Len(m)
             /\ compressionAt(h) + 1 <= Len(m) /\ lengthAt(h) + 2 <= Len(m)
  <1> DEFINE m == Len(Encode(h))
             s0 == sessionAt
             c0 == ciphersAt(h)
             m0 == compressionAt(h)
             l0 == lengthAt(h)
             ls == Len(h.session)
             lc == Len(h.ciphers)
             lm == Len(h.compression)
             lf == Len(FlattenSeq(extParts(h)))
             V == VersionRandomLen
  <1>1. /\ m \in Nat /\ ls \in Nat /\ lc \in Nat /\ lm \in Nat /\ lf \in Nat /\ V \in Nat
        /\ m = l0 + 2 + lf
    BY FieldsWritten, HelloAssumption
  <1>2. s0 = 4 + V /\ c0 = s0 + 1 + ls /\ m0 = c0 + 2 + lc /\ l0 = m0 + 1 + lm
    BY DEF sessionAt, ciphersAt, compressionAt, lengthAt
  <1> HIDE DEF m, s0, c0, m0, l0, ls, lc, lm, lf, V
  <1>3. /\ m \in Nat /\ s0 \in Nat /\ c0 \in Nat /\ m0 \in Nat /\ l0 \in Nat
        /\ 4 + V = s0 /\ s0 + (1 + ls) = c0 /\ c0 + (2 + lc) = m0 /\ m0 + (1 + lm) = l0
        /\ s0 <= m /\ s0 + 1 <= m /\ c0 + 2 <= m /\ m0 + 1 <= m /\ l0 + 2 <= m
    BY <1>1, <1>2
  <1> QED BY <1>3 DEF m, s0, c0, m0, l0, ls, lc, lm, V

(* The steps over the fields before the extensions.                        *)
LEMMA FieldsFollow ==
  ASSUME HelloTypeOK, NEW h \in Hello, Follows(h),
         \/ skipClientHelloVersionRandom \/ skipSessionID
         \/ skipCipherSuites \/ skipCompression
  PROVE  Follows(h)'
  <1>0. DataOf(h) /\ offset \in Nat
    BY DEF Follows, HelloTypeOK
  <1>1. CASE skipClientHelloVersionRandom
    <2>1. offset = 4
      BY <1>1 DEF skipClientHelloVersionRandom, field, Follows
    <2>2. /\ Len(data) = Len(Encode(h)) => offset + VersionRandomLen <= Len(data)
          /\ offset + VersionRandomLen = sessionAt
      BY <2>1, FieldOrder
    <2> QED BY <1>1, <2>2, FieldFollows, HelloAssumption DEF skipClientHelloVersionRandom
  <1>2. CASE skipSessionID
    <2>1. offset = sessionAt
      BY <1>2 DEF skipSessionID, field, Follows
    <2>2. Len(data) = Len(Encode(h)) => offset + 1 <= Len(data)
      BY <2>1, FieldOrder
    <2>3. ASSUME offset + 1 <= Len(data) PROVE offset + (1 + byteAt(offset)) = ciphersAt(h)
      <3>1. byteAt(offset) = Len(h.session)
        BY <1>0, <2>1, <2>3, ReadsHello, FieldsWritten
      <3> QED BY <2>1, <3>1, FieldOrder
    <2>4. field("session", 1, 1 + byteAt(offset), "ciphers")
      BY <1>2 DEF skipSessionID
    <2> QED BY <2>2, <2>3, <2>4, FieldFollows
  <1>3. CASE skipCipherSuites
    <2>1. offset = ciphersAt(h)
      BY <1>3 DEF skipCipherSuites, field, Follows
    <2>2. Len(data) = Len(Encode(h)) => offset + 2 <= Len(data)
      BY <2>1, FieldOrder
    <2>3. ASSUME offset + 2 <= Len(data) PROVE offset + (2 + uint16At(offset)) = compressionAt(h)
      <3>1. uint16At(offset) = Len(h.ciphers)
        BY <1>0, <2>1, <2>3, ReadsHello, FieldsWritten
      <3> QED BY <2>1, <3>1, FieldOrder
    <2>4. field("ciphers", 2, 2 + uint16At(offset), "compression")
      BY <1>3 DEF skipCipherSuites
    <2> QED BY <2>2, <2>3, <2>4, FieldFollows
  <1>4. CASE skipCompression
    <2>1. offset = compressionAt(h)
      BY <1>4 DEF skipCompression, field, Follows
    <2>2. Len(data) = Len(Encode(h)) => offset + 1 <= Len(data)
      BY <2>1, FieldOrder
    <2>3. ASSUME offset + 1 <= Len(data) PROVE offset + (1 + byteAt(offset)) = lengthAt(h)
      <3>1. byteAt(offset) = Len(h.compression)
        BY <1>0, <2>1, <2>3, ReadsHello, FieldsWritten
      <3> QED BY <2>1, <3>1, FieldOrder
    <2>4. field("compression", 1, 1 + byteAt(offset), "length")
      BY <1>4 DEF skipCompression
    <2> QED BY <2>2, <2>3, <2>4, FieldFollows
  <1> QED BY <1>1, <1>2, <1>3, <1>4

(* The extensions end with the data.                                       *)
LEMMA BlockFollows ==
  ASSUME HelloTypeOK, NEW h \in Hello, Follows(h), ExtensionsLength
  PROVE  Follows(h)'
  <1>0. /\ at = "length" /\ DataOf(h) /\ offset = lengthAt(h) /\ offset \in Nat
        /\ UNCHANGED <<data, name>> /\ name = << >> /\ Len(data) \in Nat
    BY LenProperties DEF ExtensionsLength, Follows, HelloTypeOK
  <1> DEFINE m == Len(Encode(h))
  <1>1. m \in Nat /\ lengthAt(h) + 2 <= m /\ Len(data) <= m
    BY <1>0, FieldOrder DEF DataOf
  <1>2. CASE offset + 2 > Len(data)
    <2>1. giveUp /\ Len(data) # m
      BY <1>0, <1>1, <1>2 DEF ExtensionsLength
    <2> QED BY <1>0, <2>1, GivesUp
  <1>3. CASE offset + 2 <= Len(data)
    <2>1. /\ at' = "extension" /\ offset' = offset + 2
          /\ end' = extensionsEnd(offset + 2)
      BY <1>0, <1>3 DEF ExtensionsLength
    <2>2. uint16At(offset) = Len(FlattenSeq(extParts(h)))
      BY <1>0, <1>3, ReadsHello, FieldsWritten
    <2>3. (offset + 2) + uint16At(offset) = m
      BY <1>0, <2>2, FieldsWritten
    <2>4. end' = Len(data)
      BY <1>1, <2>1, <2>3 DEF extensionsEnd
    <2>5. offset' = extAt(h, 1) /\ 1 \in 1 .. Len(h.exts) + 1
      BY <1>0, <2>1, ExtensionsLaid, HelloParts
    <2>6. NoneBefore(h, 1, 1)
      <3> SUFFICES ASSUME NEW k \in 1 .. Len(h.exts), NEW l \in 1 .. Len(h.exts[k].names)
                   PROVE  k > 1 \/ (k = 1 /\ l >= 1)
        BY DEF NoneBefore
      <3> QED OBVIOUS
    <2>7. AtExtension(h)'
      BY <1>0, <2>4, <2>5, <2>6 DEF AtExtension
    <2>8. DataOf(h)'
      BY <1>0 DEF DataOf
    <2> QED BY <1>0, <2>1, <2>7, <2>8 DEF Follows
  <1> QED BY <1>0, <1>2, <1>3

(* An extension within the data, and the position after it.                *)
LEMMA ExtensionRead ==
  ASSUME HelloTypeOK, NEW h \in Hello, DataOf(h), AtExtension(h), offset + 4 <= end
  PROVE  \E i \in 1 .. Len(h.exts) :
           /\ offset = extAt(h, i) /\ NoneBefore(h, i, 1)
           /\ uint16At(offset) = h.exts[i].type
           /\ uint16At(offset + 2) = Len(extBody(h.exts[i]))
           /\ Len(extBody(h.exts[i])) \in Nat
           /\ extAt(h, i + 1) = offset + 4 + Len(extBody(h.exts[i]))
  <1>1. PICK i \in 1 .. Len(h.exts) + 1 :
          offset = extAt(h, i) /\ (offset > Len(data) \/ NoneBefore(h, i, 1))
    BY DEF AtExtension
  <1>2. /\ Len(data) \in Nat /\ Len(Encode(h)) \in Nat /\ Len(data) <= Len(Encode(h))
        /\ end = Len(data) /\ offset \in Nat /\ Len(h.exts) \in Nat
    BY LenProperties, FieldsWritten, HelloParts DEF HelloTypeOK, DataOf, AtExtension
  <1>3. NoneBefore(h, i, 1)
    BY <1>1, <1>2
  <1>4. i # Len(h.exts) + 1
    <2>1. extAt(h, Len(h.exts) + 1) = Len(Encode(h))
      BY ExtensionsLaid
    <2> QED BY <1>1, <1>2, <2>1
  <1>5. i \in 1 .. Len(h.exts)
    BY <1>2, <1>4
  <1>6. /\ u16(Encode(h), offset) = h.exts[i].type
        /\ u16(Encode(h), offset + 2) = Len(extBody(h.exts[i]))
        /\ Len(extBody(h.exts[i])) \in Nat
        /\ extAt(h, i + 1) = offset + 4 + Len(extBody(h.exts[i]))
    BY <1>1, <1>5, ExtensionsLaid
  <1>7. offset + 2 \in Nat /\ offset + 2 <= Len(data) /\ (offset + 2) + 2 <= Len(data)
    BY <1>2
  <1>8. uint16At(offset) = u16(Encode(h), offset) /\ uint16At(offset + 2) = u16(Encode(h), offset + 2)
    BY <1>2, <1>7, ReadsHello
  <1> QED BY <1>1, <1>3, <1>5, <1>6, <1>8

(* A server name list that fits in the data is entered; an extension that  *)
(* is passed over has no DNS name, or is not all there.                    *)
LEMMA ExtensionFollows ==
  ASSUME HelloTypeOK, NEW h \in Hello, Follows(h), sniFromExtension
  PROVE  Follows(h)'
  <1>0. /\ at = "extension" /\ DataOf(h) /\ AtExtension(h) /\ offset + 4 <= end
        /\ UNCHANGED <<data, end, name>> /\ name = << >> /\ end = Len(data)
    BY DEF sniFromExtension, Follows, AtExtension
  <1>1. PICK i \in 1 .. Len(h.exts) :
           /\ offset = extAt(h, i) /\ NoneBefore(h, i, 1)
           /\ uint16At(offset) = h.exts[i].type
           /\ uint16At(offset + 2) = Len(extBody(h.exts[i]))
           /\ Len(extBody(h.exts[i])) \in Nat
           /\ extAt(h, i + 1) = offset + 4 + Len(extBody(h.exts[i]))
    BY <1>0, ExtensionRead
  <1> DEFINE e == h.exts[i]
             body == offset + 4
             extLen == uint16At(offset + 2)
  <1>2. /\ offset \in Nat /\ Len(data) \in Nat /\ extLen \in Nat /\ Len(h.exts) \in Nat
        /\ extLen = Len(extBody(e)) /\ extAt(h, i + 1) = body + extLen
    BY <1>1, LenProperties, HelloParts DEF HelloTypeOK
  <1>3. DataOf(h)'
    BY <1>0 DEF DataOf
  <1>4. CASE isSNIExtension(uint16At(offset), extLen, body)
    <2>1. e.type = 0 /\ extLen > 5 /\ body + extLen <= Len(data)
      BY <1>0, <1>1, <1>4 DEF isSNIExtension
    <2>2. /\ at' = "names" /\ nameOffset' = body + 2 /\ offset' = offset
          /\ nameEnd' = clampServerNameListEnd(body + 2 + uint16At(body), body, extLen)
      BY <1>4 DEF sniFromExtension
    <2>3. body \in Nat /\ body + 2 <= Len(data)
      BY <1>2, <2>1
    <2>4. uint16At(body) = extLen - 2
      BY <1>0, <1>1, <1>2, <2>1, <2>3, ReadsHello, NamesLaid
    <2>5. nameEnd' = extAt(h, i + 1)
      BY <1>2, <2>2, <2>3, <2>4 DEF clampServerNameListEnd
    <2>6. nameOffset' = nameAt(h, i, 1)
      <3>1. nameAt(h, i, 1) = offset + 6
        BY <1>1, <2>1, NamesLaid
      <3> QED BY <1>2, <2>2, <3>1
    <2>7. 1 \in 1 .. Len(e.names) + 1
      <3>1. Len(e.names) \in Nat
        BY HelloParts, ExtensionParts
      <3> QED BY <3>1
    <2>8. AtName(h)'
      BY <1>0, <1>1, <1>2, <2>1, <2>2, <2>5, <2>6, <2>7 DEF AtName
    <2> QED BY <1>0, <1>3, <2>2, <2>8 DEF Follows
  <1>5. CASE ~isSNIExtension(uint16At(offset), extLen, body)
    <2>1. at' = "extension" /\ offset' = extAt(h, i + 1)
      BY <1>0, <1>2, <1>5 DEF sniFromExtension, nextExtension
    <2>2. i + 1 \in 1 .. Len(h.exts) + 1
      BY <1>2
    <2>3. offset' > Len(data) \/ NoneBefore(h, i + 1, 1)
      <3>1. ASSUME ~(offset' > Len(data)) PROVE NoneBefore(h, i + 1, 1)
        <4>1. e.type # 0 \/ ~(extLen > 5)
          <5>1. body + extLen <= end
            BY <1>0, <1>2, <2>1, <3>1
          <5>2. uint16At(offset) = e.type
            BY <1>1
          <5> HIDE DEF e, body, extLen
          <5> QED BY <1>5, <5>1, <5>2 DEF isSNIExtension
        <4>2. ASSUME NEW l \in 1 .. Len(e.names), isDNSName(h, i, l) PROVE FALSE
          <5>1. e.type = 0 /\ e.names[l].host # << >> /\ e.names[l].host \in Bytes
            BY <4>2, HelloParts, ExtensionParts DEF isDNSName
          <5>2. /\ extAt(h, i) + 6 <= nameAt(h, i, l)
                /\ nameAt(h, i, l) + 3 + Len(e.names[l].host) <= extAt(h, i + 1)
                /\ Len(e.names[l].host) \in Nat /\ nameAt(h, i, l) \in Nat
            <6>1. Len(e.names) \in Nat
              BY HelloParts, ExtensionParts
            <6>2. l \in 1 .. Len(e.names) + 1
              BY <6>1
            <6> QED BY <5>1, <6>2, NamesLaid
          <5>3. Len(e.names[l].host) # 0
            BY <5>1, EmptySeq DEF Bytes
          <5> DEFINE n == nameAt(h, i, l)
                     hl == Len(e.names[l].host)
          <5>4. offset + 6 <= n /\ n + 3 + hl <= body + extLen /\ hl \in Nat /\ n \in Nat /\ hl # 0
            BY <1>1, <1>2, <5>2, <5>3
          <5> HIDE DEF n, hl, extLen
          <5>5. extLen > 5
            BY <1>2, <5>4
          <5> QED BY <4>1, <5>1, <5>5
        <4>3. ASSUME NEW k \in 1 .. Len(h.exts), NEW l \in 1 .. Len(h.exts[k].names),
                     isDNSName(h, k, l)
              PROVE  k > i + 1 \/ (k = i + 1 /\ l >= 1)
          <5>1. k > i \/ k = i
            BY <1>1, <4>3 DEF NoneBefore
          <5>2. k # i
            BY <4>2, <4>3
          <5> QED BY <1>2, <5>1, <5>2
        <4> QED BY <4>3 DEF NoneBefore
      <3> QED BY <3>1
    <2>4. AtExtension(h)'
      BY <1>0, <2>1, <2>2, <2>3 DEF AtExtension
    <2> QED BY <1>0, <1>3, <2>1, <2>4 DEF Follows
  <1> QED BY <1>4, <1>5

(* Past the last extension of a whole hello, no DNS name was passed over.  *)
LEMMA ExtensionsDoneFollows ==
  ASSUME HelloTypeOK, NEW h \in Hello, Follows(h), ExtensionsDone
  PROVE  Follows(h)'
  <1>0. /\ at = "extension" /\ DataOf(h) /\ AtExtension(h) /\ offset + 4 > end
        /\ giveUp /\ UNCHANGED <<data, name>> /\ end = Len(data) /\ offset \in Nat
    BY DEF ExtensionsDone, Follows, AtExtension, HelloTypeOK
  <1>1. ASSUME Len(data) = Len(Encode(h)) PROVE ServerName(h) = << >>
    <2>1. PICK i \in 1 .. Len(h.exts) + 1 :
             offset = extAt(h, i) /\ (offset > Len(data) \/ NoneBefore(h, i, 1))
      BY <1>0 DEF AtExtension
    <2>2. Len(h.exts) \in Nat /\ Len(Encode(h)) \in Nat
      BY HelloParts, FieldsWritten
    <2>3. i = Len(h.exts) + 1
      <3> SUFFICES ASSUME i \in 1 .. Len(h.exts) PROVE FALSE
        BY <2>2
      <3>1. Holds(Encode(h), extAt(h, i) + 4, extBody(h.exts[i])) /\ Len(extBody(h.exts[i])) \in Nat
        BY ExtensionsLaid
      <3>2. offset + 4 + Len(extBody(h.exts[i])) <= Len(Encode(h))
        BY <2>1, <3>1 DEF Holds
      <3> QED BY <1>0, <1>1, <2>2, <3>1, <3>2
    <2>4. extAt(h, Len(h.exts) + 1) = Len(Encode(h))
      BY ExtensionsLaid
    <2>5. ~(offset > Len(data))
      BY <1>1, <2>1, <2>2, <2>3, <2>4
    <2> QED BY <2>1, <2>3, <2>5, NoName
  <1> QED BY <1>0, <1>1, GivesUp

(* An entry of a server name list, and what the walk reads of it.          *)
LEMMA NameRead ==
  ASSUME HelloTypeOK, NEW h \in Hello, DataOf(h), AtName(h), nameOffset + 3 <= nameEnd
  PROVE  \E i \in 1 .. Len(h.exts) : \E j \in 1 .. Len(h.exts[i].names) :
           LET n == h.exts[i].names[j]
           IN  /\ h.exts[i].type = 0 /\ offset = extAt(h, i) /\ nameEnd = extAt(h, i + 1)
               /\ nameEnd <= Len(data) /\ NoneBefore(h, i, j)
               /\ byteAt(nameOffset) = n.type
               /\ uint16At(nameOffset + 1) = Len(n.host) /\ Len(n.host) \in Nat
               /\ Holds(Encode(h), nameOffset + 3, n.host)
               /\ nameOffset + 3 + Len(n.host) <= nameEnd
               /\ nameAt(h, i, j + 1) = nameOffset + 3 + Len(n.host)
  <1>1. PICK i \in 1 .. Len(h.exts) :
          /\ h.exts[i].type = 0 /\ offset = extAt(h, i) /\ nameEnd = extAt(h, i + 1)
          /\ nameEnd <= Len(data)
          /\ \E j \in 1 .. Len(h.exts[i].names) + 1 :
                nameOffset = nameAt(h, i, j) /\ NoneBefore(h, i, j)
    BY DEF AtName
  <1>2. PICK j \in 1 .. Len(h.exts[i].names) + 1 :
          nameOffset = nameAt(h, i, j) /\ NoneBefore(h, i, j)
    BY <1>1
  <1>3. /\ Len(data) \in Nat /\ nameOffset \in Nat /\ nameEnd \in Nat
        /\ Len(h.exts[i].names) \in Nat
    BY LenProperties, HelloParts, ExtensionParts DEF HelloTypeOK
  <1>4. nameAt(h, i, Len(h.exts[i].names) + 1) = extAt(h, i + 1)
    BY <1>1, NamesLaid
  <1>5. j # Len(h.exts[i].names) + 1
    BY <1>1, <1>2, <1>3, <1>4
  <1>6. j \in 1 .. Len(h.exts[i].names)
    BY <1>3, <1>5
  <1> DEFINE n == h.exts[i].names[j]
  <1>7. /\ Encode(h)[nameOffset + 1] = n.type
        /\ u16(Encode(h), nameOffset + 1) = Len(n.host) /\ Len(n.host) \in Nat
        /\ Holds(Encode(h), nameOffset + 3, n.host)
        /\ nameOffset + 3 + Len(n.host) <= nameEnd
        /\ nameAt(h, i, j + 1) = nameOffset + 3 + Len(n.host)
    BY <1>1, <1>2, <1>6, NamesLaid
  <1>8. /\ nameOffset + 1 \in Nat /\ nameOffset + 1 <= Len(data)
        /\ (nameOffset + 1) + 2 <= Len(data)
    BY <1>1, <1>3
  <1>9. /\ byteAt(nameOffset) = Encode(h)[nameOffset + 1]
        /\ uint16At(nameOffset + 1) = u16(Encode(h), nameOffset + 1)
    BY <1>3, <1>8, ReadsHello
  <1> QED BY <1>1, <1>2, <1>6, <1>7, <1>9

(* The first DNS entry met is the first of the hello.                      *)
LEMMA NameFollows ==
  ASSUME HelloTypeOK, NEW h \in Hello, Follows(h), sniFromServerNameList
  PROVE  Follows(h)'
  <1>0. /\ at = "names" /\ DataOf(h) /\ AtName(h) /\ nameOffset + 3 <= nameEnd
        /\ UNCHANGED <<data, offset, end, nameEnd>> /\ name = << >> /\ end = Len(data)
    BY DEF sniFromServerNameList, Follows, AtName
  <1>1. PICK i \in 1 .. Len(h.exts) : \E j \in 1 .. Len(h.exts[i].names) :
           LET n == h.exts[i].names[j]
           IN  /\ h.exts[i].type = 0 /\ offset = extAt(h, i) /\ nameEnd = extAt(h, i + 1)
               /\ nameEnd <= Len(data) /\ NoneBefore(h, i, j)
               /\ byteAt(nameOffset) = n.type
               /\ uint16At(nameOffset + 1) = Len(n.host) /\ Len(n.host) \in Nat
               /\ Holds(Encode(h), nameOffset + 3, n.host)
               /\ nameOffset + 3 + Len(n.host) <= nameEnd
               /\ nameAt(h, i, j + 1) = nameOffset + 3 + Len(n.host)
    BY <1>0, NameRead
  <1>2. PICK j \in 1 .. Len(h.exts[i].names) :
           LET n == h.exts[i].names[j]
           IN  /\ h.exts[i].type = 0 /\ offset = extAt(h, i) /\ nameEnd = extAt(h, i + 1)
               /\ nameEnd <= Len(data) /\ NoneBefore(h, i, j)
               /\ byteAt(nameOffset) = n.type
               /\ uint16At(nameOffset + 1) = Len(n.host) /\ Len(n.host) \in Nat
               /\ Holds(Encode(h), nameOffset + 3, n.host)
               /\ nameOffset + 3 + Len(n.host) <= nameEnd
               /\ nameAt(h, i, j + 1) = nameOffset + 3 + Len(n.host)
    BY <1>1
  <1> DEFINE n == h.exts[i].names[j]
             nameLen == uint16At(nameOffset + 1)
             start == nameOffset + 3
  <1>3. /\ n.host \in Seq(Byte) /\ n.host \in Bytes /\ Len(h.exts[i].names) \in Nat
    BY HelloParts, ExtensionParts
  <1>4. nameOffset \in Nat /\ nameEnd \in Nat /\ Len(data) \in Nat
    BY LenProperties DEF HelloTypeOK
  <1>5. DataOf(h)'
    BY <1>0 DEF DataOf
  <1>6. CASE isDNSEntry(byteAt(nameOffset), nameLen, start)
    <2>1. n.type = 0 /\ Len(n.host) > 0
      BY <1>2, <1>6 DEF isDNSEntry
    <2>2. at' = "done" /\ name' = SubSeq(data, start + 1, start + nameLen)
      BY <1>6 DEF sniFromServerNameList
    <2>3. isDNSName(h, i, j)
      <3>1. n.host # << >>
        BY <1>3, <2>1, EmptySeq
      <3> QED BY <1>2, <2>1, <3>1 DEF isDNSName
    <2>4. ServerName(h) = n.host
      BY <1>2, <2>3, FirstName
    <2>5. name' = n.host
      <3> DEFINE d == n.host
                 l == Len(d)
      <3>1. /\ l \in Nat /\ start + l <= nameEnd /\ nameEnd <= Len(data) /\ nameLen = l
            /\ Holds(Encode(h), start, d) /\ d \in Seq(Byte) /\ start \in Nat
        <4>1. start \in Nat
          BY <1>4
        <4> HIDE DEF start
        <4>2. /\ l \in Nat /\ start + l <= nameEnd /\ nameEnd <= Len(data) /\ nameLen = l
              /\ Holds(Encode(h), start, d)
          BY <1>2, Zenon DEF start
        <4> QED BY <1>3, <4>1, <4>2, Zenon
      <3>2. data \in Seq(Byte)
        BY DEF HelloTypeOK
      <3> HIDE DEF start, d
      <3>3. start + l <= Len(data)
        <4> HIDE DEF l
        <4> QED BY <1>4, <3>1
      <3>4. \A k \in 1 .. l : data[start + k] = d[k]
        <4> TAKE k \in 1 .. l
        <4>1. start + k \in 1 .. Len(data)
          <5> HIDE DEF l
          <5> QED BY <1>4, <3>1, <3>3
        <4>2. data[start + k] = Encode(h)[start + k]
          BY <1>0, <4>1 DEF DataOf
        <4>3. Encode(h)[start + k] = d[k]
          BY <3>1 DEF Holds
        <4> QED BY <4>2, <4>3
      <3>5. SubSeq(data, start + 1, start + l) = d
        BY <3>1, <3>2, <3>3, <3>4, SliceIs
      <3>6. name' = SubSeq(data, start + 1, start + l)
        <4>1. nameLen = l
          BY <3>1
        <4> HIDE DEF l, nameLen
        <4> QED BY <2>2, <4>1, Zenon
      <3> QED BY <3>5, <3>6 DEF d
    <2>6. Answered(h)'
      BY <2>4, <2>5 DEF Answered
    <2> QED BY <1>5, <2>2, <2>6 DEF Follows
  <1>7. CASE ~isDNSEntry(byteAt(nameOffset), nameLen, start)
    <2>1. /\ at' = "names" /\ UNCHANGED name
          /\ nameOffset' = start + nameLen
      BY <1>0, <1>7 DEF sniFromServerNameList
    <2>2. nameOffset' = nameAt(h, i, j + 1) /\ j + 1 \in 1 .. Len(h.exts[i].names) + 1
      BY <1>2, <1>3, <2>1
    <2>3. ~isDNSName(h, i, j)
      <3> SUFFICES ASSUME n.type = 0, n.host # << >> PROVE FALSE
        BY DEF isDNSName
      <3>1. Len(n.host) # 0
        BY <1>3, EmptySeq
      <3>2. nameLen > 0 /\ start + nameLen <= nameEnd /\ byteAt(nameOffset) = 0
        BY <1>2, <3>1
      <3> HIDE DEF nameLen, start
      <3> QED BY <1>7, <3>2 DEF isDNSEntry
    <2>4. ASSUME NEW k \in 1 .. Len(h.exts), NEW l \in 1 .. Len(h.exts[k].names),
                 isDNSName(h, k, l)
          PROVE  k > i \/ (k = i /\ l >= j + 1)
      <3>1. k > i \/ (k = i /\ l >= j)
        BY <1>2, <2>4 DEF NoneBefore
      <3>2. ~(k = i /\ l = j)
        BY <2>3, <2>4
      <3> QED BY <3>1, <3>2
    <2>5. NoneBefore(h, i, j + 1)
      BY <2>4 DEF NoneBefore
    <2>6. AtName(h)'
      BY <1>0, <1>2, <2>2, <2>5 DEF AtName
    <2> QED BY <1>0, <1>5, <2>1, <2>6 DEF Follows
  <1> QED BY <1>6, <1>7

(* Past the last entry of a list, the walk is at the next extension.       *)
LEMMA NamesDoneFollows ==
  ASSUME HelloTypeOK, NEW h \in Hello, Follows(h), NamesDone
  PROVE  Follows(h)'
  <1>0. /\ at = "names" /\ DataOf(h) /\ AtName(h) /\ nameOffset + 3 > nameEnd
        /\ UNCHANGED <<data, end, name>> /\ name = << >> /\ end = Len(data)
        /\ at' = "extension" /\ offset' = nextExtension
    BY DEF NamesDone, Follows, AtName
  <1>1. PICK i \in 1 .. Len(h.exts) :
          /\ h.exts[i].type = 0 /\ offset = extAt(h, i) /\ nameEnd = extAt(h, i + 1)
          /\ nameEnd <= Len(data)
          /\ \E j \in 1 .. Len(h.exts[i].names) + 1 :
                nameOffset = nameAt(h, i, j) /\ NoneBefore(h, i, j)
    BY <1>0 DEF AtName
  <1>2. PICK j \in 1 .. Len(h.exts[i].names) + 1 :
          nameOffset = nameAt(h, i, j) /\ NoneBefore(h, i, j)
    BY <1>1
  <1>3. /\ Len(data) \in Nat /\ nameOffset \in Nat /\ nameEnd \in Nat /\ offset \in Nat
        /\ Len(h.exts[i].names) \in Nat /\ Len(h.exts) \in Nat
    BY LenProperties, HelloParts, ExtensionParts DEF HelloTypeOK
  <1>4. j = Len(h.exts[i].names) + 1
    <2> SUFFICES ASSUME j \in 1 .. Len(h.exts[i].names) PROVE FALSE
      BY <1>3
    <2>1. /\ nameOffset + 3 + Len(h.exts[i].names[j].host) <= nameEnd
          /\ Len(h.exts[i].names[j].host) \in Nat
      BY <1>1, <1>2, NamesLaid
    <2> DEFINE l == Len(h.exts[i].names[j].host)
    <2>2. nameOffset + 3 + l <= nameEnd /\ l \in Nat
      BY <2>1
    <2> HIDE DEF l
    <2> QED BY <1>0, <1>3, <2>2
  <1>5. NoneBefore(h, i + 1, 1)
    <2>1. ASSUME NEW k \in 1 .. Len(h.exts), NEW l \in 1 .. Len(h.exts[k].names),
                 isDNSName(h, k, l)
          PROVE  k > i + 1 \/ (k = i + 1 /\ l >= 1)
      <3>1. k > i \/ (k = i /\ l >= j)
        BY <1>2, <2>1 DEF NoneBefore
      <3>2. k # i
        BY <1>3, <1>4, <3>1
      <3> QED BY <3>1, <3>2
    <2> QED BY <2>1 DEF NoneBefore
  <1>6. nextExtension = extAt(h, i + 1)
    <2>1. /\ u16(Encode(h), offset + 2) = Len(extBody(h.exts[i]))
          /\ Len(extBody(h.exts[i])) \in Nat
          /\ extAt(h, i + 1) = offset + 4 + Len(extBody(h.exts[i]))
      BY <1>1, ExtensionsLaid
    <2>2. offset + 2 \in Nat /\ (offset + 2) + 2 <= Len(data)
      <3> DEFINE l == Len(extBody(h.exts[i]))
      <3>1. l \in Nat /\ nameEnd = offset + 4 + l /\ nameEnd <= Len(data)
        BY <1>1, <2>1
      <3> HIDE DEF l
      <3> QED BY <1>3, <3>1
    <2>3. uint16At(offset + 2) = Len(extBody(h.exts[i]))
      BY <1>0, <2>1, <2>2, ReadsHello
    <2> QED BY <2>1, <2>3 DEF nextExtension
  <1>7. i + 1 \in 1 .. Len(h.exts) + 1
    BY <1>3
  <1>8. AtExtension(h)'
    BY <1>0, <1>5, <1>6, <1>7 DEF AtExtension
  <1>9. DataOf(h)'
    BY <1>0 DEF DataOf
  <1> QED BY <1>0, <1>8, <1>9 DEF Follows

(* Every step of the walk.                                                 *)
LEMMA StepFollows ==
  ASSUME HelloTypeOK, NEW h \in Hello, Follows(h), ParseStep
  PROVE  Follows(h)'
  BY TypeFollows, FieldsFollow, BlockFollows, ExtensionFollows, ExtensionsDoneFollows,
     NameFollows, NamesDoneFollows DEF ParseStep

-----------------------------------------------------------------------------
(* The connection handler.                                                 *)

(* What has been read through bufferedConn is the beginning of what the    *)
(* client sent, and never more than the bufio.Reader has taken from the    *)
(* socket.                                                                 *)
BytesInv ==
    /\ client \in Clients \cup {NoClient}
    /\ arrived \in 0 .. Len(client.bytes)
    /\ filled \in 0 .. arrived
    /\ inner \in Seq(Byte)
    /\ Len(inner) <= filled
    /\ \A i \in 1 .. Len(inner) : inner[i] = client.bytes[i]

(* A connection that has not been accepted has no bytes, the phases that   *)
(* look at a byte have it in the buffer, and the inner connection is open  *)
(* only while the handler serves it.                                       *)
PhaseInv ==
    /\ phase = "none" => arrived = 0
    /\ phase \in {"peekHeader", "peekBody", "parse", "handshake", "serve"} => filled >= 1
    /\ phase = "peekBody" => filled >= 5
    /\ conn \in {"reading", "handling", "hijacked"} => phase = "serve"
    /\ closes = 1 => conn = "closed"
    /\ ~served => conn = "none"

ControlInv ==
    /\ loop \in {"starting", "accepting", "sleeping", "failed"}
    /\ phase \in {"none", "accepted", "peekFirst", "peekHeader", "peekBody",
                  "parse", "handshake", "serve", "closed"}
    /\ deadline \in BOOLEAN /\ gone \in BOOLEAN /\ served \in BOOLEAN
    /\ deadline => phase \in {"peekFirst", "closed"}
    /\ closes \in {0, 1}
    /\ conn \in {"none", "reading", "handling", "hijacked", "closed"}
    /\ requests \in 0 .. MaxRequests
    /\ PhaseInv

Inv == /\ HelloInv
       /\ BytesInv
       /\ ControlInv
       /\ CertificateForName

-----------------------------------------------------------------------------
LEMMA ClientTyped ==
  ASSUME NEW c \in Clients \cup {NoClient}
  PROVE  c.bytes \in Seq(Byte) /\ Len(c.bytes) \in Nat
  <1>1. c.bytes \in Seq(Byte)
    <2>1. CASE c \in Clients
      BY <2>1, TransparentAssumption
    <2>2. CASE c = NoClient
      <3>1. c.bytes = << >>
        BY <2>2 DEF NoClient
      <3> QED BY <3>1, EmptySeq
    <2> QED BY <2>1, <2>2
  <1> QED BY <1>1, LenProperties

LEMMA MinOfTwo ==
  ASSUME NEW a \in Int, NEW b \in Int
  PROVE  Min({a, b}) = IF a <= b THEN a ELSE b
  BY DEF Min

LEMMA BytesNumbers ==
  ASSUME BytesInv
  PROVE  /\ client.bytes \in Seq(Byte) /\ Len(client.bytes) \in Nat
         /\ arrived \in Nat /\ arrived <= Len(client.bytes)
         /\ filled \in Nat /\ filled <= arrived
         /\ inner \in Seq(Byte) /\ Len(inner) \in Nat /\ Len(inner) <= filled
  <1>1. client.bytes \in Seq(Byte) /\ Len(client.bytes) \in Nat
    BY ClientTyped DEF BytesInv
  <1>2. inner \in Seq(Byte) /\ Len(inner) \in Nat
    BY LenProperties DEF BytesInv
  <1> QED BY <1>1, <1>2 DEF BytesInv

(* bufferedConn.Read passes on the bytes that follow those already read.   *)
LEMMA ReadBytes ==
  ASSUME BytesInv, Read
  PROVE  BytesInv' /\ filled <= filled'
  <1> DEFINE n == Len(inner)
             b == client.bytes
             m == filled'
             more == SubSeq(b, n + 1, m)
  <1>1. /\ b \in Seq(Byte) /\ Len(b) \in Nat /\ arrived \in Nat /\ arrived <= Len(b)
        /\ filled \in Nat /\ filled <= arrived
        /\ inner \in Seq(Byte) /\ n \in Nat /\ n <= filled
    BY BytesNumbers
  <1>2. /\ m = IF n < filled THEN filled ELSE arrived
        /\ n < arrived /\ inner' = inner \o more
        /\ UNCHANGED <<client, arrived>>
    BY DEF Read, sockVars
  <1>3. m \in Nat /\ n < m /\ filled <= m /\ m <= arrived
    BY <1>1, <1>2
  <1>4. \A i \in 1 .. n : inner[i] = b[i]
    BY DEF BytesInv
  <1> HIDE DEF n, b, m
  <1>5. \A i \in n + 1 .. m : b[i] \in Byte
    <2>1. \A i \in n + 1 .. m : i \in 1 .. Len(b)
      BY <1>1, <1>3
    <2> QED BY <1>1, <2>1, ElementOfSeq
  <1>6. /\ more \in Seq(Byte) /\ Len(more) = m - n
        /\ \A i \in 1 .. m - n : more[i] = b[n + i]
    <2>1. n + 1 \in Int /\ m \in Int
      BY <1>1, <1>3
    <2>2. /\ more \in Seq(Byte)
          /\ Len(more) = IF n + 1 <= m THEN m - (n + 1) + 1 ELSE 0
          /\ \A i \in 1 .. m - (n + 1) + 1 : more[i] = b[(n + 1) + i - 1]
      BY <1>5, <2>1, SubSeqProperties
    <2>3. n + 1 <= m /\ m - (n + 1) + 1 = m - n
      BY <1>1, <1>3
    <2>4. \A i \in 1 .. m - n : (n + 1) + i - 1 = n + i
      BY <1>1, <1>3
    <2> QED BY <2>2, <2>3, <2>4
  <1> HIDE DEF more
  <1>7. inner' \in Seq(Byte) /\ Len(inner') = m
    <2>1. /\ inner \o more \in Seq(Byte)
          /\ Len(inner \o more) = Len(inner) + Len(more)
      BY <1>1, <1>6, ConcatProperties
    <2>2. Len(inner) + Len(more) = m
      BY <1>1, <1>3, <1>6 DEF n
    <2> QED BY <1>2, <2>1, <2>2
  <1>8. ASSUME NEW i \in 1 .. m PROVE inner'[i] = b[i]
    <2>1. inner'[i] = IF i <= Len(inner) THEN inner[i] ELSE more[i - Len(inner)]
      <3>1. i \in 1 .. Len(inner) + Len(more)
        BY <1>1, <1>3, <1>6 DEF n
      <3> QED BY <1>1, <1>2, <1>6, <3>1, ConcatProperties
    <2>2. CASE i <= n
      <3>1. i \in 1 .. n
        BY <1>1, <2>2
      <3> QED BY <1>4, <2>1, <2>2, <3>1 DEF n
    <2>3. CASE i > n
      <3>1. i - n \in 1 .. m - n /\ n + (i - n) = i
        BY <1>1, <1>3, <2>3
      <3>2. ~(i <= n)
        BY <1>1, <2>3
      <3> QED BY <1>6, <2>1, <3>1, <3>2 DEF n
    <2> QED BY <1>1, <2>2, <2>3
  <1>9. filled' \in 0 .. arrived' /\ arrived' \in 0 .. Len(client'.bytes)
    BY <1>1, <1>2, <1>3 DEF m, b
  <1>10. client' \in Clients \cup {NoClient} /\ Len(inner') <= filled'
    BY <1>2, <1>3, <1>7 DEF BytesInv, m
  <1>11. \A i \in 1 .. Len(inner') : inner'[i] = client'.bytes[i]
    BY <1>2, <1>7, <1>8 DEF b
  <1> QED BY <1>3, <1>7, <1>9, <1>10, <1>11 DEF BytesInv, m

(* Bytes arrive, fill the buffer and are read: each only ever adds.        *)
LEMMA BytesStep ==
  ASSUME BytesInv, ControlInv, [Next]_vars
  PROVE  BytesInv' /\ filled' \in Nat /\ filled <= filled'
  <1>1. /\ client.bytes \in Seq(Byte) /\ Len(client.bytes) \in Nat
        /\ arrived \in Nat /\ arrived <= Len(client.bytes)
        /\ filled \in Nat /\ filled <= arrived
        /\ inner \in Seq(Byte) /\ Len(inner) \in Nat /\ Len(inner) <= filled
    BY BytesNumbers
  <1>2. CASE UNCHANGED <<client, arrived, filled, inner>>
    <2>1. BytesInv'
      BY <1>2 DEF BytesInv
    <2> QED BY <1>1, <1>2, <2>1
  <1>3. CASE AcceptConn
    <2>1. /\ phase = "none" /\ client' \in Clients
          /\ UNCHANGED <<arrived, filled, inner>>
      BY <1>3 DEF AcceptConn, peekVars
    <2>2. arrived = 0
      BY <2>1 DEF ControlInv, PhaseInv
    <2>3. filled = 0 /\ Len(inner) = 0 /\ 1 .. Len(inner) = {}
      BY <1>1, <2>2
    <2>4. client' \in Clients \cup {NoClient} /\ Len(client'.bytes) \in Nat
      BY <2>1, ClientTyped
    <2>5. arrived' \in 0 .. Len(client'.bytes) /\ filled' \in 0 .. arrived'
      BY <2>1, <2>2, <2>3, <2>4
    <2> QED BY <1>1, <2>1, <2>3, <2>4, <2>5 DEF BytesInv
  <1>4. CASE Arrive
    <2>1. /\ UNCHANGED <<client, filled, inner>>
          /\ \E n \in client.pauses : n > arrived /\ arrived' = n
      BY <1>4 DEF Arrive, peekVars
    <2>2. client.pauses \subseteq 0 .. Len(client.bytes)
      BY TransparentAssumption DEF BytesInv, NoClient
    <2>3. arrived' \in 0 .. Len(client'.bytes) /\ filled' \in 0 .. arrived'
      BY <1>1, <2>1, <2>2
    <2> QED BY <1>1, <2>1, <2>3 DEF BytesInv
  <1>5. CASE Fill
    <2>1. /\ filled < BufferSize /\ filled < arrived
          /\ filled' = Min({arrived, BufferSize})
          /\ UNCHANGED <<client, arrived, inner>>
      BY <1>5 DEF Fill, sockVars
    <2>2. BufferSize \in Nat
      BY TransparentAssumption
    <2>3. filled' = IF arrived <= BufferSize THEN arrived ELSE BufferSize
      BY <1>1, <2>1, <2>2, MinOfTwo
    <2>4. filled' \in 0 .. arrived /\ filled <= filled' /\ Len(inner) <= filled'
      BY <1>1, <2>1, <2>2, <2>3
    <2> QED BY <1>1, <2>1, <2>4 DEF BytesInv
  <1>6. CASE Read
    <2>1. BytesInv' /\ filled <= filled'
      BY <1>6, ReadBytes
    <2>2. filled' \in Nat
      <3>1. arrived' \in Nat
        BY <1>1, <1>6 DEF Read, sockVars
      <3>2. filled' \in 0 .. arrived'
        BY <2>1 DEF BytesInv
      <3> QED BY <3>1, <3>2
    <2> QED BY <2>1, <2>2
  <1>7. \/ UNCHANGED <<client, arrived, filled, inner>>
        \/ AcceptConn \/ Arrive \/ Fill \/ Read
    BY DEF Next, Handler, vars, connVars, sockVars, peekVars, runTransparent, AcceptError,
           AcceptRetry, Leave, setPeekDeadline, PeekFails, handlerReturns,
           dispatchTransparent, peekTLSRecord, peekRecordBody, Parse, fallbackHost,
           HandshakeOK, HandshakeFails, AcceptInner, AcceptReleased, ServeRequest,
           RequestDone, Hijack, InnerDone
  <1> QED BY <1>2, <1>3, <1>4, <1>5, <1>6, <1>7

(* What the handler does to the parser is a step of the ClientHello walk   *)
(* on bytes the client sent.                                               *)
LEMMA WalkStep ==
  ASSUME BytesInv, ControlInv, [Next]_vars
  PROVE  [HelloNext]_helloVars
  <1>1. CASE peekRecordBody
    <2> DEFINE b == client.bytes
               d == SubSeq(b, 6, wanted)
    <2>1. /\ b \in Seq(Byte) /\ Len(b) \in Nat /\ arrived <= Len(b) /\ arrived \in Nat
          /\ filled \in Nat /\ filled <= arrived
      BY BytesNumbers
    <2>2. phase = "peekBody" /\ filled >= wanted /\ parseClientHello(d)
      BY <1>1 DEF peekRecordBody
    <2>3. filled >= 5 /\ wanted = 5 + recordLen
      BY <2>2 DEF ControlInv, PhaseInv, wanted
    <2>4. recordLen \in Nat
      <3>1. 4 \in 1 .. Len(b) /\ 5 \in 1 .. Len(b)
        BY <2>1, <2>3
      <3>2. b[4] \in Byte /\ b[5] \in Byte
        BY <2>1, <3>1, ElementOfSeq
      <3>3. \A x, y \in Byte : x * 256 + y \in Nat
        BY DEF Byte
      <3>4. recordLen = b[4] * 256 + b[5]
        BY DEF recordLen, byteOf
      <3> QED BY <3>2, <3>3, <3>4
    <2> HIDE DEF b
    <2>5. wanted \in Int /\ \A i \in 6 .. wanted : i \in 1 .. Len(b)
      BY <2>1, <2>2, <2>3, <2>4
    <2>6. \A i \in 6 .. wanted : b[i] \in Byte
      BY <2>1, <2>5, ElementOfSeq
    <2>7. d \in Seq(Byte)
      <3>1. 6 \in Int
        OBVIOUS
      <3> QED BY <2>5, <2>6, <3>1, SubSeqProperties
    <2> QED BY <2>2, <2>7 DEF HelloNext
  <1>2. CASE Parse
    BY <1>2 DEF Parse, HelloNext
  <1>3. UNCHANGED helloVars \/ peekRecordBody \/ Parse
    BY DEF Next, Handler, vars, runTransparent, AcceptError, AcceptRetry, AcceptConn,
           Arrive, Leave, setPeekDeadline, Fill, PeekFails, handlerReturns,
           dispatchTransparent, peekTLSRecord, fallbackHost, Read, HandshakeOK,
           HandshakeFails, AcceptInner, AcceptReleased, ServeRequest, RequestDone,
           Hijack, InnerDone
  <1> QED BY <1>1, <1>2, <1>3

-----------------------------------------------------------------------------
(* The accept loop and the client.                                         *)
LEMMA OutsideControl ==
  ASSUME ControlInv, filled \in Nat, filled' \in Nat, filled <= filled',
         \/ runTransparent \/ AcceptError \/ AcceptRetry \/ AcceptConn \/ Arrive \/ Leave
         \/ UNCHANGED vars
  PROVE  ControlInv'
  <1> USE DEF ControlInv, PhaseInv, connVars, sockVars, peekVars, serveVars
  <1>1. CASE runTransparent \/ AcceptError \/ AcceptRetry
    BY <1>1 DEF runTransparent, AcceptError, AcceptRetry
  <1>2. CASE AcceptConn
    BY <1>2 DEF AcceptConn
  <1>3. CASE Arrive
    BY <1>3 DEF Arrive
  <1>4. CASE Leave
    BY <1>4 DEF Leave
  <1>5. CASE UNCHANGED vars
    BY <1>5 DEF vars
  <1> QED BY <1>1, <1>2, <1>3, <1>4, <1>5

(* The handler up to the end of the handshake: a byte is looked at only    *)
(* once it is in the buffer, and the inner connection does not exist yet.  *)
LEMMA PeekControl ==
  ASSUME ControlInv, filled \in Nat, filled' \in Nat, filled <= filled',
         \/ setPeekDeadline \/ Fill \/ PeekFails \/ dispatchTransparent \/ peekTLSRecord
         \/ peekRecordBody \/ Parse \/ fallbackHost \/ Read \/ HandshakeOK
         \/ HandshakeFails
  PROVE  ControlInv'
  <1> USE DEF ControlInv, PhaseInv, connVars, sockVars, peekVars, serveVars
  <1>1. CASE setPeekDeadline
    BY <1>1 DEF setPeekDeadline
  <1>2. CASE Fill
    BY <1>2 DEF Fill
  <1>3. CASE PeekFails
    <2>1. phase \in {"peekFirst", "peekHeader", "peekBody"}
      BY <1>3 DEF PeekFails, wanted
    <2> QED BY <1>3, <2>1 DEF PeekFails, handlerReturns
  <1>4. CASE dispatchTransparent
    <2>1. phase = "peekFirst" /\ filled >= 1
      BY <1>4 DEF dispatchTransparent, wanted
    <2> QED BY <1>4, <2>1 DEF dispatchTransparent
  <1>5. CASE peekTLSRecord
    <2>1. phase = "peekHeader" /\ filled >= 5
      BY <1>5 DEF peekTLSRecord, wanted
    <2>2. /\ phase' \in {"closed", "peekBody"}
          /\ UNCHANGED <<loop, sockVars, peekVars, serveVars>>
      BY <1>5 DEF peekTLSRecord, handlerReturns
    <2> QED BY <2>1, <2>2
  <1>6. CASE peekRecordBody
    BY <1>6 DEF peekRecordBody
  <1>7. CASE Parse
    BY <1>7 DEF Parse
  <1>8. CASE fallbackHost
    BY <1>8 DEF fallbackHost
  <1>9. CASE Read
    BY <1>9 DEF Read
  <1>10. CASE HandshakeOK
    BY <1>10 DEF HandshakeOK
  <1>11. CASE HandshakeFails
    BY <1>11 DEF HandshakeFails, handlerReturns
  <1> QED BY <1>1, <1>2, <1>3, <1>4, <1>5, <1>6, <1>7, <1>8, <1>9, <1>10, <1>11

(* Serving: the listener is closed only with the connection, and the       *)
(* handler returns only after that.                                        *)
LEMMA ServeControl ==
  ASSUME ControlInv, filled \in Nat, filled' \in Nat, filled <= filled',
         \/ AcceptInner \/ AcceptReleased \/ ServeRequest \/ RequestDone \/ Hijack
         \/ InnerDone
  PROVE  ControlInv'
  <1> USE DEF ControlInv, PhaseInv, connVars, sockVars, peekVars, serveVars
  <1>1. CASE AcceptInner
    BY <1>1 DEF AcceptInner
  <1>2. CASE AcceptReleased
    BY <1>2 DEF AcceptReleased, listenerClose
  <1>3. CASE ServeRequest
    <2>1. requests' \in 0 .. MaxRequests
      BY <1>3, TransparentAssumption DEF ServeRequest
    <2> QED BY <1>3, <2>1 DEF ServeRequest
  <1>4. CASE RequestDone
    BY <1>4 DEF RequestDone
  <1>5. CASE Hijack
    BY <1>5 DEF Hijack
  <1>6. CASE InnerDone
    BY <1>6 DEF InnerDone, closeInner, listenerClose
  <1> QED BY <1>1, <1>2, <1>3, <1>4, <1>5, <1>6

LEMMA ControlStep ==
  ASSUME ControlInv, filled \in Nat, filled' \in Nat, filled <= filled', [Next]_vars
  PROVE  ControlInv'
  BY OutsideControl, PeekControl, ServeControl DEF Next, Handler

-----------------------------------------------------------------------------
(* A connection that is being handled has a first byte, and it tells the   *)
(* kind of client.                                                         *)
LEMMA FirstByte ==
  ASSUME BytesInv, filled >= 1
  PROVE  client.kind = "http" <=> byteOf(0) # 22
  <1>1. client.bytes \in Seq(Byte) /\ Len(client.bytes) >= 1
    BY BytesNumbers
  <1>2. client.bytes # << >>
    BY <1>1
  <1>3. client # NoClient
    BY <1>2 DEF NoClient
  <1>4. client \in Clients
    BY <1>3 DEF BytesInv
  <1>5. byteOf(0) = client.bytes[1]
    BY DEF byteOf
  <1> QED BY <1>2, <1>4, <1>5, TransparentAssumption

(* The certificate is asked for in the handshake, and plain HTTP has none. *)
LEMMA CertificateStep ==
  ASSUME BytesInv, ControlInv, CertificateForName, [Next]_vars
  PROVE  CertificateForName'
  <1>1. CASE UNCHANGED <<phase, client, certHost>>
    BY <1>1 DEF CertificateForName
  <1>2. CASE phase' # "serve"
    BY <1>2 DEF CertificateForName
  <1>3. CASE dispatchTransparent
    <2>1. filled >= 1 /\ UNCHANGED client
      BY <1>3 DEF dispatchTransparent, wanted, sockVars
    <2>2. phase' = "serve" => client.kind = "http"
      BY <1>3, <2>1, FirstByte DEF dispatchTransparent
    <2> QED BY <2>1, <2>2 DEF CertificateForName
  <1>4. CASE HandshakeOK
    BY <1>4 DEF HandshakeOK, tlsConfigFor, sockVars, CertificateForName
  <1>5. \/ UNCHANGED <<phase, client, certHost>> \/ phase' # "serve"
        \/ dispatchTransparent \/ HandshakeOK
    BY DEF Next, Handler, vars, connVars, sockVars, peekVars, runTransparent, AcceptError,
           AcceptRetry, AcceptConn, Arrive, Leave, setPeekDeadline, Fill, PeekFails,
           handlerReturns, peekTLSRecord, peekRecordBody, Parse, fallbackHost, Read,
           HandshakeFails, AcceptInner, AcceptReleased, ServeRequest, RequestDone,
           Hijack, InnerDone
  <1> QED BY <1>1, <1>2, <1>3, <1>4, <1>5

-----------------------------------------------------------------------------
LEMMA InitInv == Init => Inv
  <1> SUFFICES ASSUME Init PROVE Inv
    OBVIOUS
  <1> USE DEF Init
  <1>1. HelloInv
    BY HelloInitInv
  <1>2. BytesInv
    <2>1. client.bytes = << >> /\ Len(client.bytes) = 0 /\ inner \in Seq(Byte) /\ Len(inner) = 0
      BY EmptySeq DEF NoClient
    <2> QED BY <2>1 DEF BytesInv
  <1>3. ControlInv
    <2>1. requests \in 0 .. MaxRequests /\ closes \in {0, 1} /\ closes # 1
      BY TransparentAssumption
    <2>2. deadline \in BOOLEAN /\ gone \in BOOLEAN /\ served \in BOOLEAN /\ ~deadline
      OBVIOUS
    <2> QED BY <2>1, <2>2 DEF ControlInv, PhaseInv
  <1>4. CertificateForName
    BY DEF CertificateForName
  <1> QED BY <1>1, <1>2, <1>3, <1>4 DEF Inv

LEMMA NextInv == Inv /\ [Next]_vars => Inv'
  <1> SUFFICES ASSUME Inv, [Next]_vars PROVE Inv'
    OBVIOUS
  <1>1. HelloInv /\ BytesInv /\ ControlInv /\ CertificateForName
    BY DEF Inv
  <1>2. HelloInv'
    BY <1>1, WalkStep, HelloNextInv
  <1>3. BytesInv' /\ filled \in Nat /\ filled' \in Nat /\ filled <= filled'
    BY <1>1, BytesStep, BytesNumbers
  <1>4. ControlInv'
    BY <1>1, <1>3, ControlStep
  <1>5. CertificateForName'
    BY <1>1, CertificateStep
  <1> QED BY <1>2, <1>3, <1>4, <1>5 DEF Inv

(* The invariant holds of every connection.                                *)
THEOREM Invariance == Spec => []Inv
  BY InitInv, NextInv, PTL DEF Spec

(* Every variable keeps its type, the read deadline is gone once the first *)
(* byte is there, and the channel that releases the listener is closed at  *)
(* most once (singleConnListener.Close).                                   *)
THEOREM TypeCorrect == Spec => []TypeOK
  <1>1. Inv => TypeOK
    BY DEF Inv, TypeOK, HelloInv, BytesInv, ControlInv
  <1> QED BY <1>1, Invariance, PTL

(* What a handler does to the parser is the ClientHello walk on bytes the  *)
(* client sent: all that is proved of the walk holds in transparent mode.  *)
THEOREM HandlerWalks == Spec => HelloSpec
  <1>1. Init => HelloInit
    BY DEF Init
  <1>2. Inv /\ [Next]_vars => [HelloNext]_helloVars
    BY WalkStep DEF Inv
  <1> QED BY <1>1, <1>2, Invariance, PTL DEF Spec, HelloSpec

(* No read of the walk leaves the record, whatever the client sends and    *)
(* however it arrives.                                                     *)
THEOREM HandlerReadsInBounds == Spec => []ReadsInBounds
  BY HandlerWalks, ReadsStayInBounds, PTL

(* Peeking consumes nothing: what is read through bufferedConn is what the *)
(* client sent, from its first byte (bufferedConn.Read).                   *)
THEOREM NothingConsumed == Spec => []PeekedBytesKept
  <1>1. Inv => PeekedBytesKept
    <2> SUFFICES ASSUME BytesInv PROVE IsPrefix(inner, client.bytes)
      BY DEF Inv, PeekedBytesKept
    <2> DEFINE n == Len(inner)
               b == client.bytes
               s == SubSeq(inner, 1, n)
               t == SubSeq(b, 1, n)
    <2>1. /\ b \in Seq(Byte) /\ Len(b) \in Nat /\ inner \in Seq(Byte) /\ n \in Nat
          /\ n <= Len(b)
      BY BytesNumbers
    <2>2. \A i \in 1 .. n : inner[i] = b[i]
      BY DEF BytesInv
    <2> HIDE DEF n, b
    <2>3. \A i \in 1 .. n : inner[i] \in Byte /\ b[i] \in Byte
      <3>1. \A i \in 1 .. n : i \in 1 .. Len(b) /\ i \in 1 .. Len(inner)
        BY <2>1 DEF n
      <3> QED BY <2>1, <3>1, ElementOfSeq
    <2>4. /\ s \in Seq(Byte) /\ Len(s) = n /\ \A i \in 1 .. n : s[i] = inner[i]
      <3>1. /\ s \in Seq(Byte) /\ Len(s) = (IF 1 <= n THEN n - 1 + 1 ELSE 0)
            /\ \A i \in 1 .. n - 1 + 1 : s[i] = inner[1 + i - 1]
        BY <2>1, <2>3, SubSeqProperties
      <3>2. n - 1 + 1 = n /\ (IF 1 <= n THEN n - 1 + 1 ELSE 0) = n
        BY <2>1
      <3>3. \A i \in 1 .. n : 1 + i - 1 = i
        BY <2>1
      <3> QED BY <3>1, <3>2, <3>3
    <2>5. /\ t \in Seq(Byte) /\ Len(t) = n /\ \A i \in 1 .. n : t[i] = b[i]
      <3>1. /\ t \in Seq(Byte) /\ Len(t) = (IF 1 <= n THEN n - 1 + 1 ELSE 0)
            /\ \A i \in 1 .. n - 1 + 1 : t[i] = b[1 + i - 1]
        BY <2>1, <2>3, SubSeqProperties
      <3>2. n - 1 + 1 = n /\ (IF 1 <= n THEN n - 1 + 1 ELSE 0) = n
        BY <2>1
      <3>3. \A i \in 1 .. n : 1 + i - 1 = i
        BY <2>1
      <3> QED BY <3>1, <3>2, <3>3
    <2> HIDE DEF s, t
    <2>6. s = t
      BY <2>2, <2>4, <2>5, SeqEqual
    <2> QED BY <2>1, <2>6 DEF IsPrefix, s, t, n, b
  <1> QED BY <1>1, Invariance, PTL

(* A client that names a server gets a certificate for that name, whatever *)
(* the peek found (tlsConfigFor).                                          *)
THEOREM CertificateMatches == Spec => []CertificateForName
  <1>1. Inv => CertificateForName
    BY DEF Inv
  <1> QED BY <1>1, Invariance, PTL

-----------------------------------------------------------------------------
(* The name peeked from a hello.                                           *)

(* The walk reads the hello h, and the client asks for h's name.           *)
ReadsFor(h) ==
    /\ client.sni = ServerName(h)
    /\ Follows(h)
    /\ client.kind = "whole" => Len(data) = Len(Encode(h))

(* The handler starts the walk on a hello the client wrote, or on the part *)
(* of it in the first record.                                              *)
Reading ==
    /\ phase \in {"none", "accepted", "peekFirst", "peekHeader", "peekBody"} => at = "idle"
    /\ at = "idle" => name = << >>
    /\ at # "idle" /\ client.kind \in {"whole", "split"} => \E h \in Hellos : ReadsFor(h)

(* The payload of a record, and the length its header gives it.            *)
LEMMA RecordWritten ==
  ASSUME NEW p \in Bytes
  PROVE  LET rec == tlsRecord(p)
         IN  rec \in Bytes /\ u16(rec, 3) = Len(p) /\ Holds(rec, 5, p)
  <1> DEFINE head == <<22, 3, 1>>
             v == vector16(p)
             rec == tlsRecord(p)
  <1>1. head \in Bytes /\ Len(head) = 3
    BY DEF Bytes
  <1>2. v \in Bytes
    BY Vector16
  <1>3. rec = head \o v
    BY Zenon DEF tlsRecord
  <1> HIDE DEF head, v, rec
  <1>4. rec \in Bytes /\ Holds(rec, 3, v)
    BY <1>1, <1>2, <1>3, HoldsConcat
  <1>5. u16(rec, 3) = Len(p) /\ Holds(rec, 3 + 2, p)
    BY <1>4, Vector16In DEF v
  <1>6. Holds(rec, 5, p)
    BY <1>5
  <1> QED BY <1>4, <1>5, <1>6 DEF rec

(* The same when more follows the record.                                  *)
LEMMA RecordThenMore ==
  ASSUME NEW p \in Bytes, NEW more \in Bytes
  PROVE  LET b == tlsRecord(p) \o more
         IN  u16(b, 3) = Len(p) /\ Holds(b, 5, p)
  <1> DEFINE rec == tlsRecord(p)
             b == rec \o more
  <1>1. rec \in Bytes /\ u16(rec, 3) = Len(p) /\ Holds(rec, 5, p) /\ Len(rec) \in Nat
    <2>1. rec \in Bytes /\ u16(rec, 3) = Len(p) /\ Holds(rec, 5, p)
      BY RecordWritten
    <2> QED BY <2>1, LenProperties DEF Bytes
  <1> HIDE DEF rec
  <1>2. b \in Bytes /\ Holds(b, 0, rec)
    BY <1>1, HoldsConcat
  <1> HIDE DEF b
  <1>3. Holds(b, 0 + 5, p)
    BY <1>1, <1>2, HoldsTrans
  <1>4. Holds(b, 5, p)
    BY <1>3
  <1>5. u16(b, 3) = u16(rec, 3)
    <2>1. Len(p) \in Nat /\ 5 + Len(p) <= Len(rec)
      BY <1>1, LenProperties DEF Holds, Bytes
    <2>2. 4 \in 1 .. Len(rec) /\ 5 \in 1 .. Len(rec)
      BY <1>1, <2>1
    <2>3. b[0 + 4] = rec[4] /\ b[0 + 5] = rec[5]
      BY <1>2, <2>2 DEF Holds
    <2>4. b[4] = rec[4] /\ b[5] = rec[5]
      BY <2>3
    <2> QED BY <2>4 DEF u16
  <1> QED BY <1>1, <1>4, <1>5 DEF b, rec

(* What the handler peeks of a hello is the first part of it, and all of   *)
(* it when it fits in the record.                                          *)
LEMMA HelloPeeked ==
  ASSUME BytesInv, client.kind \in {"whole", "split"}
  PROVE  \E h \in Hellos :
           LET d == SubSeq(client.bytes, 6, 5 + recordLen)
           IN  /\ client.sni = ServerName(h)
               /\ Len(d) <= Len(Encode(h))
               /\ \A k \in 1 .. Len(d) : d[k] = Encode(h)[k]
               /\ client.kind = "whole" => Len(d) = Len(Encode(h))
  <1>1. client \in Clients
    BY DEF BytesInv, NoClient
  <1> DEFINE b == client.bytes
  <1>2. b \in Bytes
    BY BytesNumbers, ByteSeq
  <1>3. recordLen = u16(b, 3)
    <2>1. 3 + 1 = 4 /\ 4 + 1 = 5 /\ 3 + 1 + 1 = 5
      OBVIOUS
    <2> QED BY <2>1 DEF recordLen, byteOf, u16
  <1>4. ASSUME NEW p \in Bytes, u16(b, 3) = Len(p), Holds(b, 5, p)
        PROVE  SubSeq(b, 6, 5 + recordLen) = p
    <2>1. 5 + Len(p) <= Len(b) /\ \A k \in 1 .. Len(p) : b[5 + k] = p[k]
      BY <1>4 DEF Holds
    <2> HIDE DEF b
    <2>2. SubSeq(b, 5 + 1, 5 + Len(p)) = p
      BY <1>2, <2>1, SliceIs DEF Bytes
    <2>3. 5 + 1 = 6
      OBVIOUS
    <2> QED BY <1>3, <1>4, <2>2, <2>3, Zenon
  <1>5. CASE client.kind = "whole"
    <2>1. PICK h \in Hellos : b = tlsRecord(Encode(h)) /\ client.sni = ServerName(h)
      BY <1>1, <1>5, TransparentAssumption
    <2>2. Encode(h) \in Bytes
      BY TransparentAssumption, FieldsWritten
    <2>3. u16(b, 3) = Len(Encode(h)) /\ Holds(b, 5, Encode(h))
      BY <2>1, <2>2, RecordWritten
    <2>4. SubSeq(b, 6, 5 + recordLen) = Encode(h)
      BY <1>4, <2>2, <2>3
    <2>5. Len(Encode(h)) \in Nat
      BY <2>2, LenProperties DEF Bytes
    <2> DEFINE d == SubSeq(b, 6, 5 + recordLen)
    <2>6. d = Encode(h)
      BY <2>4
    <2> HIDE DEF d
    <2>7. /\ Len(d) <= Len(Encode(h)) /\ Len(d) = Len(Encode(h))
          /\ \A k \in 1 .. Len(d) : d[k] = Encode(h)[k]
      BY <2>5, <2>6
    <2> QED BY <2>1, <2>7, Zenon DEF d
  <1>6. CASE client.kind = "split"
    <2>1. PICK h \in Hellos :
             /\ \E n \in 1 .. Len(Encode(h)) - 1 :
                   b = tlsRecord(SubSeq(Encode(h), 1, n))
                       \o tlsRecord(SubSeq(Encode(h), n + 1, Len(Encode(h))))
             /\ client.sni = ServerName(h)
      BY <1>1, <1>6, TransparentAssumption
    <2> DEFINE e == Encode(h)
    <2>2. PICK n \in 1 .. Len(e) - 1 :
             b = tlsRecord(SubSeq(e, 1, n)) \o tlsRecord(SubSeq(e, n + 1, Len(e)))
      BY <2>1
    <2>3. e \in Bytes /\ Len(e) \in Nat
      <3>1. e \in Bytes
        BY TransparentAssumption, FieldsWritten
      <3> QED BY <3>1, LenProperties DEF Bytes
    <2> DEFINE p == SubSeq(e, 1, n)
               q == SubSeq(e, n + 1, Len(e))
    <2> HIDE DEF e, b
    <2>4. /\ 1 \in Int /\ n \in Int /\ n + 1 \in Int /\ Len(e) \in Int /\ 1 <= n /\ n <= Len(e)
          /\ \A k \in 1 .. n : k \in 1 .. Len(e)
          /\ \A k \in n + 1 .. Len(e) : k \in 1 .. Len(e)
      BY <2>3
    <2>5. \A k \in 1 .. Len(e) : e[k] \in Nat
      BY <2>3, ElementOfSeq DEF Bytes
    <2>6. p \in Bytes /\ Len(p) = n /\ \A k \in 1 .. n : p[k] = e[k]
      <3>1. /\ p \in Seq(Nat) /\ Len(p) = IF 1 <= n THEN n - 1 + 1 ELSE 0
            /\ \A k \in 1 .. n - 1 + 1 : p[k] = e[1 + k - 1]
        BY <2>4, <2>5, SubSeqProperties
      <3>2. n - 1 + 1 = n /\ \A k \in 1 .. n : 1 + k - 1 = k
        BY <2>4
      <3> QED BY <2>4, <3>1, <3>2 DEF Bytes
    <2>7. q \in Bytes
      BY <2>4, <2>5, SubSeqProperties DEF Bytes
    <2> HIDE DEF p, q
    <2>8. tlsRecord(q) \in Bytes
      BY <2>7, RecordWritten
    <2>9. b = tlsRecord(p) \o tlsRecord(q)
      BY <2>2 DEF p, q
    <2>10. u16(b, 3) = Len(p) /\ Holds(b, 5, p)
      BY <2>6, <2>8, <2>9, RecordThenMore, Zenon
    <2>11. SubSeq(b, 6, 5 + recordLen) = p
      BY <1>4, <2>6, <2>10
    <2>12. client.kind # "whole"
      BY <1>6
    <2> QED BY <2>1, <2>4, <2>6, <2>11, <2>12 DEF e, b
  <1> QED BY <1>5, <1>6

(* Every step of the handler keeps that.                                   *)
LEMMA ReadingStep ==
  ASSUME Inv, Reading, [Next]_vars
  PROVE  Reading'
  <1>0. HelloTypeOK /\ BytesInv /\ ControlInv
    BY DEF Inv, HelloInv
  <1>1. CASE peekRecordBody
    <2> DEFINE d == SubSeq(client.bytes, 6, 5 + recordLen)
    <2>1. /\ at = "idle" /\ at' = "type" /\ data' = d /\ phase' = "parse"
          /\ UNCHANGED <<client, name>>
      BY <1>1 DEF peekRecordBody, parseClientHello, wanted, sockVars
    <2>2. name' = << >>
      BY <2>1 DEF Reading
    <2>3. ASSUME client.kind \in {"whole", "split"} PROVE \E h \in Hellos : ReadsFor(h)'
      <3>1. PICK h \in Hellos :
              /\ client.sni = ServerName(h)
              /\ Len(d) <= Len(Encode(h))
              /\ \A k \in 1 .. Len(d) : d[k] = Encode(h)[k]
              /\ client.kind = "whole" => Len(d) = Len(Encode(h))
        BY <1>0, <2>3, HelloPeeked
      <3> HIDE DEF d
      <3>2. DataOf(h)'
        BY <2>1, <3>1 DEF DataOf
      <3>3. Follows(h)'
        BY <2>1, <2>2, <3>2 DEF Follows
      <3>4. ReadsFor(h)'
        BY <2>1, <3>1, <3>3 DEF ReadsFor
      <3> QED BY <3>4
    <2> QED BY <2>1, <2>2, <2>3 DEF Reading
  <1>2. CASE Parse
    <2>1. phase = "parse" /\ ParseStep /\ UNCHANGED <<client, phase>>
      BY <1>2 DEF Parse, connVars, sockVars
    <2>2. at # "idle" /\ at' # "idle"
      BY <2>1 DEF ParseStep, HandshakeType, field, giveUp, skipClientHelloVersionRandom,
           skipSessionID, skipCipherSuites, skipCompression, ExtensionsLength,
           sniFromExtension, ExtensionsDone, sniFromServerNameList, NamesDone
    <2>3. UNCHANGED data
      BY <2>1 DEF ParseStep, HandshakeType, field, giveUp, skipClientHelloVersionRandom,
           skipSessionID, skipCipherSuites, skipCompression, ExtensionsLength,
           sniFromExtension, ExtensionsDone, sniFromServerNameList, NamesDone
    <2>4. ASSUME client.kind \in {"whole", "split"} PROVE \E h \in Hellos : ReadsFor(h)'
      <3>1. PICK h \in Hellos : ReadsFor(h)
        BY <2>2, <2>4 DEF Reading
      <3>2. h \in Hello
        BY TransparentAssumption
      <3>3. Follows(h)'
        BY <1>0, <2>1, <3>1, <3>2, StepFollows DEF ReadsFor
      <3>4. ReadsFor(h)'
        BY <2>1, <2>3, <3>1, <3>3 DEF ReadsFor
      <3> QED BY <3>4
    <2> QED BY <2>1, <2>2, <2>4 DEF Reading
  <1>3. CASE AcceptConn
    <2>1. phase = "none" /\ phase' = "accepted" /\ UNCHANGED <<at, name>>
      BY <1>3 DEF AcceptConn, helloVars
    <2> QED BY <2>1 DEF Reading
  <1>4. CASE UNCHANGED <<client, helloVars>> /\ (phase' = phase \/ at = "idle" \/ phase' \in {"handshake", "serve", "closed"})
    <2>1. \A h : ReadsFor(h) => ReadsFor(h)'
      BY <1>4 DEF ReadsFor, Follows, DataOf, AtExtension, AtName, Answered, helloVars
    <2>2. UNCHANGED <<at, name, client>>
      BY <1>4 DEF helloVars
    <2> QED BY <1>4, <2>1, <2>2 DEF Reading
  <1>5. \/ peekRecordBody \/ Parse \/ AcceptConn
        \/ /\ UNCHANGED <<client, helloVars>>
           /\ \/ phase' = phase
              \/ phase' \in {"handshake", "serve", "closed"}
              \/ phase \in {"accepted", "peekFirst", "peekHeader"}
    BY DEF Next, Handler, vars, connVars, sockVars, runTransparent, AcceptError, AcceptRetry,
           Arrive, Leave, setPeekDeadline, Fill, PeekFails, handlerReturns,
           dispatchTransparent, peekTLSRecord, fallbackHost, Read, HandshakeOK,
           HandshakeFails, AcceptInner, AcceptReleased, ServeRequest, RequestDone,
           Hijack, InnerDone
  <1> QED BY <1>1, <1>2, <1>3, <1>4, <1>5 DEF Reading

LEMMA InitReading == Init => Reading
  BY DEF Init, HelloInit, Reading

(* When the walk is over it has the client's name, or a hello cut short.   *)
LEMMA NameTaken == Reading => NeverMisread
  <1> SUFFICES ASSUME Reading, at = "done", client.kind \in {"whole", "split"}
               PROVE  /\ client.kind = "whole" => name = client.sni
                      /\ client.kind = "split" => name \in {<< >>, client.sni}
    BY DEF NeverMisread
  <1>1. PICK h \in Hellos : ReadsFor(h)
    BY DEF Reading
  <1> QED BY <1>1 DEF ReadsFor, Follows, Answered

(* The name the handler takes from a ClientHello is the one the client     *)
(* asks for: for every hello that fits in its record, whatever lists and   *)
(* extensions it has, and that name or none when only its first part was   *)
(* peeked (transparent_shared.go:101-257).                                 *)
THEOREM NameNeverWrong == Spec => []NeverMisread
  <1>1. Inv /\ Reading /\ [Next]_vars => Reading'
    BY ReadingStep
  <1> QED BY <1>1, NameTaken, InitReading, Invariance, PTL DEF Spec

-----------------------------------------------------------------------------
(* Where requests without a Host header go.                                *)

spoken == IF client.kind = "http" THEN "http" ELSE "https"

(* The host and the scheme that serveInner is called with are those of the *)
(* way the connection took through dispatchTransparent.                    *)
RoutingInv ==
    /\ phase = "handshake" /\ client.kind \in {"whole", "split"} => host \in DefaultHosts
    /\ phase = "serve" => host \in DefaultHosts /\ scheme = spoken
    /\ RequestsRoutable

(* The peeked name, if any, else the original destination is a host for a  *)
(* TLS client.                                                             *)
LEMMA PeekedHost ==
  ASSUME NeverMisread, at = "done", client.kind \in {"whole", "split"}
  PROVE  (IF name # << >> THEN name ELSE resolved(OrigIP)) \in DefaultHosts
  <1>1. CASE client.kind = "whole"
    BY <1>1 DEF NeverMisread, DefaultHosts
  <1>2. CASE client.kind = "split"
    BY <1>2 DEF NeverMisread, DefaultHosts
  <1> QED BY <1>1, <1>2

(* A request is served with the scheme and the host of its connection.     *)
LEMMA RequestRouted ==
  ASSUME RoutingInv, ServeRequest
  PROVE  RequestsRoutable'
  <1>1. /\ phase = "serve" /\ host \in DefaultHosts /\ scheme = spoken
        /\ url' = rewriteTransparentURL(request')
        /\ UNCHANGED client
    BY DEF ServeRequest, RoutingInv, sockVars
  <1>2. DefaultHosts' = DefaultHosts /\ spoken' = spoken
    BY <1>1 DEF DefaultHosts, resolved, spoken
  <1>3. ASSUME ~request'.abs
        PROVE  /\ url'.scheme = scheme
               /\ url'.host = IF request'.host # << >> THEN request'.host ELSE host
    <2>1. url' = [scheme |-> scheme,
                  host   |-> IF request'.host # << >> THEN request'.host ELSE host]
      BY <1>1, <1>3, Zenon DEF rewriteTransparentURL
    <2> QED BY <2>1
  <1> HIDE DEF DefaultHosts
  <1>4. ASSUME ~request'.abs, request'.host # << >>
        PROVE  url'.scheme = spoken' /\ url'.host = request'.host
    BY <1>1, <1>2, <1>3, <1>4
  <1>5. ASSUME ~request'.abs, request'.host = << >>
        PROVE  url'.scheme = spoken' /\ url'.host \in DefaultHosts'
    BY <1>1, <1>2, <1>3, <1>5
  <1> QED BY <1>4, <1>5, Zenon DEF RequestsRoutable, spoken

(* Every step of the handler keeps that.                                   *)
LEMMA RoutingStep ==
  ASSUME Inv, Reading, RoutingInv, [Next]_vars
  PROVE  RoutingInv'
  <1>0. BytesInv /\ ControlInv /\ NeverMisread
    BY NameTaken DEF Inv
  <1>1. CASE UNCHANGED client
    <2>1. DefaultHosts' = DefaultHosts /\ spoken' = spoken
      BY <1>1 DEF DefaultHosts, resolved, spoken
    <2>2. /\ phase' = "handshake" /\ client.kind \in {"whole", "split"}
               => host' \in DefaultHosts
          /\ phase' = "serve" => host' \in DefaultHosts /\ scheme' = spoken
      <3>1. CASE dispatchTransparent
        <4>1. filled >= 1
          BY <3>1 DEF dispatchTransparent, wanted
        <4>2. \/ phase' = "peekHeader"
              \/ /\ phase' = "serve" /\ byteOf(0) # 22
                 /\ host' = resolved(OrigAddr) /\ scheme' = "http"
          BY <3>1 DEF dispatchTransparent
        <4>3. byteOf(0) # 22 => client.kind = "http"
          BY <1>0, <4>1, FirstByte
        <4> QED BY <4>2, <4>3 DEF DefaultHosts, spoken
      <3>2. CASE fallbackHost
        <4>1. /\ phase' = "handshake" /\ at = "done"
              /\ host' = IF name # << >> THEN name ELSE resolved(OrigIP)
          BY <3>2 DEF fallbackHost
        <4> QED BY <1>0, <4>1, PeekedHost
      <3>3. CASE HandshakeOK
        <4>1. /\ phase = "handshake" /\ client.kind \in {"whole", "split"}
              /\ phase' = "serve" /\ scheme' = "https" /\ UNCHANGED host
          BY <3>3 DEF HandshakeOK
        <4> QED BY <4>1 DEF RoutingInv, spoken
      <3>4. CASE UNCHANGED <<host, scheme>> /\ phase' \in {phase, "closed", "accepted",
                     "peekFirst", "peekBody", "parse"}
        BY <3>4 DEF RoutingInv
      <3>5. \/ dispatchTransparent \/ fallbackHost \/ HandshakeOK
            \/ /\ UNCHANGED <<host, scheme>>
               /\ phase' \in {phase, "closed", "accepted", "peekFirst", "peekBody", "parse"}
        BY DEF Next, Handler, vars, connVars, peekVars, runTransparent, AcceptError,
               AcceptRetry, AcceptConn, Arrive, Leave, setPeekDeadline, Fill, PeekFails,
               handlerReturns, peekTLSRecord, peekRecordBody, Parse, Read,
               HandshakeFails, AcceptInner, AcceptReleased, ServeRequest, RequestDone,
               Hijack, InnerDone
      <3> QED BY <3>1, <3>2, <3>3, <3>4, <3>5
    <2>3. RequestsRoutable'
      <3>1. CASE ServeRequest
        BY <3>1, RequestRouted
      <3>2. CASE UNCHANGED <<conn, request, url>>
        BY <2>1, <3>2 DEF RoutingInv, RequestsRoutable, spoken
      <3>3. CASE conn' # "handling"
        BY <3>3 DEF RequestsRoutable
      <3>4. ServeRequest \/ UNCHANGED <<conn, request, url>> \/ conn' # "handling"
        BY DEF Next, Handler, vars, connVars, serveVars, runTransparent, AcceptError,
               AcceptRetry, AcceptConn, Arrive, Leave, setPeekDeadline, Fill, PeekFails,
               handlerReturns, dispatchTransparent, peekTLSRecord, peekRecordBody, Parse,
               fallbackHost, Read, HandshakeOK, HandshakeFails, AcceptInner,
               AcceptReleased, RequestDone, Hijack, InnerDone, closeInner
      <3> QED BY <3>1, <3>2, <3>3, <3>4
    <2> QED BY <1>1, <2>1, <2>2, <2>3, Zenon DEF RoutingInv
  <1>2. CASE AcceptConn
    <2>1. phase' = "accepted" /\ phase = "none" /\ UNCHANGED conn
      BY <1>2 DEF AcceptConn, serveVars
    <2>2. conn # "handling"
      BY <1>0, <2>1 DEF ControlInv, PhaseInv
    <2> QED BY <2>1, <2>2 DEF RoutingInv, RequestsRoutable
  <1>3. UNCHANGED client \/ AcceptConn
    BY DEF Next, Handler, vars, connVars, sockVars, runTransparent, AcceptError,
           AcceptRetry, Arrive, Leave, setPeekDeadline, Fill, PeekFails,
           handlerReturns, dispatchTransparent, peekTLSRecord, peekRecordBody, Parse,
           fallbackHost, Read, HandshakeOK, HandshakeFails, AcceptInner,
           AcceptReleased, ServeRequest, RequestDone, Hijack, InnerDone
  <1> QED BY <1>1, <1>2, <1>3

(* However the bytes of a connection arrive, a relative request is routed  *)
(* with the scheme its client speaks and with its Host header, else the    *)
(* name of the client's hello, else the original destination; a hello that *)
(* was cut by its record may be routed by either of the last two           *)
(* (fallbackHost, transparent_loop.go:239; rewriteTransparentURL).         *)
THEOREM RoutesKnown == Spec => []RequestsRoutable
  <1>1. Init => RoutingInv
    BY DEF Init, RoutingInv, RequestsRoutable
  <1>2. Inv /\ Reading /\ [Next]_vars => Reading'
    BY ReadingStep
  <1>3. Inv /\ Reading /\ RoutingInv /\ [Next]_vars => RoutingInv'
    BY RoutingStep
  <1>4. RoutingInv => RequestsRoutable
    BY DEF RoutingInv
  <1> QED BY <1>1, <1>2, <1>3, <1>4, InitReading, Invariance, PTL DEF Spec
=============================================================================
