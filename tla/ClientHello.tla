---------------------------- MODULE ClientHello -----------------------------
(***************************************************************************)
(* The ClientHello walk of internal/proxy/transparent_shared.go, which     *)
(* finds the server name (SNI) in the first TLS record of a connection     *)
(* without consuming it.  Every length it follows was chosen by the peer.  *)
(*                                                                         *)
(* One action is one field of the hello or one turn of one of the two      *)
(* loops (extensions, and the entries of a server name list), so that the  *)
(* offset each read uses is part of the state.  Offsets count from 0, as   *)
(* in the code; data is the record without its 5-byte header.              *)
(***************************************************************************)
EXTENDS Integers, SequencesExt

CONSTANT
    VersionRandomLen  \* bytes of protocol version and random: 34 in TLS

Byte == 0 .. 255
Uint16 == 0 .. 256 * 256 - 1

ASSUME HelloAssumption == VersionRandomLen \in Nat

VARIABLES
    data,        \* the handshake bytes given to parseClientHello
    at,          \* which field or loop the walk is at
    offset,      \* where in data that is
    end,         \* where the extensions block ends
    nameOffset,  \* in a server name list: the entry being looked at
    nameEnd,     \* in a server name list: where the list ends
    name         \* the name found; << >> is the empty string

helloVars == <<data, at, offset, end, nameOffset, nameEnd, name>>

byteAt(i) == data[i + 1]
uint16At(i) == byteAt(i) * 256 + byteAt(i + 1)

HelloInit ==
    /\ data = << >> /\ name = << >>
    /\ at = "idle"
    /\ offset = 0 /\ end = 0 /\ nameOffset = 0 /\ nameEnd = 0

(* parseClientHello is called with the bytes d.                            *)
parseClientHello(d) ==
    /\ at = "idle"
    /\ data' = d
    /\ at' = "type"
    /\ UNCHANGED <<offset, end, nameOffset, nameEnd, name>>

(* The walk ends without a name.                                           *)
giveUp ==
    /\ at' = "done"
    /\ UNCHANGED offset

isHandshakeType == Len(data) >= 2 /\ byteAt(0) = 1

(* A handshake that is not a ClientHello is not looked into; the type and  *)
(* the three bytes of handshake length are skipped.                        *)
HandshakeType ==
    /\ at = "type"
    /\ IF isHandshakeType THEN at' = "random" /\ offset' = 4 ELSE giveUp
    /\ UNCHANGED <<data, end, nameOffset, nameEnd, name>>

(* One field before the extensions: width bytes must be there, and skip    *)
(* bytes are passed over, which may lead past the end of the data.         *)
field(here, width, skip, next) ==
    /\ at = here
    /\ IF offset + width > Len(data)
       THEN giveUp
       ELSE at' = next /\ offset' = offset + skip
    /\ UNCHANGED <<data, end, nameOffset, nameEnd, name>>

skipClientHelloVersionRandom ==
    field("random", VersionRandomLen, VersionRandomLen, "session")

skipSessionID == field("session", 1, 1 + byteAt(offset), "ciphers")
skipCipherSuites == field("ciphers", 2, 2 + uint16At(offset), "compression")
skipCompression == field("compression", 1, 1 + byteAt(offset), "length")

(* Broken variant: the block is taken to be as long as it says.            *)
extensionsEnd_Trusted(start) == start + uint16At(offset)

(* helloFromSNI: the extensions block ends where its length says, or with  *)
(* the record.                                                             *)
extensionsEnd(start) ==
    IF start + uint16At(offset) > Len(data) THEN Len(data)
                                            ELSE start + uint16At(offset)

ExtensionsLength ==
    /\ at = "length"
    /\ IF offset + 2 > Len(data)
       THEN giveUp /\ UNCHANGED end
       ELSE /\ at' = "extension"
            /\ offset' = offset + 2
            /\ end' = extensionsEnd(offset + 2)
    /\ UNCHANGED <<data, nameOffset, nameEnd, name>>

isSNIExtension(extType, extLen, body) ==
    extType = 0 /\ extLen > 5 /\ body + extLen <= end

clampServerNameListEnd(listEnd, body, extLen) ==
    IF listEnd > body + extLen THEN body + extLen ELSE listEnd

(* The offset of the extension after this one.                             *)
nextExtension == offset + 4 + uint16At(offset + 2)

(* A turn of sniFromExtensions: a server name extension is entered, any    *)
(* other is passed over.                                                   *)
sniFromExtension ==
    /\ at = "extension"
    /\ offset + 4 <= end
    /\ LET body   == offset + 4
           extLen == uint16At(offset + 2)
       IN  IF isSNIExtension(uint16At(offset), extLen, body)
           THEN /\ at' = "names"
                /\ nameOffset' = body + 2
                /\ nameEnd' = clampServerNameListEnd(body + 2 + uint16At(body),
                                                     body, extLen)
                /\ UNCHANGED offset
           ELSE /\ offset' = nextExtension
                /\ UNCHANGED <<at, nameOffset, nameEnd>>
    /\ UNCHANGED <<data, end, name>>

(* No further extension header fits: there is no name.                     *)
ExtensionsDone ==
    /\ at = "extension"
    /\ offset + 4 > end
    /\ giveUp
    /\ UNCHANGED <<data, end, nameOffset, nameEnd, name>>

(* Broken variant: the kind of name is not looked at.                      *)
isDNSEntry_AnyType(nameType, nameLen, start) ==
    nameLen > 0 /\ start + nameLen <= nameEnd

isDNSEntry(nameType, nameLen, start) ==
    nameType = 0 /\ nameLen > 0 /\ start + nameLen <= nameEnd

(* A turn of sniFromServerNameList: the first DNS entry is the answer.     *)
sniFromServerNameList ==
    /\ at = "names"
    /\ nameOffset + 3 <= nameEnd
    /\ LET nameLen == uint16At(nameOffset + 1)
           start   == nameOffset + 3
       IN  IF isDNSEntry(byteAt(nameOffset), nameLen, start)
           THEN /\ name' = SubSeq(data, start + 1, start + nameLen)
                /\ at' = "done"
                /\ UNCHANGED nameOffset
           ELSE /\ nameOffset' = start + nameLen
                /\ UNCHANGED <<at, name>>
    /\ UNCHANGED <<data, offset, end, nameEnd>>

(* The list has no name: on with the next extension.                       *)
NamesDone ==
    /\ at = "names"
    /\ nameOffset + 3 > nameEnd
    /\ at' = "extension"
    /\ offset' = nextExtension
    /\ UNCHANGED <<data, end, nameOffset, nameEnd, name>>

ParseStep ==
    \/ HandshakeType
    \/ skipClientHelloVersionRandom
    \/ skipSessionID
    \/ skipCipherSuites
    \/ skipCompression
    \/ ExtensionsLength
    \/ sniFromExtension
    \/ ExtensionsDone
    \/ sniFromServerNameList
    \/ NamesDone

HelloNext ==
    \/ \E d \in Seq(Byte) : parseClientHello(d)
    \/ ParseStep

(* The walk over any bytes whatever.                                       *)
HelloSpec == HelloInit /\ [][HelloNext]_helloVars

-----------------------------------------------------------------------------
(* The reference: how a client writes a hello (RFC 8446 4.1.2, RFC 6066    *)
(* section 3), and the name it asks for.  A server name extension (type 0) *)
(* has a list of names, any other a body.  A length that does not fit its  *)
(* field gives a number that is not a byte, which nobody can send.         *)

vector8(b) == <<Len(b)>> \o b
vector16(b) == <<Len(b) \div 256, Len(b) % 256>> \o b

nameEntry(n) == <<n.type>> \o vector16(n.host)

extension(e) ==
    LET body == IF e.type = 0
                THEN vector16(FlattenSeq([j \in 1 .. Len(e.names) |-> nameEntry(e.names[j])]))
                ELSE e.body
    IN  <<e.type \div 256, e.type % 256>> \o vector16(body)

helloBody(h) ==
    [i \in 1 .. VersionRandomLen |-> 0]
    \o vector8(h.session) \o vector16(h.ciphers) \o vector8(h.compression)
    \o vector16(FlattenSeq([i \in 1 .. Len(h.exts) |-> extension(h.exts[i])]))

(* The handshake message: its type, three bytes of length, and the hello.  *)
Encode(h) == <<1, 0>> \o vector16(helloBody(h))

tlsRecord(p) == <<22, 3, 1>> \o vector16(p)

NameEntry == [type : Byte, host : Seq(Byte)]
Extension == [type : Uint16, body : Seq(Byte), names : Seq(NameEntry)]
Hello == [session : Seq(Byte), ciphers : Seq(Byte), compression : Seq(Byte),
          exts : Seq(Extension)]

(* The DNS names a hello carries, by extension and place in its list.      *)
dnsNames(h) ==
    UNION {{<<i, j>> : j \in {k \in 1 .. Len(h.exts[i].names) :
                               /\ h.exts[i].names[k].type = 0
                               /\ h.exts[i].names[k].host # << >>}}
           : i \in {k \in 1 .. Len(h.exts) : h.exts[k].type = 0}}

before(p, q) == p[1] < q[1] \/ (p[1] = q[1] /\ p[2] < q[2])

(* The first of them, or the empty string.                                 *)
ServerName(h) ==
    IF dnsNames(h) = {} THEN << >>
    ELSE LET p == CHOOSE p \in dnsNames(h) : \A q \in dnsNames(h) : q = p \/ before(p, q)
         IN  h.exts[p[1]].names[p[2]].host

-----------------------------------------------------------------------------
(* Offsets are never negative, and bytes stay bytes.                       *)
HelloTypeOK ==
    /\ data \in Seq(Byte)
    /\ at \in {"idle", "type", "random", "session", "ciphers", "compression",
               "length", "extension", "names", "done"}
    /\ offset \in Nat /\ end \in Nat /\ nameOffset \in Nat /\ nameEnd \in Nat
    /\ name \in Seq(Byte)

(* Whatever the peer sent, no index or slice expression of the two loops   *)
(* leaves the record (it would panic and, in a goroutine of its own, end   *)
(* the process): the loops test their offsets against end and nameEnd, not *)
(* against the data, so this rests on how those were clamped.              *)
ReadsInBounds ==
    /\ at = "extension" /\ offset + 4 <= end =>
         /\ offset + 4 <= Len(data)
         /\ isSNIExtension(uint16At(offset), uint16At(offset + 2), offset + 4)
               => offset + 6 <= Len(data)
    /\ at = "names" =>
         /\ offset + 4 <= Len(data)
         /\ nameOffset + 3 <= nameEnd =>
              /\ nameOffset + 3 <= Len(data)
              /\ isDNSEntry(byteAt(nameOffset), uint16At(nameOffset + 1), nameOffset + 3)
                    => nameOffset + 3 + uint16At(nameOffset + 1) <= Len(data)
=============================================================================
