--------------------------- MODULE MCTransparent ----------------------------
(***************************************************************************)
(* Instances of Transparent for TLC: hellos of several shapes, whole, cut  *)
(* into two records at every offset, and with any one byte replaced; plain *)
(* HTTP; and records that are empty or larger than the buffer.             *)
(***************************************************************************)
EXTENDS Transparent

dns(n) == [type |-> 0, host |-> n]
other(n) == [type |-> 1, host |-> n]
sni(ns) == [type |-> 0, names |-> ns, body |-> << >>]
ext(b) == [type |-> 5, names |-> << >>, body |-> b]

hello(session, exts) ==
    [session |-> session, ciphers |-> <<9, 9>>, compression |-> <<0>>,
     exts |-> exts]

Plain    == hello(<< >>, <<ext(<<1, 2>>), sni(<<dns(<<7>>)>>)>>)
TwoNames == hello(<<3>>, <<sni(<<other(<<5, 0, 0>>), dns(<<8>>)>>), ext(<< >>)>>)
TwoLists == hello(<< >>, <<sni(<<other(<<6>>)>>), sni(<<dns(<<7, 8>>), dns(<<9>>)>>)>>)
NoName   == hello(<< >>, <<ext(<<0>>), sni(<<dns(<< >>)>>)>>)
NoExts   == hello(<<3, 3>>, << >>)

MCHellos == {Plain, TwoNames, TwoLists, NoName, NoExts}

sends(kind, bytes, pauses, n) ==
    [kind |-> kind, bytes |-> bytes, pauses |-> pauses \cup {Len(bytes)}, sni |-> n,
     resolves |-> TRUE]

Whole ==
    {sends("whole", tlsRecord(Encode(h)), {1, 5, 20}, ServerName(h)) : h \in MCHellos}

Split ==
    UNION {LET e == Encode(h) IN
             {sends("split",
                tlsRecord(SubSeq(e, 1, n)) \o tlsRecord(SubSeq(e, n + 1, Len(e))),
                {5 + n}, ServerName(h)) : n \in 1 .. Len(e) - 1}
           : h \in MCHellos}

Garbled ==
    UNION {LET e == Encode(h) IN
             {sends("garbled", tlsRecord([e EXCEPT ![i] = b]), {}, << >>)
              : i \in 1 .. Len(e), b \in {0, 1, 3, 255}}
           : h \in {Plain, TwoNames}}

Odd ==
    {sends("garbled", <<22, 3, 1, 0, 0>>, {1, 4}, << >>),
     sends("garbled", <<22, 3, 1, 1, 0>> \o [i \in 1 .. BufferSize |-> 1],
             {30}, << >>)}

PlainHTTP == {sends("http", <<71, 69, 84>>, {1}, << >>)}

(* Connections without an original destination.                            *)
Unresolved == {[c EXCEPT !.resolves = FALSE] : c \in Whole \cup Split \cup PlainHTTP}

MCClients == Whole \cup Split \cup Garbled \cup Odd \cup PlainHTTP \cup Unresolved

MCRequests == {[abs |-> TRUE, host |-> <<4>>],
               [abs |-> FALSE, host |-> <<4>>],
               [abs |-> FALSE, host |-> << >>]}
=============================================================================
