---------------------------- MODULE Transparent -----------------------------
(***************************************************************************)
(* Transparent mode: internal/proxy/transparent_loop.go, with the SNI peek *)
(* of transparent_shared.go (module ClientHello), from the accept loop to  *)
(* the end of one connection's handler.                                    *)
(*                                                                         *)
(* A handler peeks the first byte of its connection under a deadline and   *)
(* serves plain HTTP, or peeks the ClientHello for the server name, runs   *)
(* the TLS handshake and serves the decrypted side.  It serves through an  *)
(* http.Server whose listener hands out that one connection and then       *)
(* blocks in Accept until the connection is closed.  Handlers share only   *)
(* the resolver and the peeker, which the loop has set before the first    *)
(* one starts, and the certificate cache (module Certificates), so one     *)
(* connection is followed.  The client may send its bytes in pieces, stop  *)
(* at any point, or go away.                                               *)
(***************************************************************************)
EXTENDS ClientHello

CONSTANTS
    Hellos,       \* the ClientHello messages that clients write
    Clients,      \* what a client sends first: a set of records with fields
                  \* bytes, pauses (the offsets at which it may hesitate),
                  \* kind ("http": not a TLS record, "whole": the hello fits
                  \* in one record, "split": it continues in another,
                  \* "garbled": any other record), sni, the name the client
                  \* asks for, and resolves, whether Resolve can tell where
                  \* its connection was going
    BufferSize,   \* size of the bufio.Reader (64 KiB)
    Requests,     \* requests on the inner connection: records with fields
                  \* abs (an absolute URL or CONNECT) and host
    MaxRequests,  \* bound: requests served on the connection
    OrigIP,       \* the original destination, as an address
    OrigAddr      \* the original destination, as address and port

ASSUME TransparentAssumption ==
    /\ BufferSize \in Nat /\ MaxRequests \in Nat
    /\ Hellos \subseteq Hello
    /\ \A c \in Clients :
         /\ c.bytes \in Seq(Byte)
         /\ c.pauses \subseteq 0 .. Len(c.bytes)
         /\ c.bytes # << >> => (c.kind = "http" <=> c.bytes[1] # 22)
         /\ c.kind = "whole" =>
              \E h \in Hellos : /\ c.bytes = tlsRecord(Encode(h))
                               /\ c.sni = ServerName(h)
         /\ c.kind = "split" =>
              \E h \in Hellos :
                 /\ \E n \in 1 .. Len(Encode(h)) - 1 :
                       c.bytes = tlsRecord(SubSeq(Encode(h), 1, n))
                                 \o tlsRecord(SubSeq(Encode(h), n + 1, Len(Encode(h))))
                 /\ c.sni = ServerName(h)

NoClient == [bytes |-> << >>, pauses |-> {}, kind |-> "none", sni |-> << >>,
             resolves |-> FALSE]
NoRequest == [abs |-> FALSE, host |-> << >>]
NoURL == [scheme |-> "none", host |-> << >>]

VARIABLES
    loop,       \* the accept loop: starting, accepting, sleeping or failed
    client,     \* the client of the connection
    arrived,    \* how many of its bytes have reached the socket
    gone,       \* the client has closed or lost the connection
    phase,      \* where handleTransparentConn is
    deadline,   \* a read deadline is set on the socket
    filled,     \* how many bytes the bufio.Reader has taken from the socket
    inner,      \* the bytes the TLS or HTTP server has read
    host,       \* fallbackHost; << >> is ""
    certHost,   \* the host asked of the certificate cache
    scheme,     \* the scheme serveInner is called with
    served,     \* singleConnListener.served
    closes,     \* how often the channel singleConnListener.closed was closed
    conn,       \* the http.Server's goroutine for the inner connection
    request,    \* the last request, as it was read
    url,        \* its URL, as goproxy gets it
    requests    \* requests served so far

sockVars == <<client, arrived, gone>>
peekVars == <<deadline, filled, inner, host, certHost, scheme>>
serveVars == <<served, closes, conn, request, url, requests>>
connVars == <<sockVars, phase, peekVars, serveVars>>
vars == <<loop, connVars, helloVars>>

Init ==
    /\ HelloInit
    /\ loop = "starting"
    /\ client = NoClient /\ arrived = 0 /\ gone = FALSE
    /\ phase = "none"
    /\ deadline = FALSE /\ filled = 0 /\ inner = << >>
    /\ host = << >> /\ certHost = << >> /\ scheme = "none"
    /\ served = FALSE /\ closes = 0 /\ conn = "none"
    /\ request = NoRequest /\ url = NoURL /\ requests = 0

-----------------------------------------------------------------------------
(* The accept loop.  Its further turns concern other connections.          *)

(* runTransparent: without a resolver for the platform the mode is         *)
(* unsupported, else resolver and peeker are in place from here on.        *)
runTransparent ==
    /\ loop = "starting"
    /\ loop' \in {"accepting", "failed"}
    /\ UNCHANGED <<connVars, helloVars>>

(* acceptOnce: a timeout is retried after a pause, any other error ends    *)
(* the loop.                                                               *)
AcceptError ==
    /\ loop = "accepting"
    /\ phase = "none"
    /\ loop' \in {"sleeping", "failed"}
    /\ UNCHANGED <<connVars, helloVars>>

AcceptRetry ==
    /\ loop = "sleeping"
    /\ loop' = "accepting"
    /\ UNCHANGED <<connVars, helloVars>>

(* acceptLoop: a connection gets a goroutine of its own.                   *)
AcceptConn ==
    /\ loop = "accepting"
    /\ phase = "none"
    /\ client' \in Clients
    /\ phase' = "accepted"
    /\ UNCHANGED <<loop, arrived, gone, peekVars, serveVars, helloVars>>

-----------------------------------------------------------------------------
(* The client.                                                             *)

Arrive ==
    /\ phase \notin {"none", "closed"}
    /\ ~gone
    /\ \E n \in client.pauses : n > arrived /\ arrived' = n
    /\ UNCHANGED <<loop, client, gone, phase, peekVars, serveVars, helloVars>>

Leave ==
    /\ phase \notin {"none", "closed"}
    /\ ~gone
    /\ gone' = TRUE
    /\ UNCHANGED <<loop, client, arrived, phase, peekVars, serveVars, helloVars>>

-----------------------------------------------------------------------------
(* peekAndBuffer and the SNI peek.                                         *)

byteOf(i) == client.bytes[i + 1]

(* Return from handleTransparentConn: the deferred Close of the socket.    *)
handlerReturns ==
    /\ phase' = "closed"
    /\ UNCHANGED <<loop, sockVars, peekVars, serveVars, helloVars>>

(* Broken variant: the handler waits for the first byte without a limit.   *)
setPeekDeadline_Never ==
    /\ phase = "accepted"
    /\ \/ phase' = "peekFirst" /\ UNCHANGED deadline
       \/ phase' = "closed" /\ UNCHANGED deadline
    /\ UNCHANGED <<loop, sockVars, filled, inner, host, certHost, scheme, serveVars,
                   helloVars>>

(* Setting the deadline fails only on a socket that is already dead.       *)
setPeekDeadline ==
    /\ phase = "accepted"
    /\ \/ phase' = "peekFirst" /\ deadline' = TRUE
       \/ phase' = "closed" /\ UNCHANGED deadline
    /\ UNCHANGED <<loop, sockVars, filled, inner, host, certHost, scheme, serveVars,
                   helloVars>>

recordLen == byteOf(3) * 256 + byteOf(4)

(* How many bytes the Peek of this phase waits for.                        *)
wanted ==
    CASE phase = "peekFirst" -> 1
      [] phase = "peekHeader" -> 5
      [] phase = "peekBody" -> 5 + recordLen
      [] OTHER -> 0

(* bufio.Reader.fill inside Peek: one read of the socket, as much as there *)
(* is and the buffer has room for.                                         *)
Fill ==
    /\ filled < wanted
    /\ filled < BufferSize
    /\ filled < arrived
    /\ filled' = Min({arrived, BufferSize})
    /\ UNCHANGED <<loop, sockVars, phase, deadline, inner, host, certHost, scheme,
                   serveVars, helloVars>>

(* A Peek that cannot be satisfied: the client is gone, the deadline has   *)
(* passed, or the record is larger than the buffer.  The handler returns.  *)
PeekFails ==
    /\ filled < wanted
    /\ \/ filled = arrived /\ gone
       \/ filled = arrived /\ deadline
       \/ filled = BufferSize
    /\ handlerReturns

(* Resolve may fail; the host is then empty.                               *)
resolved(orig) == IF client.resolves THEN orig ELSE << >>

(* peekAndBuffer has its byte: the deadline is cleared, and the first byte *)
(* tells a TLS handshake record from plain HTTP, which is served with the  *)
(* original destination as its host.                                       *)
dispatchTransparent ==
    /\ phase = "peekFirst"
    /\ filled >= wanted
    /\ deadline' = FALSE
    /\ IF byteOf(0) = 22
       THEN phase' = "peekHeader" /\ UNCHANGED <<host, scheme>>
       ELSE phase' = "serve" /\ host' = resolved(OrigAddr) /\ scheme' = "http"
    /\ UNCHANGED <<loop, sockVars, filled, inner, certHost, serveVars, helloVars>>

(* tlsRecordHeader: an empty record is an error.                           *)
peekTLSRecord ==
    /\ phase = "peekHeader"
    /\ filled >= wanted
    /\ IF recordLen <= 0
       THEN handlerReturns
       ELSE /\ phase' = "peekBody"
            /\ UNCHANGED <<loop, sockVars, peekVars, serveVars, helloVars>>

peekRecordBody ==
    /\ phase = "peekBody"
    /\ filled >= wanted
    /\ phase' = "parse"
    /\ parseClientHello(SubSeq(client.bytes, 6, wanted))
    /\ UNCHANGED <<loop, sockVars, peekVars, serveVars>>

Parse ==
    /\ phase = "parse"
    /\ ParseStep
    /\ UNCHANGED <<loop, connVars>>

(* Broken variant: the peeked name is not used for routing.                *)
fallbackHost_IgnoresName ==
    /\ phase = "parse"
    /\ at = "done"
    /\ host' = resolved(OrigIP)
    /\ phase' = "handshake"
    /\ UNCHANGED <<loop, sockVars, deadline, filled, inner, certHost, scheme, serveVars,
                   helloVars>>

(* The name the client asked for, else the original destination.           *)
fallbackHost ==
    /\ phase = "parse"
    /\ at = "done"
    /\ host' = IF name # << >> THEN name ELSE resolved(OrigIP)
    /\ phase' = "handshake"
    /\ UNCHANGED <<loop, sockVars, deadline, filled, inner, certHost, scheme, serveVars,
                   helloVars>>

-----------------------------------------------------------------------------
(* Reading through bufferedConn, and the handshake.                        *)

(* Broken variant: reads go to the socket, past what is buffered.          *)
Read_FromSocket ==
    /\ phase \in {"handshake", "serve"}
    /\ filled < arrived
    /\ inner' = inner \o SubSeq(client.bytes, filled + 1, arrived)
    /\ filled' = arrived
    /\ UNCHANGED <<loop, sockVars, phase, deadline, host, certHost, scheme, serveVars,
                   helloVars>>

(* bufferedConn.Read: what the bufio.Reader holds first, then the socket.  *)
Read ==
    /\ phase \in {"handshake", "serve"}
    /\ Len(inner) < arrived
    /\ filled' = IF Len(inner) < filled THEN filled ELSE arrived
    /\ inner' = inner \o SubSeq(client.bytes, Len(inner) + 1, filled')
    /\ UNCHANGED <<loop, sockVars, phase, deadline, host, certHost, scheme, serveVars,
                   helloVars>>

(* Broken variant: the certificate is always for the fallback host.        *)
tlsConfigFor_FallbackOnly(serverName) == host

(* GetCertificate: the name crypto/tls read from the hello, which it has   *)
(* put together from all its records, else the fallback host.              *)
tlsConfigFor(serverName) == IF serverName = << >> THEN host ELSE serverName

(* crypto/tls has read the client's handshake and it succeeds: the inner   *)
(* connection is served as https.                                          *)
HandshakeOK ==
    /\ phase = "handshake"
    /\ client.kind \in {"whole", "split"}
    /\ inner = client.bytes
    /\ ~gone
    /\ certHost' = tlsConfigFor(client.sni)
    /\ scheme' = "https"
    /\ phase' = "serve"
    /\ UNCHANGED <<loop, sockVars, deadline, filled, inner, host, serveVars, helloVars>>

(* It fails: a malformed hello, a client that does not trust the CA, or a  *)
(* lost connection.  There is no deadline here.                            *)
HandshakeFails ==
    /\ phase = "handshake"
    /\ gone \/ inner = client.bytes
    /\ handlerReturns

-----------------------------------------------------------------------------
(* serveInner: http.Server.Serve on a singleConnListener.                  *)

(* An absolute URL is left as it is; a relative one gets the scheme of the *)
(* connection and the Host header, else the fallback host.                 *)
rewriteTransparentURL(r) ==
    IF r.abs THEN [scheme |-> "own", host |-> r.host]
    ELSE [scheme |-> scheme,
          host   |-> IF r.host # << >> THEN r.host ELSE host]

(* Broken variant: the channel is closed by every Close.                   *)
listenerClose_NoOnce == closes' = closes + 1

(* singleConnListener.Close: the channel is closed once.                   *)
listenerClose == closes' = IF closes = 0 THEN 1 ELSE closes

(* Broken variant: closing the connection does not release the listener.   *)
closeInner_Silent == conn' = "closed" /\ UNCHANGED closes

(* closeNotifyConn.Close, called by whoever finishes the connection.       *)
closeInner == conn' = "closed" /\ listenerClose

(* The first Accept hands out the connection.                              *)
AcceptInner ==
    /\ phase = "serve"
    /\ ~served
    /\ served' = TRUE
    /\ conn' = "reading"
    /\ UNCHANGED <<loop, sockVars, phase, peekVars, closes, request, url,
                   requests, helloVars>>

(* The second Accept returns net.ErrClosed once the listener is closed:    *)
(* Serve closes its listener on the way out, and the handler returns.      *)
AcceptReleased ==
    /\ phase = "serve"
    /\ served
    /\ closes > 0
    /\ listenerClose
    /\ phase' = "closed"
    /\ UNCHANGED <<loop, sockVars, peekVars, served, conn, request, url,
                   requests, helloVars>>

(* A request has been read; the handler rewrites its URL.                  *)
ServeRequest ==
    /\ phase = "serve"
    /\ conn = "reading"
    /\ inner = client.bytes
    /\ requests < MaxRequests
    /\ ~gone
    /\ request' \in Requests
    /\ url' = rewriteTransparentURL(request')
    /\ requests' = requests + 1
    /\ conn' = "handling"
    /\ UNCHANGED <<loop, sockVars, phase, peekVars, served, closes, helloVars>>

(* The exchange is over and the connection is kept.                        *)
RequestDone ==
    /\ phase = "serve"
    /\ conn = "handling"
    /\ ~gone
    /\ conn' = "reading"
    /\ UNCHANGED <<loop, sockVars, phase, peekVars, served, closes, request, url,
                   requests, helloVars>>

(* goproxy takes the connection over: a CONNECT or an upgraded request.    *)
Hijack ==
    /\ phase = "serve"
    /\ conn = "handling"
    /\ conn' = "hijacked"
    /\ UNCHANGED <<loop, sockVars, phase, peekVars, served, closes, request, url,
                   requests, helloVars>>

(* The inner connection is closed: by http.Server after an end of file, a  *)
(* header or idle timeout, a bad request, or an exchange that does not     *)
(* keep it; by goproxy when a tunnel it has taken over ends.               *)
InnerDone ==
    /\ phase = "serve"
    /\ conn \in {"reading", "handling", "hijacked"}
    /\ closeInner
    /\ UNCHANGED <<loop, sockVars, phase, peekVars, served, request, url,
                   requests, helloVars>>

-----------------------------------------------------------------------------
Handler ==
    \/ setPeekDeadline
    \/ Fill
    \/ PeekFails
    \/ dispatchTransparent
    \/ peekTLSRecord
    \/ peekRecordBody
    \/ Parse
    \/ fallbackHost
    \/ Read
    \/ HandshakeOK
    \/ HandshakeFails
    \/ AcceptInner
    \/ AcceptReleased
    \/ ServeRequest
    \/ RequestDone
    \/ Hijack
    \/ InnerDone

Next ==
    \/ runTransparent
    \/ AcceptError
    \/ AcceptRetry
    \/ AcceptConn
    \/ Arrive
    \/ Leave
    \/ Handler

Spec == Init /\ [][Next]_vars

(* A runnable handler runs, the peek deadline passes, and what net/http    *)
(* and goproxy do about a client that is gone (cancel the exchange, end    *)
(* the tunnel, close the connection) gets done.  Nothing is assumed of a   *)
(* client: it may stop sending for ever.                                   *)
Fairness ==
    /\ WF_vars(setPeekDeadline) /\ WF_vars(Fill) /\ WF_vars(PeekFails)
    /\ WF_vars(dispatchTransparent)
    /\ WF_vars(peekTLSRecord) /\ WF_vars(peekRecordBody)
    /\ WF_vars(Parse) /\ WF_vars(fallbackHost)
    /\ WF_vars(HandshakeOK \/ HandshakeFails)
    /\ WF_vars(AcceptInner) /\ WF_vars(AcceptReleased)
    /\ WF_vars(gone /\ InnerDone)

FairSpec == Spec /\ Fairness

-----------------------------------------------------------------------------
(* Every variable has its type.  A read deadline is on the socket only     *)
(* while the first byte is awaited ("the proxied session is long-lived",   *)
(* transparent_loop.go:185), and the channel that releases Accept is       *)
(* closed at most once, although the inner connection and the http.Server  *)
(* both close the listener: a second close of a Go channel panics.         *)
TypeOK ==
    /\ HelloTypeOK
    /\ loop \in {"starting", "accepting", "sleeping", "failed"}
    /\ client \in Clients \cup {NoClient}
    /\ arrived \in 0 .. Len(client.bytes)
    /\ phase \in {"none", "accepted", "peekFirst", "peekHeader", "peekBody",
                  "parse", "handshake", "serve", "closed"}
    /\ deadline \in BOOLEAN /\ gone \in BOOLEAN /\ served \in BOOLEAN
    /\ deadline => phase \in {"peekFirst", "closed"}
    /\ filled \in 0 .. arrived
    /\ inner \in Seq(Byte)
    /\ closes \in {0, 1}
    /\ conn \in {"none", "reading", "handling", "hijacked", "closed"}
    /\ requests \in 0 .. MaxRequests

(* The name peeked from a hello is the one the client asks for: exactly so *)
(* when the hello fits in its record, and that one or none (the original   *)
(* destination is used then) when only its first part has been peeked.     *)
NeverMisread ==
    at = "done" =>
        /\ client.kind = "whole" => name = client.sni
        /\ client.kind = "split" => name \in {<< >>, client.sni}

(* Peeking consumes nothing: what the TLS or HTTP server reads through     *)
(* bufferedConn is what the client sent, from its first byte, in order and *)
(* without a gap, however the bytes arrived.                               *)
PeekedBytesKept == IsPrefix(inner, client.bytes)

(* A client that names a server gets a certificate for that name, even     *)
(* when the peek could not see the name and routing fell back to the       *)
(* original destination.                                                   *)
CertificateForName ==
    phase = "serve" /\ client.kind \in {"whole", "split"} /\ client.sni # << >>
        => certHost = client.sni

(* The hosts a request without a Host header may be sent to: the original  *)
(* destination of a plain connection; the name of a hello, else the        *)
(* original destination; and either of them when the peek saw only a part  *)
(* of the hello.                                                           *)
DefaultHosts ==
    CASE client.kind = "http" -> {resolved(OrigAddr)}
      [] client.kind = "whole" /\ client.sni # << >> -> {client.sni}
      [] client.kind = "split" /\ client.sni # << >> -> {client.sni, resolved(OrigIP)}
      [] OTHER -> {resolved(OrigIP)}

(* A relative request reaches goproxy with the scheme the client speaks    *)
(* and with the host of its Host header, else with the name peeked from    *)
(* the hello, else with the original destination: the host is empty only   *)
(* when none of them is known (fallbackHost, rewriteTransparentURL).       *)
RequestsRoutable ==
    conn = "handling" /\ ~request.abs =>
        /\ url.scheme = IF client.kind = "http" THEN "http" ELSE "https"
        /\ IF request.host # << >> THEN url.host = request.host
                                   ELSE url.host \in DefaultHosts

(* A client that sends nothing is dropped: "peekTimeout bounds how long we *)
(* wait for the first bytes of a connection" (transparent_loop.go:18).     *)
SilentClientDropped ==
    phase \in {"accepted", "peekFirst"} ~> phase \notin {"accepted", "peekFirst"}

(* Once the client is gone its handler returns and closes the socket,      *)
(* wherever it was: peeking, in the handshake, serving, or in a tunnel;    *)
(* in particular the blocked Accept is released.                           *)
HandlerEnds == gone ~> phase = "closed"
=============================================================================
