------------------------------ MODULE Exchange ------------------------------
(***************************************************************************)
(* One proxied exchange: the request and response hooks of                 *)
(* internal/proxy/proxy.go, the bounded body readers of proxy_body.go, and *)
(* the recorder of internal/capture/capture.go.                            *)
(*                                                                         *)
(* A body is a stream: its source (the client for the request, upstream    *)
(* for the response) produces bytes one at a time, may pause forever, and  *)
(* ends or breaks off.  The proxy first reads part of it for capture, then *)
(* puts what it read back in front and relays the stream.  Byte k of a     *)
(* body is the number k, so order and loss are visible.                    *)
(***************************************************************************)
EXTENDS Integers, Sequences

CONSTANTS
    Limits,     \* the body-limit flags goper may run with (0: unlimited)
    SafetyCap,  \* unlimitedReadSafetyCap (64 MiB)
    MaxInt,     \* the largest int64
    Lengths,    \* the body lengths clients and upstreams send
    Nil         \* no body, no entry

ASSUME ExchangeAssumption ==
    /\ MaxInt \in Nat
    /\ Limits \subseteq -MaxInt .. MaxInt
    /\ SafetyCap \in 1 .. MaxInt
    /\ Lengths \subseteq 0 .. MaxInt - 1
    /\ Nil \notin Int

Sides == {"req", "resp"}

VARIABLES
    limit,    \* per side: the configured capture limit
    wants,    \* shouldCapture: the URL passes the include and exclude filters
    total,    \* per side: bytes of the body that are sent
    breaks,   \* per side: the stream breaks off after total bytes
    cl,       \* ContentLength of the response; -1 when unknown
    stream,   \* the response has a streaming content type
    worth,    \* worthCapturing: the response is printable or JSON
    made,     \* per side: bytes the source has produced
    ended,    \* per side: the source has ended
    taken,    \* per side: bytes the proxy has read off the source
    front,    \* per side: bytes put back in front of the source
    got,      \* per side: bytes the receiver has been sent
    result,   \* per side: how the relay ended
    phase,    \* where the exchange is
    reqBody,  \* RequestBody of the capture context: a length, or Nil
    entry,    \* the entry pushed to the store, or Nil
    pushes    \* entries pushed

config == <<limit, wants, total, breaks, stream, worth>>
source == <<made, ended>>
record == <<reqBody, entry, pushes>>
vars == <<limit, wants, total, breaks, cl, stream, worth, made, ended, taken,
          front, got, result, phase, reqBody, entry, pushes>>

-----------------------------------------------------------------------------
(* limit + 1 in int64.                                                     *)
plusOne(n) == IF n = MaxInt THEN -MaxInt - 1 ELSE n + 1

(* The largest number of bytes a LimitReader for n bytes lets through.     *)
atMost(n) == IF n < 0 THEN 0 ELSE n

NoBound == MaxInt

(* readBounded, of the request: how much may be read.                      *)
readBounded(lim) == IF lim <= 0 THEN NoBound ELSE atMost(plusOne(lim))

(* Broken variant: an unlimited capture is not capped.                     *)
readForCapture_NoCap(lim, contentLength) ==
    IF lim > 0 THEN atMost(plusOne(lim)) ELSE NoBound

(* readForCapture, of the response.                                        *)
readForCapture(lim, contentLength) ==
    IF lim > 0 THEN atMost(plusOne(lim))
    ELSE IF contentLength >= 0 THEN NoBound
    ELSE SafetyCap

Bound(s) == IF s = "req" THEN readBounded(limit["req"])
                         ELSE readForCapture(limit["resp"], cl)

(* Broken variant: the byte that tells a full body from a cut one is not   *)
(* counted.                                                                *)
captureExceededLimit_OffByOne(lim, contentLength, n) ==
    IF lim > 0 THEN n = lim + 2 ELSE contentLength < 0 /\ n = SafetyCap

captureExceededLimit(lim, contentLength, n) ==
    IF lim > 0 THEN n = plusOne(lim) ELSE contentLength < 0 /\ n = SafetyCap

(* Broken variant: a body one byte over the limit is kept.                 *)
overLimit_Lenient(lim, n) == lim > 0 /\ n > lim + 1

overLimit(lim, n) == lim > 0 /\ n > lim

(* What the recorder keeps of a captured body: its length, or Nil.         *)
CaptureRequest(lim, n) == IF overLimit(lim, n) THEN Nil ELSE n

(* An empty body, or one that is neither printable nor JSON, is not kept.  *)
captureBody(n) == IF n = 0 \/ ~worth THEN Nil ELSE n

CaptureResponse(lim, n) == IF overLimit(lim, n) THEN Nil ELSE captureBody(n)

(* Broken variant: no response is treated as streaming.                    *)
isStreamingResponse_Never(contentLength) == FALSE

isStreamingResponse(contentLength) == contentLength < 0 /\ stream

-----------------------------------------------------------------------------
Init ==
    /\ limit \in [Sides -> Limits]
    /\ wants \in BOOLEAN
    /\ total \in [Sides -> Lengths]
    /\ breaks \in [Sides -> BOOLEAN]
    /\ cl \in {-1, total["resp"] + (IF breaks["resp"] THEN 1 ELSE 0)}
    /\ stream \in BOOLEAN
    /\ worth \in BOOLEAN
    /\ made = [s \in Sides |-> 0]
    /\ ended = [s \in Sides |-> FALSE]
    /\ taken = [s \in Sides |-> 0]
    /\ front = [s \in Sides |-> << >>]
    /\ got = [s \in Sides |-> << >>]
    /\ result = [s \in Sides |-> "open"]
    /\ phase = "request"
    /\ reqBody = Nil
    /\ entry = Nil
    /\ pushes = 0

(* The source of a body produces a byte, or ends.  Upstream starts only    *)
(* when it has been sent the request.                                      *)
Produces(s) == s = "req" \/ phase \in {"response", "captureResp", "relayResp"}

Produce(s) ==
    /\ Produces(s)
    /\ made[s] < total[s]
    /\ made' = [made EXCEPT ![s] = @ + 1]
    /\ UNCHANGED <<config, cl, ended, taken, front, got, result, phase, record>>

End(s) ==
    /\ Produces(s)
    /\ made[s] = total[s]
    /\ ~ended[s]
    /\ ended' = [ended EXCEPT ![s] = TRUE]
    /\ UNCHANGED <<config, cl, made, taken, front, got, result, phase, record>>

(* handleRequest: filtered traffic is relayed without capture.             *)
handleRequest ==
    /\ phase = "request"
    /\ phase' = IF wants THEN "captureReq" ELSE "relayReq"
    /\ UNCHANGED <<config, cl, source, taken, front, got, result, record>>

capturing(s) == phase = IF s = "req" THEN "captureReq" ELSE "captureResp"
relaying(s)  == phase = IF s = "req" THEN "relayReq" ELSE "relayResp"

broken(s)   == ended[s] /\ breaks[s] /\ taken[s] = made[s]
finished(s) == ended[s] /\ ~breaks[s] /\ taken[s] = made[s]

(* One byte of the bounded read; the read waits for the source.            *)
ReadForCapture(s) ==
    /\ capturing(s)
    /\ taken[s] < Bound(s)
    /\ taken[s] < made[s]
    /\ taken' = [taken EXCEPT ![s] = @ + 1]
    /\ UNCHANGED <<config, cl, source, front, got, result, phase, record>>

(* The bounded read is over: at its bound, or at the end of the body.      *)
ReadOver(s) == capturing(s) /\ (taken[s] = Bound(s) \/ finished(s))

(* It broke off before its bound.                                          *)
ReadBroke(s) == capturing(s) /\ taken[s] < Bound(s) /\ broken(s)

consumed(s) == [i \in 1 .. taken[s] |-> i]

(* captureRequest: the body read is put back, and kept if not too long.    *)
RequestCaptured ==
    /\ ReadOver("req")
    /\ front' = [front EXCEPT !["req"] = consumed("req")]
    /\ reqBody' = CaptureRequest(limit["req"], taken["req"])
    /\ phase' = "relayReq"
    /\ UNCHANGED <<config, cl, source, taken, got, result, entry, pushes>>

(* captureRequest on a read error: no body is kept and none is put back;   *)
(* the transport will meet the same error.                                 *)
RequestBroke ==
    /\ ReadBroke("req")
    /\ phase' = "relayReq"
    /\ UNCHANGED <<config, cl, source, taken, front, got, result, record>>

(* Relay one byte: first what was put back, then the rest of the source.   *)
Relay(s) ==
    /\ relaying(s)
    /\ result[s] = "open"
    /\ \/ /\ front[s] # << >>
          /\ got' = [got EXCEPT ![s] = Append(@, Head(front[s]))]
          /\ front' = [front EXCEPT ![s] = Tail(@)]
          /\ UNCHANGED taken
       \/ /\ front[s] = << >>
          /\ taken[s] < made[s]
          /\ got' = [got EXCEPT ![s] = Append(@, taken[s] + 1)]
          /\ taken' = [taken EXCEPT ![s] = @ + 1]
          /\ UNCHANGED front
    /\ UNCHANGED <<config, cl, source, result, phase, record>>

RelayEnd(s) ==
    /\ relaying(s)
    /\ result[s] = "open"
    /\ front[s] = << >>
    /\ finished(s) \/ broken(s)
    /\ result' = [result EXCEPT ![s] = IF breaks[s] THEN "error" ELSE "eof"]
    /\ phase' = IF s = "req" THEN "sent" ELSE "done"
    /\ UNCHANGED <<config, cl, source, taken, front, got, record>>

(* The round trip: a response arrives, or it fails and the response hook   *)
(* is called with nil, which records nothing.                              *)
RoundTrip ==
    /\ phase = "sent"
    /\ phase' \in IF result["req"] = "eof" THEN {"response", "done"} ELSE {"done"}
    /\ UNCHANGED <<config, cl, source, taken, front, got, result, record>>

push(respBody) ==
    /\ entry' = [req |-> reqBody, resp |-> respBody]
    /\ pushes' = pushes + 1
    /\ UNCHANGED reqBody

(* Broken variant: a streaming response is relayed and forgotten.          *)
handleResponse_DropsStreaming ==
    /\ phase = "response"
    /\ phase' = IF wants /\ ~isStreamingResponse(cl) THEN "captureResp"
                                                    ELSE "relayResp"
    /\ UNCHANGED <<config, cl, source, taken, front, got, result, record>>

(* handleResponse: traffic without a capture context is relayed as it is,  *)
(* and so is a streaming response, which is recorded without its body.     *)
handleResponse ==
    /\ phase = "response"
    /\ \/ ~wants /\ phase' = "relayResp" /\ UNCHANGED record
       \/ wants /\ isStreamingResponse(cl) /\ phase' = "relayResp" /\ push(Nil)
       \/ wants /\ ~isStreamingResponse(cl) /\ phase' = "captureResp" /\ UNCHANGED record
    /\ UNCHANGED <<config, cl, source, taken, front, got, result>>

(* Broken variant: fixContentLength announces what is left in the source   *)
(* instead of what the rewired body holds.                                 *)
ResponseCaptured_CountsDown ==
    /\ ReadOver("resp")
    /\ front' = [front EXCEPT !["resp"] = consumed("resp")]
    /\ cl' = cl - taken["resp"]
    /\ push(CaptureResponse(limit["resp"], taken["resp"]))
    /\ phase' = "relayResp"
    /\ UNCHANGED <<config, source, taken, got, result>>

(* recordResponse: rewire the body, fix ContentLength, push the entry.     *)
ResponseCaptured ==
    /\ ReadOver("resp")
    /\ front' = [front EXCEPT !["resp"] = consumed("resp")]
    /\ cl' = IF captureExceededLimit(limit["resp"], cl, taken["resp"])
             THEN -1 ELSE taken["resp"]
    /\ push(CaptureResponse(limit["resp"], taken["resp"]))
    /\ phase' = "relayResp"
    /\ UNCHANGED <<config, source, taken, got, result>>

(* Broken variant: the body is not rewired after a failed read.            *)
ResponseBroke_NoRewire ==
    /\ ReadBroke("resp")
    /\ phase' = "relayResp"
    /\ UNCHANGED <<config, cl, source, taken, front, got, result, record>>

(* recordResponse on a read error: rewired all the same, not recorded.     *)
ResponseBroke ==
    /\ ReadBroke("resp")
    /\ front' = [front EXCEPT !["resp"] = consumed("resp")]
    /\ phase' = "relayResp"
    /\ UNCHANGED <<config, cl, source, taken, got, result, record>>

Proxy ==
    \/ handleRequest \/ RequestCaptured \/ RequestBroke
    \/ RoundTrip
    \/ handleResponse \/ ResponseCaptured \/ ResponseBroke
    \/ \E s \in Sides : ReadForCapture(s) \/ Relay(s) \/ RelayEnd(s)

Next == Proxy \/ \E s \in Sides : Produce(s) \/ End(s)

Spec == Init /\ [][Next]_vars

(* The goroutine of the exchange is scheduled and the receivers read; the  *)
(* sources owe nothing: a peer may stop sending and keep its connection    *)
(* open.                                                                   *)
FairSpec == Spec /\ WF_vars(Proxy)

-----------------------------------------------------------------------------
Lens == 0 .. MaxInt

(* Counters and captured lengths are lengths, no more is read off a body   *)
(* than was sent, and the ContentLength announced is a length or -1, the   *)
(* one value that stands for an unknown length.                            *)
TypeOK ==
    /\ cl \in Lens \cup {-1}
    /\ made \in [Sides -> Lens]
    /\ taken \in [Sides -> Lens]
    /\ \A s \in Sides : taken[s] <= made[s] /\ made[s] <= total[s]
    /\ front \in [Sides -> Seq(Lens)]
    /\ got \in [Sides -> Seq(Lens)]
    /\ result \in [Sides -> {"open", "eof", "error"}]
    /\ phase \in {"request", "captureReq", "relayReq", "sent", "response",
                  "captureResp", "relayResp", "done"}
    /\ reqBody \in Lens \cup {Nil}
    /\ entry \in [req : Lens \cup {Nil}, resp : Lens \cup {Nil}] \cup {Nil}
    /\ pushes \in Nat

(* What is relayed is what was sent, in order and without gaps: a request  *)
(* that reaches its end is complete, and the client gets every byte of the *)
(* response that upstream produced, even when the capture read fails ("so  *)
(* the client never loses bytes", proxy_body.go:67).                       *)
RelayComplete ==
    \A s \in Sides :
        /\ got[s] = [i \in 1 .. Len(got[s]) |-> i]
        /\ result[s] = "eof" \/ (s = "resp" /\ result[s] = "error") =>
             Len(got[s]) = made[s]

(* The ContentLength the client is told is unknown, or the length of the   *)
(* body it is going to get, whether the body was captured whole, cut at    *)
(* the limit, exactly as long as the limit, or empty (proxy.go:215).       *)
FramingExact == breaks["resp"] \/ cl \in {-1, total["resp"]}

(* A body that is kept is kept whole: one over the limit is dropped, not   *)
(* cut, on either side, and one of known length is kept in full whatever   *)
(* its size when capture is unlimited (proxy_body.go:126).  Only a         *)
(* response of unknown length may be stored cut, at the safety cap of an   *)
(* unlimited capture; TruncatedDropped is about that case.                 *)
StoredWhole ==
    entry # Nil =>
        /\ entry.req \in {Nil, total["req"]}
        /\ entry.resp \in {Nil, total["resp"]} \cup
              (IF limit["resp"] <= 0 /\ cl = -1 THEN {SafetyCap} ELSE {})

(* A body cut short by the capture is never stored: "truncated: true when  *)
(* the body exceeded the capture limit (the recorder then drops the        *)
(* oversized body)" (proxy_body.go:61).                                    *)
TruncatedDropped == entry # Nil => entry.resp \in {Nil, total["resp"]}

(* Capture never holds more than limit+1 bytes of a body, and in unlimited *)
(* mode never more than the safety cap of one of unknown length, so an     *)
(* endless response cannot exhaust memory (proxy_body.go:111).             *)
BufferBounded ==
    /\ phase = "captureReq" /\ limit["req"] > 0 => taken["req"] <= limit["req"] + 1
    /\ phase = "captureResp" =>
         /\ limit["resp"] > 0 => taken["resp"] <= limit["resp"] + 1
         /\ limit["resp"] <= 0 /\ cl < 0 => taken["resp"] <= SafetyCap

(* An exchange that passes the filters and completes is recorded exactly   *)
(* once, on whichever path it took; a filtered one never (FEATURES.md:36). *)
RecordedOnce ==
    /\ pushes <= 1
    /\ ~wants => pushes = 0
    /\ result["resp"] = "eof" /\ wants => pushes = 1

(* A response with a streaming content type and no length is not held      *)
(* back: each byte upstream sends reaches the client even if upstream then *)
(* pauses forever (proxy_body.go:131).                                     *)
StreamingForwarded ==
    \A k \in Lengths \ {0} :
        (stream /\ cl = -1 /\ made["resp"] = k) ~> (Len(got["resp"]) >= k)
=============================================================================
