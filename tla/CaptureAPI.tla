----------------------------- MODULE CaptureAPI -----------------------------
(***************************************************************************)
(* The HTTP API on top of the capture store: internal/api/handlers.go and  *)
(* handlers_replay.go, routed by api.go.                                   *)
(*                                                                         *)
(* List, Get and Stats are one call of the store under its read lock, so   *)
(* their answers are functions of the ring.  A replay looks the entry up,  *)
(* and then works on the entry it was given: it builds a request from it   *)
(* and sends that, while the store goes on to evict and clear.             *)
(***************************************************************************)
EXTENDS CaptureStore

CONSTANTS
    ApiClients,     \* requests to the API in progress
    RawQueries,     \* query strings of /api/requests: records with the fields
                    \* of ListOpts, values as the client wrote them
    Unparsable,     \* a value that is no number, no number that fits, no time
    BadURLs         \* captured URLs http.NewRequest rejects

(* A number or a time of a query was written so that it parses, or not; a  *)
(* string is any but the empty one, which is as good as absent.            *)
ASSUME ApiAssumption ==
    /\ Unparsable \notin Int
    /\ \A q \in RawQueries :
         /\ {q.since, q.status, q.limit, q.offset} \subseteq Int \cup {Absent, Unparsable}
         /\ {q.method, q.url} \cap {Nil, Unparsable} = {}

VARIABLES
    api,      \* per API client: where its handler is
    asked,    \* per API client: the id in the path of its request, or 0
    held,     \* per API client: the entry a replay was given by the store
    request,  \* per API client: the request a replay has sent
    reply     \* per API client: the status it was last answered with, or 0

allVars == <<rb, subscribers, chState, chBuf, idCounter, pc, cur, pending,
             api, asked, held, request, reply>>

-----------------------------------------------------------------------------
(* Query strings.                                                          *)

(* parseTimeQuery and parseIntQuery: absent and unparsable are both zero.  *)
parseIntQuery(raw) == IF raw \in {Absent, Unparsable} THEN 0 ELSE raw
parseTimeQuery(raw) == IF raw \in {Absent, Unparsable} THEN 0 ELSE raw

(* parsePositiveIntQuery: so is what is not positive.                      *)
parsePositiveIntQuery(raw) ==
    IF raw \in {Absent, Unparsable} THEN 0 ELSE IF raw <= 0 THEN 0 ELSE raw

(* url.Values.Get: an absent string is the empty one, which does not       *)
(* filter.                                                                 *)
get(raw) == IF raw = Absent THEN Nil ELSE raw

listOptsFromQuery(q) ==
    [since  |-> parseTimeQuery(q.since),
     method |-> get(q.method),
     status |-> parseIntQuery(q.status),
     url    |-> get(q.url),
     limit  |-> parsePositiveIntQuery(q.limit),
     offset |-> parsePositiveIntQuery(q.offset)]

-----------------------------------------------------------------------------
(* Headers that belong to a connection and not to a request.               *)
hopByHopHeaders ==
    {"connection", "proxy-connection", "keep-alive", "transfer-encoding", "te",
     "trailer", "upgrade", "host", "content-length"}

(* buildReplayRequest and copyReplayHeaders: a request with the stored     *)
(* method, URL and body, and the stored headers that are end to end.       *)
buildReplayRequest(e) ==
    [method  |-> e.kind.method,
     url     |-> e.kind.url,
     body    |-> e.kind.reqLen,
     headers |-> Restrict(e.kind.headers, DOMAIN e.kind.headers \ hopByHopHeaders)]

-----------------------------------------------------------------------------
(* The answers that only read the store.                                   *)
ListRequests(q) == List(rb, listOptsFromQuery(q))
GetRequest(id) ==
    [status |-> IF Get(rb, id) = Nil THEN 404 ELSE 200, data |-> Get(rb, id)]
GetStats == Stats(rb)

ApiInit ==
    /\ Init
    /\ api = [a \in ApiClients |-> "idle"]
    /\ asked = [a \in ApiClients |-> 0]
    /\ held = [a \in ApiClients |-> Nil]
    /\ request = [a \in ApiClients |-> Nil]
    /\ reply = [a \in ApiClients |-> 0]

(* The handler answers and is done with its entry and its request.         *)
writeJSON(a, status) ==
    /\ reply' = [reply EXCEPT ![a] = status]
    /\ api' = [api EXCEPT ![a] = "idle"]
    /\ asked' = [asked EXCEPT ![a] = 0]
    /\ held' = [held EXCEPT ![a] = Nil]
    /\ request' = [request EXCEPT ![a] = Nil]

ClearRequests(a) ==
    /\ api[a] = "idle"
    /\ Clear
    /\ writeJSON(a, 200)

(* ReplayRequest: the lookup, under the store's read lock.                 *)
ReplayRequest(a, id) ==
    /\ api[a] = "idle"
    /\ IF Get(rb, id) = Nil
       THEN writeJSON(a, 404)
       ELSE /\ asked' = [asked EXCEPT ![a] = id]
            /\ held' = [held EXCEPT ![a] = Get(rb, id)]
            /\ api' = [api EXCEPT ![a] = "build"]
            /\ UNCHANGED <<request, reply>>
    /\ UNCHANGED vars

(* replayEntry: the request is rebuilt from the entry and sent; a URL that *)
(* does not parse is an error.                                             *)
BuildReplay(a) ==
    /\ api[a] = "build"
    /\ IF held[a].kind.url \in BadURLs
       THEN writeJSON(a, 400)
       ELSE /\ api' = [api EXCEPT ![a] = "sent"]
            /\ request' = [request EXCEPT ![a] = buildReplayRequest(held[a])]
            /\ UNCHANGED <<asked, held, reply>>
    /\ UNCHANGED vars

(* performReplay: the upstream answers, and its body is passed on up to    *)
(* replayMaxBody.                                                          *)
ReplayAnswered(a) ==
    /\ api[a] = "sent"
    /\ writeJSON(a, 200)
    /\ UNCHANGED vars

(* The request or the read of the answer fails, or replayClient's timeout  *)
(* ends it.                                                                *)
ReplayFailed(a) ==
    /\ api[a] = "sent"
    /\ writeJSON(a, 502)
    /\ UNCHANGED vars

Call(a) ==
    \/ ClearRequests(a)
    \/ \E id \in Ids : ReplayRequest(a, id)
    \/ BuildReplay(a)
    \/ ReplayAnswered(a)
    \/ ReplayFailed(a)

(* The handlers, and the exchanges that capture and push meanwhile.        *)
ApiNext ==
    \/ (\E g \in Goroutines : Ingest(g)) /\ UNCHANGED <<api, asked, held, request, reply>>
    \/ \E a \in ApiClients : Call(a)

ApiSpec == ApiInit /\ [][ApiNext]_allVars

-----------------------------------------------------------------------------
(* A replay re-sends the entry it was asked for and no other, also when    *)
(* that entry has been evicted, cleared, or its slot reused since; with    *)
(* every captured end-to-end header, no hop-by-hop one, and no credential: *)
(* "credentials that must never be persisted" (capture.go:80) do not come  *)
(* back out of the store.                                                  *)
ReplayFaithful ==
    \A a \in ApiClients :
        /\ api[a] # "idle" => held[a] # Nil /\ held[a].id = asked[a]
        /\ api[a] = "sent" =>
             LET sent == request[a].headers
             IN  /\ request[a].url = held[a].kind.url
                 /\ request[a].body = held[a].kind.reqLen
                 /\ DOMAIN sent = DOMAIN held[a].kind.headers \ hopByHopHeaders
                 /\ \A h \in DOMAIN sent : sent[h] = "value" <=> h \notin redactedHeaders

given(raw) == raw \notin {Absent, Unparsable}

(* Whatever the query string and the history, /api/requests answers with   *)
(* the page asked for: a parameter that is absent, does not parse or is    *)
(* out of range does not filter; the k-th entry of the page is the one of  *)
(* rank offset + k among the retained entries that are wanted, in the      *)
(* order of Push; and the page is as long as the limit and they allow.     *)
ListAnswer ==
    \A q \in RawQueries :
        LET all  == Contents(rb)
            page == ListRequests(q)
            wantedBy(e) ==
                /\ given(q.since) => e.ts >= q.since
                /\ given(q.method) => e.kind.method = q.method
                /\ given(q.status) /\ q.status > 0 => e.kind.status = q.status
                /\ given(q.url) => e.kind.url = q.url
            wanted == {i \in 1 .. Len(all) : wantedBy(all[i])}
            rank(i) == Cardinality({j \in wanted : j <= i})
            skip == IF given(q.offset) /\ q.offset > 0 THEN q.offset ELSE 0
            left == IF rank(Len(all)) > skip THEN rank(Len(all)) - skip ELSE 0
        IN  /\ Len(page) = IF given(q.limit) /\ q.limit > 0 /\ q.limit < left
                           THEN q.limit ELSE left
            /\ \A k \in 1 .. Len(page) :
                 \E i \in wanted : rank(i) = skip + k /\ page[k] = all[i]

NoQuery ==
    [since |-> Absent, method |-> Absent, status |-> Absent, url |-> Absent,
     limit |-> Absent, offset |-> Absent]

(* The endpoints tell one story: an id can be fetched if and only if the   *)
(* unfiltered list shows it, with the same entry, and the statistics count *)
(* what the list shows.  They read different parts of the ring: the index, *)
(* the slots and the counter.                                              *)
EndpointsAgree ==
    LET listed == ListRequests(NoQuery)
    IN  /\ \A id \in Ids :
             LET answer == GetRequest(id)
             IN  IF answer.status = 404
                 THEN \A i \in DOMAIN listed : listed[i].id # id
                 ELSE answer.data.id = id /\ Contains(listed, answer.data)
        /\ GetStats.count = Len(listed)
        /\ GetStats.evictions + GetStats.count <= idCounter
=============================================================================
