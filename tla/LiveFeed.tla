------------------------------ MODULE LiveFeed ------------------------------
(***************************************************************************)
(* The SSE live feed (internal/api/handlers_sse.go) on top of the capture  *)
(* store: StreamRequests replays history to a new client, subscribes it to *)
(* the store, forwards live entries, and unsubscribes it when the          *)
(* connection is lost.                                                     *)
(*                                                                         *)
(* A handler is named by the channel its Subscribe makes.  Its steps       *)
(* interleave with pushes, with Clear and with the other handlers: the     *)
(* history is a snapshot taken some time before the subscription.          *)
(***************************************************************************)
EXTENDS CaptureStore

CONSTANTS
    DefaultBackfill,  \* history sent when ?backfill is absent or invalid (50)
    Backfills         \* the ?backfill values of clients: integers, or Absent

ASSUME FeedAssumption ==
    /\ DefaultBackfill \in Nat
    /\ Backfills \subseteq Int \cup {Absent}

VARIABLES
    phase,  \* per handler: where StreamRequests is
    out,    \* per handler: history entries not yet written
    sent,   \* per handler: entries its client has received
    up      \* per handler: its client is still connected

handlerVars == <<phase, out, sent, up>>
liveVars == <<rb, subscribers, chState, chBuf, idCounter, pc, cur, pending,
              phase, out, sent, up>>

LiveInit ==
    /\ Init
    /\ phase = [c \in Channels |-> "none"]
    /\ out = [c \in Channels |-> << >>]
    /\ sent = [c \in Channels |-> << >>]
    /\ up = [c \in Channels |-> FALSE]

-----------------------------------------------------------------------------
(* parseBackfill: negative or unparsable values mean the default.          *)
backfillCount(v) == IF v \in Nat THEN v ELSE DefaultBackfill

(* backfillSSE lists with a limit and no filter or offset; 0 disables it.  *)
backfillOpts(n) ==
    [since |-> 0, method |-> Nil, status |-> 0, url |-> Nil, limit |-> n, offset |-> 0]

history(r, n) == IF n <= 0 THEN << >> ELSE List(r, backfillOpts(n))

(* A client connects: the handler reads the history it will replay.        *)
Connect(c, v) ==
    /\ phase[c] = "none"
    /\ phase' = [phase EXCEPT ![c] = "backfill"]
    /\ up' = [up EXCEPT ![c] = TRUE]
    /\ out' = [out EXCEPT ![c] = history(rb, backfillCount(v))]
    /\ UNCHANGED <<vars, sent>>

(* writeSSE of entry e in handler c, which goes to phase lost if the write *)
(* fails.  Once the client is gone a write fails, or the socket still      *)
(* swallows it.                                                            *)
writeSSE(c, e, lost) ==
    \/ /\ up[c]
       /\ sent' = [sent EXCEPT ![c] = Append(@, e)]
       /\ UNCHANGED phase
    \/ /\ ~up[c]
       /\ phase' \in {phase, [phase EXCEPT ![c] = lost]}
       /\ UNCHANGED sent

(* One turn of writeEntries; a failed write returns before Subscribe.      *)
WriteBackfill(c) ==
    /\ phase[c] = "backfill"
    /\ out[c] # << >>
    /\ out' = [out EXCEPT ![c] = Tail(@)]
    /\ writeSSE(c, Head(out[c]), "gone")
    /\ UNCHANGED <<vars, up>>

(* The history is written: subscribe and enter the stream loop.            *)
StartStream(c) ==
    /\ phase[c] = "backfill"
    /\ out[c] = << >>
    /\ Subscribe(c)
    /\ phase' = [phase EXCEPT ![c] = "stream"]
    /\ UNCHANGED <<out, sent, up>>

(* streamSelect takes an entry from the channel and writes it.             *)
StreamEntry(c) ==
    /\ phase[c] = "stream"
    /\ Receive(c)
    /\ writeSSE(c, Head(chBuf[c]), "exit")
    /\ UNCHANGED <<out, up>>

(* Broken variant: the loop waits for entries only, so it notices a lost   *)
(* connection when it next writes one.                                     *)
StreamEnds_OnWriteOnly(c) ==
    /\ phase[c] = "stream"
    /\ ~up[c]
    /\ chBuf[c] # << >>
    /\ phase' = [phase EXCEPT ![c] = "exit"]
    /\ UNCHANGED <<vars, out, sent, up>>

(* streamSelect sees the context cancelled, or fails to write a ping.      *)
StreamEnds(c) ==
    /\ phase[c] = "stream"
    /\ ~up[c]
    /\ phase' = [phase EXCEPT ![c] = "exit"]
    /\ UNCHANGED <<vars, out, sent, up>>

(* Broken variant: the deferred Unsubscribe is forgotten.                  *)
HandlerExit_NoUnsubscribe(c) ==
    /\ phase[c] = "exit"
    /\ phase' = [phase EXCEPT ![c] = "gone"]
    /\ UNCHANGED <<vars, out, sent, up>>

(* The deferred Unsubscribe, on the way out of StreamRequests.             *)
HandlerExit(c) ==
    /\ phase[c] = "exit"
    /\ Unsubscribe(c)
    /\ phase' = [phase EXCEPT ![c] = "gone"]
    /\ UNCHANGED <<out, sent, up>>

(* The client goes away, at any time.                                      *)
Disconnect(c) ==
    /\ up[c]
    /\ up' = [up EXCEPT ![c] = FALSE]
    /\ UNCHANGED <<vars, phase, out, sent>>

Handle(c) ==
    \/ \E v \in Backfills : Connect(c, v)
    \/ WriteBackfill(c)
    \/ StartStream(c)
    \/ StreamEntry(c)
    \/ StreamEnds(c)
    \/ HandlerExit(c)
    \/ Disconnect(c)

LiveNext ==
    \/ (\E g \in Goroutines : Ingest(g)) /\ UNCHANGED handlerVars
    \/ Clear /\ UNCHANGED handlerVars
    \/ \E c \in Channels : Handle(c)

LiveSpec == LiveInit /\ [][LiveNext]_liveVars

(* A handler whose client is gone is never blocked: its writes return, its *)
(* context is cancelled, and Unsubscribe needs the store's lock only.  A   *)
(* client that stays may stop reading, so nothing is assumed of writes to  *)
(* it.                                                                     *)
HandlerFairness ==
    \A c \in Channels :
        /\ WF_liveVars(~up[c] /\ WriteBackfill(c))
        /\ WF_liveVars(StartStream(c))
        /\ WF_liveVars(StreamEnds(c))
        /\ WF_liveVars(HandlerExit(c))

(* A goroutine that has started to push keeps running: the Go scheduler is *)
(* fair to runnable goroutines, and the write lock is held only for the    *)
(* bounded work of one action.  Nothing is assumed of the subscribers:     *)
(* they may never receive.                                                 *)
PushFairness ==
    \A g \in Goroutines :
        /\ WF_liveVars(Push(g) /\ UNCHANGED handlerVars)
        /\ WF_liveVars(NotifySend(g) /\ UNCHANGED handlerVars)
        /\ WF_liveVars(NotifyPanic(g) /\ UNCHANGED handlerVars)

FairLiveSpec == LiveSpec /\ HandlerFairness /\ PushFairness

-----------------------------------------------------------------------------
idsOf(s) == {s[i].id : i \in 1 .. Len(s)}

(* No client is sent an entry twice, neither by the history and the live   *)
(* feed together nor by two sends: Push stores an entry and takes its      *)
(* subscriber snapshot under one lock, so an entry in the history of a     *)
(* handler was snapshotted before the handler subscribed, and the snapshot *)
(* is a copy that later Unsubscribes do not shift.                         *)
NoDuplicateDelivery ==
    \A c \in Channels : \A i, j \in 1 .. Len(sent[c]) :
        sent[c][i].id = sent[c][j].id => i = j

(* A handler's channel is open exactly while the handler is between its    *)
(* Subscribe and its deferred Unsubscribe: the closed-channel branch of    *)
(* writeStreamEntry is never taken, and a finished handler leaves no       *)
(* subscription behind, whichever of its exits it took.                    *)
SubscriptionScoped ==
    \A c \in Channels : chState[c] = "open" <=> phase[c] \in {"stream", "exit"}

(* A lost client's handler always finishes and releases its channel, even  *)
(* if no further entry is ever captured.                                   *)
LostClientReleased ==
    \A c \in Channels :
        phase[c] # "none" /\ ~up[c] ~> phase[c] = "gone" /\ chState[c] # "open"

(* A client that asks for all the history misses nothing: each retained    *)
(* entry was sent to it, waits in its channel or is about to be offered to *)
(* it.  handlers_sse.go:32 says that a client "catches up" and that        *)
(* entries captured between the snapshot and Subscribe "may be sent        *)
(* twice".                                                                 *)
CaughtUp ==
    \A c \in Channels :
        phase[c] = "stream" /\ up[c] =>
            \A i \in Slots :
                rb.buffer[i] # Nil =>
                    \/ rb.buffer[i].id \in idsOf(sent[c]) \cup idsOf(chBuf[c])
                    \/ \E g \in Goroutines : /\ pc[g] = "notify"
                                             /\ Contains(pending[g], c)
                                             /\ cur[g].id = rb.buffer[i].id
=============================================================================
