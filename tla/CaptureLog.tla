----------------------------- MODULE CaptureLog -----------------------------
(***************************************************************************)
(* What the capture store promises, with no ring, no index and no          *)
(* subscribers: a log of the most recent captures, oldest first, that      *)
(* never holds more than Capacity entries, and two lifetime counters that  *)
(* clearing the log does not reset.  CaptureStore implements it.           *)
(***************************************************************************)
EXTENDS Integers, Sequences

CONSTANTS Capacity,   \* the largest number of captures retained
          Captures,   \* the entries that can be recorded
          BytesOf(_)  \* the body bytes an entry retains

VARIABLES log,      \* the retained captures, oldest first
          evicted,  \* captures dropped to make room, over the store's lifetime
          bytes     \* body bytes recorded, over the store's lifetime

logVars == <<log, evicted, bytes>>

Init ==
    /\ log = << >>
    /\ evicted = 0
    /\ bytes = 0

Full == Len(log) = Capacity

(* A new capture goes to the end; a full log first gives up its oldest.    *)
Record(e) ==
    /\ log' = Append(IF Full THEN Tail(log) ELSE log, e)
    /\ evicted' = IF Full THEN evicted + 1 ELSE evicted
    /\ bytes' = bytes + BytesOf(e)

(* Clearing empties the log and leaves the lifetime counters alone.        *)
Forget ==
    /\ log' = << >>
    /\ UNCHANGED <<evicted, bytes>>

Next == Forget \/ \E e \in Captures : Record(e)

Spec == Init /\ [][Next]_logVars
=============================================================================
