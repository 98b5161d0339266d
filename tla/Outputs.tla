------------------------------ MODULE Outputs -------------------------------
(***************************************************************************)
(* Captures on disk: internal/output/file_writer.go, the fan-out at the    *)
(* end of captureResponse (internal/proxy/proxy_body.go), the choice of    *)
(* the writer in cmd/goper/main.go, and the entry ids the files are named  *)
(* by.                                                                     *)
(*                                                                         *)
(* Every exchange writes from its own goroutine.  The JSON writer gives an *)
(* entry a file of its own and takes no lock; the NDJSON writer appends to *)
(* one file per domain under a mutex.  Neither write is atomic on disk: a  *)
(* full disk cuts it short and a crash stops it anywhere, so a write is    *)
(* two steps, first half and second half.  Files outlive the process; the  *)
(* id counter does not.                                                    *)
(***************************************************************************)
EXTENDS Integers, FiniteSets, SequencesExt

CONSTANTS
    Goroutines,  \* goroutines handling proxied exchanges
    Hosts,       \* request hosts: sequences over the characters below
    Bodies,      \* response bodies: "json", "text" or "none" (nil)
    Formats,     \* what the configuration may ask for: "json", "ndjson", "off"
    MaxEntries,  \* bound: entries captured, over all runs
    MaxRuns,     \* bound: times the process is started
    MaxClock     \* bound: wall-clock seconds are 1 .. MaxClock

ASSUME OutputsAssumption ==
    /\ Hosts \subseteq Seq(STRING)
    /\ Formats \subseteq {"json", "ndjson", "off"}
    /\ MaxClock \in Nat

Nil == [id |-> <<0, 0>>, host |-> << >>, run |-> 0, format |-> "off"]

VARIABLES
    up,         \* the process is running
    run,        \* how often it has been started
    format,     \* its --output-format, or "off"
    idCounter,  \* the package-level counter of entry ids
    captured,   \* entries captured so far, over all runs
    pc,         \* per goroutine: where it is in captureResponse
    cur,        \* per goroutine: the entry it is writing
    mu,         \* NDJSONBodyWriter.mu: who holds it
    dirs,       \* the directories that exist under the output directory
    files,      \* the files: path to content, a sequence of pieces
    written,    \* entries whose WriteEntry has returned nil after writing
    torn        \* entries whose write was cut by an error or a crash

procVars == <<up, run, format>>
diskVars == <<dirs, files>>
vars == <<procVars, idCounter, captured, pc, cur, mu, diskVars, written, torn>>

-----------------------------------------------------------------------------
(* File names.  A host is a sequence of characters; "a" stands for the     *)
(* letters, digits and "-", "A" for upper case, "/" for anything unsafe.   *)

positions(host, c) == {i \in DOMAIN host : host[i] = c}

(* net.SplitHostPort succeeds on a host without brackets that has one      *)
(* colon, and on one in brackets right before its last colon; it drops the *)
(* brackets with the port.                                                 *)
splitHostname(host) ==
    LET colons == positions(host, ":")
        opens  == positions(host, "[")
        closes == positions(host, "]")
    IN  IF opens = {} /\ closes = {} /\ Cardinality(colons) = 1
        THEN SubSeq(host, 1, Min(colons) - 1)
        ELSE IF /\ opens = {1} /\ Cardinality(closes) = 1
                /\ colons # {} /\ Max(colons) = Min(closes) + 1
        THEN SubSeq(host, 2, Min(closes) - 1)
        ELSE host

sanitizeRune(r) == CASE r = "A" -> "a" [] r \in {"a", "."} -> r [] OTHER -> "_"
sanitizeHost(h) == [i \in DOMAIN h |-> sanitizeRune(h[i])]

validSegmentName(name) == name \notin {<< >>, <<".">>, <<".", ".">>}

(* Broken variant: dot segments are not refused.                           *)
safeDomain_AnyName(host) == sanitizeHost(splitHostname(host))

safeDomain(host) ==
    LET name == sanitizeHost(splitHostname(host))
    IN  IF validSegmentName(name) THEN name ELSE <<"unknown">>

(* responses.jsonl: a file name that no entry id gives.                    *)
streamFile == <<0, 0>>

jsonPath(e) == [dir |-> safeDomain(e.host), file |-> e.id]
linesPath(e) == [dir |-> safeDomain(e.host), file |-> streamFile]
path(e) == IF e.format = "ndjson" THEN linesPath(e) ELSE jsonPath(e)

(* The content a path has; a file that does not exist is empty.            *)
content(p) == IF p \in DOMAIN files THEN files[p] ELSE << >>
setContent(p, c) ==
    files' = [q \in DOMAIN files \cup {p} |-> IF q = p THEN c ELSE files[q]]

(* What is written for an entry (indentJSON, compactJSON): a document and  *)
(* a newline, here in two pieces of which the second has the newline.      *)
document(e) == <<[entry |-> e, part |-> "head"], [entry |-> e, part |-> "newline"]>>

-----------------------------------------------------------------------------
Init ==
    /\ up = FALSE /\ run = 0 /\ format = "off"
    /\ idCounter = 0
    /\ captured = 0
    /\ pc = [g \in Goroutines |-> "idle"]
    /\ cur = [g \in Goroutines |-> Nil]
    /\ mu = {}
    /\ dirs = {}
    /\ files = << >>
    /\ written = {}
    /\ torn = {}

(* Stopping the write of g now leaves its file damaged: half a document,   *)
(* or a JSON file that has been truncated.                                 *)
damages(g) ==
    \/ pc[g] = "half"
    \/ pc[g] = "write" /\ format = "json"

(* A start with some configuration: setupOutputs wires one writer or none, *)
(* and the counter of ids starts over.                                     *)
Start ==
    /\ ~up
    /\ run < MaxRuns
    /\ up' = TRUE
    /\ run' = run + 1
    /\ format' \in Formats
    /\ idCounter' = 0
    /\ UNCHANGED <<captured, pc, cur, mu, diskVars, written, torn>>

(* The process ends, by a signal, a failure or a kill: goroutines and the  *)
(* mutex go with it, and a file being written stays as it is.              *)
Stop ==
    /\ up
    /\ up' = FALSE
    /\ torn' = torn \cup {cur[g] : g \in {h \in Goroutines : damages(h)}}
    /\ pc' = [g \in Goroutines |-> "idle"]
    /\ cur' = [g \in Goroutines |-> Nil]
    /\ mu' = {}
    /\ UNCHANGED <<run, format, idCounter, captured, diskVars, written>>

(* Broken variant: an id is the second alone.                              *)
NewEntryID_SecondOnly(second, n) == <<second, 1>>

(* NewEntryID: the second on the wall clock, which may also have been set  *)
(* back, and the next value of the counter.                                *)
NewEntryID(second, n) == <<second, n>>

hasBody(b) == b # "none"

(* indentJSON and compactJSON find something to write: a body that is      *)
(* valid JSON, whatever its content type.                                  *)
compactJSON(b) == hasBody(b) /\ b = "json"

(* captureResponse up to the fan-out: the entry is complete and in the     *)
(* store, and is offered to the writer if there is one.                    *)
Capture(g) ==
    /\ up
    /\ pc[g] = "idle"
    /\ captured < MaxEntries
    /\ captured' = captured + 1
    /\ idCounter' = idCounter + 1
    /\ \E h \in Hosts, b \in Bodies, second \in 1 .. MaxClock :
         IF format # "off" /\ compactJSON(b)
         THEN /\ cur' = [cur EXCEPT ![g] =
                         [id |-> NewEntryID(second, idCounter + 1),
                          host |-> h, run |-> run, format |-> format]]
              /\ pc' = [pc EXCEPT ![g] = "dir"]
         ELSE UNCHANGED <<cur, pc>>
    /\ UNCHANGED <<procVars, mu, diskVars, written, torn>>

(* WriteEntry returns, with an error (which is only logged) or without.    *)
writeReturns(g) ==
    /\ pc' = [pc EXCEPT ![g] = "idle"]
    /\ cur' = [cur EXCEPT ![g] = Nil]

(* ensureOutputDir: MkdirAll may fail, and so may Chmod after it.          *)
ensureOutputDir(g) ==
    /\ pc[g] = "dir"
    /\ \/ /\ dirs' = dirs \cup {safeDomain(cur[g].host)}
          /\ \/ pc' = [pc EXCEPT ![g] = "open"] /\ UNCHANGED cur
             \/ writeReturns(g)
       \/ writeReturns(g) /\ UNCHANGED dirs
    /\ UNCHANGED <<procVars, idCounter, captured, mu, files, written, torn>>

(* Broken variant: the mutex is not taken.                                 *)
lock_None(g) == UNCHANGED mu

(* appendLine locks the mutex; the JSON writer has none.                   *)
lock(g) == IF format = "ndjson" THEN mu = {} /\ mu' = {g} ELSE UNCHANGED mu

(* Broken variant: an open that fails returns with the mutex held.         *)
unlock_OnSuccessOnly(g, ok) == mu' = IF ok THEN mu \ {g} ELSE mu

(* The deferred unlock, on every way out.                                  *)
unlock(g, ok) == mu' = mu \ {g}

Lock(g) ==
    /\ pc[g] = "open"
    /\ lock(g)
    /\ pc' = [pc EXCEPT ![g] = "locked"]
    /\ UNCHANGED <<procVars, idCounter, captured, cur, diskVars, written, torn>>

(* The file is opened: the append stream as it is, a JSON file truncated.  *)
Open(g) ==
    /\ pc[g] = "locked"
    /\ \/ /\ setContent(path(cur[g]),
                        IF format = "ndjson" THEN content(path(cur[g])) ELSE << >>)
          /\ pc' = [pc EXCEPT ![g] = "write"]
          /\ UNCHANGED <<cur, mu>>
       \/ writeReturns(g) /\ unlock(g, FALSE) /\ UNCHANGED files
    /\ UNCHANGED <<procVars, idCounter, captured, dirs, written, torn>>

(* The first half of the write reaches the file, or nothing does.          *)
WriteHead(g) ==
    /\ pc[g] = "write"
    /\ \/ /\ setContent(path(cur[g]), Append(content(path(cur[g])), document(cur[g])[1]))
          /\ pc' = [pc EXCEPT ![g] = "half"]
          /\ UNCHANGED <<cur, mu>>
       \/ writeReturns(g) /\ unlock(g, FALSE) /\ UNCHANGED files
    /\ torn' = IF pc'[g] = "idle" /\ damages(g) THEN torn \cup {cur[g]} ELSE torn
    /\ UNCHANGED <<procVars, idCounter, captured, dirs, written>>

(* The rest follows and WriteEntry succeeds, or the write is cut short.    *)
WriteRest(g) ==
    /\ pc[g] = "half"
    /\ \/ /\ setContent(path(cur[g]), Append(content(path(cur[g])), document(cur[g])[2]))
          /\ written' = written \cup {cur[g]}
          /\ unlock(g, TRUE)
          /\ UNCHANGED torn
       \/ /\ torn' = torn \cup {cur[g]}
          /\ unlock(g, FALSE)
          /\ UNCHANGED <<files, written>>
    /\ writeReturns(g)
    /\ UNCHANGED <<procVars, idCounter, captured, dirs>>

Write(g) ==
    ensureOutputDir(g) \/ Lock(g) \/ Open(g) \/ WriteHead(g) \/ WriteRest(g)

Next ==
    \/ Start
    \/ Stop
    \/ \E g \in Goroutines : Capture(g) \/ Write(g)

Spec == Init /\ [][Next]_vars

(* System calls return and a goroutine that can run does.  The mutex is    *)
(* handed to waiters in order (sync.Mutex does not starve them).           *)
Fairness ==
    \A g \in Goroutines :
        /\ WF_vars(ensureOutputDir(g)) /\ SF_vars(Lock(g))
        /\ WF_vars(Open(g)) /\ WF_vars(WriteHead(g)) /\ WF_vars(WriteRest(g))

FairSpec == Spec /\ Fairness

-----------------------------------------------------------------------------
(* Nothing is ever created outside the output directory: the directory     *)
(* name made of a Host header is one segment, and not a dot segment ("this *)
(* also guards against path traversal", file_writer.go:187).               *)
DirsContained ==
    \A d \in dirs : d # << >> /\ d \notin {<<".">>, <<".", ".">>} /\ ~Contains(d, "/")

isStream(p) == p.file = streamFile

(* The entries a reader of an append stream gets back: the lines that hold *)
(* one whole document.                                                     *)
startsLine(c, i) == i = 1 \/ c[i - 1].part = "newline"
readable(c) ==
    {c[i].entry : i \in {j \in 1 .. Len(c) - 1 :
                           /\ startsLine(c, j)
                           /\ c[j].part = "head"
                           /\ c[j + 1] = [entry |-> c[j].entry, part |-> "newline"]}}

(* Two exchanges never mix their lines in an append stream ("Concurrent-   *)
(* safe append writer", FEATURES.md:67), and a cut write spoils at most    *)
(* one later line, the one that is glued to it: of the entries appended    *)
(* successfully, no more are unreadable than there are cut ones in that    *)
(* file.                                                                   *)
DamageContained ==
    \A p \in DOMAIN files : isStream(p) =>
        LET held == {files[p][i].entry : i \in DOMAIN files[p]}
        IN  Cardinality((held \cap written) \ readable(files[p]))
               <= Cardinality(held \cap torn)

(* A JSON file that was written successfully stays as written, until a     *)
(* later run reuses its name: that takes a clock that shows the same       *)
(* second again, and within a run no two entries share a file.             *)
FilesKept ==
    \A e \in written : e.format = "json" =>
        \/ files[jsonPath(e)] = document(e)
        \/ \E later \in written \cup torn \cup {cur[g] : g \in Goroutines} :
             later.run > e.run /\ path(later) = path(e)

(* Writing ends, whatever fails: no error path leaves the mutex locked,    *)
(* which would hold up every later exchange with the same response.        *)
WriteReturns == \A g \in Goroutines : pc[g] = "open" ~> pc[g] = "idle"
=============================================================================
