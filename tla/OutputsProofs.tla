--------------------------- MODULE OutputsProofs ----------------------------
(***************************************************************************)
(* Proofs about Outputs, for every set of hosts and goroutines, and any    *)
(* number of runs and entries.                                             *)
(***************************************************************************)
EXTENDS Outputs, SequenceTheorems, FiniteSetTheorems, WellFoundedInduction, TLAPS

Entry == [id : Nat \X Nat, host : Hosts, run : Nat, format : {"json", "ndjson"}]
Piece == [entry : Entry, part : {"head", "newline"}]

head(e) == [entry |-> e, part |-> "head"]
newline(e) == [entry |-> e, part |-> "newline"]

(* Goroutines in WriteEntry; those between taking the lock and returning;  *)
(* those that have opened their file.                                      *)
Live == {g \in Goroutines : pc[g] # "idle"}
Locked == {g \in Goroutines : pc[g] \in {"locked", "write", "half"}}
Opened == {g \in Goroutines : pc[g] \in {"write", "half"}}
Half == {g \in Goroutines : pc[g] = "half"}

Past == written \cup torn

TypeInv ==
    /\ up \in BOOLEAN
    /\ run \in Nat
    /\ format \in {"json", "ndjson", "off"}
    /\ idCounter \in Nat
    /\ pc \in [Goroutines -> {"idle", "dir", "open", "locked", "write", "half"}]
    /\ cur \in [Goroutines -> Entry \cup {Nil}]
    /\ Past \subseteq Entry
    /\ \A p \in DOMAIN files : files[p] \in Seq(Piece)
    /\ dirs \subseteq {safeDomain(h) : h \in Hosts}

(* Entries that are being written are of this run and numbered apart, from *)
(* each other and from the past ones of this run.                          *)
IdInv ==
    /\ ~up => Live = {}
    /\ \A g \in Live : /\ cur[g] \in Entry /\ cur[g].run = run /\ cur[g].format = format
                       /\ cur[g].id # streamFile /\ cur[g].id[2] <= idCounter
                       /\ \A h \in Live : cur[h].id[2] = cur[g].id[2] => h = g
    /\ \A e \in Past : /\ e.run <= run /\ e.id # streamFile
                       /\ e.run = run => /\ e.id[2] <= idCounter
                                         /\ \A g \in Live : cur[g].id[2] # e.id[2]

(* The append stream has one writer at a time.                             *)
MutexInv == format = "ndjson" => \A g \in Locked : mu = {g}

(* The file a goroutine has opened ends with what it wrote, and a JSON     *)
(* file holds nothing else.                                                *)
FileInv ==
    \A g \in Opened :
        LET p == path(cur[g]) IN
        /\ p \in DOMAIN files
        /\ pc[g] = "half" => Len(files[p]) > 0 /\ files[p][Len(files[p])] = head(cur[g])
        /\ format # "ndjson" => Len(files[p]) = IF pc[g] = "half" THEN 1 ELSE 0

(* A JSON file is as it was written, or a later run has opened it.         *)
Kept(e) ==
    \/ path(e) \in DOMAIN files /\ files[path(e)] = document(e)
    \/ \E f \in Past : f.run > e.run /\ path(f) = path(e)
    \/ \E g \in Opened : cur[g].run > e.run /\ path(cur[g]) = path(e)

KeptInv == \A e \in written : e.format = "json" => Kept(e)

(* In an append stream a newline follows its own head, and a head that is  *)
(* not followed by its newline was cut, or is the last and being written.  *)
StreamOK(p) ==
    LET c == files[p] IN
    /\ \A i \in 1 .. Len(c) :
         /\ path(c[i].entry) = p
         /\ c[i].entry \in Past \/ \E g \in Half : cur[g] = c[i].entry
         /\ c[i].part = "newline" => i > 1 /\ c[i - 1] = head(c[i].entry)
         /\ c[i].part = "head" =>
              \/ i < Len(c) /\ c[i + 1] = newline(c[i].entry)
              \/ c[i].entry \in torn \ written
              \/ i = Len(c) /\ \E g \in Half : cur[g] = c[i].entry
    /\ \A i, j \in 1 .. Len(c) :
         c[i].part = "head" /\ c[j].part = "head" /\ c[i].entry = c[j].entry => i = j

StreamInv == \A p \in DOMAIN files : isStream(p) => StreamOK(p)

Inv == TypeInv /\ IdInv /\ MutexInv /\ FileInv /\ KeptInv /\ StreamInv

-----------------------------------------------------------------------------
(* The smallest element of a set of positions.                             *)
LEMMA MinExists ==
  ASSUME NEW S, S \subseteq Nat, S # {}
  PROVE  Min(S) \in S
  <1>1. PICK x \in S : \A y \in S : ~(<<y, x>> \in OpToRel(<, Nat))
    BY NatLessThanWellFounded, WFMin
  <1>2. \A y \in S : ~(y < x)
    BY <1>1 DEF OpToRel
  <1>3. \A y \in S : x <= y
    BY <1>2
  <1> QED BY <1>3 DEF Min

(* The only position of a character in a host, and the text before it.     *)
LEMMA CutTyped ==
  ASSUME NEW h \in Seq(STRING), NEW c, Cardinality(positions(h, c)) = 1,
         NEW k \in {1, 2}
  PROVE  SubSeq(h, k, Min(positions(h, c)) - 1) \in Seq(STRING)
  <1> DEFINE S == positions(h, c)
             m == Min(S)
  <1>1. Len(h) \in Nat /\ DOMAIN h = 1 .. Len(h) /\ \A i \in 1 .. Len(h) : h[i] \in STRING
    BY LenProperties, ElementOfSeq
  <1>2. S \subseteq 1 .. Len(h)
    BY <1>1 DEF positions
  <1>3. S # {}
    <2> HIDE DEF S
    <2> SUFFICES ASSUME S = {} PROVE FALSE
      OBVIOUS
    <2>1. Cardinality(S) = 0
      BY FS_EmptySet
    <2>2. Cardinality(S) = 1
      BY DEF S
    <2> QED BY <2>1, <2>2
  <1> HIDE DEF S
  <1>4. m \in 1 .. Len(h)
    <2>1. S \subseteq Nat
      BY <1>1, <1>2
    <2>2. Min(S) \in S
      BY <1>3, <2>1, MinExists
    <2> QED BY <1>2, <2>2
  <1> HIDE DEF m
  <1>5. m - 1 \in Int /\ k \in Int /\ \A i \in k .. m - 1 : h[i] \in STRING
    BY <1>1, <1>4
  <1>6. SubSeq(h, k, m - 1) \in Seq(STRING)
    BY <1>5, SubSeqProperties
  <1> QED BY <1>6 DEF m, S

LEMMA SplitTyped ==
  ASSUME NEW h \in Seq(STRING)
  PROVE  splitHostname(h) \in Seq(STRING)
  <1>1. CASE /\ positions(h, "[") = {} /\ positions(h, "]") = {}
             /\ Cardinality(positions(h, ":")) = 1
    <2>1. splitHostname(h) = SubSeq(h, 1, Min(positions(h, ":")) - 1)
      BY <1>1 DEF splitHostname
    <2> QED BY <1>1, <2>1, CutTyped
  <1>2. CASE /\ positions(h, "[") = {1} /\ Cardinality(positions(h, "]")) = 1
             /\ positions(h, ":") # {}
             /\ Max(positions(h, ":")) = Min(positions(h, "]")) + 1
    <2>1. positions(h, "[") # {}
      BY <1>2
    <2>2. splitHostname(h) = SubSeq(h, 2, Min(positions(h, "]")) - 1)
      BY <1>2, <2>1 DEF splitHostname
    <2> QED BY <1>2, <2>2, CutTyped
  <1>3. CASE splitHostname(h) = h
    BY <1>3
  <1> QED BY <1>1, <1>2, <1>3 DEF splitHostname

(* The directory of a host is one path segment, and not a dot segment.     *)
LEMMA SafeDomain ==
  ASSUME NEW h \in Hosts
  PROVE  LET d == safeDomain(h)
         IN  d # << >> /\ d \notin {<<".">>, <<".", ".">>} /\ ~Contains(d, "/")
  <1> DEFINE q == splitHostname(h)
             n == sanitizeHost(q)
  <1>1. q \in Seq(STRING) /\ Len(q) \in Nat /\ DOMAIN q = 1 .. Len(q)
    BY SplitTyped, LenProperties, OutputsAssumption
  <1>2. DOMAIN n = 1 .. Len(q) /\ \A i \in 1 .. Len(q) : n[i] = sanitizeRune(q[i])
    BY <1>1 DEF sanitizeHost
  <1>3. \A r : sanitizeRune(r) \in {"a", ".", "_"}
    BY DEF sanitizeRune
  <1> DEFINE C == {"a", ".", "_"}
  <1>0. \A i \in 1 .. Len(q) : n[i] \in C
    BY <1>2, <1>3
  <1>9. n = [i \in 1 .. Len(q) |-> n[i]]
    BY <1>1 DEF sanitizeHost
  <1> HIDE DEF n, C, q
  <1>4. n \in Seq(C) /\ Len(n) = Len(q)
    BY <1>0, <1>1, <1>9
  <1> USE DEF C
  <1>5. ~Contains(n, "/")
    <2>1. \A i \in 1 .. Len(n) : n[i] \in {"a", ".", "_"}
      BY <1>4, ElementOfSeq
    <2>2. "/" \notin {"a", ".", "_"}
      OBVIOUS
    <2> QED BY <2>1, <2>2 DEF Contains
  <1>6. CASE validSegmentName(n)
    BY <1>5, <1>6 DEF safeDomain, validSegmentName, n, q
  <1>7. CASE ~validSegmentName(n)
    <2>1. safeDomain(h) = <<"unknown">>
      BY <1>7 DEF safeDomain, n, q
    <2>2. Len(<<"unknown">>) = 1 /\ <<"unknown">>[1] = "unknown"
      OBVIOUS
    <2>3. ~Contains(<<"unknown">>, "/")
      BY <2>2 DEF Contains
    <2>4. Len(<<".", ".">>) = 2 /\ <<".">>[1] = "."
      OBVIOUS
    <2>5. <<"unknown">> # << >> /\ <<"unknown">> # <<".">> /\ <<"unknown">> # <<".", ".">>
      BY <2>2, <2>4
    <2> QED BY <2>1, <2>3, <2>5
  <1> QED BY <1>6, <1>7

-----------------------------------------------------------------------------
(* The name of an entry's file tells the format and, for JSON, the entry.  *)
LEMMA PathFacts ==
  ASSUME NEW e \in Entry, e.id # streamFile
  PROVE  /\ isStream(path(e)) <=> e.format = "ndjson"
         /\ e.format = "json" => path(e) = jsonPath(e) /\ path(e).file = e.id
  <1>1. e.format \in {"json", "ndjson"}
    BY DEF Entry
  <1> QED BY <1>1 DEF path, isStream, jsonPath, linesPath

LEMMA SameFile ==
  ASSUME NEW e \in Entry, NEW f \in Entry, e.id # streamFile, f.id # streamFile,
         path(e) = path(f)
  PROVE  e.format = f.format /\ (e.format = "json" => e.id = f.id)
  <1>1. e.format \in {"json", "ndjson"} /\ f.format \in {"json", "ndjson"}
    BY DEF Entry
  <1>2. isStream(path(e)) <=> isStream(path(f))
    BY DEF isStream
  <1> QED BY <1>1, <1>2, PathFacts

(* What is known of an entry that is being written.                        *)
LEMMA LiveFacts ==
  ASSUME TypeInv, IdInv, NEW g \in Live
  PROVE  /\ g \in Goroutines /\ cur[g] \in Entry /\ cur[g].run = run
         /\ cur[g].format = format /\ format \in {"json", "ndjson"}
         /\ cur[g].id # streamFile /\ cur[g] \notin Past
         /\ isStream(path(cur[g])) <=> format = "ndjson"
  <1>1. /\ g \in Goroutines /\ cur[g] \in Entry /\ cur[g].run = run
        /\ cur[g].format = format /\ cur[g].id # streamFile
    BY DEF IdInv, Live
  <1>2. format \in {"json", "ndjson"}
    BY <1>1 DEF Entry
  <1>3. cur[g] \notin Past
    BY <1>1 DEF IdInv
  <1> QED BY <1>1, <1>2, <1>3, PathFacts

LEMMA PastFacts ==
  ASSUME TypeInv, IdInv, NEW e \in Past
  PROVE  e \in Entry /\ e.id # streamFile /\ e.run <= run /\ e.run \in Nat
  BY DEF TypeInv, IdInv, Entry

LEMMA Sets ==
  /\ Live \subseteq Goroutines /\ Locked \subseteq Live /\ Opened \subseteq Locked
  /\ Half \subseteq Opened
  BY DEF Live, Locked, Opened, Half

(* Two goroutines past the lock write JSON, to files of their own.         *)
LEMMA Alone ==
  ASSUME TypeInv, IdInv, MutexInv, NEW g \in Locked, NEW h \in Locked, h # g
  PROVE  format = "json" /\ path(cur[h]) # path(cur[g])
  <1>1. g \in Live /\ h \in Live
    BY Sets
  <1>2. format # "ndjson"
    <2> SUFFICES ASSUME format = "ndjson" PROVE FALSE
      OBVIOUS
    <2>1. mu = {g} /\ mu = {h}
      BY DEF MutexInv
    <2> QED BY <2>1
  <1>3. format = "json"
    BY <1>1, <1>2, LiveFacts
  <1>4. cur[g].id # cur[h].id
    BY <1>1 DEF IdInv
  <1> QED BY <1>1, <1>3, <1>4, LiveFacts, SameFile

(* A past JSON entry whose file is that of an entry being written is of an *)
(* earlier run.                                                            *)
LEMMA Reused ==
  ASSUME TypeInv, IdInv, NEW g \in Live, NEW e \in Past, path(e) = path(cur[g]),
         e.format = "json"
  PROVE  format = "json" /\ cur[g].run > e.run
  <1>1. cur[g].format = "json" /\ e.id = cur[g].id
    BY LiveFacts, PastFacts, SameFile
  <1>2. e.run # run
    BY <1>1 DEF IdInv
  <1>3. run \in Nat /\ e.run \in Nat /\ e.run <= run /\ cur[g].run = run
    BY LiveFacts, PastFacts DEF TypeInv
  <1>4. run > e.run
    BY <1>2, <1>3
  <1> QED BY <1>1, <1>3, <1>4, LiveFacts

-----------------------------------------------------------------------------
(* Steps of g leave the other goroutines alone.                            *)
Others(g) ==
    \A h \in Goroutines : h # g => pc'[h] = pc[h] /\ cur'[h] = cur[h]

(* A step of a goroutine in WriteEntry keeps the entries apart: it goes on *)
(* with its entry, or returns and the entry may be a past one.             *)
LEMMA IdFrame ==
  ASSUME TypeInv, IdInv, NEW g \in Live, Others(g),
         UNCHANGED <<up, run, format, idCounter>>,
         pc' \in [Goroutines -> {"idle", "dir", "open", "locked", "write", "half"}],
         \/ pc'[g] = "idle" /\ Past' \subseteq Past \cup {cur[g]}
         \/ pc'[g] # "idle" /\ cur'[g] = cur[g] /\ Past' = Past
  PROVE  IdInv'
  <1>1. Live' \subseteq Live /\ \A h \in Live' : cur'[h] = cur[h]
    BY DEF Live, Others
  <1>2. g \in Live' => Past' = Past
    BY DEF Live
  <1>3. (~up => Live = {})'
    BY <1>1 DEF IdInv
  <1>4. \A h \in Live' : /\ cur'[h] \in Entry /\ cur'[h].run = run' /\ cur'[h].format = format'
                         /\ cur'[h].id # streamFile /\ cur'[h].id[2] <= idCounter'
                         /\ \A k \in Live' : cur'[k].id[2] = cur'[h].id[2] => k = h
    BY <1>1 DEF IdInv
  <1>5. ASSUME NEW e \in Past'
        PROVE  /\ e.run <= run' /\ e.id # streamFile
               /\ e.run = run' => /\ e.id[2] <= idCounter'
                                  /\ \A h \in Live' : cur'[h].id[2] # e.id[2]
    <2>1. CASE e \in Past
      BY <1>1, <2>1 DEF IdInv
    <2>2. CASE e \notin Past
      <3>1. e = cur[g] /\ g \notin Live'
        BY <2>2, <1>2
      <3>2. run \in Nat
        BY DEF TypeInv
      <3> QED BY <1>1, <3>1, <3>2 DEF IdInv
    <2> QED BY <2>1, <2>2
  <1> QED BY <1>3, <1>4, <1>5 DEF IdInv

(* Steps before the file is opened, and those of other goroutines, leave   *)
(* what is known of the files.                                             *)
LEMMA DiskFrame ==
  ASSUME FileInv, KeptInv, StreamInv, UNCHANGED <<files, written, torn, format>>,
         \A g \in Goroutines : pc'[g] \in {"write", "half"} \/ pc[g] \in {"write", "half"}
                               => pc'[g] = pc[g] /\ cur'[g] = cur[g]
  PROVE  FileInv' /\ KeptInv' /\ StreamInv'
  <1>1. Opened' = Opened /\ \A g \in Opened : pc'[g] = pc[g] /\ cur'[g] = cur[g]
    BY DEF Opened
  <1>2. Half' = Half /\ \A g \in Half : cur'[g] = cur[g]
    BY DEF Half
  <1>3. Past' = Past
    BY DEF Past
  <1>4. FileInv'
    BY <1>1 DEF FileInv, path, jsonPath, linesPath, head
  <1>5. KeptInv'
    <2>1. ASSUME NEW e, Kept(e) PROVE Kept(e)'
      BY <1>1, <1>3, <2>1 DEF Kept
    <2> QED BY <2>1 DEF KeptInv
  <1>6. ASSUME NEW p, StreamOK(p) PROVE StreamOK(p)'
    BY <1>2, <1>3, <1>6 DEF StreamOK
  <1>7. StreamInv'
    BY <1>6 DEF StreamInv, isStream
  <1> QED BY <1>4, <1>5, <1>7

(* setContent creates the file or replaces its content, and no other.      *)
LEMMA Updated ==
  ASSUME NEW p, NEW c, setContent(p, c)
  PROVE  /\ DOMAIN files' = DOMAIN files \cup {p} /\ files'[p] = c
         /\ \A q \in DOMAIN files : q # p => files'[q] = files[q]
  BY DEF setContent

(* A step that changes the file of g only keeps every finished JSON file,  *)
(* or g is a later run's goroutine that has opened it.                     *)
LEMMA KeptFrame ==
  ASSUME TypeInv, IdInv, KeptInv, NEW g \in Live, Others(g), Past \subseteq Past',
         DOMAIN files \subseteq DOMAIN files',
         \A q \in DOMAIN files : q # path(cur[g]) => files'[q] = files[q],
         format = "json" => \/ g \in Opened' /\ cur'[g] = cur[g]
                            \/ cur[g] \in Past'
  PROVE  \A e \in written : e.format = "json" => Kept(e)'
  <1> SUFFICES ASSUME NEW e \in written, e.format = "json" PROVE Kept(e)'
    OBVIOUS
  <1>1. e \in Past /\ Kept(e)
    BY DEF Past, KeptInv
  <1>2. CASE path(e) = path(cur[g])
    <2>1. format = "json" /\ cur[g].run > e.run
      BY <1>1, <1>2, Reused
    <2>2. CASE g \in Opened' /\ cur'[g] = cur[g]
      BY <1>2, <2>1, <2>2 DEF Kept
    <2>3. CASE cur[g] \in Past'
      BY <1>2, <2>1, <2>3 DEF Kept
    <2> QED BY <2>1, <2>2, <2>3
  <1>3. CASE path(e) # path(cur[g])
    <2>1. CASE path(e) \in DOMAIN files /\ files[path(e)] = document(e)
      BY <1>3, <2>1 DEF Kept
    <2>2. CASE \E f \in Past : f.run > e.run /\ path(f) = path(e)
      BY <2>2 DEF Kept
    <2>3. CASE \E h \in Opened : cur[h].run > e.run /\ path(cur[h]) = path(e)
      <3>1. PICK h \in Opened : cur[h].run > e.run /\ path(cur[h]) = path(e)
        BY <2>3
      <3>2. h # g
        BY <3>1, <1>3
      <3>3. h \in Opened' /\ cur'[h] = cur[h]
        BY <3>2 DEF Opened, Others
      <3> QED BY <3>1, <3>3 DEF Kept
    <2> QED BY <1>1, <2>1, <2>2, <2>3 DEF Kept
  <1> QED BY <1>2, <1>3

(* An append stream that a step leaves alone stays well formed, when the   *)
(* entries half written to it stay so or are cut.                          *)
LEMMA StreamFrame ==
  ASSUME TypeInv, IdInv, NEW p, StreamOK(p), files'[p] = files[p],
         Past \subseteq Past', torn \subseteq torn',
         \A e \in torn : path(e) = p /\ e \notin written => e \notin written',
         \A h \in Half : path(cur[h]) = p =>
             \/ h \in Half' /\ cur'[h] = cur[h]
             \/ cur[h] \in torn' \ written'
  PROVE  StreamOK(p)'
  <1> DEFINE c == files[p]
  <1>1. ASSUME NEW e, path(e) = p, \E h \in Half : cur[h] = e
        PROVE  (\E h \in Half' : cur'[h] = e) \/ e \in torn' \ written'
    BY <1>1
  <1>2. torn' \subseteq Past'
    BY DEF Past
  <1>3. ASSUME NEW i \in 1 .. Len(c)
        PROVE  /\ path(c[i].entry) = p
               /\ c[i].entry \in Past' \/ \E h \in Half' : cur'[h] = c[i].entry
               /\ c[i].part = "newline" => i > 1 /\ c[i - 1] = head(c[i].entry)
               /\ c[i].part = "head" =>
                    \/ i < Len(c) /\ c[i + 1] = newline(c[i].entry)
                    \/ c[i].entry \in torn' \ written'
                    \/ i = Len(c) /\ \E h \in Half' : cur'[h] = c[i].entry
    <2>1. /\ path(c[i].entry) = p
          /\ c[i].entry \in Past \/ \E h \in Half : cur[h] = c[i].entry
          /\ c[i].part = "newline" => i > 1 /\ c[i - 1] = head(c[i].entry)
          /\ c[i].part = "head" =>
               \/ i < Len(c) /\ c[i + 1] = newline(c[i].entry)
               \/ c[i].entry \in torn \ written
               \/ i = Len(c) /\ \E h \in Half : cur[h] = c[i].entry
      BY DEF StreamOK
    <2> HIDE DEF c
    <2>2. c[i].entry \in Past' \/ \E h \in Half' : cur'[h] = c[i].entry
      BY <1>1, <1>2, <2>1
    <2>3. c[i].entry \in torn \ written => c[i].entry \in torn' \ written'
      BY <2>1
    <2> QED BY <1>1, <2>1, <2>2, <2>3
  <1>4. \A i, j \in 1 .. Len(c) :
          c[i].part = "head" /\ c[j].part = "head" /\ c[i].entry = c[j].entry => i = j
    BY DEF StreamOK
  <1>5. files'[p] = c
    OBVIOUS
  <1> HIDE DEF c
  <1> QED BY <1>3, <1>4, <1>5 DEF StreamOK

-----------------------------------------------------------------------------
LEMMA InitStep == Init => Inv
  <1> SUFFICES ASSUME Init PROVE Inv
    OBVIOUS
  <1> USE DEF Init
  <1>1. Live = {} /\ Locked = {} /\ Opened = {} /\ Half = {} /\ Past = {}
    BY DEF Live, Locked, Opened, Half, Past
  <1>2. DOMAIN files = {}
    OBVIOUS
  <1>3. TypeInv
    BY <1>1, <1>2 DEF TypeInv
  <1>4. IdInv /\ MutexInv /\ FileInv /\ KeptInv /\ StreamInv
    BY <1>1, <1>2 DEF IdInv, MutexInv, FileInv, KeptInv, StreamInv
  <1> QED BY <1>3, <1>4 DEF Inv

(* No goroutine writes while the process is down: a start only moves the   *)
(* entries of the past into an earlier run.                                *)
LEMMA StartStep ==
  ASSUME Inv, Start
  PROVE  Inv'
  <1> USE DEF Inv
  <1>1. Live = {} /\ Locked = {} /\ Opened = {} /\ Half = {}
    BY Sets DEF Start, IdInv
  <1>2. Live' = {} /\ Locked' = {} /\ Opened' = {} /\ Half' = {} /\ Past' = Past
    BY <1>1 DEF Start, Live, Locked, Opened, Half, Past
  <1>3. TypeInv'
    <2>1. format' \in {"json", "ndjson", "off"}
      BY OutputsAssumption DEF Start
    <2> QED BY <1>2, <2>1 DEF TypeInv, Start, diskVars
  <1>4. IdInv'
    <2>1. \A e \in Past : e.run \in Nat /\ e.run <= run /\ e.id # streamFile
      BY PastFacts
    <2>2. run \in Nat /\ run' = run + 1
      BY DEF Start, TypeInv
    <2>3. \A e \in Past : e.run <= run' /\ e.run # run'
      BY <2>1, <2>2
    <2> QED BY <1>2, <2>1, <2>3 DEF IdInv
  <1>5. MutexInv' /\ FileInv'
    BY <1>2 DEF MutexInv, FileInv
  <1>6. KeptInv'
    <2>1. ASSUME NEW e, Kept(e) PROVE Kept(e)'
      BY <1>1, <1>2, <2>1 DEF Kept, Start, diskVars
    <2> QED BY <2>1 DEF KeptInv, Start
  <1>7. StreamInv'
    <2>1. ASSUME NEW p, StreamOK(p) PROVE StreamOK(p)'
      BY <1>1, <1>2, <2>1 DEF StreamOK, Start, diskVars
    <2> QED BY <2>1 DEF StreamInv, Start, diskVars
  <1> QED BY <1>3, <1>4, <1>5, <1>6, <1>7

(* The process ends: an entry whose file was open becomes a cut one.       *)
LEMMA StopStep ==
  ASSUME Inv, Stop
  PROVE  Inv'
  <1> USE DEF Inv
  <1> DEFINE cut == {cur[g] : g \in {h \in Goroutines : damages(h)}}
  <1>1. /\ torn' = torn \cup cut /\ written' = written /\ Past' = Past \cup cut
        /\ files' = files /\ dirs' = dirs /\ run' = run /\ format' = format
        /\ idCounter' = idCounter /\ up' = FALSE
    BY DEF Stop, Past, diskVars
  <1>2. Live' = {} /\ Locked' = {} /\ Opened' = {} /\ Half' = {}
    BY DEF Stop, Live, Locked, Opened, Half
  <1>3. \A e \in cut : \E g \in Live : e = cur[g]
    BY DEF damages, Live
  <1>4. \A g \in Half : cur[g] \in cut
    BY DEF Half, damages
  <1>5. \A g \in Opened : format = "json" => cur[g] \in cut
    BY DEF Opened, damages
  <1> HIDE DEF cut
  <1>6. \A e \in cut : /\ e \in Entry /\ e.run = run /\ e.id # streamFile
                       /\ e.id[2] <= idCounter /\ e \notin Past
    <2> SUFFICES ASSUME NEW e \in cut
                 PROVE  /\ e \in Entry /\ e.run = run /\ e.id # streamFile
                        /\ e.id[2] <= idCounter /\ e \notin Past
      OBVIOUS
    <2>1. PICK g \in Live : e = cur[g]
      BY <1>3
    <2>2. e.id[2] <= idCounter
      BY <2>1 DEF IdInv
    <2> QED BY <2>1, <2>2, LiveFacts
  <1>7. TypeInv'
    <2>1. (pc \in [Goroutines -> {"idle", "dir", "open", "locked", "write", "half"}])'
      BY DEF Stop
    <2>2. (cur \in [Goroutines -> Entry \cup {Nil}])'
      BY DEF Stop
    <2>3. (Past \subseteq Entry)'
      BY <1>1, <1>6 DEF TypeInv
    <2> QED BY <1>1, <2>1, <2>2, <2>3 DEF TypeInv
  <1>8. IdInv'
    <2>1. run \in Nat
      BY DEF TypeInv
    <2>2. \A e \in Past' : /\ e.run <= run /\ e.id # streamFile
                           /\ e.run = run => e.id[2] <= idCounter
      BY <1>1, <1>6, <2>1 DEF IdInv
    <2> QED BY <1>1, <1>2, <2>2 DEF IdInv
  <1>9. MutexInv' /\ FileInv'
    BY <1>2 DEF MutexInv, FileInv
  <1>10. KeptInv'
    <2> SUFFICES ASSUME NEW e \in written, e.format = "json" PROVE Kept(e)'
      BY <1>1 DEF KeptInv
    <2>1. Kept(e) /\ e \in Past
      BY DEF KeptInv, Past
    <2>2. CASE path(e) \in DOMAIN files /\ files[path(e)] = document(e)
      BY <1>1, <2>2 DEF Kept
    <2>3. CASE \E f \in Past : f.run > e.run /\ path(f) = path(e)
      BY <1>1, <2>3 DEF Kept
    <2>4. CASE \E h \in Opened : cur[h].run > e.run /\ path(cur[h]) = path(e)
      <3>1. PICK h \in Opened : cur[h].run > e.run /\ path(cur[h]) = path(e)
        BY <2>4
      <3>2. cur[h] \in cut
        BY <1>5, <2>1, <3>1, Reused, Sets
      <3> QED BY <1>1, <3>1, <3>2 DEF Kept
    <2> QED BY <2>1, <2>2, <2>3, <2>4 DEF Kept
  <1>11. StreamInv'
    <2> SUFFICES ASSUME NEW p \in DOMAIN files, isStream(p) PROVE StreamOK(p)'
      BY <1>1 DEF StreamInv
    <2>1. StreamOK(p)
      BY DEF StreamInv
    <2>2. \A h \in Half : cur[h] \in torn' \ written'
      BY <1>1, <1>4, <1>6 DEF Past
    <2> QED BY <1>1, <2>1, <2>2, StreamFrame
  <1> QED BY <1>7, <1>8, <1>9, <1>10, <1>11

(* A new entry has the next number of this run.                            *)
LEMMA CaptureStep ==
  ASSUME Inv, NEW g \in Goroutines, Capture(g)
  PROVE  Inv'
  <1> USE DEF Inv
  <1>1. /\ up' = up /\ run' = run /\ format' = format /\ mu' = mu /\ dirs' = dirs
        /\ files' = files /\ written' = written /\ torn' = torn /\ Past' = Past
        /\ idCounter' = idCounter + 1 /\ up /\ pc[g] = "idle"
    BY DEF Capture, procVars, diskVars, Past
  <1>2. idCounter \in Nat /\ run \in Nat /\ format \in {"json", "ndjson", "off"}
    BY DEF TypeInv
  <1>3. CASE UNCHANGED <<cur, pc>>
    <2>1. Live' = Live /\ Locked' = Locked
      BY <1>3 DEF Live, Locked
    <2>2. TypeInv'
      BY <1>1, <1>3 DEF TypeInv
    <2>3. IdInv'
      <3>1. \A g1 \in Live : cur[g1].id[2] \in Nat
        BY LiveFacts DEF Entry
      <3>2. \A e \in Past : e.id[2] \in Nat
        BY PastFacts DEF Entry
      <3>3. \A n \in Nat : n <= idCounter => n <= idCounter'
        BY <1>1, <1>2
      <3> QED BY <1>1, <1>3, <2>1, <3>1, <3>2, <3>3 DEF IdInv
    <2>4. MutexInv'
      BY <1>1, <2>1 DEF MutexInv
    <2> QED BY <1>1, <1>3, <2>2, <2>3, <2>4, DiskFrame
  <1>4. ASSUME NEW h \in Hosts, NEW second \in 1 .. MaxClock, format # "off",
               cur' = [cur EXCEPT ![g] = [id |-> NewEntryID(second, idCounter + 1),
                                          host |-> h, run |-> run, format |-> format]],
               pc' = [pc EXCEPT ![g] = "dir"]
        PROVE  Inv'
    <2> DEFINE e == [id |-> <<second, idCounter + 1>>, host |-> h, run |-> run,
                     format |-> format]
    <2>1. second \in Nat
      BY OutputsAssumption
    <2>2. /\ e \in Entry /\ e.run = run /\ e.format = format
          /\ e.id[2] = idCounter + 1 /\ e.id # streamFile
      BY <1>2, <1>4, <2>1 DEF Entry, streamFile
    <2>3. cur' = [cur EXCEPT ![g] = e]
      BY <1>4 DEF NewEntryID
    <2> HIDE DEF e
    <2>4. /\ pc \in [Goroutines -> {"idle", "dir", "open", "locked", "write", "half"}]
          /\ cur \in [Goroutines -> Entry \cup {Nil}]
      BY DEF TypeInv
    <2>5. /\ pc' \in [Goroutines -> {"idle", "dir", "open", "locked", "write", "half"}]
          /\ cur' \in [Goroutines -> Entry \cup {Nil}]
          /\ pc'[g] = "dir" /\ cur'[g] = e /\ Others(g)
      BY <1>4, <2>2, <2>3, <2>4 DEF Others
    <2>6. TypeInv'
      <3> HIDE DEF Inv
      <3>1. TypeInv
        BY DEF Inv
      <3> QED BY <1>1, <1>2, <2>5, <3>1 DEF TypeInv
    <2>7. /\ Live' = Live \cup {g} /\ g \notin Live
          /\ \A k \in Live : cur'[k] = cur[k]
      BY <1>1, <2>5 DEF Live, Others
    <2>8. IdInv'
      <3>1. \A k \in Live : cur[k].id[2] \in Nat /\ cur[k].id[2] <= idCounter
        BY LiveFacts DEF Entry, IdInv
      <3>2. \A f \in Past : f.run = run => f.id[2] \in Nat /\ f.id[2] <= idCounter
        BY PastFacts DEF Entry, IdInv
      <3>3. \A n \in Nat : n <= idCounter => n <= idCounter' /\ n # idCounter + 1
        BY <1>1, <1>2
      <3>4. idCounter + 1 <= idCounter'
        BY <1>1, <1>2
      <3>5. \A k \in Live' : /\ cur'[k] \in Entry /\ cur'[k].run = run'
                             /\ cur'[k].format = format' /\ cur'[k].id # streamFile
                             /\ cur'[k].id[2] <= idCounter'
        BY <1>1, <2>2, <2>5, <2>7, <3>1, <3>3, <3>4, LiveFacts
      <3>6. \A j, k \in Live' : cur'[j].id[2] = cur'[k].id[2] => j = k
        <4>1. \A k \in Live : cur'[k].id[2] # cur'[g].id[2]
          BY <2>2, <2>5, <2>7, <3>1, <3>3
        <4>2. \A j, k \in Live : cur'[j].id[2] = cur'[k].id[2] => j = k
          BY <2>7 DEF IdInv
        <4> QED BY <2>7, <4>1, <4>2
      <3>7. \A f \in Past : f.run = run => \A k \in Live' : cur'[k].id[2] # f.id[2]
        <4>1. \A f \in Past : f.run = run => cur'[g].id[2] # f.id[2]
          BY <2>2, <2>5, <3>2, <3>3
        <4> QED BY <2>7, <4>1 DEF IdInv
      <3>8. \A f \in Past : /\ f.run <= run /\ f.id # streamFile
                            /\ f.run = run => f.id[2] <= idCounter'
        BY <3>2, <3>3, PastFacts
      <3> QED BY <1>1, <3>5, <3>6, <3>7, <3>8 DEF IdInv
    <2>9. MutexInv'
      <3>1. Locked' = Locked
        BY <1>1, <2>5 DEF Locked, Others
      <3> QED BY <1>1, <3>1 DEF MutexInv
    <2>10. FileInv' /\ KeptInv' /\ StreamInv'
      BY <1>1, <2>5, DiskFrame DEF Others
    <2> QED BY <2>6, <2>8, <2>9, <2>10
  <1>5. \/ UNCHANGED <<cur, pc>>
        \/ \E h \in Hosts, second \in 1 .. MaxClock :
             /\ format # "off"
             /\ cur' = [cur EXCEPT ![g] = [id |-> NewEntryID(second, idCounter + 1),
                                           host |-> h, run |-> run, format |-> format]]
             /\ pc' = [pc EXCEPT ![g] = "dir"]
    BY DEF Capture
  <1> QED BY <1>3, <1>4, <1>5

(* What a return of WriteEntry does to the goroutine.                      *)
LEMMA Returns ==
  ASSUME TypeInv, NEW g \in Goroutines, writeReturns(g)
  PROVE  /\ pc' \in [Goroutines -> {"idle", "dir", "open", "locked", "write", "half"}]
         /\ cur' \in [Goroutines -> Entry \cup {Nil}]
         /\ pc'[g] = "idle" /\ Others(g)
  BY DEF writeReturns, TypeInv, Others

LEMMA Moves ==
  ASSUME TypeInv, NEW g \in Goroutines, UNCHANGED cur,
         NEW to \in {"open", "locked", "write", "half"}, pc' = [pc EXCEPT ![g] = to]
  PROVE  /\ pc' \in [Goroutines -> {"idle", "dir", "open", "locked", "write", "half"}]
         /\ cur' \in [Goroutines -> Entry \cup {Nil}]
         /\ pc'[g] = to /\ Others(g) /\ cur'[g] = cur[g]
  BY DEF TypeInv, Others

(* Only the directory of an entry's host is created.                       *)
LEMMA DirStep ==
  ASSUME Inv, NEW g \in Goroutines, ensureOutputDir(g)
  PROVE  Inv'
  <1> USE DEF Inv
  <1>1. /\ up' = up /\ run' = run /\ format' = format /\ mu' = mu /\ idCounter' = idCounter
        /\ files' = files /\ written' = written /\ torn' = torn /\ Past' = Past
        /\ pc[g] = "dir" /\ g \in Live
    BY DEF ensureOutputDir, procVars, Past, Live
  <1>2. /\ pc' \in [Goroutines -> {"idle", "dir", "open", "locked", "write", "half"}]
        /\ cur' \in [Goroutines -> Entry \cup {Nil}]
        /\ Others(g)
        /\ pc'[g] = "idle" \/ (pc'[g] = "open" /\ cur'[g] = cur[g])
    <2>1. writeReturns(g) \/ (pc' = [pc EXCEPT ![g] = "open"] /\ UNCHANGED cur)
      BY DEF ensureOutputDir
    <2> QED BY <2>1, Returns, Moves
  <1>3. dirs' \subseteq {safeDomain(h) : h \in Hosts}
    <2>1. cur[g].host \in Hosts
      BY <1>1, LiveFacts DEF Entry
    <2>2. dirs' \subseteq dirs \cup {safeDomain(cur[g].host)}
      BY DEF ensureOutputDir
    <2> QED BY <2>1, <2>2 DEF TypeInv
  <1>4. TypeInv'
    <2> HIDE DEF Inv
    <2>1. TypeInv
      BY DEF Inv
    <2> QED BY <1>1, <1>2, <1>3, <2>1 DEF TypeInv
  <1>5. IdInv'
    BY <1>1, <1>2, IdFrame
  <1>6. MutexInv'
    <2>1. Locked' = Locked
      BY <1>1, <1>2 DEF Locked, Others
    <2> QED BY <1>1, <2>1 DEF MutexInv
  <1>7. FileInv' /\ KeptInv' /\ StreamInv'
    BY <1>1, <1>2, DiskFrame DEF Others
  <1> QED BY <1>4, <1>5, <1>6, <1>7

(* The mutex lets a goroutine in only when it is free.                     *)
LEMMA LockStep ==
  ASSUME Inv, NEW g \in Goroutines, Lock(g)
  PROVE  Inv'
  <1> USE DEF Inv
  <1>1. /\ up' = up /\ run' = run /\ format' = format /\ idCounter' = idCounter
        /\ files' = files /\ dirs' = dirs /\ written' = written /\ torn' = torn
        /\ Past' = Past /\ pc[g] = "open" /\ g \in Live
    BY DEF Lock, procVars, diskVars, Past, Live
  <1>2. /\ pc' \in [Goroutines -> {"idle", "dir", "open", "locked", "write", "half"}]
        /\ cur' \in [Goroutines -> Entry \cup {Nil}]
        /\ Others(g) /\ pc'[g] = "locked" /\ cur'[g] = cur[g]
    BY Moves DEF Lock
  <1>3. TypeInv'
    <2> HIDE DEF Inv
    <2>1. TypeInv
      BY DEF Inv
    <2> QED BY <1>1, <1>2, <2>1 DEF TypeInv
  <1>4. IdInv'
    BY <1>1, <1>2, IdFrame
  <1>5. MutexInv'
    <2> SUFFICES ASSUME format = "ndjson", NEW h \in Locked' PROVE mu' = {h}
      BY <1>1 DEF MutexInv
    <2>1. mu = {} /\ mu' = {g}
      BY DEF Lock, lock
    <2>2. Locked = {}
      BY <2>1 DEF MutexInv
    <2>3. h = g
      BY <1>2, <2>2 DEF Locked, Others
    <2> QED BY <2>1, <2>3
  <1>6. FileInv' /\ KeptInv' /\ StreamInv'
    BY <1>1, <1>2, DiskFrame DEF Others
  <1> QED BY <1>3, <1>4, <1>5, <1>6

(* A goroutine past the lock that goes on keeps the mutex; one that        *)
(* returns leaves nobody inside the append writer.                         *)
LEMMA MutexFrame ==
  ASSUME TypeInv, IdInv, MutexInv, NEW g \in Locked, Others(g), format' = format,
         (mu' = mu /\ pc'[g] \in {"write", "half"}) \/ pc'[g] = "idle"
  PROVE  MutexInv'
  <1> SUFFICES ASSUME format = "ndjson", NEW h \in Locked' PROVE mu' = {h}
    BY DEF MutexInv
  <1>1. h \in Goroutines /\ (h # g => h \in Locked)
    BY DEF Locked, Others
  <1>2. h = g
    BY <1>1, Alone
  <1>3. mu' = mu
    BY <1>2 DEF Locked
  <1> QED BY <1>2, <1>3 DEF MutexInv

(* The files of the other goroutines that have opened theirs.              *)
LEMMA FileFrame ==
  ASSUME TypeInv, IdInv, MutexInv, FileInv, NEW g \in Locked, Others(g), format' = format,
         DOMAIN files \subseteq DOMAIN files',
         \A q \in DOMAIN files : q # path(cur[g]) => files'[q] = files[q],
         g \in Opened' =>
            LET p == path(cur'[g]) IN
            /\ p \in DOMAIN files'
            /\ pc'[g] = "half" =>
                 Len(files'[p]) > 0 /\ files'[p][Len(files'[p])] = head(cur'[g])
            /\ format # "ndjson" => Len(files'[p]) = IF pc'[g] = "half" THEN 1 ELSE 0
  PROVE  FileInv'
  <1> SUFFICES ASSUME NEW h \in Opened'
               PROVE  LET p == path(cur'[h]) IN
                      /\ p \in DOMAIN files'
                      /\ pc'[h] = "half" =>
                           Len(files'[p]) > 0 /\ files'[p][Len(files'[p])] = head(cur'[h])
                      /\ format # "ndjson" => Len(files'[p]) = IF pc'[h] = "half" THEN 1 ELSE 0
    BY DEF FileInv
  <1>1. CASE h = g
    BY <1>1
  <1>2. CASE h # g
    <2>1. h \in Opened /\ pc'[h] = pc[h] /\ cur'[h] = cur[h]
      BY <1>2 DEF Opened, Others
    <2> DEFINE p == path(cur[h])
    <2>2. path(cur[h]) # path(cur[g])
      BY <1>2, <2>1, Alone, Sets
    <2>3. /\ p \in DOMAIN files
          /\ pc[h] = "half" => Len(files[p]) > 0 /\ files[p][Len(files[p])] = head(cur[h])
          /\ format # "ndjson" => Len(files[p]) = IF pc[h] = "half" THEN 1 ELSE 0
      BY <2>1 DEF FileInv
    <2>4. p \in DOMAIN files' /\ files'[p] = files[p]
      BY <2>2, <2>3
    <2>5. path(cur'[h]) = p
      BY <2>1
    <2> HIDE DEF p
    <2> QED BY <2>1, <2>3, <2>4, <2>5
  <1> QED BY <1>1, <1>2

(* The append streams that are not the file of g.                          *)
LEMMA StreamOther ==
  ASSUME TypeInv, IdInv, NEW g \in Live, Others(g), NEW q, StreamOK(q),
         q # path(cur[g]), files'[q] = files[q], Past \subseteq Past', torn \subseteq torn',
         written' \subseteq written \cup {cur[g]}
  PROVE  StreamOK(q)'
  <1>1. \A e \in torn : path(e) = q /\ e \notin written => e \notin written'
    OBVIOUS
  <1>2. \A h \in Half : path(cur[h]) = q => h \in Half' /\ cur'[h] = cur[h]
    BY DEF Half, Others
  <1> QED BY <1>1, <1>2, StreamFrame

LEMMA OpenStep ==
  ASSUME Inv, NEW g \in Goroutines, Open(g)
  PROVE  Inv'
  <1> USE DEF Inv
  <1>1. /\ up' = up /\ run' = run /\ format' = format /\ idCounter' = idCounter
        /\ dirs' = dirs /\ written' = written /\ torn' = torn
        /\ Past' = Past /\ pc[g] = "locked" /\ g \in Live /\ g \in Locked
    BY DEF Open, procVars, Past, Live, Locked
  <1>2. ASSUME writeReturns(g), files' = files
        PROVE  Inv'
    <2>1. /\ pc' \in [Goroutines -> {"idle", "dir", "open", "locked", "write", "half"}]
          /\ cur' \in [Goroutines -> Entry \cup {Nil}]
          /\ pc'[g] = "idle" /\ Others(g)
      BY <1>2, Returns
    <2>2. TypeInv'
      <3> HIDE DEF Inv
      <3>1. TypeInv
        BY DEF Inv
      <3> QED BY <1>1, <1>2, <2>1, <3>1 DEF TypeInv
    <2>3. IdInv'
      BY <1>1, <2>1, IdFrame
    <2>4. MutexInv'
      BY <1>1, <2>1, MutexFrame
    <2>5. FileInv' /\ KeptInv' /\ StreamInv'
      BY <1>1, <1>2, <2>1, DiskFrame DEF Others
    <2> QED BY <2>2, <2>3, <2>4, <2>5
  <1> DEFINE p == path(cur[g])
             c == IF format = "ndjson" THEN content(p) ELSE << >>
  <1>3. ASSUME setContent(p, c), pc' = [pc EXCEPT ![g] = "write"], cur' = cur, mu' = mu
        PROVE  Inv'
    <2>1. /\ pc' \in [Goroutines -> {"idle", "dir", "open", "locked", "write", "half"}]
          /\ cur' \in [Goroutines -> Entry \cup {Nil}]
          /\ pc'[g] = "write" /\ Others(g) /\ cur'[g] = cur[g]
      BY <1>3, Moves
    <2>2. c \in Seq(Piece)
      BY DEF TypeInv, content
    <2>3. /\ p \in DOMAIN files => (format = "ndjson" => c = files[p])
          /\ p \notin DOMAIN files => c = << >>
          /\ format # "ndjson" => c = << >>
      BY DEF content
    <2>4. /\ isStream(p) <=> format = "ndjson"
      BY <1>1, LiveFacts
    <2> HIDE DEF p, c
    <2>5. /\ DOMAIN files' = DOMAIN files \cup {p} /\ files'[p] = c
          /\ \A q \in DOMAIN files : q # p => files'[q] = files[q]
      BY <1>3, Updated
    <2>6. TypeInv'
      <3> HIDE DEF Inv
      <3>1. TypeInv
        BY DEF Inv
      <3>2. \A q \in DOMAIN files' : files'[q] \in Seq(Piece)
        BY <2>2, <2>5, <3>1 DEF TypeInv
      <3> QED BY <1>1, <2>1, <3>1, <3>2 DEF TypeInv
    <2>7. IdInv'
      BY <1>1, <2>1, IdFrame
    <2>8. MutexInv'
      BY <1>1, <1>3, <2>1, MutexFrame
    <2>9. FileInv'
      <3>1. format # "ndjson" => Len(files'[p]) = 0
        BY <2>3, <2>5
      <3>2. path(cur'[g]) = p /\ p = path(cur[g])
        BY <2>1 DEF p
      <3> QED BY <1>1, <2>1, <2>5, <3>1, <3>2, FileFrame
    <2>10. KeptInv'
      <3>1. g \in Opened' /\ p = path(cur[g])
        BY <2>1 DEF Opened, p
      <3> QED BY <1>1, <2>1, <2>5, <3>1, KeptFrame DEF KeptInv
    <2>11. StreamInv'
      <3> SUFFICES ASSUME NEW q \in DOMAIN files', isStream(q) PROVE StreamOK(q)'
        BY DEF StreamInv
      <3>1. CASE q # p
        BY <1>1, <2>1, <2>5, <3>1, StreamOther DEF StreamInv, p
      <3>2. CASE q = p /\ p \in DOMAIN files
        <4>1. files'[p] = files[p]
          BY <2>3, <2>4, <2>5, <3>2
        <4>2. \A h \in Half : h \in Half' /\ cur'[h] = cur[h]
          BY <1>1, <1>3, <2>1 DEF Half, Others
        <4> QED BY <1>1, <3>2, <4>1, <4>2, StreamFrame DEF StreamInv
      <3>3. CASE q = p /\ p \notin DOMAIN files
        <4>1. files'[q] = << >>
          BY <2>3, <2>5, <3>3
        <4>2. Len(files'[q]) = 0 /\ 1 .. Len(files'[q]) = {}
          BY <4>1
        <4> QED BY <4>2 DEF StreamOK
      <3> QED BY <3>1, <3>2, <3>3
    <2> QED BY <2>6, <2>7, <2>8, <2>9, <2>10, <2>11
  <1> QED BY <1>2, <1>3 DEF Open

-----------------------------------------------------------------------------
LEMMA Appended ==
  ASSUME NEW c \in Seq(Piece), NEW x \in Piece
  PROVE  /\ Append(c, x) \in Seq(Piece) /\ Len(c) \in Nat
         /\ Len(Append(c, x)) = Len(c) + 1
         /\ Append(c, x)[Len(c) + 1] = x
         /\ \A i \in 1 .. Len(c) : Append(c, x)[i] = c[i]
  BY AppendProperties, LenProperties

LEMMA Pieces ==
  ASSUME NEW e \in Entry
  PROVE  /\ document(e)[1] = head(e) /\ document(e)[2] = newline(e)
         /\ head(e) \in Piece /\ newline(e) \in Piece
         /\ head(e).entry = e /\ newline(e).entry = e
         /\ head(e).part = "head" /\ newline(e).part = "newline"
  BY DEF document, head, newline, Piece

(* Appending a head to a stream that nobody is half way through.           *)
LEMMA StreamHead ==
  ASSUME TypeInv, IdInv, NEW p \in DOMAIN files, StreamOK(p), NEW g \in Live, Half = {},
         path(cur[g]) = p, files'[p] = Append(files[p], head(cur[g])),
         g \in Half', cur'[g] = cur[g], UNCHANGED <<written, torn>>
  PROVE  StreamOK(p)'
  <1> DEFINE c == files[p]
             d == files'[p]
             n == Len(c)
             e == cur[g]
  <1>1. e \in Entry /\ e \notin Past
    BY LiveFacts
  <1>2. c \in Seq(Piece) /\ n \in Nat
    BY LenProperties DEF TypeInv
  <1>3. Len(d) = n + 1 /\ d[n + 1] = head(e) /\ \A i \in 1 .. n : d[i] = c[i]
    <2>1. head(e) \in Piece
      BY <1>1, Pieces
    <2> HIDE DEF e, c
    <2>2. d = Append(c, head(e))
      BY DEF c, e
    <2> QED BY <1>2, <2>1, <2>2, Appended
  <1>4. head(e).entry = e /\ head(e).part = "head"
    BY <1>1, Pieces
  <1>5. \A i \in 1 .. n :
          /\ path(c[i].entry) = p
          /\ c[i].entry \in Past
          /\ c[i].part = "newline" => i > 1 /\ c[i - 1] = head(c[i].entry)
          /\ c[i].part = "head" =>
               \/ i < n /\ c[i + 1] = newline(c[i].entry)
               \/ c[i].entry \in torn \ written
    BY DEF StreamOK
  <1>6. \A i, j \in 1 .. n :
          c[i].part = "head" /\ c[j].part = "head" /\ c[i].entry = c[j].entry => i = j
    BY DEF StreamOK
  <1>7. Past' = Past /\ e = cur'[g] /\ path(e) = p
    BY DEF Past
  <1> HIDE DEF c, d, n, e
  <1>8. \A i \in 1 .. Len(d) : i \in 1 .. n \/ i = n + 1
    BY <1>2, <1>3
  <1>9. ASSUME NEW i \in 1 .. Len(d)
        PROVE  /\ path(d[i].entry) = p
               /\ d[i].entry \in Past' \/ \E h \in Half' : cur'[h] = d[i].entry
               /\ d[i].part = "newline" => i > 1 /\ d[i - 1] = head(d[i].entry)
               /\ d[i].part = "head" =>
                    \/ i < Len(d) /\ d[i + 1] = newline(d[i].entry)
                    \/ d[i].entry \in torn' \ written'
                    \/ i = Len(d) /\ \E h \in Half' : cur'[h] = d[i].entry
    <2>1. CASE i \in 1 .. n
      <3>1. d[i] = c[i]
        BY <1>3, <2>1
      <3>2. d[i].part = "newline" => i > 1 /\ d[i - 1] = head(d[i].entry)
        <4> SUFFICES ASSUME d[i].part = "newline"
                     PROVE  i > 1 /\ d[i - 1] = head(d[i].entry)
          OBVIOUS
        <4>1. i > 1 /\ c[i - 1] = head(c[i].entry)
          BY <1>5, <2>1, <3>1
        <4>2. i - 1 \in 1 .. n
          BY <1>2, <2>1, <4>1
        <4> QED BY <1>3, <3>1, <4>1, <4>2
      <3>3. d[i].part = "head" =>
                    \/ i < Len(d) /\ d[i + 1] = newline(d[i].entry)
                    \/ d[i].entry \in torn \ written
        <4> SUFFICES ASSUME d[i].part = "head", d[i].entry \notin torn \ written
                     PROVE  i < Len(d) /\ d[i + 1] = newline(d[i].entry)
          OBVIOUS
        <4>1. i < n /\ c[i + 1] = newline(c[i].entry)
          BY <1>5, <2>1, <3>1
        <4>2. i + 1 \in 1 .. n /\ i < n + 1
          BY <1>2, <2>1, <4>1
        <4> QED BY <1>3, <3>1, <4>1, <4>2
      <3> QED BY <1>5, <1>7, <2>1, <3>1, <3>2, <3>3
    <2>2. CASE i = n + 1
      <3>1. d[i] = head(e) /\ d[i].entry = e /\ d[i].part = "head" /\ i = Len(d)
        BY <1>3, <1>4, <2>2
      <3> QED BY <1>7, <3>1
    <2> QED BY <1>8, <2>1, <2>2
  <1>10. ASSUME NEW i \in 1 .. Len(d), NEW j \in 1 .. Len(d),
                d[i].part = "head", d[j].part = "head", d[i].entry = d[j].entry
         PROVE  i = j
    <2>1. \A k \in 1 .. n : d[k].entry # e
      BY <1>1, <1>3, <1>5
    <2>2. d[n + 1].entry = e
      BY <1>3, <1>4
    <2> QED BY <1>3, <1>6, <1>8, <1>10, <2>1, <2>2
  <1> QED BY <1>9, <1>10 DEF StreamOK, d

(* Appending the newline of the entry whose head is the last piece.        *)
LEMMA StreamRest ==
  ASSUME TypeInv, IdInv, NEW p \in DOMAIN files, StreamOK(p), NEW g \in Live, Half = {g},
         path(cur[g]) = p, files'[p] = Append(files[p], newline(cur[g])),
         Len(files[p]) > 0, files[p][Len(files[p])] = head(cur[g]),
         written' = written \cup {cur[g]}, torn' = torn
  PROVE  StreamOK(p)'
  <1> DEFINE c == files[p]
             d == files'[p]
             n == Len(c)
             e == cur[g]
  <1>1. e \in Entry /\ e \notin Past
    BY LiveFacts
  <1>2. c \in Seq(Piece) /\ n \in Nat /\ n > 0 /\ c[n] = head(e)
    BY LenProperties DEF TypeInv
  <1>3. Len(d) = n + 1 /\ d[n + 1] = newline(e) /\ \A i \in 1 .. n : d[i] = c[i]
    <2>1. newline(e) \in Piece
      BY <1>1, Pieces
    <2> HIDE DEF e, c
    <2>2. d = Append(c, newline(e))
      BY DEF c, e
    <2> QED BY <1>2, <2>1, <2>2, Appended
  <1>4. newline(e).entry = e /\ newline(e).part = "newline"
    BY <1>1, Pieces
  <1>5. \A i \in 1 .. n :
          /\ path(c[i].entry) = p
          /\ c[i].entry \in Past \/ e = c[i].entry
          /\ c[i].part = "newline" => i > 1 /\ c[i - 1] = head(c[i].entry)
          /\ c[i].part = "head" =>
               \/ i < n /\ c[i + 1] = newline(c[i].entry)
               \/ c[i].entry \in torn \ written
               \/ i = n /\ c[i].entry = e
    BY DEF StreamOK
  <1>6. \A i, j \in 1 .. n :
          c[i].part = "head" /\ c[j].part = "head" /\ c[i].entry = c[j].entry => i = j
    BY DEF StreamOK
  <1>7. Past' = Past \cup {e} /\ path(e) = p /\ torn' = torn /\ written' = written \cup {e}
    BY DEF Past
  <1>8. torn \subseteq Past
    BY DEF Past
  <1> HIDE DEF c, d, n, e
  <1>9. \A i \in 1 .. Len(d) : i \in 1 .. n \/ i = n + 1
    BY <1>2, <1>3
  <1>10. ASSUME NEW i \in 1 .. Len(d)
         PROVE  /\ path(d[i].entry) = p
                /\ d[i].entry \in Past'
                /\ d[i].part = "newline" => i > 1 /\ d[i - 1] = head(d[i].entry)
                /\ d[i].part = "head" =>
                     \/ i < Len(d) /\ d[i + 1] = newline(d[i].entry)
                     \/ d[i].entry \in torn' \ written'
    <2>1. CASE i \in 1 .. n
      <3>1. d[i] = c[i]
        BY <1>3, <2>1
      <3>2. d[i].part = "newline" => i > 1 /\ d[i - 1] = head(d[i].entry)
        <4> SUFFICES ASSUME d[i].part = "newline"
                     PROVE  i > 1 /\ d[i - 1] = head(d[i].entry)
          OBVIOUS
        <4>1. i > 1 /\ c[i - 1] = head(c[i].entry)
          BY <1>5, <2>1, <3>1
        <4>2. i - 1 \in 1 .. n
          BY <1>2, <2>1, <4>1
        <4> QED BY <1>3, <3>1, <4>1, <4>2
      <3>3. d[i].part = "head" =>
                    \/ i < Len(d) /\ d[i + 1] = newline(d[i].entry)
                    \/ d[i].entry \in torn' \ written'
        <4> SUFFICES ASSUME d[i].part = "head", d[i].entry \notin torn' \ written'
                     PROVE  i < Len(d) /\ d[i + 1] = newline(d[i].entry)
          OBVIOUS
        <4>1. d[i].entry \notin torn \ written
          BY <1>1, <1>7, <1>8
        <4>2. CASE i < n /\ c[i + 1] = newline(c[i].entry)
          <5>1. i + 1 \in 1 .. n /\ i < n + 1
            BY <1>2, <2>1, <4>2
          <5> QED BY <1>3, <3>1, <4>2, <5>1
        <4>3. CASE i = n /\ c[i].entry = e
          <5>1. i < n + 1
            BY <1>2, <4>3
          <5> QED BY <1>3, <3>1, <4>3, <5>1
        <4> QED BY <1>5, <2>1, <3>1, <4>1, <4>2, <4>3
      <3> QED BY <1>5, <1>7, <2>1, <3>1, <3>2, <3>3
    <2>2. CASE i = n + 1
      <3>1. d[i] = newline(e) /\ d[i].entry = e /\ d[i].part = "newline" /\ i > 1
        BY <1>2, <1>3, <1>4, <2>2
      <3>2. i - 1 = n /\ n \in 1 .. n
        BY <1>2, <2>2
      <3>3. d[i - 1] = head(e)
        BY <1>2, <1>3, <3>2
      <3> QED BY <1>7, <3>1, <3>3
    <2> QED BY <1>9, <2>1, <2>2
  <1>11. ASSUME NEW i \in 1 .. Len(d), NEW j \in 1 .. Len(d),
                d[i].part = "head", d[j].part = "head", d[i].entry = d[j].entry
         PROVE  i = j
    <2>1. d[n + 1].part # "head"
      BY <1>3, <1>4
    <2> QED BY <1>3, <1>6, <1>9, <1>11, <2>1
  <1> QED BY <1>10, <1>11 DEF StreamOK, d

LEMMA WriteHeadStep ==
  ASSUME Inv, NEW g \in Goroutines, WriteHead(g)
  PROVE  Inv'
  <1> USE DEF Inv
  <1>1. /\ up' = up /\ run' = run /\ format' = format /\ idCounter' = idCounter
        /\ dirs' = dirs /\ written' = written
        /\ pc[g] = "write" /\ g \in Live /\ g \in Locked /\ g \in Opened /\ g \notin Half
    BY DEF WriteHead, procVars, Live, Locked, Opened, Half
  <1> DEFINE p == path(cur[g])
  <1>2. /\ p \in DOMAIN files /\ content(p) = files[p] /\ files[p] \in Seq(Piece)
        /\ format # "ndjson" => Len(files[p]) = 0
    BY <1>1 DEF FileInv, content, TypeInv
  <1>3. cur[g] \in Entry /\ (isStream(p) <=> format = "ndjson")
    BY <1>1, LiveFacts
  <1>4. ASSUME writeReturns(g), files' = files
        PROVE  Inv'
    <2>1. /\ pc' \in [Goroutines -> {"idle", "dir", "open", "locked", "write", "half"}]
          /\ cur' \in [Goroutines -> Entry \cup {Nil}]
          /\ pc'[g] = "idle" /\ Others(g)
      BY <1>4, Returns
    <2>2. torn' = IF format = "json" THEN torn \cup {cur[g]} ELSE torn
      BY <1>1, <2>1 DEF WriteHead, damages
    <2>3. /\ Past \subseteq Past' /\ Past' \subseteq Past \cup {cur[g]}
          /\ torn \subseteq torn' /\ (format = "json" => cur[g] \in Past')
      BY <1>1, <2>2 DEF Past
    <2>4. TypeInv'
      <3> HIDE DEF Inv
      <3>1. TypeInv
        BY DEF Inv
      <3>2. Past' \subseteq Entry
        BY <1>3, <2>3, <3>1 DEF TypeInv
      <3> QED BY <1>1, <1>4, <2>1, <3>1, <3>2 DEF TypeInv
    <2>5. IdInv'
      BY <1>1, <2>1, <2>3, IdFrame
    <2>6. MutexInv'
      BY <1>1, <2>1, MutexFrame
    <2>7. FileInv'
      <3>1. g \notin Opened'
        BY <2>1 DEF Opened
      <3> QED BY <1>1, <1>4, <2>1, <3>1, FileFrame
    <2>8. KeptInv'
      BY <1>1, <1>4, <2>1, <2>3, KeptFrame DEF KeptInv
    <2>9. StreamInv'
      <3> SUFFICES ASSUME NEW q \in DOMAIN files, isStream(q) PROVE StreamOK(q)'
        BY <1>4 DEF StreamInv
      <3>1. \A h \in Half : h \in Half' /\ cur'[h] = cur[h]
        BY <1>1, <2>1 DEF Half, Others
      <3> QED BY <1>1, <1>4, <2>3, <3>1, StreamFrame DEF StreamInv
    <2> QED BY <2>4, <2>5, <2>6, <2>7, <2>8, <2>9
  <1>5. ASSUME setContent(p, Append(content(p), document(cur[g])[1])),
               pc' = [pc EXCEPT ![g] = "half"], cur' = cur, mu' = mu
        PROVE  Inv'
    <2>1. /\ pc' \in [Goroutines -> {"idle", "dir", "open", "locked", "write", "half"}]
          /\ cur' \in [Goroutines -> Entry \cup {Nil}]
          /\ pc'[g] = "half" /\ Others(g) /\ cur'[g] = cur[g]
      BY <1>5, Moves
    <2>2. torn' = torn /\ Past' = Past
      BY <1>1, <2>1 DEF WriteHead, Past
    <2>3. document(cur[g])[1] = head(cur[g]) /\ head(cur[g]) \in Piece
      BY <1>3, Pieces
    <2> HIDE DEF p
    <2> DEFINE c == Append(files[p], head(cur[g]))
    <2>4. /\ c \in Seq(Piece) /\ Len(files[p]) \in Nat /\ Len(c) = Len(files[p]) + 1
          /\ c[Len(files[p]) + 1] = head(cur[g])
      BY <1>2, <2>3, Appended
    <2>5. setContent(p, c)
      BY <1>2, <1>5, <2>3
    <2>6. g \in Half' /\ g \in Opened' /\ p = path(cur[g]) /\ path(cur'[g]) = p
      BY <1>1, <2>1 DEF Half, Opened, p
    <2>7. /\ DOMAIN files' = DOMAIN files /\ files'[p] = c
          /\ \A q \in DOMAIN files : q # p => files'[q] = files[q]
      <3> HIDE DEF c
      <3> QED BY <1>2, <2>5, Updated
    <2>8. TypeInv'
      <3> HIDE DEF Inv, c
      <3>1. TypeInv
        BY DEF Inv
      <3>2. \A q \in DOMAIN files' : files'[q] \in Seq(Piece)
        BY <2>4, <2>7, <3>1 DEF TypeInv
      <3> QED BY <1>1, <2>1, <2>2, <3>1, <3>2 DEF TypeInv
    <2>9. IdInv'
      BY <1>1, <2>1, <2>2, IdFrame
    <2>10. MutexInv'
      BY <1>1, <1>5, <2>1, MutexFrame
    <2>11. FileInv'
      <3> HIDE DEF c
      <3>1. Len(c) > 0 /\ (format # "ndjson" => Len(c) = 1)
        BY <1>2, <2>4
      <3>2. c[Len(c)] = head(cur'[g])
        BY <2>1, <2>4
      <3>3. format # "ndjson" => Len(c) = IF pc'[g] = "half" THEN 1 ELSE 0
        BY <2>1, <3>1
      <3>4. /\ path(cur'[g]) \in DOMAIN files'
            /\ Len(files'[path(cur'[g])]) > 0
            /\ files'[path(cur'[g])][Len(files'[path(cur'[g])])] = head(cur'[g])
            /\ format # "ndjson" =>
                 Len(files'[path(cur'[g])]) = IF pc'[g] = "half" THEN 1 ELSE 0
        BY <1>2, <2>6, <2>7, <3>1, <3>2, <3>3
      <3> QED BY <1>1, <2>1, <2>6, <2>7, <3>4, FileFrame
    <2>12. KeptInv'
      BY <1>1, <2>1, <2>2, <2>6, <2>7, KeptFrame DEF KeptInv
    <2>13. StreamInv'
      <3> SUFFICES ASSUME NEW q \in DOMAIN files, isStream(q) PROVE StreamOK(q)'
        BY <2>7 DEF StreamInv
      <3>1. StreamOK(q)
        BY DEF StreamInv
      <3>2. CASE q # p
        BY <1>1, <2>1, <2>2, <2>6, <2>7, <3>1, <3>2, StreamOther
      <3>3. CASE q = p
        <4>1. format = "ndjson"
          BY <1>3, <3>3 DEF p
        <4>2. Half = {}
          <5> SUFFICES ASSUME NEW h \in Half PROVE FALSE
            OBVIOUS
          <5>1. h # g /\ h \in Locked
            BY <1>1, Sets
          <5> QED BY <1>1, <4>1, <5>1, Alone
        <4> QED BY <1>1, <2>1, <2>2, <2>6, <2>7, <3>1, <3>3, <4>2, StreamHead
      <3> QED BY <3>2, <3>3
    <2> QED BY <2>8, <2>9, <2>10, <2>11, <2>12, <2>13
  <1> QED BY <1>4, <1>5 DEF WriteHead

LEMMA WriteRestStep ==
  ASSUME Inv, NEW g \in Goroutines, WriteRest(g)
  PROVE  Inv'
  <1> USE DEF Inv
  <1>1. /\ up' = up /\ run' = run /\ format' = format /\ idCounter' = idCounter
        /\ dirs' = dirs
        /\ pc[g] = "half" /\ g \in Live /\ g \in Locked /\ g \in Opened /\ g \in Half
    BY DEF WriteRest, procVars, Live, Locked, Opened, Half
  <1> DEFINE p == path(cur[g])
  <1>2. /\ p \in DOMAIN files /\ content(p) = files[p] /\ files[p] \in Seq(Piece)
        /\ Len(files[p]) > 0 /\ files[p][Len(files[p])] = head(cur[g])
        /\ format # "ndjson" => Len(files[p]) = 1
    BY <1>1 DEF FileInv, content, TypeInv
  <1>3. /\ cur[g] \in Entry /\ (isStream(p) <=> format = "ndjson") /\ cur[g] \notin Past
        /\ cur[g].format = format
    BY <1>1, LiveFacts
  <1>4. /\ pc' \in [Goroutines -> {"idle", "dir", "open", "locked", "write", "half"}]
        /\ cur' \in [Goroutines -> Entry \cup {Nil}]
        /\ pc'[g] = "idle" /\ Others(g)
    BY Returns DEF WriteRest
  <1>5. g \notin Opened'
    BY <1>4 DEF Opened
  <1>6. MutexInv'
    BY <1>1, <1>4, MutexFrame
  <1>7. ASSUME torn' = torn \cup {cur[g]}, files' = files, written' = written
        PROVE  Inv'
    <2>1. Past' = Past \cup {cur[g]}
      BY <1>7 DEF Past
    <2>2. TypeInv'
      <3> HIDE DEF Inv
      <3>1. TypeInv
        BY DEF Inv
      <3>2. Past' \subseteq Entry
        BY <1>3, <2>1, <3>1 DEF TypeInv
      <3> QED BY <1>1, <1>4, <1>7, <3>1, <3>2 DEF TypeInv
    <2>3. IdInv'
      BY <1>1, <1>4, <2>1, IdFrame
    <2>4. FileInv'
      BY <1>1, <1>4, <1>5, <1>7, FileFrame
    <2>5. KeptInv'
      BY <1>1, <1>4, <1>7, <2>1, KeptFrame DEF KeptInv
    <2>6. StreamInv'
      <3> SUFFICES ASSUME NEW q \in DOMAIN files, isStream(q) PROVE StreamOK(q)'
        BY <1>7 DEF StreamInv
      <3>1. \A h \in Half : \/ h \in Half' /\ cur'[h] = cur[h]
                            \/ cur[h] \in torn' \ written'
        <4> SUFFICES ASSUME NEW h \in Half
                     PROVE  \/ h \in Half' /\ cur'[h] = cur[h]
                            \/ cur[h] \in torn' \ written'
          OBVIOUS
        <4>1. CASE h = g
          BY <1>3, <1>7, <4>1 DEF Past
        <4>2. CASE h # g
          BY <1>4, <4>2 DEF Half, Others
        <4> QED BY <4>1, <4>2
      <3> QED BY <1>7, <2>1, <3>1, StreamFrame DEF StreamInv
    <2> QED BY <1>6, <2>2, <2>3, <2>4, <2>5, <2>6
  <1>8. ASSUME setContent(p, Append(content(p), document(cur[g])[2])),
               written' = written \cup {cur[g]}, torn' = torn
        PROVE  Inv'
    <2>1. Past' = Past \cup {cur[g]}
      BY <1>8 DEF Past
    <2>2. document(cur[g])[2] = newline(cur[g]) /\ newline(cur[g]) \in Piece
      BY <1>3, Pieces
    <2> HIDE DEF p
    <2> DEFINE c == Append(files[p], newline(cur[g]))
    <2>3. /\ c \in Seq(Piece) /\ Len(files[p]) \in Nat /\ Len(c) = Len(files[p]) + 1
          /\ c[Len(files[p]) + 1] = newline(cur[g])
          /\ \A i \in 1 .. Len(files[p]) : c[i] = files[p][i]
      BY <1>2, <2>2, Appended
    <2>4. setContent(p, c) /\ p = path(cur[g])
      BY <1>2, <1>8, <2>2 DEF p
    <2>5. /\ DOMAIN files' = DOMAIN files /\ files'[p] = c
          /\ \A q \in DOMAIN files : q # p => files'[q] = files[q]
      <3> HIDE DEF c
      <3> QED BY <1>2, <2>4, Updated
    <2>6. TypeInv'
      <3> HIDE DEF Inv, c
      <3>1. TypeInv
        BY DEF Inv
      <3>2. \A q \in DOMAIN files' : files'[q] \in Seq(Piece)
        BY <2>3, <2>5, <3>1 DEF TypeInv
      <3>3. Past' \subseteq Entry
        BY <1>3, <2>1, <3>1 DEF TypeInv
      <3> QED BY <1>1, <1>4, <3>1, <3>2, <3>3 DEF TypeInv
    <2>7. IdInv'
      BY <1>1, <1>4, <2>1, IdFrame
    <2>8. FileInv'
      BY <1>1, <1>4, <1>5, <2>4, <2>5, FileFrame
    <2>9. KeptInv'
      <3>1. \A e \in written : e.format = "json" => Kept(e)'
        BY <1>1, <1>4, <2>1, <2>4, <2>5, KeptFrame
      <3>2. ASSUME NEW e, e = cur[g], e.format = "json" PROVE Kept(e)'
        <4> HIDE DEF c
        <4>1. Len(files[p]) = 1
          BY <1>2, <1>3, <3>2
        <4>2. c \in Seq(Piece) /\ Len(c) = 2 /\ c[1] = head(cur[g]) /\ c[2] = newline(cur[g])
          BY <1>2, <2>3, <4>1
        <4>3. document(e) = <<head(e), newline(e)>> /\ head(e) \in Piece /\ newline(e) \in Piece
          BY <1>3, <3>2, Pieces DEF document, head, newline
        <4>4. c = document(e)
          <5> DEFINE d == document(e)
          <5>1. d \in Seq(Piece) /\ Len(d) = 2 /\ d[1] = head(e) /\ d[2] = newline(e)
            BY <4>3
          <5>2. Len(c) = Len(d) /\ \A i \in 1 .. Len(c) : c[i] = d[i]
            BY <3>2, <4>2, <5>1
          <5> HIDE DEF d
          <5>3. c = d
            BY <4>2, <5>1, <5>2, SeqEqual
          <5> QED BY <5>3 DEF d
        <4>5. path(e) = p
          BY <2>4, <3>2
        <4> QED BY <1>2, <2>5, <4>4, <4>5 DEF Kept
      <3> QED BY <1>8, <3>1, <3>2 DEF KeptInv
    <2>10. StreamInv'
      <3> SUFFICES ASSUME NEW q \in DOMAIN files, isStream(q) PROVE StreamOK(q)'
        BY <2>5 DEF StreamInv
      <3>1. StreamOK(q)
        BY DEF StreamInv
      <3>2. CASE q # p
        BY <1>1, <1>4, <1>8, <2>1, <2>4, <2>5, <3>1, <3>2, StreamOther
      <3>3. CASE q = p
        <4>1. format = "ndjson"
          BY <1>3, <3>3 DEF p
        <4>2. Half = {g}
          <5>1. ASSUME NEW h \in Half PROVE h = g
            BY <1>1, <4>1, Alone, Sets
          <5> QED BY <1>1, <5>1
        <4> QED BY <1>1, <1>2, <1>8, <2>4, <2>5, <3>1, <3>3, <4>2, StreamRest
      <3> QED BY <3>2, <3>3
    <2> QED BY <1>6, <2>6, <2>7, <2>8, <2>9, <2>10
  <1> QED BY <1>7, <1>8 DEF WriteRest

-----------------------------------------------------------------------------
(* The invariant holds of every behaviour of the writers: any number of    *)
(* goroutines, runs and entries, any write failing or being interrupted.   *)
THEOREM Invariance == Spec => []Inv
  <1>1. Init => Inv
    BY InitStep
  <1>2. Inv /\ [Next]_vars => Inv'
    <2> SUFFICES ASSUME Inv, [Next]_vars PROVE Inv'
      OBVIOUS
    <2>1. CASE Start
      BY <2>1, StartStep
    <2>2. CASE Stop
      BY <2>2, StopStep
    <2>3. CASE \E g \in Goroutines : Capture(g) \/ Write(g)
      <3>1. PICK g \in Goroutines : Capture(g) \/ Write(g)
        BY <2>3
      <3> QED BY <3>1, CaptureStep, DirStep, LockStep, OpenStep, WriteHeadStep,
                 WriteRestStep DEF Write
    <2>4. CASE UNCHANGED vars
      <3>1. /\ Live' = Live /\ Locked' = Locked /\ Opened' = Opened /\ Half' = Half
            /\ Past' = Past
        BY <2>4 DEF vars, procVars, diskVars, Live, Locked, Opened, Half, Past
      <3>2. TypeInv' /\ IdInv' /\ MutexInv'
        BY <2>4, <3>1 DEF Inv, TypeInv, IdInv, MutexInv, vars, procVars, diskVars
      <3>3. FileInv' /\ KeptInv' /\ StreamInv'
        BY <2>4, DiskFrame DEF Inv, vars, procVars, diskVars
      <3> QED BY <3>2, <3>3 DEF Inv
    <2> QED BY <2>1, <2>2, <2>3, <2>4 DEF Next
  <1> QED BY <1>1, <1>2, PTL DEF Spec

(* Whatever Host header a request has, the directory created for it is one *)
(* segment under the output directory (safeDomain, file_writer.go).        *)
THEOREM NoTraversal == Spec => []DirsContained
  <1>1. Inv => DirsContained
    BY SafeDomain DEF Inv, TypeInv, DirsContained
  <1> QED BY <1>1, Invariance, PTL

(* Within a run no two entries share a JSON file, so a file written        *)
(* successfully stays as written until a later run reuses its name         *)
(* (NewEntryID and JSONBodyWriter.WriteEntry).                             *)
THEOREM WrittenStays == Spec => []FilesKept
  <1>1. Inv => FilesKept
    <2> SUFFICES ASSUME Inv, NEW e \in written, e.format = "json"
                 PROVE  \/ files[jsonPath(e)] = document(e)
                        \/ \E later \in written \cup torn \cup {cur[g] : g \in Goroutines} :
                             later.run > e.run /\ path(later) = path(e)
      BY DEF FilesKept
    <2>1. Kept(e) /\ e \in Past
      BY DEF Inv, KeptInv, Past
    <2>2. path(e) = jsonPath(e)
      BY <2>1, PastFacts, PathFacts DEF Inv
    <2>3. CASE path(e) \in DOMAIN files /\ files[path(e)] = document(e)
      BY <2>2, <2>3
    <2>4. CASE \E f \in Past : f.run > e.run /\ path(f) = path(e)
      BY <2>4 DEF Past
    <2>5. CASE \E g \in Opened : cur[g].run > e.run /\ path(cur[g]) = path(e)
      <3>1. PICK g \in Opened : cur[g].run > e.run /\ path(cur[g]) = path(e)
        BY <2>5
      <3>2. cur[g] \in {cur[h] : h \in Goroutines}
        BY Sets
      <3> QED BY <3>1, <3>2
    <2> QED BY <2>1, <2>3, <2>4, <2>5 DEF Kept
  <1> QED BY <1>1, Invariance, PTL

(* An entry that was appended successfully and cannot be read back has its *)
(* line glued to a cut one: its head is preceded by a head that is torn.   *)
LEMMA Glued ==
  ASSUME Inv, NEW p \in DOMAIN files, isStream(p),
         NEW k \in 1 .. Len(files[p]), files[p][k].entry \in written,
         files[p][k].entry \notin readable(files[p])
  PROVE  \E j \in 2 .. Len(files[p]) :
           /\ files[p][j].part = "head" /\ files[p][j].entry = files[p][k].entry
           /\ files[p][j - 1].part = "head" /\ files[p][j - 1].entry \in torn
  <1> DEFINE c == files[p]
             e == c[k].entry
  <1>1. c \in Seq(Piece) /\ Len(c) \in Nat
    BY LenProperties DEF Inv, TypeInv
  <1>2. \A i \in 1 .. Len(c) : c[i].part \in {"head", "newline"}
    <2> HIDE DEF c
    <2>1. \A i \in 1 .. Len(c) : c[i] \in Piece
      BY <1>1, ElementOfSeq
    <2>2. \A x \in Piece : x.part \in {"head", "newline"}
      BY DEF Piece
    <2> QED BY <2>1, <2>2
  <1>3. \A i \in 1 .. Len(c) :
          /\ c[i].part = "newline" => i > 1 /\ c[i - 1] = head(c[i].entry)
          /\ c[i].part = "head" =>
               \/ i < Len(c) /\ c[i + 1] = newline(c[i].entry)
               \/ c[i].entry \in torn \ written
               \/ i = Len(c) /\ \E g \in Half : cur[g] = c[i].entry
    BY DEF Inv, StreamInv, StreamOK
  <1>4. \A x : head(x).entry = x /\ newline(x).entry = x /\ head(x).part = "head"
               /\ newline(x).part = "newline"
    BY DEF head, newline
  <1>5. \A g \in Half : cur[g] \notin written
    <2> SUFFICES ASSUME NEW g \in Half PROVE cur[g] \notin written
      OBVIOUS
    <2>1. g \in Live
      BY Sets
    <2> QED BY <2>1, LiveFacts DEF Inv, Past
  <1>6. e \in written
    OBVIOUS
  <1>7. ASSUME NEW j \in 1 .. Len(c) - 1, startsLine(c, j), c[j].part = "head",
               c[j + 1] = newline(c[j].entry)
        PROVE  c[j].entry \in readable(c)
    BY <1>7 DEF readable, newline
  <1>8. e \notin readable(c)
    OBVIOUS
  <1> HIDE DEF c
  <1>9. PICK j \in 1 .. Len(c) : c[j].part = "head" /\ c[j].entry = e
    <2>1. CASE c[k].part = "head"
      BY <2>1 DEF c
    <2>2. CASE c[k].part = "newline"
      <3>1. k > 1 /\ c[k - 1] = head(e) /\ k \in 1 .. Len(c)
        BY <1>3, <2>2 DEF c
      <3>2. k - 1 \in 1 .. Len(c)
        BY <1>1, <3>1
      <3> QED BY <1>4, <3>1, <3>2
    <2>3. k \in 1 .. Len(c)
      BY DEF c
    <2> QED BY <1>2, <2>1, <2>2, <2>3
  <1> HIDE DEF e
  <1>10. j < Len(c) /\ c[j + 1] = newline(c[j].entry)
    BY <1>3, <1>5, <1>6, <1>9
  <1>11. j \in 1 .. Len(c) - 1
    BY <1>1, <1>10
  <1>12. j # 1 /\ c[j - 1].part # "newline"
    BY <1>7, <1>8, <1>9, <1>10, <1>11 DEF startsLine
  <1>13. /\ j \in 2 .. Len(c) /\ j - 1 \in 1 .. Len(c) /\ (j - 1) + 1 = j
         /\ j - 1 # Len(c)
    BY <1>1, <1>12
  <1>14. c[j - 1].part = "head"
    BY <1>2, <1>12, <1>13
  <1>15. c[(j - 1) + 1] # newline(c[j - 1].entry)
    <2>1. c[j].part = "head" /\ "head" # "newline"
      BY <1>9
    <2> QED BY <1>4, <1>13, <2>1
  <1>16. c[j - 1].entry \in torn
    BY <1>3, <1>13, <1>14, <1>15
  <1> QED BY <1>9, <1>13, <1>14, <1>16 DEF c, e

(* Two exchanges never mix their lines in an append stream, and a cut      *)
(* write spoils at most one later line (NDJSONBodyWriter.appendLine): the  *)
(* unreadable entries map one to one into the cut ones.                    *)
THEOREM DamageBounded == Spec => []DamageContained
  <1>1. Inv => DamageContained
    <2> SUFFICES ASSUME Inv, NEW p \in DOMAIN files, isStream(p)
                 PROVE  LET held == {files[p][i].entry : i \in DOMAIN files[p]}
                        IN  Cardinality((held \cap written) \ readable(files[p]))
                               <= Cardinality(held \cap torn)
      BY DEF DamageContained
    <2> DEFINE c == files[p]
               held == {c[i].entry : i \in DOMAIN c}
               S == (held \cap written) \ readable(c)
               T == held \cap torn
               R(j, e) == /\ c[j].part = "head" /\ c[j].entry = e
                          /\ c[j - 1].part = "head" /\ c[j - 1].entry \in torn
    <2>1. c \in Seq(Piece) /\ Len(c) \in Nat /\ DOMAIN c = 1 .. Len(c)
      BY LenProperties DEF Inv, TypeInv
    <2>2. \A e \in S : \E j \in 2 .. Len(c) : R(j, e)
      <3> SUFFICES ASSUME NEW e \in S PROVE \E j \in 2 .. Len(c) : R(j, e)
        OBVIOUS
      <3>1. PICK k \in 1 .. Len(c) : e = c[k].entry
        BY <2>1
      <3> QED BY <3>1, Glued
    <2>3. \A i, j \in 1 .. Len(c) :
            c[i].part = "head" /\ c[j].part = "head" /\ c[i].entry = c[j].entry => i = j
      BY DEF Inv, StreamInv, StreamOK
    <2>4. IsFiniteSet(T)
      <3> DEFINE m == [i \in 1 .. Len(c) |-> c[i].entry]
      <3>1. m \in Surjection(1 .. Len(c), held)
        BY <2>1 DEF Surjection
      <3> HIDE DEF m, c, held
      <3>2. IsFiniteSet(1 .. Len(c))
        <4>1. 1 \in Int /\ Len(c) \in Int
          BY <2>1
        <4> QED BY <4>1, FS_Interval
      <3>3. IsFiniteSet(held)
        BY <3>1, <3>2, FS_Surjection
      <3> QED BY <3>3, FS_Subset
    <2>5. \A j \in 2 .. Len(c) : j \in 1 .. Len(c) /\ j - 1 \in 1 .. Len(c)
      BY <2>1
    <2> DEFINE at == [e \in S |-> CHOOSE j \in 2 .. Len(c) : R(j, e)]
               f == [e \in S |-> c[at[e] - 1].entry]
    <2>6. \A e \in S : at[e] \in 2 .. Len(c) /\ R(at[e], e)
      BY <2>2
    <2>7. \A e \in S : c[at[e] - 1].entry \in T
      <3> SUFFICES ASSUME NEW e \in S PROVE c[at[e] - 1].entry \in T
        OBVIOUS
      <3>1. at[e] \in 2 .. Len(c) /\ c[at[e] - 1].entry \in torn
        BY <2>6
      <3> HIDE DEF at
      <3>2. at[e] - 1 \in DOMAIN c
        BY <2>1, <2>5, <3>1
      <3> HIDE DEF c
      <3> QED BY <3>1, <3>2
    <2>8. \A e1, e2 \in S : c[at[e1] - 1].entry = c[at[e2] - 1].entry => e1 = e2
      <3> SUFFICES ASSUME NEW e1 \in S, NEW e2 \in S,
                          c[at[e1] - 1].entry = c[at[e2] - 1].entry
                   PROVE  e1 = e2
        OBVIOUS
      <3>1. /\ at[e1] \in 2 .. Len(c) /\ R(at[e1], e1)
            /\ at[e2] \in 2 .. Len(c) /\ R(at[e2], e2)
        BY <2>6
      <3> HIDE DEF at, c, S
      <3>2. at[e1] - 1 = at[e2] - 1
        BY <2>3, <2>5, <3>1
      <3>3. at[e1] = at[e2]
        BY <2>1, <3>1, <3>2
      <3> QED BY <3>1, <3>3
    <2> HIDE DEF at, c, held, S, T
    <2>9. f \in Injection(S, T)
      BY <2>7, <2>8 DEF Injection, IsInjective
    <2> HIDE DEF f
    <2>10. Cardinality(S) <= Cardinality(T)
      BY <2>4, <2>9, FS_Injection
    <2> QED BY <2>10 DEF S, T, held, c
  <1> QED BY <1>1, Invariance, PTL
=============================================================================
