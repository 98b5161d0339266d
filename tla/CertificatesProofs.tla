------------------------- MODULE CertificatesProofs -------------------------
(***************************************************************************)
(* Proofs about Certificates, for every set of handshakes and hellos and   *)
(* every number of generated root CAs and leaf certificates.               *)
(***************************************************************************)
EXTENDS Certificates, TLAPS

(* What the two files hold while a start is writing them: the certificate  *)
(* file comes first, so that a missing one means that there is no key, and *)
(* the key file is not complete before the last step of a start, unless a  *)
(* failed Stat sent a start over files that were there: then the key may   *)
(* be the one of an earlier run.                                           *)
DiskInv ==
    /\ certFile = Missing => keyFile = Missing
    /\ phase = "create cert" => certFile = Missing \/ stat = "error"
    /\ phase = "write cert" => certFile = Partial /\ (keyFile = Missing \/ stat = "error")
    /\ phase = "create key" => certFile = ca /\ (keyFile = Missing \/ stat = "error")
    /\ phase = "write key" => certFile = ca /\ keyFile = Partial
    /\ phase \in {"loaded", "serving"} => certFile = ca /\ keyFile = ca

(* The CA in memory, its copy for the download, and the cache live with    *)
(* the process.                                                            *)
ProcessInv ==
    /\ phase \in Writing \cup {"loaded", "serving"} => ca \in Gens
    /\ phase # "serving" => /\ caPEM = Nil
                            /\ certs = noCerts
                            /\ \A t \in Handshakes : at[t] = "idle"
    /\ caPEM # Nil => caPEM = ca

(* What the cache holds for a host was made for it, by the CA in use, and  *)
(* a handshake holds nothing but what the cache has for its host.          *)
CacheInv ==
    /\ \A h \in Hosts : certs[h] # Nil => certs[h].host = h /\ certs[h].ca = ca
    /\ \A t \in Handshakes :
         /\ at[t] # "idle" => host[t] \in Hosts
         /\ at[t] # "done" => got[t] = Nil
         /\ got[t] # Nil => got[t] = certs[host[t]]

Inv == TypeOK /\ DiskInv /\ ProcessInv /\ CacheInv

-----------------------------------------------------------------------------
LEMMA GensTyped ==
  /\ Gens \subseteq Int
  /\ Nil \notin Gens
  /\ Missing \notin Gens /\ Partial \notin Gens /\ Missing # Partial
  BY CertificatesAssumption DEF Gens, Missing, Partial

LEMMA HostTyped == ASSUME NEW hello \in Hellos PROVE hostForHello(hello) \in Hosts
  BY DEF Hosts

LEMMA NoCertsTyped == /\ noCerts \in [Hosts -> Leaf \cup {Nil}]
                      /\ \A h \in Hosts : noCerts[h] = Nil
  BY DEF noCerts

LEMMA InitInv == Init => Inv
  <1> SUFFICES ASSUME Init PROVE Inv
    OBVIOUS
  <1>1. TypeOK
    BY NoCertsTyped, CertificatesAssumption DEF Init, TypeOK, Files
  <1>2. DiskInv /\ ProcessInv
    BY GensTyped DEF Init, DiskInv, ProcessInv, Writing
  <1>3. CacheInv
    BY NoCertsTyped DEF Init, CacheInv
  <1> QED BY <1>1, <1>2, <1>3 DEF Inv

(* The steps of a start, up to the moment the server has its CA, leave the *)
(* empty cache alone.                                                      *)
LEMMA StartStep ==
  ASSUME Inv,
         \/ Start \/ Load \/ ReadFails \/ CreateCert \/ WriteCert \/ CreateKey \/ WriteKey
         \/ WriteFails \/ readCAPEM
  PROVE  Inv'
  <1> USE GensTyped
  <1>1. UNCHANGED cacheVars
    BY DEF Start, Load, ReadFails, CreateCert, WriteCert, CreateKey, WriteKey, WriteFails,
           readCAPEM
  <1>2. phase # "serving"
    BY DEF Start, Load, ReadFails, CreateCert, WriteCert, CreateKey, WriteKey, WriteFails,
           readCAPEM, Writing
  <1>3. caPEM = Nil /\ certs = noCerts /\ \A t \in Handshakes : at[t] = "idle"
    BY <1>2 DEF Inv, ProcessInv
  <1>4. CacheInv'
    BY <1>1, <1>3, NoCertsTyped DEF cacheVars, Inv, CacheInv
  <1>5. CASE Start
    <2>1. \/ certFile # Missing /\ phase' = "load" /\ UNCHANGED <<ca, gens>>
          \/ /\ stat' = IF certFile = Missing THEN "absent" ELSE "error"
             /\ phase' = "create cert" /\ GenerateCA
      BY <1>5 DEF Start
    <2>2. /\ gens' \in 0 .. MaxGens /\ ca' \in Gens \cup {Nil}
          /\ phase' = "create cert" => /\ ca' \in Gens
                                       /\ certFile = Missing \/ stat' = "error"
      <3>1. ca \in Gens \cup {Nil} /\ gens \in 0 .. MaxGens /\ MaxGens \in Nat
        BY CertificatesAssumption DEF Inv, TypeOK
      <3>2. CASE GenerateCA /\ stat' = IF certFile = Missing THEN "absent" ELSE "error"
        <4>1. gens + 1 \in 1 .. MaxGens
          BY <3>1, <3>2 DEF GenerateCA
        <4>2. gens + 1 \in 0 .. MaxGens
          BY <3>1, <4>1
        <4>3. gens + 1 \in Gens
          BY <4>1 DEF Gens
        <4> QED BY <3>2, <4>2, <4>3 DEF GenerateCA
      <3> QED BY <2>1, <3>1, <3>2
    <2>3. /\ phase' \in {"load", "create cert"} /\ failed' = "no"
          /\ stat' \in {"absent", "found", "error"}
          /\ UNCHANGED <<certFile, keyFile, caPEM>>
      BY <1>5 DEF Start, diskVars
    <2>4. TypeOK'
      BY <1>1, <2>2, <2>3 DEF Inv, TypeOK, cacheVars, Writing
    <2>5. DiskInv' /\ ProcessInv'
      BY <1>1, <1>3, <2>2, <2>3 DEF Inv, DiskInv, ProcessInv, cacheVars, Writing
    <2> QED BY <1>4, <2>4, <2>5 DEF Inv
  <1>6. CASE Load \/ ReadFails
    <2>1. /\ ca' \in Gens \cup {Nil} /\ phase' \in {"loaded", "off"}
          /\ failed' \in {"no", "load", "read", "write"}
          /\ phase' = "loaded" => ca' \in Gens /\ certFile = ca' /\ keyFile = ca'
          /\ UNCHANGED <<certFile, keyFile, stat, caPEM, gens>>
      BY <1>6 DEF Load, ReadFails, Inv, TypeOK, diskVars
    <2>2. TypeOK'
      BY <1>1, <2>1 DEF Inv, TypeOK, cacheVars
    <2>3. DiskInv' /\ ProcessInv'
      BY <1>1, <1>3, <2>1 DEF Inv, DiskInv, ProcessInv, cacheVars, Writing
    <2> QED BY <1>4, <2>2, <2>3 DEF Inv
  <1>7. CASE CreateCert \/ WriteCert \/ CreateKey \/ WriteKey
    <2>1. ca \in Gens /\ UNCHANGED <<ca, stat, failed, caPEM, gens>>
      BY <1>7 DEF CreateCert, WriteCert, CreateKey, WriteKey, Inv, ProcessInv, Writing
    <2>2. TypeOK'
      BY <1>1, <1>7, <2>1 DEF CreateCert, WriteCert, CreateKey, WriteKey,
                              Inv, TypeOK, cacheVars, Files, Writing
    <2>3. DiskInv'
      <3>1. CASE CreateCert
        BY <2>1, <3>1 DEF CreateCert, Inv, DiskInv
      <3>2. CASE WriteCert
        BY <2>1, <3>2 DEF WriteCert, Inv, DiskInv
      <3>3. CASE CreateKey
        BY <2>1, <3>3 DEF CreateKey, Inv, DiskInv
      <3>4. CASE WriteKey
        BY <2>1, <3>4 DEF WriteKey, Inv, DiskInv
      <3> QED BY <1>7, <3>1, <3>2, <3>3, <3>4
    <2>4. phase' # "serving"
      BY <1>7 DEF CreateCert, WriteCert, CreateKey, WriteKey
    <2>5. ProcessInv'
      BY <1>1, <1>3, <2>1, <2>4 DEF ProcessInv, cacheVars
    <2> QED BY <1>4, <2>2, <2>3, <2>5 DEF Inv
  <1>8. CASE WriteFails
    <2>1. /\ phase' = "off" /\ ca' = Nil /\ failed' = "write"
          /\ UNCHANGED <<certFile, keyFile, stat, caPEM, gens>>
      BY <1>8 DEF WriteFails, diskVars
    <2>2. TypeOK'
      BY <1>1, <2>1 DEF Inv, TypeOK, cacheVars
    <2>3. DiskInv' /\ ProcessInv'
      BY <1>1, <1>3, <2>1 DEF Inv, DiskInv, ProcessInv, cacheVars, Writing
    <2> QED BY <1>4, <2>2, <2>3 DEF Inv
  <1>9. CASE readCAPEM
    <2>1. /\ phase = "loaded" /\ phase' = "serving"
          /\ caPEM' \in {Nil, certFile}
          /\ UNCHANGED <<certFile, keyFile, ca, stat, failed, gens>>
      BY <1>9 DEF readCAPEM, diskVars
    <2>2. ca \in Gens /\ certFile = ca /\ keyFile = ca
      BY <2>1 DEF Inv, DiskInv, ProcessInv
    <2>3. TypeOK'
      BY <1>1, <2>1 DEF Inv, TypeOK, cacheVars
    <2>4. DiskInv' /\ ProcessInv'
      BY <1>1, <2>1, <2>2 DEF Inv, DiskInv, ProcessInv, cacheVars
    <2> QED BY <1>4, <2>3, <2>4 DEF Inv
  <1> QED BY <1>5, <1>6, <1>7, <1>8, <1>9

LEMMA StopStep ==
  ASSUME Inv, Stop
  PROVE  Inv'
  <1>1. TypeOK'
    BY NoCertsTyped DEF Stop, Inv, TypeOK, diskVars
  <1>2. DiskInv'
    BY DEF Stop, Inv, DiskInv, diskVars
  <1>3. ProcessInv'
    BY DEF Stop, ProcessInv, Writing
  <1>4. CacheInv'
    BY NoCertsTyped DEF Stop, CacheInv
  <1> QED BY <1>1, <1>2, <1>3, <1>4 DEF Inv

(* A handshake only happens while the process serves, and changes neither  *)
(* the files nor the CA.                                                   *)
LEMMA HandshakeStep ==
  ASSUME Inv, NEW t \in Handshakes,
         \/ \E hello \in Hellos : Lookup(t, hello)
         \/ certOrGenerate(t) \/ GenerateFails(t) \/ HandshakeDone(t)
  PROVE  Inv'
  <1>1. UNCHANGED <<certFile, keyFile, phase, ca, stat, failed, caPEM, gens>>
    BY DEF Lookup, certOrGenerate, GenerateFails, HandshakeDone, diskVars, caVars
  <1>2. phase = "serving"
    BY DEF Lookup, certOrGenerate, GenerateFails, HandshakeDone, Inv, ProcessInv
  <1>3. DiskInv' /\ ProcessInv'
    BY <1>1, <1>2 DEF Inv, DiskInv, ProcessInv
  <1>4. ASSUME NEW hello \in Hellos, Lookup(t, hello)
        PROVE  TypeOK' /\ CacheInv'
    <2> DEFINE h == hostForHello(hello)
    <2>1. h \in Hosts
      BY HostTyped
    <2> HIDE DEF h
    <2>2. /\ host' = [host EXCEPT ![t] = h] /\ UNCHANGED <<certs, leaves>>
          /\ at[t] = "idle"
          /\ \/ /\ certs[h] # Nil
                /\ at' = [at EXCEPT ![t] = "done"]
                /\ got' = [got EXCEPT ![t] = certs[h]]
             \/ /\ at' = [at EXCEPT ![t] = "miss"]
                /\ UNCHANGED got
      BY <1>4 DEF Lookup, finish, h
    <2>3. TypeOK'
      BY <1>1, <2>1, <2>2 DEF Inv, TypeOK
    <2>4. CacheInv'
      BY <1>1, <2>1, <2>2 DEF Inv, TypeOK, CacheInv
    <2> QED BY <2>3, <2>4
  <1>5. ASSUME certOrGenerate(t) PROVE TypeOK' /\ CacheInv'
    <2>1. at[t] = "miss" /\ host[t] \in Hosts /\ UNCHANGED host
      BY <1>5 DEF certOrGenerate, Inv, CacheInv
    <2>2. CASE certs[host[t]] # Nil
      <3>1. /\ at' = [at EXCEPT ![t] = "done"]
            /\ got' = [got EXCEPT ![t] = certs[host[t]]]
            /\ UNCHANGED <<certs, leaves>>
        BY <1>5, <2>2 DEF certOrGenerate, finish
      <3> QED BY <1>1, <2>1, <3>1 DEF Inv, TypeOK, CacheInv
    <2>3. CASE certs[host[t]] = Nil
      <3> DEFINE leaf == newLeaf(host[t])
      <3>1. leaf \in Leaf /\ leaf.host = host[t] /\ leaf.ca = ca
        <4>1. leaves + 1 \in 1 .. MaxLeaves
          BY <1>5, <2>3, CertificatesAssumption DEF certOrGenerate, Inv, TypeOK
        <4>2. ca \in Gens
          BY <1>2 DEF Inv, ProcessInv
        <4> QED BY <2>1, <4>1, <4>2 DEF newLeaf, Leaf
      <3>2. leaves' \in 0 .. MaxLeaves
        BY <1>5, <2>3, CertificatesAssumption DEF certOrGenerate, Inv, TypeOK
      <3>3. /\ at' = [at EXCEPT ![t] = "done"]
            /\ got' = [got EXCEPT ![t] = leaf]
            /\ certs' = [certs EXCEPT ![host[t]] = leaf]
        BY <1>5, <2>3 DEF certOrGenerate, finish
      <3> HIDE DEF leaf
      <3>4. TypeOK'
        BY <1>1, <2>1, <3>1, <3>2, <3>3 DEF Inv, TypeOK
      <3>5. \A u \in Handshakes : got[u] # Nil => host[u] # host[t]
        BY <2>3 DEF Inv, CacheInv
      <3>6. CacheInv'
        BY <1>1, <2>1, <3>1, <3>3, <3>5 DEF Inv, TypeOK, CacheInv
      <3> QED BY <3>4, <3>6
    <2> QED BY <2>2, <2>3
  <1>6. ASSUME GenerateFails(t) PROVE TypeOK' /\ CacheInv'
    BY <1>1, <1>6 DEF GenerateFails, finish, Inv, TypeOK, CacheInv
  <1>7. ASSUME HandshakeDone(t) PROVE TypeOK' /\ CacheInv'
    BY <1>1, <1>7 DEF HandshakeDone, Inv, TypeOK, CacheInv
  <1> QED BY <1>3, <1>4, <1>5, <1>6, <1>7 DEF Inv

LEMMA NextInv == Inv /\ [Next]_vars => Inv'
  <1> SUFFICES ASSUME Inv, [Next]_vars PROVE Inv'
    OBVIOUS
  <1>1. CASE UNCHANGED vars
    <2> USE <1>1 DEF vars, Inv
    <2>1. TypeOK'
      BY DEF TypeOK
    <2>2. DiskInv'
      BY DEF DiskInv
    <2>3. ProcessInv'
      BY DEF ProcessInv
    <2>4. CacheInv'
      BY DEF CacheInv
    <2> QED BY <2>1, <2>2, <2>3, <2>4
  <1> QED BY <1>1, StartStep, StopStep, HandshakeStep DEF Next

-----------------------------------------------------------------------------
(* Every reachable state of the certificate code is well typed: the CA in  *)
(* memory is never what an interrupted write left in a file.               *)
THEOREM TypeCorrect == Spec => []TypeOK
  <1>1. Inv => TypeOK
    BY DEF Inv
  <1> QED BY <1>1, InitInv, NextInv, PTL DEF Spec

(* Whatever crashed or failed before, a serving process signs with the     *)
(* pair that is on disk (mitm_ca_store.go:16-30).                          *)
THEOREM PersistedCAServed == Spec => []ServesPersistedCA
  <1>1. Inv => ServesPersistedCA
    BY DEF Inv, DiskInv, ProcessInv, ServesPersistedCA
  <1> QED BY <1>1, InitInv, NextInv, PTL DEF Spec

(* The certificate users download signs every certificate the proxy        *)
(* presents, however often the process was interrupted.                    *)
THEOREM DownloadSigns == Spec => []DownloadedCASigns
  <1>1. Inv => DownloadedCASigns
    <2> SUFFICES ASSUME Inv, caPEM # Nil
                 PROVE  /\ caPEM = ca
                        /\ \A t \in Handshakes : got[t] # Nil => got[t].ca = caPEM
      BY DEF DownloadedCASigns
    <2>1. caPEM = ca
      BY DEF Inv, ProcessInv
    <2>2. ASSUME NEW t \in Handshakes, got[t] # Nil PROVE got[t].ca = ca
      BY <2>2 DEF Inv, CacheInv, TypeOK
    <2> QED BY <2>1, <2>2
  <1> QED BY <1>1, InitInv, NextInv, PTL DEF Spec

(* However handshakes interleave, those that hold a certificate for a host *)
(* hold the cached one, signed by the CA on disk (mitm_cert_cache.go:38).  *)
THEOREM OneCertificatePerHost == Spec => []OneCertPerHost
  <1>1. Inv => OneCertPerHost
    <2> SUFFICES ASSUME Inv, NEW t \in Handshakes, got[t] # Nil
                 PROVE  /\ got[t] = certs[host[t]]
                        /\ got[t].host = host[t]
                        /\ got[t].ca = certFile
      BY DEF OneCertPerHost
    <2>1. at[t] = "done"
      BY DEF Inv, CacheInv
    <2>2. host[t] \in Hosts /\ got[t] = certs[host[t]]
      BY <2>1 DEF Inv, CacheInv
    <2>3. phase = "serving"
      BY <2>1 DEF Inv, ProcessInv
    <2> QED BY <2>2, <2>3 DEF Inv, CacheInv, DiskInv
  <1> QED BY <1>1, InitInv, NextInv, PTL DEF Spec

(* No crash, failed read or failed write, in any sequence of runs, makes a *)
(* later start change a complete pair of CA files; only a start whose Stat *)
(* failed on a certificate file that is there does (mitm_ca_store.go:18).  *)
THEOREM PairNeverReplaced == Spec => PersistedCAKept
  <1>1. Inv /\ [Next]_vars =>
          [(certFile \in Gens /\ keyFile = certFile /\ stat # "error")
             => (UNCHANGED diskVars)]_vars
    <2> SUFFICES ASSUME Inv, Next, certFile \in Gens, keyFile = certFile, stat # "error"
                 PROVE  UNCHANGED diskVars
      BY DEF vars
    <2>1. phase \notin Writing
      BY GensTyped DEF Inv, DiskInv, Writing
    <2> QED BY <2>1 DEF Next, Start, Load, ReadFails, CreateCert, WriteCert, CreateKey,
                        WriteKey, WriteFails, readCAPEM, Stop, Lookup, certOrGenerate,
                        GenerateFails, HandshakeDone, Writing
  <1> QED BY <1>1, InitInv, NextInv, PTL DEF Spec, PersistedCAKept
=============================================================================
