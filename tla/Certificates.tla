---------------------------- MODULE Certificates ----------------------------
(***************************************************************************)
(* The MITM certificates of goper: the root CA and its two files on disk   *)
(* (internal/proxy/mitm_ca_store.go, mitm.go) and the in-memory cache of   *)
(* per-host leaf certificates (internal/proxy/mitm_cert_cache.go), with    *)
(* the copy of the CA certificate that users download from the API.        *)
(*                                                                         *)
(* The files survive the process; the CA in use and the cache do not.  A   *)
(* file is written in two steps, create (which truncates) and write, and   *)
(* the process can be killed or the write can fail in between.  TLS        *)
(* handshakes look a host up under the read lock and, on a miss, again     *)
(* under the write lock.  A key or certificate is the number of the        *)
(* generation it was made in.                                              *)
(***************************************************************************)
EXTENDS Integers

CONSTANTS
    Handshakes,    \* concurrent TLS handshakes
    Hellos,        \* ClientHellos: records with fields sni and local
    Localhost,     \* the last-resort host name
    MaxGens,       \* bound: root CAs generated
    MaxLeaves,     \* bound: leaf certificates generated
    Nil            \* no value

(* A file is missing, created but not fully written, or complete.          *)
Missing == 0
Partial == -1
Gens == 1 .. MaxGens
Files == {Missing, Partial} \cup Gens

(* hostForHello: the SNI, else the local address, else localhost.          *)
hostForHello(hello) ==
    IF hello.sni # Nil THEN hello.sni
    ELSE IF hello.local # Nil THEN hello.local
    ELSE Localhost

Hosts == {hostForHello(hello) : hello \in Hellos}
Leaf == [host : Hosts, ca : Gens, serial : 1 .. MaxLeaves]

ASSUME CertificatesAssumption ==
    /\ MaxGens \in Nat
    /\ MaxLeaves \in Nat
    /\ Nil \notin Int
    /\ Nil \notin Leaf

VARIABLES
    certFile,  \* ca-cert.pem
    keyFile,   \* ca-key.pem
    phase,     \* where run is in NewServer and readCAPEM, or "serving";
               \* "off" when there is no process
    ca,        \* the CA in memory: generated, or loaded
    stat,      \* what this start's Stat said of ca-cert.pem; "error" when it
               \* failed although the file is there
    failed,    \* the last start ended with an error of LoadOrCreateCA
    caPEM,     \* Handler.caPEM: the certificate /api/ca.pem hands out
    gens,      \* root CAs generated so far
    certs,     \* CertCache.certs
    at,        \* per handshake: where it is
    host,      \* per handshake: the host it wants a certificate for
    got,       \* per handshake: the certificate it was given
    leaves     \* leaf certificates generated so far

diskVars == <<certFile, keyFile>>
caVars == <<phase, ca, stat, failed, caPEM, gens>>
cacheVars == <<certs, at, host, got, leaves>>
vars == <<certFile, keyFile, phase, ca, stat, failed, caPEM, gens, certs, at,
          host, got, leaves>>

noCerts == [h \in Hosts |-> Nil]

Init ==
    /\ certFile = Missing /\ keyFile = Missing
    /\ phase = "off" /\ ca = Nil /\ stat = "absent" /\ failed = "no"
    /\ caPEM = Nil /\ gens = 0
    /\ certs = noCerts
    /\ at = [t \in Handshakes |-> "idle"]
    /\ host = [t \in Handshakes |-> Nil]
    /\ got = [t \in Handshakes |-> Nil]
    /\ leaves = 0

-----------------------------------------------------------------------------
(* LoadOrCreateCA                                                          *)

(* GenerateCA: a fresh key and self-signed certificate, in memory only.    *)
GenerateCA ==
    /\ gens < MaxGens
    /\ gens' = gens + 1
    /\ ca' = gens + 1

(* Broken variant: a new CA is made at every start.                        *)
Start_AlwaysCreates ==
    /\ phase = "off"
    /\ GenerateCA
    /\ phase' = "create cert"
    /\ stat' = "absent"
    /\ failed' = "no"
    /\ UNCHANGED <<diskVars, caPEM, cacheVars>>

(* The Stat of the certificate file decides: if it succeeds the pair is    *)
(* loaded, and any error of it, not only that there is no such file, makes *)
(* a new CA.                                                               *)
Start ==
    /\ phase = "off"
    /\ failed' = "no"
    /\ \/ /\ certFile # Missing
          /\ phase' = "load"
          /\ stat' = "found"
          /\ UNCHANGED <<ca, gens>>
       \/ /\ stat' = IF certFile = Missing THEN "absent" ELSE "error"
          /\ GenerateCA
          /\ phase' = "create cert"
    /\ UNCHANGED <<diskVars, caPEM, cacheVars>>

(* Broken variant: the certificate file is taken without its key.          *)
Load_TrustsCertOnly ==
    /\ phase = "load"
    /\ ca' = certFile
    /\ phase' = "loaded"
    /\ UNCHANGED <<diskVars, stat, failed, caPEM, gens, cacheVars>>

(* loadCA: both files must be readable and X509KeyPair must accept them.   *)
Load ==
    /\ phase = "load"
    /\ IF certFile \in Gens /\ keyFile = certFile
       THEN ca' = certFile /\ phase' = "loaded" /\ UNCHANGED failed
       ELSE ca' = Nil /\ phase' = "off" /\ failed' = "load"
    /\ UNCHANGED <<diskVars, stat, caPEM, gens, cacheVars>>

(* readCAPairFiles: reading one of the files fails, whatever it holds.     *)
ReadFails ==
    /\ phase = "load"
    /\ phase' = "off"
    /\ failed' = "read"
    /\ UNCHANGED <<diskVars, ca, stat, caPEM, gens, cacheVars>>

(* writeCAFiles: the certificate, then the key; WriteFile truncates a file *)
(* that is already there.                                                  *)
CreateCert ==
    /\ phase = "create cert"
    /\ certFile' = Partial
    /\ phase' = "write cert"
    /\ UNCHANGED <<keyFile, ca, stat, failed, caPEM, gens, cacheVars>>

WriteCert ==
    /\ phase = "write cert"
    /\ certFile' = ca
    /\ phase' = "create key"
    /\ UNCHANGED <<keyFile, ca, stat, failed, caPEM, gens, cacheVars>>

CreateKey ==
    /\ phase = "create key"
    /\ keyFile' = Partial
    /\ phase' = "write key"
    /\ UNCHANGED <<certFile, ca, stat, failed, caPEM, gens, cacheVars>>

WriteKey ==
    /\ phase = "write key"
    /\ keyFile' = ca
    /\ phase' = "loaded"
    /\ UNCHANGED <<certFile, ca, stat, failed, caPEM, gens, cacheVars>>

Writing == {"create cert", "write cert", "create key", "write key"}

(* Broken variant: a CA that could not be saved is used all the same.      *)
WriteFails_Ignored ==
    /\ phase \in Writing
    /\ phase' = "loaded"
    /\ UNCHANGED <<diskVars, ca, stat, failed, caPEM, gens, cacheVars>>

(* Creating or writing a file fails: the start fails, and what has been    *)
(* written stays.                                                          *)
WriteFails ==
    /\ phase \in Writing
    /\ phase' = "off"
    /\ ca' = Nil
    /\ failed' = "write"
    /\ UNCHANGED <<diskVars, stat, caPEM, gens, cacheVars>>

(* The server has its CA.  run reads the certificate file once more, for   *)
(* the download; a file that cannot be read leaves the download a 404.     *)
readCAPEM ==
    /\ phase = "loaded"
    /\ caPEM' \in {Nil} \cup ({certFile} \ {Missing})
    /\ phase' = "serving"
    /\ UNCHANGED <<diskVars, ca, stat, failed, gens, cacheVars>>

(* The process ends, by a signal or a crash, whatever it was doing.        *)
Stop ==
    /\ phase # "off"
    /\ phase' = "off"
    /\ ca' = Nil
    /\ caPEM' = Nil
    /\ certs' = noCerts
    /\ at' = [t \in Handshakes |-> "idle"]
    /\ host' = [t \in Handshakes |-> Nil]
    /\ got' = [t \in Handshakes |-> Nil]
    /\ UNCHANGED <<diskVars, stat, failed, gens, leaves>>

-----------------------------------------------------------------------------
(* CertCache                                                               *)

finish(t, cert) ==
    /\ at' = [at EXCEPT ![t] = "done"]
    /\ got' = [got EXCEPT ![t] = cert]

(* GetCertificate up to RUnlock: a hit is returned.                        *)
Lookup(t, hello) ==
    /\ phase = "serving"
    /\ at[t] = "idle"
    /\ LET h == hostForHello(hello)
       IN  /\ host' = [host EXCEPT ![t] = h]
           /\ IF certs[h] # Nil
              THEN finish(t, certs[h])
              ELSE at' = [at EXCEPT ![t] = "miss"] /\ UNCHANGED got
    /\ UNCHANGED <<diskVars, caVars, certs, leaves>>

newLeaf(h) == [host |-> h, ca |-> ca, serial |-> leaves + 1]

(* Broken variant: no second look under the write lock.                    *)
certOrGenerate_NoRecheck(t) ==
    /\ at[t] = "miss"
    /\ leaves < MaxLeaves
    /\ leaves' = leaves + 1
    /\ certs' = [certs EXCEPT ![host[t]] = newLeaf(host[t])]
    /\ finish(t, newLeaf(host[t]))
    /\ UNCHANGED <<diskVars, caVars, host>>

(* The write-locked half of GetCertificate: someone else may have filled   *)
(* the cache in the meantime.                                              *)
certOrGenerate(t) ==
    /\ at[t] = "miss"
    /\ \/ /\ certs[host[t]] # Nil
          /\ finish(t, certs[host[t]])
          /\ UNCHANGED <<certs, leaves>>
       \/ /\ certs[host[t]] = Nil
          /\ leaves < MaxLeaves
          /\ leaves' = leaves + 1
          /\ certs' = [certs EXCEPT ![host[t]] = newLeaf(host[t])]
          /\ finish(t, newLeaf(host[t]))
    /\ UNCHANGED <<diskVars, caVars, host>>

(* Generating the key or signing fails: an error, and nothing is cached.   *)
GenerateFails(t) ==
    /\ at[t] = "miss"
    /\ certs[host[t]] = Nil
    /\ finish(t, Nil)
    /\ UNCHANGED <<diskVars, caVars, certs, host, leaves>>

(* The handshake is over; the goroutine is free for another connection.    *)
HandshakeDone(t) ==
    /\ at[t] = "done"
    /\ at' = [at EXCEPT ![t] = "idle"]
    /\ host' = [host EXCEPT ![t] = Nil]
    /\ got' = [got EXCEPT ![t] = Nil]
    /\ UNCHANGED <<diskVars, caVars, certs, leaves>>

Next ==
    \/ Start \/ Load \/ ReadFails
    \/ CreateCert \/ WriteCert \/ CreateKey \/ WriteKey \/ WriteFails
    \/ readCAPEM
    \/ Stop
    \/ \E t \in Handshakes :
         \/ \E hello \in Hellos : Lookup(t, hello)
         \/ certOrGenerate(t) \/ GenerateFails(t) \/ HandshakeDone(t)

Spec == Init /\ [][Next]_vars

-----------------------------------------------------------------------------
(* Every variable has its type: in particular the CA in memory is one that *)
(* was generated, never what an interrupted write left in a file.          *)
TypeOK ==
    /\ certFile \in Files /\ keyFile \in Files
    /\ phase \in {"off", "load", "loaded", "serving"} \cup Writing
    /\ ca \in Gens \cup {Nil}
    /\ stat \in {"absent", "found", "error"}
    /\ failed \in {"no", "load", "read", "write"}
    /\ caPEM \in Files \cup {Nil}
    /\ gens \in 0 .. MaxGens
    /\ certs \in [Hosts -> Leaf \cup {Nil}]
    /\ at \in [Handshakes -> {"idle", "miss", "done"}]
    /\ host \in [Handshakes -> Hosts \cup {Nil}]
    /\ got \in [Handshakes -> Leaf \cup {Nil}]
    /\ leaves \in 0 .. MaxLeaves

(* A serving process uses the CA that is complete on disk: a restart finds *)
(* the same pair, whatever crashed or failed before.                       *)
ServesPersistedCA ==
    phase = "serving" => ca \in Gens /\ certFile = ca /\ keyFile = ca

(* The certificate a user downloads and installs signs every certificate   *)
(* the proxy presents, although the file is read again after the CA was    *)
(* loaded or written ("download CA cert", main.go:89).                     *)
DownloadedCASigns ==
    caPEM # Nil => /\ caPEM = ca
                   /\ \A t \in Handshakes : got[t] # Nil => got[t].ca = caPEM

(* Once both files are complete, only a start whose Stat failed on them    *)
(* writes them again: no crash, failed read or write, or sequence of       *)
(* starts silently invalidates the trust users installed ("goper reloads   *)
(* persisted CA -> same CA used", PLAN.md:269).  LoadOrCreateCA does       *)
(* replace the pair when Stat fails for another reason than a missing file *)
(* (mitm_ca_store.go:18), so that case is excepted.                        *)
PersistedCAKept ==
    [][(certFile \in Gens /\ keyFile = certFile /\ stat # "error")
         => (UNCHANGED diskVars)]_vars

(* All handshakes that hold a certificate for a host hold the same one, it *)
(* is the cached one, and the CA on disk signed it: two handshakes that    *)
(* miss together do not generate two certificates.                         *)
OneCertPerHost ==
    \A t \in Handshakes :
        got[t] # Nil => /\ got[t] = certs[host[t]]
                        /\ got[t].host = host[t]
                        /\ got[t].ca = certFile

(* A CA left by an earlier run can be loaded: "persisted to disk and       *)
(* reloaded on restart" (FEATURES.md:13).  No start ends because the files *)
(* an interrupted start left do not form a pair.                           *)
RestartLoads == failed # "load"
=============================================================================
