--------------------------- MODULE MCCertificates ---------------------------
(* TLC instances of Certificates.                                          *)
EXTENDS Certificates, TLC

(* A ClientHello with a server name, one without, and one on no connection *)
(* at all (GetCertForHost with an empty host).                             *)
MCHellos ==
    {[sni |-> "a.example", local |-> "addr"],
     [sni |-> Nil, local |-> "addr"],
     [sni |-> Nil, local |-> Nil]}

MCOneHello == {[sni |-> "a.example", local |-> "addr"]}

Symmetric == Permutations(Handshakes)
=============================================================================
