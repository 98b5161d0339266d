--------------------------- MODULE LifecycleProofs --------------------------
(***************************************************************************)
(* Proofs about Lifecycle, for every list of redirected ports, any set of  *)
(* proxy ports and any number of runs and of failing commands.             *)
(***************************************************************************)
EXTENDS Lifecycle, SequenceTheorems, FiniteSetTheorems, WellFoundedInduction, TLAPS

(* A run has installed what its Setup loop has passed, and keeps it while  *)
(* it serves.                                                              *)
SetupInv ==
    /\ phase = "setup" =>
         transparent /\ \A i \in 1 .. next - 1 : Contains(chain, rules(port)[i])
    /\ phase \in {"starting", "serving"} /\ transparent =>
         \A i \in 1 .. Len(rules(port)) : Contains(chain, rules(port)[i])

(* The rules of its list that a teardown has passed.                       *)
Passed == IF phase = "teardown" THEN {rules(port)[i] : i \in 1 .. next - 1} ELSE {}

(* The rules in the chain that no teardown has passed.                     *)
Kept == {r \in AllRules : Contains(chain, r) /\ r \notin Passed}

(* Only a failed command makes a second copy of a rule, or leaves behind a *)
(* rule that a teardown has passed.  The rules of all ports are counted    *)
(* together: runs with different ports share the owner match.              *)
CountInv == Len(chain) <= faults + Cardinality(Kept)

(* While every teardown has emptied the chain, it is empty or starts with  *)
(* the owner match; only a teardown under way removes that one first.      *)
OrderInv == ~partial /\ phase # "teardown" => chain = << >> \/ chain[1] = Owner

Inv == TypeOK /\ SetupInv /\ CountInv /\ OrderInv

-----------------------------------------------------------------------------
(* The smallest element of a set of positions.                             *)
LEMMA MinExists ==
  ASSUME NEW S, S \subseteq Nat, S # {}
  PROVE  Min(S) \in S /\ \A y \in S : Min(S) <= y
  <1>1. PICK x \in S : \A y \in S : ~(<<y, x>> \in OpToRel(<, Nat))
    BY NatLessThanWellFounded, WFMin
  <1>2. \A y \in S : ~(y < x)
    BY <1>1 DEF OpToRel
  <1>3. \A y \in S : x <= y
    BY <1>2
  <1> QED BY <1>3 DEF Min

LEMMA RuleFields ==
  ASSUME NEW d, NEW p
  PROVE  /\ Owner.match = "owner"
         /\ Redirect(d, p).match = "dport"
         /\ Redirect(d, p).dport = d
         /\ Redirect(d, p).to = p
         /\ Redirect(d, p) # Owner
  <1>1. Owner.match = "owner" /\ Redirect(d, p).match = "dport"
    BY DEF Owner, Redirect
  <1> QED BY <1>1 DEF Redirect

(* The list NewManager builds: the owner match, then one redirect for each *)
(* port, all of them different.                                            *)
LEMMA RulesListed ==
  ASSUME NEW p
  PROVE  /\ Len(WebPorts) \in Nat
         /\ Len(rules(p)) = Len(WebPorts) + 1
         /\ rules(p)[1] = Owner
         /\ \A i \in 1 .. Len(WebPorts) : rules(p)[i + 1] = Redirect(WebPorts[i], p)
         /\ \A i, j \in 1 .. Len(WebPorts) + 1 : i # j => rules(p)[i] # rules(p)[j]
         /\ p \in Ports => \A i \in 1 .. Len(WebPorts) + 1 : rules(p)[i] \in AllRules
  <1> DEFINE n == Len(WebPorts)
             R == {Owner} \cup {Redirect(WebPorts[i], p) : i \in 1 .. n}
             t == [i \in 1 .. n |-> Redirect(WebPorts[i], p)]
  <1>1. n \in Nat /\ DOMAIN WebPorts = 1 .. n
    BY LifecycleAssumption, LenProperties
  <1>2. t \in Seq(R) /\ Len(t) = n
    BY <1>1
  <1>3. <<Owner>> \in Seq(R) /\ Len(<<Owner>>) = 1 /\ <<Owner>>[1] = Owner
    OBVIOUS
  <1> HIDE DEF R
  <1>4. /\ Len(rules(p)) = 1 + n
        /\ \A i \in 1 .. 1 + n : rules(p)[i] = IF i <= 1 THEN <<Owner>>[i] ELSE t[i - 1]
    BY <1>2, <1>3, ConcatProperties DEF rules
  <1> HIDE DEF t
  <1>5. Len(rules(p)) = n + 1 /\ 1 \in 1 .. 1 + n
    BY <1>1, <1>4
  <1>6. rules(p)[1] = Owner
    <2>1. rules(p)[1] = <<Owner>>[1]
      BY <1>4, <1>5
    <2> QED BY <1>3, <2>1
  <1>7. \A i \in 1 .. n : rules(p)[i + 1] = Redirect(WebPorts[i], p)
    <2> SUFFICES ASSUME NEW i \in 1 .. n PROVE rules(p)[i + 1] = Redirect(WebPorts[i], p)
      OBVIOUS
    <2>1. i + 1 \in 1 .. 1 + n /\ ~(i + 1 <= 1) /\ (i + 1) - 1 = i
      BY <1>1
    <2>2. rules(p)[i + 1] = t[i]
      BY <1>4, <2>1
    <2> QED BY <2>2 DEF t
  <1>8. \A i \in 2 .. n + 1 : /\ i - 1 \in 1 .. n
                              /\ rules(p)[i] = Redirect(WebPorts[i - 1], p)
    <2> SUFFICES ASSUME NEW i \in 2 .. n + 1
                 PROVE  i - 1 \in 1 .. n /\ rules(p)[i] = Redirect(WebPorts[i - 1], p)
      OBVIOUS
    <2>1. i - 1 \in 1 .. n /\ (i - 1) + 1 = i
      BY <1>1
    <2> HIDE DEF n
    <2> QED BY <1>7, <2>1
  <1> HIDE DEF n
  <1>9. ASSUME NEW i \in 1 .. n + 1, NEW j \in 1 .. n + 1, i # j
        PROVE  rules(p)[i] # rules(p)[j]
    <2>1. CASE i = 1 \/ j = 1
      <3>1. (i = 1 /\ j \in 2 .. n + 1) \/ (j = 1 /\ i \in 2 .. n + 1)
        BY <1>1, <1>9, <2>1
      <3> QED BY <1>6, <1>8, <3>1, RuleFields
    <2>2. CASE i \in 2 .. n + 1 /\ j \in 2 .. n + 1
      <3>1. /\ rules(p)[i].dport = WebPorts[i - 1]
            /\ rules(p)[j].dport = WebPorts[j - 1]
        BY <1>8, <2>2, RuleFields
      <3>2. i - 1 \in 1 .. n /\ j - 1 \in 1 .. n /\ i - 1 # j - 1
        BY <1>1, <1>9, <2>2
      <3>3. WebPorts[i - 1] # WebPorts[j - 1]
        BY <1>1, <3>2, LifecycleAssumption DEF IsInjective
      <3> QED BY <3>1, <3>3
    <2> QED BY <1>1, <2>1, <2>2
  <1>10. ASSUME p \in Ports, NEW i \in 1 .. n + 1 PROVE rules(p)[i] \in AllRules
    <2>1. i = 1 \/ i \in 2 .. n + 1
      BY <1>1
    <2> QED BY <1>6, <1>8, <1>10, <2>1 DEF AllRules, n
  <1> QED BY <1>1, <1>5, <1>6, <1>7, <1>9, <1>10 DEF n

(* -A adds a rule at the end, and takes none away.                         *)
LEMMA AppendContains ==
  ASSUME NEW S, NEW s \in Seq(S), NEW e \in S
  PROVE  /\ Append(s, e) \in Seq(S) /\ Len(Append(s, e)) = Len(s) + 1
         /\ Contains(Append(s, e), e)
         /\ \A x : Contains(s, x) => Contains(Append(s, e), x)
         /\ s # << >> => Append(s, e)[1] = s[1]
         /\ s = << >> => Append(s, e)[1] = e
  <1>1. /\ Append(s, e) \in Seq(S) /\ Len(Append(s, e)) = Len(s) + 1
        /\ \A i \in 1 .. Len(s) : Append(s, e)[i] = s[i]
        /\ Append(s, e)[Len(s) + 1] = e
        /\ Len(s) \in Nat
    BY AppendProperties, LenProperties
  <1>2. Contains(Append(s, e), e)
    BY <1>1 DEF Contains
  <1>3. \A x : Contains(s, x) => Contains(Append(s, e), x)
    BY <1>1 DEF Contains
  <1>4. s # << >> => 1 \in 1 .. Len(s)
    BY EmptySeq, <1>1
  <1>5. s = << >> => Append(s, e)[1] = e
    <2>1. s = << >> => Len(s) + 1 = 1
      OBVIOUS
    <2> QED BY <1>1, <2>1
  <1> QED BY <1>1, <1>2, <1>3, <1>4, <1>5

(* -D takes out one copy of a rule, and no other rule.                     *)
LEMMA RemoveFirstContains ==
  ASSUME NEW S, NEW s \in Seq(S), NEW e
  PROVE  /\ RemoveFirst(s, e) \in Seq(S)
         /\ Contains(s, e) => Len(RemoveFirst(s, e)) = Len(s) - 1
         /\ ~Contains(s, e) => RemoveFirst(s, e) = s
         /\ \A x : x # e /\ Contains(s, x) => Contains(RemoveFirst(s, e), x)
  <1>1. CASE ~Contains(s, e)
    BY <1>1 DEF RemoveFirst, Contains
  <1>2. CASE Contains(s, e)
    <2> DEFINE I == {i \in 1 .. Len(s) : s[i] = e}
               m == Min(I)
               a == SubSeq(s, 1, m - 1)
               b == SubSeq(s, m + 1, Len(s))
    <2>1. Len(s) \in Nat /\ \A i \in 1 .. Len(s) : s[i] \in S
      BY LenProperties, ElementOfSeq
    <2>2. m \in 1 .. Len(s) /\ s[m] = e
      <3>1. I \subseteq Nat /\ I # {}
        BY <1>2, <2>1 DEF Contains
      <3> HIDE DEF I
      <3>2. m \in I
        BY <3>1, MinExists
      <3> QED BY <3>2 DEF I
    <2>3. RemoveFirst(s, e) = a \o b
      <3>1. SelectInSeq(s, LAMBDA v : v = e) = m
        BY <1>2 DEF SelectInSeq, Contains
      <3> QED BY <1>2, <3>1 DEF RemoveFirst, RemoveAt, Contains
    <2> HIDE DEF m
    <2>4. /\ a \in Seq(S) /\ Len(a) = m - 1
          /\ \A i \in 1 .. m - 1 : a[i] = s[i]
      <3>1. \A i \in 1 .. m - 1 : s[i] \in S
        BY <2>1, <2>2
      <3>2. m - 1 \in Int /\ 1 \in Int
        BY <2>2
      <3>3. /\ a \in Seq(S) /\ Len(a) = IF 1 <= m - 1 THEN (m - 1) - 1 + 1 ELSE 0
            /\ \A i \in 1 .. (m - 1) - 1 + 1 : a[i] = s[1 + i - 1]
        BY <3>1, <3>2, SubSeqProperties
      <3> QED BY <2>2, <3>3
    <2>5. /\ b \in Seq(S) /\ Len(b) = Len(s) - m
          /\ \A i \in 1 .. Len(s) - m : b[i] = s[m + i]
      <3>1. \A i \in m + 1 .. Len(s) : s[i] \in S
        BY <2>1, <2>2
      <3>2. m + 1 \in Int /\ Len(s) \in Int
        BY <2>1, <2>2
      <3>3. /\ b \in Seq(S)
            /\ Len(b) = IF m + 1 <= Len(s) THEN Len(s) - (m + 1) + 1 ELSE 0
            /\ \A i \in 1 .. Len(s) - (m + 1) + 1 : b[i] = s[(m + 1) + i - 1]
        BY <3>1, <3>2, SubSeqProperties
      <3>4. m \in Int /\ m <= Len(s)
        BY <2>1, <2>2
      <3>5. Len(b) = Len(s) - m
        BY <2>1, <3>3, <3>4
      <3>6. \A i \in 1 .. Len(s) - m : b[i] = s[m + i]
        BY <2>1, <3>3, <3>4
      <3> QED BY <3>3, <3>5, <3>6
    <2> HIDE DEF a, b
    <2>6. /\ a \o b \in Seq(S) /\ Len(a \o b) = Len(a) + Len(b)
          /\ \A i \in 1 .. Len(a) + Len(b) :
               (a \o b)[i] = IF i <= Len(a) THEN a[i] ELSE b[i - Len(a)]
      BY <2>4, <2>5, ConcatProperties
    <2>7. Len(a) + Len(b) = Len(s) - 1
      BY <2>1, <2>2, <2>4, <2>5
    <2>8. ASSUME NEW x, x # e, Contains(s, x) PROVE Contains(a \o b, x)
      <3>1. PICK i \in 1 .. Len(s) : s[i] = x
        BY <2>8 DEF Contains
      <3>2. i # m
        BY <2>2, <2>8, <3>1
      <3>3. CASE i < m
        <4>1. i \in 1 .. m - 1 /\ i \in 1 .. Len(s) - 1 /\ i <= Len(a)
          BY <2>1, <2>2, <2>4, <3>1, <3>3
        <4>2. (a \o b)[i] = x
          BY <2>4, <2>6, <2>7, <3>1, <4>1
        <4> QED BY <2>6, <2>7, <4>1, <4>2 DEF Contains
      <3>4. CASE i > m
        <4>1. /\ i - m \in 1 .. Len(s) - m /\ m + (i - m) = i
              /\ i - 1 \in 1 .. Len(s) - 1 /\ ~(i - 1 <= Len(a)) /\ (i - 1) - Len(a) = i - m
          BY <2>1, <2>2, <2>4, <3>1, <3>4
        <4>2. (a \o b)[i - 1] = b[i - m]
          BY <2>6, <2>7, <4>1
        <4>3. b[i - m] = x
          BY <2>5, <3>1, <4>1
        <4> QED BY <2>6, <2>7, <4>1, <4>2, <4>3 DEF Contains
      <3> QED BY <2>2, <3>1, <3>2, <3>3, <3>4
    <2> QED BY <1>2, <2>3, <2>6, <2>7, <2>8
  <1> QED BY <1>1, <1>2

-----------------------------------------------------------------------------
(* A sequence holds no more different elements at some positions than      *)
(* there are such positions.                                               *)
LEMMA ImageBound ==
  ASSUME NEW I, IsFiniteSet(I), NEW s, NEW T, \A t \in T : \E i \in I : s[i] = t
  PROVE  /\ IsFiniteSet(T) /\ Cardinality(T) \in Nat
         /\ Cardinality(T) <= Cardinality(I)
  <1> DEFINE U == {s[i] : i \in I}
             f == [i \in I |-> s[i]]
  <1>1. f \in Surjection(I, U)
    BY DEF Surjection
  <1> HIDE DEF f
  <1>2. IsFiniteSet(U) /\ Cardinality(U) <= Cardinality(I)
    BY <1>1, FS_Surjection
  <1>3. T \in SUBSET U
    OBVIOUS
  <1> HIDE DEF U
  <1>4. IsFiniteSet(T) /\ Cardinality(T) <= Cardinality(U)
    BY <1>2, <1>3, FS_Subset
  <1>5. Cardinality(T) \in Nat /\ Cardinality(U) \in Nat /\ Cardinality(I) \in Nat
    BY <1>2, <1>4, FS_CardinalityType
  <1> QED BY <1>2, <1>4, <1>5

LEMMA KeptFinite ==
  ASSUME chain \in Seq(AllRules)
  PROVE  IsFiniteSet(Kept) /\ Cardinality(Kept) \in Nat
  <1>1. Len(chain) \in Nat
    BY LenProperties
  <1>2. IsFiniteSet(1 .. Len(chain))
    BY <1>1, FS_Interval
  <1>3. \A r \in Kept : \E i \in 1 .. Len(chain) : chain[i] = r
    BY DEF Kept, Contains
  <1> QED BY <1>2, <1>3, ImageBound

LEMMA TypeFacts ==
  ASSUME TypeOK
  PROVE  /\ chain \in Seq(AllRules) /\ Len(chain) \in Nat
         /\ next \in Nat /\ faults \in Nat /\ Len(WebPorts) \in Nat
         /\ next <= Len(WebPorts) + 2 /\ 1 <= next
         /\ MoreRules <=> next <= Len(WebPorts) + 1
         /\ MaxRuns \in Nat /\ MaxFaults \in Nat
  <1>1. chain \in Seq(AllRules) /\ next \in 1 .. Len(rules(port)) + 1 /\ faults \in 0 .. MaxFaults
    BY DEF TypeOK
  <1>2. Len(rules(port)) = Len(WebPorts) + 1 /\ Len(WebPorts) \in Nat
    BY RulesListed
  <1>3. MaxRuns \in Nat /\ MaxFaults \in Nat
    BY LifecycleAssumption
  <1> QED BY <1>1, <1>2, <1>3, LenProperties DEF MoreRules

(* The rule the loop is at.                                                *)
LEMMA RuleTyped ==
  ASSUME TypeOK, MoreRules
  PROVE  Rule \in AllRules /\ next \in 1 .. Len(WebPorts) + 1
  <1>1. next \in 1 .. Len(WebPorts) + 1
    BY TypeFacts
  <1> QED BY <1>1, RulesListed DEF Rule, TypeOK

LEMMA InitInv == Init => Inv
  <1> SUFFICES ASSUME Init PROVE Inv
    OBVIOUS
  <1>1. TypeOK
    <2>1. Len(rules(port)) = Len(WebPorts) + 1 /\ Len(WebPorts) \in Nat
      BY RulesListed
    <2>2. 1 \in 1 .. Len(rules(port)) + 1
      BY <2>1
    <2>3. 0 \in 0 .. MaxRuns /\ 0 \in 0 .. MaxFaults
      BY LifecycleAssumption
    <2>4. << >> \in Seq(AllRules)
      OBVIOUS
    <2> QED BY <2>2, <2>3, <2>4 DEF Init, TypeOK
  <1>2. SetupInv
    BY DEF Init, SetupInv
  <1>3. CountInv
    <2>1. Cardinality(Kept) \in Nat
      BY <1>1, KeptFinite DEF TypeOK
    <2>2. Len(chain) = 0 /\ faults = 0
      BY DEF Init
    <2> QED BY <2>1, <2>2 DEF CountInv
  <1>4. OrderInv
    BY DEF Init, OrderInv
  <1> QED BY <1>1, <1>2, <1>3, <1>4 DEF Inv

(* Steps that leave the chain alone and are not under way in a teardown.   *)
LEMMA CountFrame ==
  ASSUME TypeOK, TypeOK', CountInv, chain' = chain, faults <= faults',
         phase' = "teardown" => next' = 1
  PROVE  CountInv'
  <1>1. Passed' = {}
    <2>1. CASE phase' = "teardown"
      <3>1. 1 .. next' - 1 = {}
        BY <2>1
      <3> QED BY <3>1 DEF Passed
    <2> QED BY <2>1 DEF Passed
  <1>2. Kept \in SUBSET Kept'
    BY <1>1 DEF Kept
  <1>3. IsFiniteSet(Kept') /\ Cardinality(Kept') \in Nat /\ Cardinality(Kept) \in Nat
    <2>1. IsFiniteSet(1 .. Len(chain))
      BY TypeFacts, FS_Interval
    <2>2. \A r \in Kept' : \E i \in 1 .. Len(chain) : chain[i] = r
      BY DEF Kept, Contains
    <2> QED BY <2>1, <2>2, ImageBound, TypeFacts, KeptFinite
  <1>4. Cardinality(Kept) <= Cardinality(Kept')
    BY <1>2, <1>3, FS_Subset
  <1>5. faults' \in Nat /\ faults \in Nat /\ Len(chain) \in Nat
    BY TypeFacts, LifecycleAssumption DEF TypeOK
  <1>6. Len(chain) <= faults + Cardinality(Kept)
    BY DEF CountInv
  <1>7. Len(chain) <= faults' + Cardinality(Kept')
    BY <1>3, <1>4, <1>5, <1>6
  <1> QED BY <1>7 DEF CountInv

(* Setup.                                                                  *)
LEMMA SetupStep ==
  ASSUME Inv, EnsureRule \/ EnsureMisreads
  PROVE  Inv'
  <1>1. /\ phase = "setup" /\ MoreRules /\ next' = next + 1
        /\ UNCHANGED <<phase, port, transparent, runs, partial>>
        /\ \/ chain' = chain /\ ruleExists(Rule) /\ faults' = faults
           \/ chain' = Append(chain, Rule) /\ ~ruleExists(Rule) /\ faults' = faults
           \/ chain' = Append(chain, Rule) /\ faults' = faults + 1 /\ faults < MaxFaults
    BY DEF EnsureRule, EnsureMisreads
  <1>2. TypeOK /\ SetupInv
    BY DEF Inv
  <1>3. Rule \in AllRules /\ next \in 1 .. Len(WebPorts) + 1
    BY <1>1, <1>2, RuleTyped
  <1>4. /\ chain \in Seq(AllRules) /\ Len(chain) \in Nat /\ next \in Nat
        /\ faults \in Nat /\ MaxFaults \in Nat /\ Len(WebPorts) \in Nat
    BY <1>2, TypeFacts
  <1>5. /\ Append(chain, Rule) \in Seq(AllRules)
        /\ Len(Append(chain, Rule)) = Len(chain) + 1
        /\ Contains(Append(chain, Rule), Rule)
        /\ \A x : Contains(chain, x) => Contains(Append(chain, Rule), x)
        /\ chain # << >> => Append(chain, Rule)[1] = chain[1]
        /\ chain = << >> => Append(chain, Rule)[1] = Rule
    BY <1>3, <1>4, AppendContains
  <1>6. /\ chain' \in Seq(AllRules)
        /\ Contains(chain', Rule)
        /\ \A x : Contains(chain, x) => Contains(chain', x)
    BY <1>1, <1>4, <1>5 DEF ruleExists
  <1>7. faults' \in 0 .. MaxFaults /\ faults' \in Nat
    BY <1>1, <1>2, <1>4 DEF TypeOK
  <1>8. TypeOK'
    <2>1. Len(rules(port)) = Len(WebPorts) + 1
      BY RulesListed
    <2>2. next' \in 1 .. Len(rules(port)) + 1
      BY <1>1, <1>3, <1>4, <2>1
    <2> QED BY <1>1, <1>2, <1>6, <1>7, <2>2 DEF TypeOK
  <1>9. SetupInv'
    <2>1. ASSUME NEW i \in 1 .. next' - 1 PROVE Contains(chain', rules(port)[i])
      <3>1. i \in 1 .. next - 1 \/ i = next
        BY <1>1, <1>4, <2>1
      <3> QED BY <1>1, <1>2, <1>6, <3>1 DEF SetupInv, Rule
    <2> QED BY <1>1, <1>2, <2>1 DEF SetupInv
  <1>10. CountInv'
    <2> DEFINE C == Cardinality(Kept)
               D == Cardinality(Kept')
    <2>1. Len(chain) <= faults + C /\ C \in Nat /\ IsFiniteSet(Kept)
      BY <1>4, KeptFinite DEF Inv, CountInv
    <2>2. Kept' = Kept \cup {Rule}
      <3>1. Passed = {} /\ Passed' = {}
        BY <1>1 DEF Passed
      <3>2. \A x : x # Rule /\ Contains(chain', x) => Contains(chain, x)
        <4>1. CASE chain' = chain
          BY <4>1
        <4>2. CASE chain' = Append(chain, Rule)
          <5> SUFFICES ASSUME NEW x, x # Rule, Contains(chain', x)
                       PROVE  Contains(chain, x)
            OBVIOUS
          <5>1. PICK j \in 1 .. Len(chain) + 1 : Append(chain, Rule)[j] = x
            BY <1>5, <4>2 DEF Contains
          <5>2. /\ \A k \in 1 .. Len(chain) : Append(chain, Rule)[k] = chain[k]
                /\ Append(chain, Rule)[Len(chain) + 1] = Rule
            BY <1>3, <1>4, AppendProperties
          <5>3. j \in 1 .. Len(chain)
            BY <1>4, <5>1, <5>2
          <5> QED BY <5>1, <5>2, <5>3 DEF Contains
        <4> QED BY <1>1, <4>1, <4>2
      <3>3. \A r : r \in Kept' <=> r \in AllRules /\ Contains(chain', r)
        BY <3>1 DEF Kept
      <3>4. \A r : r \in Kept <=> r \in AllRules /\ Contains(chain, r)
        BY <3>1 DEF Kept
      <3> QED BY <1>3, <1>6, <3>2, <3>3, <3>4
    <2>3. D = IF Rule \in Kept THEN C ELSE C + 1
      BY <2>1, <2>2, FS_AddElement
    <2>4. Rule \in Kept <=> ruleExists(Rule)
      BY <1>1, <1>3 DEF Kept, Passed, ruleExists
    <2> HIDE DEF C, D
    <2>5. Len(chain') <= faults' + D
      <3>1. CASE chain' = chain /\ ruleExists(Rule) /\ faults' = faults
        <4>1. D = C
          BY <2>3, <2>4, <3>1
        <4> QED BY <2>1, <3>1, <4>1
      <3>2. CASE chain' = Append(chain, Rule) /\ ~ruleExists(Rule) /\ faults' = faults
        <4>1. D = C + 1
          BY <2>3, <2>4, <3>2
        <4>2. Len(chain') = Len(chain) + 1
          BY <1>5, <3>2
        <4> QED BY <1>4, <2>1, <3>2, <4>1, <4>2
      <3>3. CASE chain' = Append(chain, Rule) /\ faults' = faults + 1
        <4>1. D \in Nat /\ C <= D
          BY <2>1, <2>3
        <4>2. Len(chain') = Len(chain) + 1
          BY <1>5, <3>3
        <4> QED BY <1>4, <2>1, <3>3, <4>1, <4>2
      <3> QED BY <1>1, <3>1, <3>2, <3>3
    <2> QED BY <2>5 DEF CountInv, D
  <1>11. OrderInv'
    <2> SUFFICES ASSUME ~partial' PROVE chain' = << >> \/ chain'[1] = Owner
      BY DEF OrderInv
    <2>1. ~partial
      BY <1>1
    <2>2. chain = << >> \/ chain[1] = Owner
      BY <1>1, <2>1 DEF Inv, OrderInv
    <2>3. CASE chain = << >>
      <3>1. next = 1
        <4>1. ASSUME next # 1 PROVE FALSE
          <5>1. 1 \in 1 .. next - 1
            BY <1>3, <4>1
          <5>2. Contains(chain, rules(port)[1])
            BY <1>1, <1>2, <5>1 DEF SetupInv
          <5> QED BY <2>3, <5>2 DEF Contains
        <4> QED BY <4>1
      <3>2. Rule = Owner
        BY <3>1, RulesListed DEF Rule
      <3> QED BY <1>1, <1>5, <2>3, <3>2
    <2>4. CASE chain # << >> /\ chain[1] = Owner
      BY <1>1, <1>5, <2>4
    <2> QED BY <2>2, <2>3, <2>4
  <1> QED BY <1>8, <1>9, <1>10, <1>11 DEF Inv

(* Steps of a run outside of Setup and Teardown, and its end.              *)
LEMMA StartStep ==
  ASSUME Inv, NEW p \in Ports, NEW t \in Modes, Start(p, t)
  PROVE  Inv'
  <1>1. /\ phase = "off" /\ port' = p /\ transparent' = t /\ next' = 1
        /\ runs < MaxRuns /\ runs' = runs + 1
        /\ phase' = (IF t THEN "setup" ELSE "starting")
        /\ UNCHANGED <<chain, faults, partial>>
    BY DEF Start
  <1>2. TypeOK /\ t \in BOOLEAN
    BY LifecycleAssumption DEF Inv
  <1>3. TypeOK'
    <2>1. Len(rules(p)) = Len(WebPorts) + 1 /\ Len(WebPorts) \in Nat
      BY RulesListed
    <2>2. next' \in 1 .. Len(rules(p)) + 1
      BY <1>1, <2>1
    <2>3. runs' \in 0 .. MaxRuns
      BY <1>1, <1>2, LifecycleAssumption DEF TypeOK
    <2> QED BY <1>1, <1>2, <2>2, <2>3 DEF TypeOK
  <1>4. SetupInv'
    <2>1. CASE t
      BY <1>1, <2>1 DEF SetupInv
    <2>2. CASE ~t
      BY <1>1, <2>2 DEF SetupInv
    <2> QED BY <2>1, <2>2
  <1>5. CountInv'
    <2>1. faults <= faults'
      BY <1>1, <1>2, TypeFacts
    <2>2. phase' # "teardown"
      BY <1>1
    <2> QED BY <1>1, <1>2, <1>3, <2>1, <2>2, CountFrame DEF Inv
  <1>6. OrderInv'
    BY <1>1 DEF Inv, OrderInv
  <1> QED BY <1>3, <1>4, <1>5, <1>6 DEF Inv

(* Steps that neither start a run nor change the chain.                    *)
LEMMA OtherStep ==
  ASSUME Inv,
         \/ SetupFails \/ SetupDone \/ Serve \/ SignalUnhandled \/ Crash
         \/ SignalHandled /\ ~transparent
  PROVE  Inv'
  <1>1. /\ UNCHANGED <<chain, port, transparent, runs>>
        /\ phase' \in {"off", "starting", "serving"}
        /\ phase' = "starting" => phase = "setup" /\ ~MoreRules
        /\ phase' = "serving" => phase = "starting"
        /\ next' = next \/ next' = 1
    BY DEF SetupFails, SetupDone, Serve, SignalUnhandled, Crash, SignalHandled
  <1>2. /\ \/ faults' = faults \/ (faults < MaxFaults /\ faults' = faults + 1)
        /\ partial' \in BOOLEAN
        /\ ~partial' => ~partial /\ (phase # "teardown" \/ chain = << >>)
    BY DEF SetupFails, SetupDone, Serve, SignalUnhandled, Crash, SignalHandled, Inv, TypeOK
  <1>3. TypeOK /\ SetupInv
    BY DEF Inv
  <1>4. /\ faults' \in 0 .. MaxFaults /\ faults' \in Nat /\ faults <= faults'
    <2>1. faults \in 0 .. MaxFaults /\ MaxFaults \in Nat
      BY <1>3, LifecycleAssumption DEF TypeOK
    <2> QED BY <1>2, <2>1
  <1>5. TypeOK'
    <2>1. Len(rules(port)) = Len(WebPorts) + 1 /\ Len(WebPorts) \in Nat
      BY RulesListed
    <2>2. next' \in 1 .. Len(rules(port)) + 1
      BY <1>1, <1>3, <2>1 DEF TypeOK
    <2> QED BY <1>1, <1>2, <1>3, <1>4, <2>2 DEF TypeOK
  <1>6. SetupInv'
    <2>1. phase = "setup" /\ ~MoreRules =>
            \A i \in 1 .. Len(rules(port)) : Contains(chain, rules(port)[i])
      <3>1. ASSUME ~MoreRules, NEW i \in 1 .. Len(rules(port)) PROVE i \in 1 .. next - 1
        BY <1>3, <3>1, TypeFacts, RulesListed
      <3> QED BY <1>3, <3>1 DEF SetupInv
    <2> QED BY <1>1, <1>3, <2>1 DEF SetupInv
  <1>7. CountInv'
    BY <1>1, <1>3, <1>4, <1>5, CountFrame DEF Inv
  <1>8. OrderInv'
    BY <1>1, <1>2 DEF Inv, OrderInv
  <1> QED BY <1>5, <1>6, <1>7, <1>8 DEF Inv

(* Teardown.                                                               *)
LEMMA TeardownStarts ==
  ASSUME Inv, SignalHandled, transparent
  PROVE  Inv'
  <1>1. /\ phase = "serving" /\ phase' = "teardown" /\ next' = 1
        /\ UNCHANGED <<chain, port, transparent, runs, faults, partial>>
    BY DEF SignalHandled
  <1>2. TypeOK
    BY DEF Inv
  <1>3. TypeOK'
    <2>1. Len(rules(port)) = Len(WebPorts) + 1 /\ Len(WebPorts) \in Nat
      BY RulesListed
    <2>2. next' \in 1 .. Len(rules(port)) + 1
      BY <1>1, <2>1
    <2> QED BY <1>1, <1>2, <2>2 DEF TypeOK
  <1>4. SetupInv'
    BY <1>1 DEF SetupInv
  <1>5. CountInv'
    <2>1. faults <= faults'
      BY <1>1, <1>2, TypeFacts
    <2> QED BY <1>1, <1>2, <1>3, <2>1, CountFrame DEF Inv
  <1>6. OrderInv'
    BY <1>1 DEF OrderInv
  <1> QED BY <1>3, <1>4, <1>5, <1>6 DEF Inv

(* One rule of a teardown, removed, not found, or not removable.           *)
LEMMA TeardownStep ==
  ASSUME Inv, TeardownRule \/ TeardownFails
  PROVE  Inv'
  <1>1. /\ phase = "teardown" /\ MoreRules /\ next' = next + 1
        /\ UNCHANGED <<phase, port, transparent, runs, partial>>
        /\ \/ chain' = RemoveFirst(chain, Rule) /\ faults' = faults
           \/ chain' = chain /\ faults' = faults + 1 /\ faults < MaxFaults
    BY DEF TeardownRule, TeardownFails
  <1>2. TypeOK
    BY DEF Inv
  <1>3. next \in 1 .. Len(WebPorts) + 1
    BY <1>1, <1>2, RuleTyped
  <1>4. /\ chain \in Seq(AllRules) /\ Len(chain) \in Nat /\ next \in Nat
        /\ faults \in Nat /\ MaxFaults \in Nat /\ Len(WebPorts) \in Nat
    BY <1>2, TypeFacts
  <1>5. /\ RemoveFirst(chain, Rule) \in Seq(AllRules)
        /\ Contains(chain, Rule) => Len(RemoveFirst(chain, Rule)) = Len(chain) - 1
        /\ ~Contains(chain, Rule) => RemoveFirst(chain, Rule) = chain
        /\ \A x : x # Rule /\ Contains(chain, x) => Contains(RemoveFirst(chain, Rule), x)
    BY <1>4, RemoveFirstContains
  <1>6. TypeOK'
    <2>1. Len(rules(port)) = Len(WebPorts) + 1
      BY RulesListed
    <2>2. next' \in 1 .. Len(rules(port)) + 1
      BY <1>1, <1>3, <1>4, <2>1
    <2>3. faults' \in 0 .. MaxFaults
      BY <1>1, <1>2, <1>4 DEF TypeOK
    <2>4. chain' \in Seq(AllRules)
      BY <1>1, <1>4, <1>5
    <2> QED BY <1>1, <1>2, <2>2, <2>3, <2>4 DEF TypeOK
  <1>7. SetupInv'
    BY <1>1 DEF SetupInv
  <1>8. CountInv'
    <2> DEFINE D == Cardinality(Kept)
               T == Kept \ {Rule}
               E == Cardinality(Kept')
    <2>1. Len(chain) <= faults + D /\ D \in Nat /\ IsFiniteSet(Kept)
      BY <1>4, KeptFinite DEF Inv, CountInv
    <2>2. Rule \in Kept <=> Contains(chain, Rule)
      <3>1. \A i \in 1 .. next - 1 : rules(port)[i] # Rule
        <4>1. \A i \in 1 .. next - 1 : i \in 1 .. Len(WebPorts) + 1 /\ i # next
          BY <1>3, <1>4
        <4> QED BY <1>3, <4>1, RulesListed DEF Rule
      <3>2. Rule \notin Passed
        BY <1>1, <3>1 DEF Passed
      <3>3. Rule \in AllRules
        BY <1>1, <1>2, RuleTyped
      <3> QED BY <3>2, <3>3 DEF Kept
    <2>3. T \in SUBSET Kept'
      <3> SUFFICES ASSUME NEW r \in T PROVE r \in Kept'
        OBVIOUS
      <3>1. r \in AllRules /\ r # Rule /\ Contains(chain, r) /\ r \notin Passed
        BY DEF Kept
      <3>2. Contains(chain', r)
        BY <1>1, <1>5, <3>1
      <3>3. r \notin Passed'
        <4> SUFFICES ASSUME NEW i \in 1 .. next' - 1, r = rules(port)[i] PROVE FALSE
          BY <1>1 DEF Passed
        <4>1. i \in 1 .. next - 1 \/ i = next
          BY <1>1, <1>4
        <4> QED BY <1>1, <3>1, <4>1 DEF Passed, Rule
      <3> QED BY <3>1, <3>2, <3>3 DEF Kept
    <2>4. IsFiniteSet(Kept') /\ E \in Nat
      <3>1. chain' \in Seq(AllRules) /\ Len(chain') \in Nat
        BY <1>6, LenProperties DEF TypeOK
      <3>2. IsFiniteSet(1 .. Len(chain'))
        BY <3>1, FS_Interval
      <3>3. \A r \in Kept' : \E i \in 1 .. Len(chain') : chain'[i] = r
        BY DEF Kept, Contains
      <3> QED BY <3>2, <3>3, ImageBound
    <2>5. Cardinality(T) <= E /\ Cardinality(T) \in Nat
      BY <2>3, <2>4, FS_Subset, FS_CardinalityType
    <2>6. Cardinality(T) = IF Rule \in Kept THEN D - 1 ELSE D
      BY <2>1, FS_RemoveElement
    <2> HIDE DEF D, E, T
    <2>7. Len(chain') <= faults' + E
      <3>1. CASE chain' = chain /\ faults' = faults + 1
        <4>1. D <= E + 1
          BY <2>1, <2>4, <2>5, <2>6
        <4> QED BY <1>4, <2>1, <2>4, <3>1, <4>1
      <3>2. CASE chain' = RemoveFirst(chain, Rule) /\ faults' = faults /\ Contains(chain, Rule)
        <4>1. Len(chain') = Len(chain) - 1
          BY <1>5, <3>2
        <4>2. D - 1 <= E
          BY <2>2, <2>5, <2>6, <3>2
        <4> QED BY <1>4, <2>1, <2>4, <3>2, <4>1, <4>2
      <3>3. CASE chain' = RemoveFirst(chain, Rule) /\ faults' = faults /\ ~Contains(chain, Rule)
        <4>1. chain' = chain
          BY <1>5, <3>3
        <4>2. D <= E
          BY <2>2, <2>5, <2>6, <3>3
        <4> QED BY <1>4, <2>1, <2>4, <3>3, <4>1, <4>2
      <3> QED BY <1>1, <3>1, <3>2, <3>3
    <2> QED BY <1>1, <2>7 DEF CountInv, E
  <1>9. OrderInv'
    BY <1>1 DEF OrderInv
  <1> QED BY <1>6, <1>7, <1>8, <1>9 DEF Inv

(* A teardown that has passed every rule has removed what it counted: the  *)
(* other rules of the chain take up as many positions at least.            *)
LEMMA NothingCounted ==
  ASSUME TypeOK, CountInv, phase = "teardown", ~MoreRules
  PROVE  Cardinality(Own) <= faults
  <1> DEFINE I == 1 .. Len(chain)
             O == I \ Own
  <1>1. /\ chain \in Seq(AllRules) /\ Len(chain) \in Nat /\ faults \in Nat
        /\ IsFiniteSet(I) /\ Cardinality(I) = Len(chain)
    <2>1. chain \in Seq(AllRules) /\ Len(chain) \in Nat /\ faults \in Nat
      BY TypeFacts
    <2> QED BY <2>1, FS_Interval
  <1>2. Own \in SUBSET I /\ I \cap Own = Own
    BY DEF Own
  <1>3. IsFiniteSet(Own) /\ Cardinality(Own) \in Nat
    BY <1>1, <1>2, FS_Subset, FS_CardinalityType
  <1>4. IsFiniteSet(O) /\ Cardinality(O) = Len(chain) - Cardinality(Own)
    <2>1. IsFiniteSet(I \ Own) /\ Cardinality(I \ Own) = Cardinality(I) - Cardinality(I \cap Own)
      BY <1>1, FS_Difference
    <2> QED BY <1>1, <1>2, <2>1
  <1>5. \A r \in Kept : \E i \in O : chain[i] = r
    <2> SUFFICES ASSUME NEW r \in Kept PROVE \E i \in O : chain[i] = r
      OBVIOUS
    <2>1. PICK i \in I : chain[i] = r
      BY DEF Kept, Contains
    <2>2. i \notin Own
      <3> SUFFICES ASSUME i \in Own PROVE FALSE
        OBVIOUS
      <3>1. PICK j \in 1 .. Len(rules(port)) : rules(port)[j] = r
        BY <2>1 DEF Own, Contains
      <3>2. j \in 1 .. next - 1
        BY <3>1, TypeFacts, RulesListed
      <3>3. r \in Passed
        BY <3>1, <3>2 DEF Passed
      <3> QED BY <3>3 DEF Kept
    <2> QED BY <2>1, <2>2
  <1> HIDE DEF O
  <1>6. Cardinality(Kept) \in Nat /\ Cardinality(Kept) <= Cardinality(O)
    BY <1>4, <1>5, ImageBound
  <1>7. Len(chain) <= faults + Cardinality(Kept)
    BY DEF CountInv
  <1> QED BY <1>1, <1>3, <1>4, <1>6, <1>7

(* The end of the teardown loop.                                           *)
LEMMA TeardownEnds ==
  ASSUME Inv, TeardownDone
  PROVE  Inv'
  <1>1. /\ phase = "teardown" /\ phase' = "off" /\ ~MoreRules
        /\ partial' = (partial \/ chain # << >>)
        /\ UNCHANGED <<chain, port, transparent, next, runs, faults>>
    BY DEF TeardownDone
  <1>2. TypeOK
    BY DEF Inv
  <1>3. TypeOK' /\ SetupInv'
    BY <1>1, <1>2 DEF TypeOK, SetupInv
  <1>4. CountInv'
    <2>1. faults <= faults'
      BY <1>1, <1>2, TypeFacts
    <2> QED BY <1>1, <1>2, <1>3, <2>1, CountFrame DEF Inv
  <1>5. OrderInv'
    BY <1>1 DEF OrderInv
  <1> QED BY <1>3, <1>4, <1>5 DEF Inv

LEMMA NextInv == Inv /\ [Next]_vars => Inv'
  <1> SUFFICES ASSUME Inv, [Next]_vars PROVE Inv'
    OBVIOUS
  <1>1. CASE UNCHANGED vars
    <2>1. TypeOK' /\ SetupInv' /\ OrderInv'
      BY <1>1 DEF Inv, TypeOK, SetupInv, OrderInv, vars
    <2>2. CountInv'
      BY <1>1 DEF Inv, CountInv, Kept, Passed, vars
    <2> QED BY <2>1, <2>2 DEF Inv
  <1>2. CASE Next
    BY <1>2, StartStep, SetupStep, OtherStep, TeardownStarts, TeardownStep, TeardownEnds
    DEF Next
  <1> QED BY <1>1, <1>2

-----------------------------------------------------------------------------
(* The invariant holds through any number of runs, killed or signalled     *)
(* anywhere, with any iptables command failing.                            *)
THEOREM Invariance == Spec => []Inv
  BY InitInv, NextInv, PTL DEF Spec

(* The chain holds nothing but goper's rules, and the loops of Setup and   *)
(* Teardown stay within the rule list.                                     *)
THEOREM TypeCorrect == Spec => []TypeOK
  <1>1. Inv => TypeOK
    BY DEF Inv
  <1> QED BY <1>1, Invariance, PTL

(* A teardown that runs to its end leaves no more of its rules behind than *)
(* commands have failed, whatever ports the runs before it used.           *)
THEOREM TeardownLeavesNothing == Spec => []TeardownComplete
  <1>1. Inv => TeardownComplete
    BY NothingCounted DEF Inv, TeardownComplete
  <1> QED BY <1>1, Invariance, PTL

(* Web traffic of other users is redirected while goper serves, whatever   *)
(* runs were killed before, and to the port goper listens on unless one of *)
(* them left a redirect to another.                                        *)
THEOREM TrafficForced == Spec => []ForcedThroughProxy
  <1>1. ASSUME Inv PROVE ForcedThroughProxy
    <2> SUFFICES ASSUME phase = "serving", transparent, NEW d \in Web
                 PROVE  /\ verdict(FALSE, d) # {}
                        /\ Own = 1 .. Len(chain) => verdict(FALSE, d) = {port}
      BY DEF ForcedThroughProxy
    <2> DEFINE hits == {i \in 1 .. Len(chain) : matches(chain[i], FALSE, d)}
    <2>1. TypeOK /\ SetupInv
      BY <1>1 DEF Inv
    <2>2. Len(chain) \in Nat
      BY <2>1, TypeFacts
    <2>3. PICK k \in 1 .. Len(WebPorts) : d = WebPorts[k]
      BY DEF Web
    <2>4. /\ Len(WebPorts) \in Nat /\ Len(rules(port)) = Len(WebPorts) + 1
          /\ rules(port)[1] = Owner
          /\ \A i \in 1 .. Len(WebPorts) : rules(port)[i + 1] = Redirect(WebPorts[i], port)
      BY RulesListed
    <2>5. k + 1 \in 1 .. Len(rules(port))
      BY <2>4
    <2>6. Contains(chain, Redirect(d, port))
      <3>1. Contains(chain, rules(port)[k + 1])
        BY <2>1, <2>5 DEF SetupInv
      <3> QED BY <2>3, <2>4, <3>1
    <2>7. hits \subseteq Nat /\ hits # {}
      BY <2>2, <2>6, RuleFields DEF Contains, matches
    <2> DEFINE m == Min(hits)
    <2>8. m \in hits
      <3> HIDE DEF hits
      <3> QED BY <2>7, MinExists
    <2>9. m \in 1 .. Len(chain) /\ matches(chain[m], FALSE, d)
      BY <2>8
    <2> HIDE DEF m
    <2>10. chain[m].match # "owner" /\ chain[m].dport = d
      BY <2>9 DEF matches
    <2>11. verdict(FALSE, d) = {chain[m].to}
      BY <2>7, <2>10 DEF verdict, m
    <2>12. ASSUME Own = 1 .. Len(chain) PROVE chain[m].to = port
      <3>1. PICK j \in 1 .. Len(rules(port)) : rules(port)[j] = chain[m]
        BY <2>9, <2>12 DEF Own, Contains
      <3>2. j # 1
        BY <2>4, <2>10, <3>1, RuleFields
      <3>3. j - 1 \in 1 .. Len(WebPorts) /\ (j - 1) + 1 = j
        BY <2>4, <3>1, <3>2
      <3>4. chain[m] = Redirect(WebPorts[j - 1], port)
        BY <2>4, <3>1, <3>3
      <3> QED BY <3>4, RuleFields
    <2> QED BY <2>11, <2>12
  <1> QED BY <1>1, Invariance, PTL

(* goper's own connections are not redirected as long as every teardown    *)
(* has emptied the chain, whatever else failed or was killed.              *)
THEOREM OwnTraffic == Spec => []OwnTrafficSkipped
  <1>1. ASSUME Inv PROVE OwnTrafficSkipped
    <2> SUFFICES ASSUME phase = "serving", ~partial, NEW d \in Web
                 PROVE  verdict(TRUE, d) = {}
      BY DEF OwnTrafficSkipped, SkipsOwnTraffic
    <2> DEFINE hits == {i \in 1 .. Len(chain) : matches(chain[i], TRUE, d)}
    <2>1. chain \in Seq(AllRules) /\ Len(chain) \in Nat
      BY <1>1, TypeFacts DEF Inv
    <2>2. chain = << >> \/ chain[1] = Owner
      BY <1>1 DEF Inv, OrderInv
    <2>3. CASE chain = << >>
      <3>1. hits = {}
        BY <2>3
      <3> QED BY <3>1 DEF verdict
    <2>4. CASE chain # << >> /\ chain[1] = Owner
      <3>1. 1 \in 1 .. Len(chain)
        BY <2>1, <2>4, EmptySeq
      <3>2. 1 \in hits /\ hits \subseteq Nat
        BY <2>1, <2>4, <3>1, RuleFields DEF matches
      <3>3. Min(hits) \in hits /\ Min(hits) <= 1
        <4> HIDE DEF hits
        <4> QED BY <3>2, MinExists
      <3>4. Min(hits) = 1
        BY <3>3
      <3>5. chain[Min(hits)].match = "owner"
        BY <2>4, <3>4, RuleFields
      <3> QED BY <3>5 DEF verdict
    <2> QED BY <2>2, <2>3, <2>4
  <1> QED BY <1>1, Invariance, PTL
=============================================================================
