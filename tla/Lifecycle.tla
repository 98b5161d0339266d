----------------------------- MODULE Lifecycle ------------------------------
(***************************************************************************)
(* One run of goper after another, and the NAT rules they leave behind:    *)
(* run and its helpers in cmd/goper/main.go, with the rule manager of      *)
(* internal/iptables/iptables.go.                                          *)
(*                                                                         *)
(* The OUTPUT chain of the nat table belongs to the kernel: it survives    *)
(* the process.  A run installs three rules, serves, and removes them when *)
(* a signal arrives; it can be killed between any two iptables commands,   *)
(* and a command can fail.  The chain is evaluated first match first.      *)
(***************************************************************************)
EXTENDS Integers, SequencesExt, FiniteSetsExt

CONSTANTS
    WebPorts,   \* the redirected destination ports, in rule order (80, 443)
    Ports,      \* the --port values goper is started with
    Modes,      \* the --transparent values goper is started with
    MaxRuns,    \* bound: starts of the process
    MaxFaults   \* bound: iptables commands that fail

ASSUME LifecycleAssumption ==
    /\ WebPorts \in Seq(Nat) /\ IsInjective(WebPorts)
    /\ Modes \subseteq BOOLEAN
    /\ MaxRuns \in Nat
    /\ MaxFaults \in Nat

VARIABLES
    chain,        \* the rules of the nat OUTPUT chain, in order
    phase,        \* where the current run is; "off" when there is none
    port,         \* the current or last run's proxy port
    transparent,  \* the current or last run's mode
    next,         \* the rule Setup or Teardown handles next
    runs,         \* starts so far
    faults,       \* failed iptables commands so far
    partial       \* history: some teardown ended with rules still in the chain

vars == <<chain, phase, port, transparent, next, runs, faults, partial>>

-----------------------------------------------------------------------------
(* NewManager: the owner match first, then one redirect per web port.      *)
Owner == [match |-> "owner"]
Redirect(d, p) == [match |-> "dport", dport |-> d, to |-> p]

(* Broken variant: the redirects ignore the configured port.               *)
rules_DefaultPort(p) ==
    <<Owner>> \o [i \in 1 .. Len(WebPorts) |-> Redirect(WebPorts[i], 0)]

(* Broken variant: the owner match comes after the redirects.              *)
rules_OwnerLast(p) ==
    [i \in 1 .. Len(WebPorts) |-> Redirect(WebPorts[i], p)] \o <<Owner>>

rules(p) == <<Owner>> \o [i \in 1 .. Len(WebPorts) |-> Redirect(WebPorts[i], p)]

Rule == rules(port)[next]
MoreRules == next <= Len(rules(port))

(* iptables -C: is the rule in the chain?                                  *)
ruleExists(r) == Contains(chain, r)

Init ==
    /\ chain = << >>
    /\ phase = "off"
    /\ port \in Ports
    /\ transparent \in Modes
    /\ next = 1
    /\ runs = 0
    /\ faults = 0
    /\ partial = FALSE

(* run up to setupTransparentIfEnabled.                                    *)
Start(p, t) ==
    /\ phase = "off"
    /\ runs < MaxRuns
    /\ runs' = runs + 1
    /\ port' = p
    /\ transparent' = t
    /\ next' = 1
    /\ phase' = IF t THEN "setup" ELSE "starting"
    /\ UNCHANGED <<chain, faults, partial>>

(* Broken variant: rules are appended without looking for them first.      *)
EnsureRule_AlwaysAdds ==
    /\ phase = "setup"
    /\ MoreRules
    /\ chain' = Append(chain, Rule)
    /\ next' = next + 1
    /\ UNCHANGED <<phase, port, transparent, runs, faults, partial>>

(* Setup, one rule: append it unless it is there.                          *)
EnsureRule ==
    /\ phase = "setup"
    /\ MoreRules
    /\ chain' = IF ruleExists(Rule) THEN chain ELSE Append(chain, Rule)
    /\ next' = next + 1
    /\ UNCHANGED <<phase, port, transparent, runs, faults, partial>>

(* -C fails for a reason of its own (such as a held lock): ruleExists      *)
(* takes any exit status for "absent", and the rule is appended again.     *)
EnsureMisreads ==
    /\ phase = "setup"
    /\ MoreRules
    /\ faults < MaxFaults
    /\ faults' = faults + 1
    /\ chain' = Append(chain, Rule)
    /\ next' = next + 1
    /\ UNCHANGED <<phase, port, transparent, runs, partial>>

(* iptables cannot run, or -A fails: Setup returns the error and run       *)
(* returns 1, with the rules installed so far in place.                    *)
SetupFails ==
    /\ phase = "setup"
    /\ MoreRules
    /\ faults < MaxFaults
    /\ faults' = faults + 1
    /\ phase' = "off"
    /\ UNCHANGED <<chain, port, transparent, next, runs, partial>>

(* Broken variant: the loop ends one rule early.                           *)
SetupDone_Early ==
    /\ phase = "setup"
    /\ next >= Len(rules(port))
    /\ phase' = "starting"
    /\ UNCHANGED <<chain, port, transparent, next, runs, faults, partial>>

SetupDone ==
    /\ phase = "setup"
    /\ ~MoreRules
    /\ phase' = "starting"
    /\ UNCHANGED <<chain, port, transparent, next, runs, faults, partial>>

(* signal.Notify, then the two servers are started.                        *)
Serve ==
    /\ phase = "starting"
    /\ phase' = "serving"
    /\ UNCHANGED <<chain, port, transparent, next, runs, faults, partial>>

(* SIGINT or SIGTERM once it is handled: a transparent run tears down, any *)
(* other returns at once.  A second signal stays in sigCh unread.          *)
SignalHandled ==
    /\ phase = "serving"
    /\ next' = 1
    /\ phase' = IF transparent THEN "teardown" ELSE "off"
    /\ UNCHANGED <<chain, port, transparent, runs, faults, partial>>

(* SIGINT or SIGTERM before signal.Notify: the default action ends the     *)
(* process on the spot.                                                    *)
SignalUnhandled ==
    /\ phase \in {"setup", "starting"}
    /\ phase' = "off"
    /\ UNCHANGED <<chain, port, transparent, next, runs, faults, partial>>

(* Teardown, one rule: -D removes its first copy, or fails when there is   *)
(* none; either way the loop goes on.                                      *)
TeardownRule ==
    /\ phase = "teardown"
    /\ MoreRules
    /\ chain' = RemoveFirst(chain, Rule)
    /\ next' = next + 1
    /\ UNCHANGED <<phase, port, transparent, runs, faults, partial>>

(* -D fails although the rule is there: logged, and the loop goes on.      *)
TeardownFails ==
    /\ phase = "teardown"
    /\ MoreRules
    /\ faults < MaxFaults
    /\ faults' = faults + 1
    /\ next' = next + 1
    /\ UNCHANGED <<chain, phase, port, transparent, runs, partial>>

TeardownDone ==
    /\ phase = "teardown"
    /\ ~MoreRules
    /\ phase' = "off"
    /\ partial' = (partial \/ chain # << >>)
    /\ UNCHANGED <<chain, port, transparent, next, runs, faults>>

(* The process is killed, or a server fails and runServer exits.           *)
Crash ==
    /\ phase # "off"
    /\ phase' = "off"
    /\ partial' = (partial \/ (phase = "teardown" /\ chain # << >>))
    /\ UNCHANGED <<chain, port, transparent, next, runs, faults>>

Next ==
    \/ \E p \in Ports, t \in Modes : Start(p, t)
    \/ EnsureRule \/ EnsureMisreads \/ SetupFails \/ SetupDone
    \/ Serve
    \/ SignalHandled \/ SignalUnhandled
    \/ TeardownRule \/ TeardownFails \/ TeardownDone
    \/ Crash

Spec == Init /\ [][Next]_vars

-----------------------------------------------------------------------------
AllRules == {Owner} \cup {Redirect(WebPorts[i], p) : i \in 1 .. Len(WebPorts), p \in Ports}

(* The chain holds goper's rules only, and Setup and Teardown stay within  *)
(* their rule list.                                                        *)
TypeOK ==
    /\ chain \in Seq(AllRules)
    /\ phase \in {"off", "setup", "starting", "serving", "teardown"}
    /\ port \in Ports
    /\ transparent \in Modes
    /\ next \in 1 .. Len(rules(port)) + 1
    /\ runs \in 0 .. MaxRuns
    /\ faults \in 0 .. MaxFaults
    /\ partial \in BOOLEAN

(* What the chain does to a packet for port d: the first matching rule     *)
(* decides.  The ports it is redirected to: none, or one.                  *)
matches(r, own, d) ==
    IF r.match = "owner" THEN own ELSE r.dport = d

verdict(own, d) ==
    LET hits == {i \in 1 .. Len(chain) : matches(chain[i], own, d)}
    IN  IF hits = {} \/ chain[Min(hits)].match = "owner" THEN {}
        ELSE {chain[Min(hits)].to}

Web == {WebPorts[i] : i \in 1 .. Len(WebPorts)}

(* The positions of the chain that hold a rule of the current run's list.  *)
Own == {i \in 1 .. Len(chain) : Contains(rules(port), chain[i])}

(* A teardown that runs to its end leaves at most one of its rules behind  *)
(* for each iptables command that ever failed, whatever crashed runs, with *)
(* this or another port, left in the chain before: Setup adopts the rules  *)
(* it finds instead of adding copies, and Teardown goes on past a rule it  *)
(* cannot remove (FEATURES.md:72-73).                                      *)
TeardownComplete ==
    phase = "teardown" /\ ~MoreRules => Cardinality(Own) <= faults

(* While goper serves in transparent mode, web traffic of every other user *)
(* is redirected: "All traffic forced through proxy" (PLAN.md:38).  It     *)
(* goes to the port goper listens on, whatever earlier runs left, as long  *)
(* as the chain holds no redirect to another port: Setup only looks for    *)
(* its own rules, and an older redirect comes before the ones it adds.     *)
ForcedThroughProxy ==
    phase = "serving" /\ transparent =>
        \A d \in Web :
            /\ verdict(FALSE, d) # {}
            /\ Own = 1 .. Len(chain) => verdict(FALSE, d) = {port}

SkipsOwnTraffic == \A d \in Web : verdict(TRUE, d) = {}

(* As long as every teardown has emptied the chain, goper's own upstream   *)
(* connections are not redirected back to it, although commands may fail   *)
(* and runs be killed at any other point, and the next run, with the same  *)
(* port or another, adopts what they left: Setup adds the owner rule first *)
(* and keeps the order of what it finds.                                   *)
OwnTrafficSkipped ==
    phase = "serving" /\ transparent /\ ~partial => SkipsOwnTraffic

(* goper's own traffic is never redirected back to it: "No loop - goper    *)
(* runs as dedicated user, iptables skips its traffic via owner-matching"  *)
(* (PLAN.md:42).                                                           *)
NoLoop == phase = "serving" /\ transparent => SkipsOwnTraffic
=============================================================================
