--------------------- MODULE SandboxedScanExecutorProofs ---------------------
(***************************************************************************)
(* Proofs, for any addresses, hosts, locations and faults, that a sandbox  *)
(* counts as established only while its policy is enforced (as far as the  *)
(* comparison reads the chains), that a request goes out only to a         *)
(* validated address, and that what an attempt leaves behind is explained. *)
(***************************************************************************)
EXTENDS SandboxedScanExecutor, TLAPS

-----------------------------------------------------------------------------
(* The sandbox. *)

Early == {"idle", "preflight", "createNetwork", "createContainer"}
Tearing == {"reapPending", "rmContainer", "rmNetwork", "destroyed"}

\* A sandbox is established between the probe and destroy(), or for good when
\* the worker was killed; a creation is outstanding only in a failed attempt.
EstablishedWhen ==
    /\ established => phase \in {"up", "reapPending", "destroyed"}
    /\ inflight # {} => phase \in Tearing /\ ~established

\* From the comparison on, the dumps of a running container name the policy.
Compared ==
    phase \in {"identity", "probe"} \/ established =>
        (dContainer = "running" => compare_against_policy)

\* A container seen running that no longer runs has died, and the probe lets a
\* privileged workload pass only then or when it timed out.
Probed ==
    /\ phase \in {"installV4", "installV6", "verify", "identity", "probe"} =>
          dContainer = "running" \/ "containerDied" \in mishaps
    /\ established /\ privileged => mishaps \cap {"probeTimeout", "containerDied"} # {}

ContainerExplained == mishaps \cap {"rmFailed", "createdLate", "killed"} # {}
NetworkExplained ==
    mishaps \cap {"rmFailed", "createdLate", "killed", "networkCreateRaised"} # {}

\* A container or network that exists has a handle by which destroy() will
\* still find it, or an explanation.
Tracked ==
    /\ phase \in Early => dContainer = "absent"
    /\ phase \in {"idle", "preflight", "createNetwork"} => ~dNetwork
    /\ dContainer # "absent" =>
          \/ ContainerExplained
          \/ pending /\ phase = "reapPending"
          \/ container /\ phase \notin {"rmNetwork", "destroyed"}
    /\ dNetwork => NetworkExplained \/ (network /\ phase # "destroyed")

SandboxInv == SandboxTypeOK /\ EstablishedWhen /\ Compared /\ Probed /\ Tracked

\* Without a rule that the dump's reader does not see, a chain accepts what its
\* dump names: the comparison is about the kernel and not only about the dump.
ShownAsIs ==
    "unreadRule" \notin mishaps => \A f \in Families : chain[f].accepts = chain[f].named

LEMMA EstablishSteps ==
    ASSUME SandboxInv, EstablishStep
    PROVE  SandboxInv'
  <1> USE TargetAssumption, ResolutionAssumption
      DEF Goes, Fails, Noted, handles, daemon
  <1>1. CASE Preflight
    <2>1. SandboxTypeOK'
      BY <1>1 DEF Preflight, SandboxInv, SandboxTypeOK, Phases, Outcomes
    <2>2. EstablishedWhen' /\ Probed'
      BY <1>1 DEF Preflight, SandboxInv, SandboxTypeOK, EstablishedWhen, Probed, Tearing
    <2>3. Compared'
      BY <1>1 DEF Preflight, SandboxInv, EstablishedWhen, Compared
    <2>4. Tracked'
      BY <1>1 DEF Preflight, SandboxInv, Tracked, Early, ContainerExplained, NetworkExplained
    <2> QED
      BY <2>1, <2>2, <2>3, <2>4 DEF SandboxInv
  <1>2. CASE CreateNetwork
    <2>1. SandboxTypeOK'
      <3>1. mishaps' \subseteq AllMishaps /\ inflight' \subseteq {"network", "container"}
        BY <1>2 DEF CreateNetwork, SandboxInv, SandboxTypeOK
      <3>2. phase' \in Phases /\ outcome' \in Outcomes
        BY <1>2 DEF CreateNetwork, SandboxInv, SandboxTypeOK, Phases, Outcomes
      <3>3. dNetwork' \in BOOLEAN /\ network' \in BOOLEAN
        BY <1>2 DEF CreateNetwork, SandboxInv, SandboxTypeOK
      <3>4. UNCHANGED <<policy, container, pending, established, dContainer, chain, privileged>>
        BY <1>2 DEF CreateNetwork
      <3> QED
        BY <3>1, <3>2, <3>3, <3>4 DEF SandboxInv, SandboxTypeOK
    <2>2. EstablishedWhen' /\ Probed'
      BY <1>2 DEF CreateNetwork, SandboxInv, SandboxTypeOK, EstablishedWhen, Probed, Tearing
    <2>3. Compared'
      BY <1>2 DEF CreateNetwork, SandboxInv, EstablishedWhen, Compared
    <2>4. Tracked'
      BY <1>2 DEF CreateNetwork, SandboxInv, Tracked, Early, ContainerExplained, NetworkExplained
    <2> QED
      BY <2>1, <2>2, <2>3, <2>4 DEF SandboxInv
  <1>3. CASE CreateContainer
    BY <1>3 DEF CreateContainer, SandboxInv, SandboxTypeOK, Phases, Outcomes, EstablishedWhen, Compared,
                Probed, Tracked, Early, Tearing, ContainerExplained, NetworkExplained
  <1>4. CASE AwaitRunning
    BY <1>4 DEF AwaitRunning, SandboxInv, SandboxTypeOK, Phases, Outcomes, EstablishedWhen, Compared,
                Probed, Tracked, Early, Tearing, ContainerExplained, NetworkExplained
  <1>5. CASE InstallEgressRules("installV4", "v4", "installV6")
    <2>1. SandboxTypeOK'
      <3>1. InFamily("v4") \subseteq Addresses /\ Allowed("v4") \subseteq Addresses
        BY DEF InFamily, Allowed, allowed_v4, allowed_v6, SandboxInv, SandboxTypeOK
      <3>2. UNCHANGED chain \/ \E c \in Chains : chain' = [chain EXCEPT !["v4"] = c]
        BY <1>5, <3>1 DEF InstallEgressRules, Chains, Rules
      <3>3. chain' \in [Families -> Chains]
        <4>1. chain \in [Families -> Chains] /\ "v4" \in Families
          BY DEF SandboxInv, SandboxTypeOK, Families
        <4> QED
          BY <3>2, <4>1
      <3>4. mishaps' \subseteq AllMishaps
        BY <1>5 DEF InstallEgressRules, SandboxInv, SandboxTypeOK
      <3>5. phase' \in Phases /\ outcome' \in Outcomes
        BY <1>5 DEF InstallEgressRules, SandboxInv, SandboxTypeOK, Phases, Outcomes
      <3> QED
        BY <1>5, <3>3, <3>4, <3>5 DEF InstallEgressRules, SandboxInv, SandboxTypeOK
    <2>2. EstablishedWhen' /\ Probed'
      BY <1>5 DEF InstallEgressRules, SandboxInv, SandboxTypeOK, EstablishedWhen, Probed, Tearing
    <2>3. Compared'
      BY <1>5 DEF InstallEgressRules, SandboxInv, EstablishedWhen, Compared
    <2>4. Tracked'
      BY <1>5 DEF InstallEgressRules, SandboxInv, Tracked, Early, ContainerExplained, NetworkExplained
    <2> QED
      BY <2>1, <2>2, <2>3, <2>4 DEF SandboxInv
  <1>6. CASE InstallEgressRules("installV6", "v6", "verify")
    <2>1. SandboxTypeOK'
      <3>1. InFamily("v6") \subseteq Addresses /\ Allowed("v6") \subseteq Addresses
        BY DEF InFamily, Allowed, allowed_v4, allowed_v6, SandboxInv, SandboxTypeOK
      <3>2. UNCHANGED chain \/ \E c \in Chains : chain' = [chain EXCEPT !["v6"] = c]
        BY <1>6, <3>1 DEF InstallEgressRules, Chains, Rules
      <3>3. chain' \in [Families -> Chains]
        <4>1. chain \in [Families -> Chains] /\ "v6" \in Families
          BY DEF SandboxInv, SandboxTypeOK, Families
        <4> QED
          BY <3>2, <4>1
      <3>4. mishaps' \subseteq AllMishaps
        BY <1>6 DEF InstallEgressRules, SandboxInv, SandboxTypeOK
      <3>5. phase' \in Phases /\ outcome' \in Outcomes
        BY <1>6 DEF InstallEgressRules, SandboxInv, SandboxTypeOK, Phases, Outcomes
      <3> QED
        BY <1>6, <3>3, <3>4, <3>5 DEF InstallEgressRules, SandboxInv, SandboxTypeOK
    <2>2. EstablishedWhen' /\ Probed'
      BY <1>6 DEF InstallEgressRules, SandboxInv, SandboxTypeOK, EstablishedWhen, Probed, Tearing
    <2>3. Compared'
      BY <1>6 DEF InstallEgressRules, SandboxInv, EstablishedWhen, Compared
    <2>4. Tracked'
      BY <1>6 DEF InstallEgressRules, SandboxInv, Tracked, Early, ContainerExplained, NetworkExplained
    <2> QED
      BY <2>1, <2>2, <2>3, <2>4 DEF SandboxInv
  <1>7. CASE Verify
    BY <1>7 DEF Verify, SandboxInv, SandboxTypeOK, Phases, Outcomes, EstablishedWhen, Compared,
                Probed, Tracked, Early, Tearing, ContainerExplained, NetworkExplained,
                compare_against_policy, Allowed
  <1>8. CASE VerifyIdentity
    BY <1>8 DEF VerifyIdentity, SandboxInv, SandboxTypeOK, Phases, Outcomes, EstablishedWhen, Compared,
                Probed, Tracked, Early, Tearing, ContainerExplained, NetworkExplained,
                compare_against_policy, Allowed
  <1>9. CASE VerifyPrivilegeDrop
    <2>1. SandboxTypeOK'
      <3>1. mishaps' \subseteq AllMishaps
        BY <1>9 DEF VerifyPrivilegeDrop, SandboxInv, SandboxTypeOK
      <3>2. phase' \in Phases /\ outcome' \in Outcomes
        BY <1>9 DEF VerifyPrivilegeDrop, SandboxInv, SandboxTypeOK, Phases, Outcomes
      <3>3. established' \in BOOLEAN
        BY <1>9 DEF VerifyPrivilegeDrop, SandboxInv, SandboxTypeOK
      <3> QED
        BY <1>9, <3>1, <3>2, <3>3 DEF VerifyPrivilegeDrop, SandboxInv, SandboxTypeOK
    <2>2. EstablishedWhen' /\ Probed'
      BY <1>9 DEF VerifyPrivilegeDrop, SandboxInv, SandboxTypeOK, EstablishedWhen, Probed, Tearing
    <2>3. Compared'
      BY <1>9 DEF VerifyPrivilegeDrop, SandboxInv, EstablishedWhen, Compared, compare_against_policy, Allowed
    <2>4. Tracked'
      BY <1>9 DEF VerifyPrivilegeDrop, SandboxInv, Tracked, Early, ContainerExplained, NetworkExplained
    <2> QED
      BY <2>1, <2>2, <2>3, <2>4 DEF SandboxInv
  <1> QED
    BY <1>1, <1>2, <1>3, <1>4, <1>5, <1>6, <1>7, <1>8, <1>9 DEF EstablishStep

LEMMA DestroySteps ==
    ASSUME SandboxInv, DestroyStep \/ DaemonStep \/ Killed
    PROVE  SandboxInv'
  <1> USE TargetAssumption
      DEF Goes, Noted, handles, daemon, RemoveContainer
  <1>1. CASE ReapPending
    <2>1. SandboxTypeOK'
      BY <1>1 DEF ReapPending, SandboxInv, SandboxTypeOK, Phases
    <2>2. EstablishedWhen' /\ Probed' /\ Compared'
      BY <1>1 DEF ReapPending, SandboxInv, EstablishedWhen, Probed, Compared, Tearing
    <2>3. Tracked'
      BY <1>1 DEF ReapPending, SandboxInv, Tracked, Early, ContainerExplained, NetworkExplained
    <2> QED
      BY <2>1, <2>2, <2>3 DEF SandboxInv
  <1>2. CASE DestroyContainer
    <2>1. SandboxTypeOK'
      BY <1>2 DEF DestroyContainer, SandboxInv, SandboxTypeOK, Phases
    <2>2. EstablishedWhen' /\ Probed' /\ Compared'
      BY <1>2 DEF DestroyContainer, SandboxInv, EstablishedWhen, Probed, Compared, Tearing
    <2>3. Tracked'
      BY <1>2 DEF DestroyContainer, SandboxInv, Tracked, Early, ContainerExplained,
                  NetworkExplained
    <2> QED
      BY <2>1, <2>2, <2>3 DEF SandboxInv
  <1>3. CASE DestroyNetwork
    <2>1. SandboxTypeOK'
      BY <1>3 DEF DestroyNetwork, SandboxInv, SandboxTypeOK, Phases
    <2>2. EstablishedWhen' /\ Probed' /\ Compared'
      BY <1>3 DEF DestroyNetwork, SandboxInv, EstablishedWhen, Probed, Compared, Tearing
    <2>3. Tracked'
      BY <1>3 DEF DestroyNetwork, SandboxInv, Tracked, Early, ContainerExplained, NetworkExplained
    <2> QED
      BY <2>1, <2>2, <2>3 DEF SandboxInv
  <1>4. CASE ContainerStarts
    BY <1>4 DEF ContainerStarts, SandboxInv, SandboxTypeOK, EstablishedWhen, Probed, Compared,
                Tearing, Tracked, Early, ContainerExplained, NetworkExplained
  <1>5. CASE ContainerDies
    <2>1. SandboxTypeOK'
      BY <1>5 DEF ContainerDies, SandboxInv, SandboxTypeOK, OpenChain, Chains, Rules
    <2>2. EstablishedWhen' /\ Probed' /\ Compared' /\ Tracked'
      BY <1>5 DEF ContainerDies, SandboxInv, EstablishedWhen, Probed, Compared, Tearing, Tracked,
                  Early, ContainerExplained, NetworkExplained
    <2> QED
      BY <2>1, <2>2 DEF SandboxInv
  <1>6. CASE LateCreate
    <2>1. PICK what \in inflight : inflight' = inflight \ {what}
      BY <1>6 DEF LateCreate
    <2>2. phase \in Tearing /\ ~established
      BY <2>1 DEF SandboxInv, EstablishedWhen
    <2>3. /\ UNCHANGED <<phase, policy, network, container, pending, established, chain,
                         privileged, outcome>>
          /\ \/ UNCHANGED <<dNetwork, dContainer, mishaps>>
             \/ /\ "createdLate" \in AllMishaps
                /\ mishaps' = mishaps \cup {"createdLate"}
                /\ \/ dNetwork' = TRUE /\ UNCHANGED dContainer
                   \/ dContainer' \in {"created", "running"} /\ UNCHANGED dNetwork
      BY <1>6 DEF LateCreate
    <2>4. SandboxTypeOK'
      BY <2>1, <2>3 DEF SandboxInv, SandboxTypeOK
    <2>5. EstablishedWhen' /\ Probed' /\ Compared'
      BY <2>2, <2>3 DEF SandboxInv, EstablishedWhen, Probed, Compared, Tearing
    <2>6. Tracked'
      BY <2>2, <2>3 DEF SandboxInv, Tracked, Early, Tearing, ContainerExplained, NetworkExplained
    <2> QED
      BY <2>4, <2>5, <2>6 DEF SandboxInv
  <1>7. CASE Killed
    <2>1. SandboxTypeOK'
      BY <1>7 DEF Killed, SandboxInv, SandboxTypeOK, Phases
    <2>2. EstablishedWhen' /\ Probed'
      BY <1>7 DEF Killed, SandboxInv, EstablishedWhen, Probed, Tearing
    <2>3. Compared'
      BY <1>7 DEF Killed, SandboxInv, Compared, compare_against_policy, Allowed
    <2>4. Tracked'
      BY <1>7 DEF Killed, SandboxInv, Tracked, Early, ContainerExplained, NetworkExplained
    <2> QED
      BY <2>1, <2>2, <2>3, <2>4 DEF SandboxInv
  <1> QED
    BY <1>1, <1>2, <1>3, <1>4, <1>5, <1>6, <1>7 DEF DestroyStep, DaemonStep

LEMMA ShownSteps ==
    ASSUME SandboxInv, ShownAsIs, EstablishStep \/ DestroyStep \/ DaemonStep \/ Killed
    PROVE  ShownAsIs' /\ mishaps \subseteq mishaps'
  <1> USE DEF Goes, Fails, Noted, handles, daemon
  <1>1. ASSUME NEW f \in Families, NEW at, NEW next, InstallEgressRules(at, f, next)
        PROVE  ShownAsIs' /\ mishaps \subseteq mishaps'
    <2>1. chain \in [Families -> Chains]
      BY DEF SandboxInv, SandboxTypeOK
    <2>2. \/ chain' = chain /\ mishaps \subseteq mishaps'
          \/ /\ mishaps \subseteq mishaps'
             /\ \E d \in BOOLEAN, ns \in SUBSET Addresses : chain' = [chain EXCEPT ![f] = Rules(d, ns)]
          \/ "unreadRule" \in mishaps' /\ mishaps \subseteq mishaps'
      BY <1>1, ResolutionAssumption
         DEF InstallEgressRules, InFamily, Allowed, allowed_v4, allowed_v6, SandboxInv, SandboxTypeOK
    <2>3. CASE chain' = chain /\ mishaps \subseteq mishaps'
      BY <2>3 DEF ShownAsIs
    <2>4. CASE /\ mishaps \subseteq mishaps'
               /\ \E d \in BOOLEAN, ns \in SUBSET Addresses :
                     chain' = [chain EXCEPT ![f] = Rules(d, ns)]
      <3>1. PICK d \in BOOLEAN, ns \in SUBSET Addresses : chain' = [chain EXCEPT ![f] = Rules(d, ns)]
        BY <2>4
      <3>2. Rules(d, ns).accepts = Rules(d, ns).named
        BY DEF Rules
      <3>3. \A g \in Families : chain'[g] = IF g = f THEN Rules(d, ns) ELSE chain[g]
        BY <2>1, <3>1
      <3> QED
        BY <2>4, <3>2, <3>3 DEF ShownAsIs
    <2>5. CASE "unreadRule" \in mishaps' /\ mishaps \subseteq mishaps'
      BY <2>5 DEF ShownAsIs
    <2> QED
      BY <2>2, <2>3, <2>4, <2>5
  <1>2. CASE \/ InstallEgressRules("installV4", "v4", "installV6")
             \/ InstallEgressRules("installV6", "v6", "verify")
    BY <1>1, <1>2 DEF Families
  <1>3. CASE ContainerDies
    <2>1. mishaps \subseteq mishaps' /\ chain' = OpenChain
      BY <1>3 DEF ContainerDies
    <2>2. \A f \in Families : OpenChain[f].accepts = OpenChain[f].named
      BY DEF OpenChain, Rules
    <2> QED
      BY <2>1, <2>2 DEF ShownAsIs
  <1>4. CASE \/ Preflight \/ CreateNetwork \/ CreateContainer \/ AwaitRunning
             \/ Verify \/ VerifyIdentity \/ VerifyPrivilegeDrop
    <2>1. UNCHANGED chain /\ mishaps \subseteq mishaps'
      BY <1>4 DEF Preflight, CreateNetwork, CreateContainer, AwaitRunning, Verify, VerifyIdentity,
                  VerifyPrivilegeDrop
    <2> QED
      BY <2>1 DEF ShownAsIs
  <1>5. CASE DestroyStep \/ ContainerStarts \/ LateCreate \/ Killed
    <2>1. UNCHANGED chain /\ mishaps \subseteq mishaps'
      BY <1>5 DEF DestroyStep, ReapPending, DestroyContainer, DestroyNetwork, RemoveContainer,
                  ContainerStarts, LateCreate, Killed
    <2> QED
      BY <2>1 DEF ShownAsIs
  <1> QED
    BY <1>2, <1>3, <1>4, <1>5 DEF EstablishStep, DaemonStep

\* The kernel lets out exactly the policy's addresses while a sandbox counts as
\* established and its container runs, if the dump's reader sees every rule.
LEMMA OnlyThePolicy ==
    ASSUME SandboxInv, ShownAsIs, established, dContainer = "running",
           "unreadRule" \notin mishaps, NEW a \in Addresses
    PROVE  LetsOut(a) <=> a \in policy
  <1>1. compare_against_policy
    BY DEF SandboxInv, Compared
  <1>2. \A f \in Families : chain[f].drop /\ chain[f].accepts = Allowed(f)
    BY <1>1 DEF compare_against_policy, ShownAsIs
  <1> QED
    BY <1>2, ResolutionAssumption DEF LetsOut, Families, Allowed, allowed_v4, allowed_v6

-----------------------------------------------------------------------------
(* The client. *)

\* The request under way goes to an address validated for its host.
CurrentIsValidated ==
    client # "closed" => current \in Requests /\ Target(current) \in validated

\* What was validated passed the IP policy, the sandbox's addresses included.
ValidatedIsAllowed ==
    /\ \A v \in validated : evaluate_ip(v[2]) = "allowed"
    /\ \A a \in policy : <<TargetHost, a>> \in validated
    /\ phase = "idle" => delivered = {}

\* An exchange under way is paid for by the hops that are left.
Budgeted ==
    /\ exchanges + remaining <= max_redirects + 1
    /\ client = "exchange" => exchanges + remaining <= max_redirects

ClientInv ==
    /\ ClientTypeOK
    /\ CurrentIsValidated
    /\ ValidatedIsAllowed
    /\ Budgeted
    /\ RedirectBudget
    /\ DeliveredIsValidated

\* Nothing but prepare() sets the policy, and no step returns to it.
LEMMA SandboxStepsKeepPolicy ==
    ASSUME EstablishStep \/ DestroyStep \/ DaemonStep \/ Killed
    PROVE  UNCHANGED policy /\ (phase' = "idle" => phase = "idle")
  <1>1. CASE EstablishStep
    BY <1>1 DEF EstablishStep, Preflight, CreateNetwork, CreateContainer, AwaitRunning,
                InstallEgressRules, Verify, VerifyIdentity, VerifyPrivilegeDrop, Goes, Fails
  <1>2. CASE DestroyStep \/ DaemonStep \/ Killed
    BY <1>2 DEF DestroyStep, ReapPending, DestroyContainer, DestroyNetwork, DaemonStep,
                ContainerStarts, ContainerDies, LateCreate, Killed, Goes
  <1> QED
    BY <1>1, <1>2

LEMMA OtherStepsKeepClient ==
    ASSUME ClientInv, UNCHANGED <<clientVars, policy>>, mishaps \subseteq mishaps',
           phase' = "idle" => phase = "idle"
    PROVE  ClientInv'
  BY DEF clientVars, ClientInv, ClientTypeOK, CurrentIsValidated, ValidatedIsAllowed, Budgeted,
         RedirectBudget, DeliveredIsValidated, Target

\* A resolution that raises no error returned admissible addresses only.
LEMMA ResolvedIsAllowed ==
    ASSUME NEW answer \in Answers, ResolveError(answer) = "none"
    PROVE  answer \subseteq Addresses /\ \A a \in answer : evaluate_ip(a) = "allowed"
  BY DEF ResolveError, resolve_all, evaluate_all, Answers

IndInv == SandboxInv /\ ShownAsIs /\ ClientInv

\* The client's steps leave the sandbox as it is, or begin destroy().
LEMMA ClientStepsKeepSandbox ==
    ASSUME SandboxInv, ClientStep
    PROVE  /\ SandboxInv'
           /\ UNCHANGED policy /\ phase' # "idle" /\ established
           /\ UNCHANGED <<dContainer, chain, mishaps>>
  <1>1. /\ UNCHANGED <<policy, handles, established, daemon, privileged, mishaps>>
        /\ phase = "up" /\ established
        /\ \/ UNCHANGED <<phase, outcome>>
           \/ phase' = "reapPending" /\ outcome' \in Outcomes
    BY DEF ClientStep, EngineRequest, Exchange, ExchangeError, ExchangeRaises, FollowRedirect,
           FinishResponse, FinishClamped, FinishRefused, Running, Ends, sandboxVars, Outcomes,
           handles, daemon
  <1>2. SandboxTypeOK'
    BY <1>1 DEF SandboxInv, SandboxTypeOK, handles, daemon, Phases
  <1>3. EstablishedWhen' /\ Probed'
    BY <1>1 DEF SandboxInv, EstablishedWhen, Probed, handles, daemon, Tearing
  <1>4. Compared'
    BY <1>1 DEF SandboxInv, Compared, compare_against_policy, Allowed, handles, daemon
  <1>5. Tracked'
    BY <1>1 DEF SandboxInv, Tracked, Early, ContainerExplained, NetworkExplained, handles, daemon
  <1> QED
    BY <1>1, <1>2, <1>3, <1>4, <1>5 DEF SandboxInv, daemon

\* prepare(): the policy becomes the addresses that were just validated.
LEMMA PrepareStep ==
    ASSUME IndInv, Prepare
    PROVE  IndInv'
  <1> USE DEF handles, daemon
  <1>1. PICK answer \in Answers :
            IF ResolveError(answer) = "none"
            THEN /\ phase' = "preflight"
                 /\ policy' = for_binding(create(TargetHost, answer))
                 /\ validated' = validated \cup ({TargetHost} \X answer)
                 /\ UNCHANGED outcome
            ELSE /\ phase' = "destroyed" /\ outcome' = ResolveError(answer)
                 /\ UNCHANGED <<policy, validated>>
    BY DEF Prepare
  <1>2. /\ phase = "idle"
        /\ UNCHANGED <<handles, established, daemon, privileged, mishaps>>
        /\ UNCHANGED <<client, current, via, remaining, response, exchanges, delivered>>
    BY DEF Prepare
  <1>3. delivered = {} /\ ~established /\ inflight = {}
    BY <1>2 DEF IndInv, ClientInv, ValidatedIsAllowed, SandboxInv, EstablishedWhen, Tearing
  <1> ShownAsIs'
    BY <1>2 DEF IndInv, ShownAsIs
  <1>4. CASE ResolveError(answer) = "none"
    <2>1. /\ phase' = "preflight" /\ policy' = answer /\ UNCHANGED outcome
          /\ validated' = validated \cup ({TargetHost} \X answer)
      BY <1>1, <1>4 DEF for_binding, create
    <2>2. answer \subseteq Addresses /\ \A a \in answer : evaluate_ip(a) = "allowed"
      BY <1>4, ResolvedIsAllowed
    <2>3. SandboxInv'
      BY <1>2, <1>3, <2>1, <2>2
         DEF IndInv, SandboxInv, SandboxTypeOK, Phases, EstablishedWhen, Compared, Probed, Tracked,
             Early, ContainerExplained, NetworkExplained
    <2>4. ClientTypeOK'
      BY <1>2, <2>1, <2>2, TargetAssumption DEF IndInv, ClientInv, ClientTypeOK
    <2>5. ValidatedIsAllowed'
      BY <1>2, <1>3, <2>1, <2>2 DEF IndInv, ClientInv, ValidatedIsAllowed
    <2>6. CurrentIsValidated' /\ Budgeted' /\ RedirectBudget' /\ DeliveredIsValidated'
      BY <1>2, <1>3, <2>1
         DEF IndInv, ClientInv, CurrentIsValidated, Target, Budgeted, RedirectBudget,
             DeliveredIsValidated
    <2> QED
      BY <2>3, <2>4, <2>5, <2>6 DEF IndInv, ClientInv
  <1>5. CASE ResolveError(answer) # "none"
    <2>1. ResolveError(answer) \in Outcomes
      BY DEF ResolveError, Outcomes
    <2>2. phase' = "destroyed" /\ outcome' \in Outcomes /\ UNCHANGED <<policy, validated>>
      BY <1>1, <1>5, <2>1
    <2>3. SandboxInv'
      BY <1>2, <1>3, <2>2
         DEF IndInv, SandboxInv, SandboxTypeOK, Phases, EstablishedWhen, Compared, Probed, Tracked,
             Early, ContainerExplained, NetworkExplained
    <2>4. ClientInv'
      BY <1>2, <2>2, OtherStepsKeepClient DEF IndInv, clientVars
    <2> QED
      BY <2>3, <2>4 DEF IndInv
  <1> QED
    BY <1>4, <1>5

\* A request for a host, pinned to one of its addresses.
LEMMA PinnedRequest ==
    ASSUME NEW host \in Hosts, NEW addrs \in SUBSET Addresses, NEW pin, NEW scheme \in Schemes,
           AuthorizeOrRefuse([binding |-> with_pinned(create(host, addrs), pin),
                              scheme |-> scheme])
    PROVE  LET req == [binding |-> with_pinned(create(host, addrs), pin), scheme |-> scheme]
           IN  req \in Requests /\ Target(req) = <<host, pin>> /\ pin \in addrs
  <1> DEFINE b == [hostname |-> host, addresses |-> addrs, pinned_address |-> pin]
  <1>1. with_pinned(create(host, addrs), pin) = b
    BY DEF with_pinned, create
  <1>2. pin \in addrs
    BY <1>1 DEF AuthorizeOrRefuse, authorize
  <1>3. b \in Bindings
    BY <1>2 DEF Bindings
  <1> QED
    BY <1>1, <1>2, <1>3 DEF Requests, Target

LEMMA HopCounts ==
    ASSUME IndInv
    PROVE  /\ remaining \in Nat /\ max_redirects \in Nat /\ exchanges \in Nat
           /\ remaining <= max_redirects
  <1>1. max_redirects \in Nat
    BY ClientAssumption
  <1>2. remaining \in 0..max_redirects /\ exchanges \in Nat
    BY DEF IndInv, ClientInv, ClientTypeOK
  <1> QED
    BY <1>1, <1>2

\* The engine's request goes to an address of the policy.
LEMMA EngineRequestStep ==
    ASSUME IndInv, EngineRequest
    PROVE  ClientInv'
  <1>1. PICK scheme \in Schemes :
            Execute([binding |-> with_pinned(create(TargetHost, policy), Primary(policy)),
                     scheme |-> scheme])
    BY DEF EngineRequest
  <1> DEFINE req == [binding |-> with_pinned(create(TargetHost, policy), Primary(policy)),
                     scheme |-> scheme]
  <1>2. AuthorizeOrRefuse(req) /\ client' = "exchange" /\ current' = req
    BY <1>1 DEF Execute
  <1>3. /\ client = "closed" /\ exchanges = 0
        /\ UNCHANGED <<via, remaining, response, exchanges, validated, delivered, policy, phase,
                        mishaps>>
    BY <1>1 DEF Execute, EngineRequest, sandboxVars
  <1>4. TargetHost \in Hosts /\ policy \in SUBSET Addresses
    BY TargetAssumption DEF IndInv, SandboxInv, SandboxTypeOK
  <1>5. req \in Requests /\ Target(req) = <<TargetHost, Primary(policy)>>
        /\ Primary(policy) \in policy
    BY <1>2, <1>4, PinnedRequest
  <1> HIDE DEF req
  <1>6. ClientTypeOK' /\ CurrentIsValidated'
    BY <1>2, <1>3, <1>5
       DEF IndInv, ClientInv, ClientTypeOK, CurrentIsValidated, ValidatedIsAllowed, Target
  <1>7. ValidatedIsAllowed' /\ RedirectBudget' /\ DeliveredIsValidated'
    BY <1>3 DEF IndInv, ClientInv, ValidatedIsAllowed, RedirectBudget, DeliveredIsValidated
  <1>8. Budgeted'
    <2>1. remaining \in Nat /\ max_redirects \in Nat /\ remaining <= max_redirects
      BY HopCounts
    <2>2. exchanges' = 0 /\ remaining' = remaining
      BY <1>3
    <2> QED
      BY <2>1, <2>2 DEF Budgeted
  <1> QED
    BY <1>6, <1>7, <1>8 DEF ClientInv

\* An exchange reaches only what the kernel lets out.
LEMMA ExchangeSteps ==
    ASSUME IndInv, Exchange \/ ExchangeError \/ ExchangeRaises
    PROVE  ClientInv'
  <1>1. /\ established /\ client = "exchange"
        /\ UNCHANGED <<current, via, remaining, validated, policy, mishaps>>
        /\ phase' # "idle"
        /\ client' \in {"answered", "closed"}
        /\ exchanges' = exchanges + 1
        /\ response' \in Responses \cup {response}
    BY DEF Exchange, ExchangeError, ExchangeRaises, ExchangeAnswered, ExchangeFails, Running, Ends,
           sandboxVars
  <1>2. \/ delivered' = delivered
        \/ /\ dContainer = "running" /\ LetsOut(current.binding.pinned_address)
           /\ delivered' = delivered \cup {Target(current)}
    BY DEF Exchange, ExchangeError, ExchangeRaises, ExchangeAnswered, ExchangeFails
  <1>3. current \in Requests /\ Target(current) \in validated
    BY <1>1 DEF IndInv, ClientInv, CurrentIsValidated
  <1>4. /\ validated \subseteq Hosts \X Addresses
        /\ Target(current) = <<current.binding.hostname, current.binding.pinned_address>>
    BY DEF IndInv, ClientInv, ClientTypeOK, Target
  <1>5. current.binding.pinned_address \in Addresses
    BY <1>3, <1>4
  <1>6. ASSUME dContainer = "running", LetsOut(current.binding.pinned_address),
               "unreadRule" \notin mishaps
        PROVE  current.binding.pinned_address \in policy
    BY <1>1, <1>5, <1>6, OnlyThePolicy DEF IndInv
  <1>7. DeliveredIsValidated'
    <2>1. CASE delivered' = delivered
      BY <1>1, <2>1 DEF IndInv, ClientInv, DeliveredIsValidated
    <2>2. CASE /\ dContainer = "running" /\ LetsOut(current.binding.pinned_address)
               /\ delivered' = delivered \cup {Target(current)}
      BY <1>1, <1>3, <1>4, <1>6, <2>2
         DEF IndInv, ClientInv, DeliveredIsValidated, ValidatedIsAllowed
    <2> QED
      BY <1>2, <2>1, <2>2
  <1>8. ClientTypeOK'
    BY <1>1, <1>2, <1>3, <1>4 DEF IndInv, ClientInv, ClientTypeOK
  <1>9. CurrentIsValidated' /\ ValidatedIsAllowed'
    BY <1>1, <1>3
       DEF IndInv, ClientInv, CurrentIsValidated, ValidatedIsAllowed, Target
  <1>10. Budgeted' /\ RedirectBudget'
    <2>1. remaining \in Nat /\ max_redirects \in Nat /\ exchanges \in Nat
      BY HopCounts
    <2>2. client' # "exchange"
      BY <1>1
    <2>3. exchanges + remaining <= max_redirects
      BY <1>1 DEF IndInv, ClientInv, Budgeted
    <2>4. exchanges' + remaining' <= max_redirects + 1 /\ exchanges' <= max_redirects + 1
      BY <1>1, <2>1, <2>3
    <2>5. Budgeted'
      BY <2>2, <2>4 DEF Budgeted
    <2>6. RedirectBudget'
      BY <1>1, <2>4 DEF IndInv, ClientInv, RedirectBudget
    <2> QED
      BY <2>5, <2>6
  <1> QED
    BY <1>7, <1>8, <1>9, <1>10 DEF ClientInv

\* The bookkeeping of a hop to an address validated for its host: a step paid
\* for by the budget, over a location that was not seen before.
LEMMA FollowedHop ==
    ASSUME IndInv, Redirected, RedirectAllowed(response.location),
           NEW req \in Requests, Followed(req),
           Target(req) \in validated',
           validated \subseteq validated', validated' \subseteq Hosts \X Addresses,
           \A v \in validated' : evaluate_ip(v[2]) = "allowed",
           UNCHANGED <<policy, phase, mishaps>>
    PROVE  ClientInv'
  <1>1. /\ client = "answered" /\ client' = "exchange" /\ current' = req
        /\ remaining' = remaining - 1 /\ remaining > 0
        /\ via' = Append(via, response.location)
        /\ UNCHANGED <<response, exchanges, delivered>>
        /\ response.location # NoLocation
    BY DEF Followed, Redirected, Final, RedirectAllowed
  <1>2. /\ remaining \in 0..max_redirects /\ max_redirects \in Nat /\ exchanges \in Nat
        /\ via \in Seq(Locations) /\ response \in Responses
    BY ClientAssumption DEF IndInv, ClientInv, ClientTypeOK
  <1>3. response.location \in Locations
    BY <1>1, <1>2 DEF Responses
  <1>4. via' \in Seq(Locations) /\ remaining' \in 0..max_redirects
    BY <1>1, <1>2, <1>3
  <1>5. ClientTypeOK'
    BY <1>1, <1>4 DEF IndInv, ClientInv, ClientTypeOK
  <1>6. CurrentIsValidated'
    BY <1>1 DEF CurrentIsValidated, Target
  <1>7. ValidatedIsAllowed'
    BY <1>1 DEF IndInv, ClientInv, ValidatedIsAllowed
  <1>8. DeliveredIsValidated'
    BY <1>1 DEF IndInv, ClientInv, DeliveredIsValidated
  <1>9. Budgeted'
    <2>1. exchanges + remaining <= max_redirects + 1
      BY DEF IndInv, ClientInv, Budgeted
    <2>2. exchanges' + remaining' <= max_redirects
      BY <1>1, <1>2, <2>1
    <2> QED
      BY <1>1, <1>2, <2>2 DEF Budgeted
  <1>10. RedirectBudget'
    <2>1. \A i \in DOMAIN via : via[i] # response.location
      BY DEF RedirectAllowed, seen_locations
    <2>2. \A i, j \in DOMAIN via' : via'[i] = via'[j] => i = j
      BY <1>1, <1>2, <1>3, <2>1 DEF IndInv, ClientInv, RedirectBudget
    <2> QED
      BY <1>1, <2>2 DEF IndInv, ClientInv, RedirectBudget
  <1> QED
    BY <1>5, <1>6, <1>7, <1>8, <1>9, <1>10 DEF ClientInv

LEMMA FollowSteps ==
    ASSUME IndInv, FollowRedirect
    PROVE  ClientInv'
  <1>1. UNCHANGED <<policy, phase, mishaps>>
    BY DEF FollowRedirect, sandboxVars
  <1>2. validated \subseteq Hosts \X Addresses /\ \A v \in validated : evaluate_ip(v[2]) = "allowed"
    BY DEF IndInv, ClientInv, ClientTypeOK, ValidatedIsAllowed
  <1>3. CASE FollowRelative
    <2>1. /\ Redirected /\ RedirectAllowed(response.location)
          /\ Followed(current) /\ validated' = validated
      BY <1>3 DEF FollowRelative
    <2>2. current \in Requests /\ Target(current) \in validated
      BY <2>1 DEF IndInv, ClientInv, CurrentIsValidated, Redirected, Final
    <2> QED
      BY <1>1, <1>2, <2>1, <2>2, FollowedHop
  <1>4. CASE FollowAbsolute
    <2> DEFINE loc == response.location
               req(answer) == [binding |-> with_pinned(create(loc.host, answer), Primary(answer)),
                               scheme |-> loc.scheme]
    <2>1. Redirected /\ RedirectAllowed(loc) /\ AbsoluteAllowed(loc)
      BY <1>4 DEF FollowAbsolute
    <2>2. PICK answer \in Answers :
              /\ ResolveError(answer) = "none"
              /\ validated' = validated \cup ({loc.host} \X answer)
              /\ AuthorizeOrRefuse(req(answer)) /\ Followed(req(answer))
      BY <1>4 DEF FollowAbsolute
    <2>3. answer \subseteq Addresses /\ \A a \in answer : evaluate_ip(a) = "allowed"
      BY <2>2, ResolvedIsAllowed
    <2>4. loc \in Locations
      BY <2>1 DEF IndInv, ClientInv, ClientTypeOK, Responses, Redirected, Final
    <2>5. loc.host \in Hosts /\ loc.scheme \in Schemes
      BY <2>1, <2>4, ClientAssumption DEF AbsoluteAllowed
    <2>6. /\ req(answer) \in Requests /\ Target(req(answer)) = <<loc.host, Primary(answer)>>
          /\ Primary(answer) \in answer
      BY <2>2, <2>3, <2>5, PinnedRequest
    <2> HIDE DEF req
    <2>7. /\ Target(req(answer)) \in validated'
          /\ validated \subseteq validated' /\ validated' \subseteq Hosts \X Addresses
          /\ \A v \in validated' : evaluate_ip(v[2]) = "allowed"
      BY <1>2, <2>2, <2>3, <2>5, <2>6
    <2> QED
      BY <1>1, <2>1, <2>2, <2>6, <2>7, FollowedHop
  <1> QED
    BY <1>3, <1>4 DEF FollowRedirect

\* execute() returns or raises: only the client's state changes.
LEMMA FinishSteps ==
    ASSUME IndInv, FinishResponse \/ FinishClamped \/ FinishRefused
    PROVE  ClientInv'
  <1>1. /\ client = "answered" /\ client' = "closed" /\ phase' = "reapPending"
        /\ UNCHANGED <<current, via, remaining, response, exchanges, validated, delivered, policy,
                        mishaps>>
    BY DEF FinishResponse, FinishClamped, FinishRefused, ReturnResponse, ClampedRedirect,
           RedirectRefused, Redirected, Final, Ends, handles, daemon
  <1>2. ClientTypeOK' /\ CurrentIsValidated' /\ ValidatedIsAllowed'
    BY <1>1 DEF IndInv, ClientInv, ClientTypeOK, CurrentIsValidated, ValidatedIsAllowed
  <1>3. RedirectBudget' /\ DeliveredIsValidated'
    BY <1>1 DEF IndInv, ClientInv, RedirectBudget, DeliveredIsValidated
  <1>4. Budgeted'
    BY <1>1 DEF IndInv, ClientInv, Budgeted
  <1> QED
    BY <1>2, <1>3, <1>4 DEF ClientInv

LEMMA InitIndInv == Init => IndInv
  <1> SUFFICES ASSUME Init PROVE IndInv
    OBVIOUS
  <1> USE DEF Init, SandboxInit, ClientInit
  <1>1. SandboxTypeOK
    BY DEF SandboxTypeOK, Phases, Outcomes, OpenChain, Chains, Rules
  <1> ShownAsIs
    BY DEF ShownAsIs, OpenChain, Rules
  <1>2. EstablishedWhen /\ Compared /\ Probed /\ Tracked
    BY DEF EstablishedWhen, Compared, Probed, Tracked, Early, ContainerExplained, NetworkExplained
  <1> max_redirects \in Nat
    BY ClientAssumption
  <1>3. ClientTypeOK
    <2>1. NoResponse \in Responses
      BY DEF NoResponse, Responses
    <2>2. <<>> \in Seq(Locations)
      OBVIOUS
    <2> QED
      BY <2>1, <2>2 DEF ClientTypeOK
  <1>4. CurrentIsValidated /\ ValidatedIsAllowed /\ DeliveredIsValidated
    BY DEF CurrentIsValidated, ValidatedIsAllowed, DeliveredIsValidated
  <1>5. Budgeted
    BY DEF Budgeted
  <1>6. RedirectBudget
    <2>1. \A i, j \in DOMAIN via : via[i] = via[j] => i = j
      OBVIOUS
    <2> QED
      BY <2>1 DEF RedirectBudget
  <1> QED
    BY <1>1, <1>2, <1>3, <1>4, <1>5, <1>6 DEF IndInv, SandboxInv, ClientInv

LEMMA NextIndInv == IndInv /\ [Next]_vars => IndInv'
  <1> SUFFICES ASSUME IndInv, [Next]_vars PROVE IndInv'
    OBVIOUS
  <1>1. CASE Prepare
    BY <1>1, PrepareStep
  <1>2. CASE EstablishStep /\ UNCHANGED clientVars
    BY <1>2, EstablishSteps, ShownSteps, SandboxStepsKeepPolicy, OtherStepsKeepClient DEF IndInv
  <1>3. CASE ClientStep
    <2>1. SandboxInv'
      BY <1>3, ClientStepsKeepSandbox DEF IndInv
    <2>2. ClientInv'
      BY <1>3, EngineRequestStep, ExchangeSteps, FollowSteps, FinishSteps DEF ClientStep
    <2>3. ShownAsIs'
      BY <1>3, ClientStepsKeepSandbox DEF IndInv, ShownAsIs
    <2> QED
      BY <2>1, <2>2, <2>3 DEF IndInv
  <1>4. CASE (DestroyStep \/ DaemonStep \/ Killed) /\ UNCHANGED clientVars
    BY <1>4, DestroySteps, ShownSteps, SandboxStepsKeepPolicy, OtherStepsKeepClient DEF IndInv
  <1>5. CASE UNCHANGED vars
    <2>1. SandboxInv'
      BY <1>5 DEF IndInv, SandboxInv, SandboxTypeOK, EstablishedWhen, Compared, Probed, Tracked,
                  ContainerExplained, NetworkExplained, compare_against_policy, Allowed, vars,
                  sandboxVars
    <2>2. ClientInv' /\ ShownAsIs'
      BY <1>5, OtherStepsKeepClient DEF IndInv, ShownAsIs, vars, sandboxVars
    <2> QED
      BY <2>1, <2>2 DEF IndInv
  <1> QED
    BY <1>1, <1>2, <1>3, <1>4, <1>5 DEF Next

-----------------------------------------------------------------------------
\* The inductive invariant holds in every state of every attempt.
THEOREM Invariance == Spec => []IndInv
  BY InitIndInv, NextIndInv, PTL DEF Spec

\* The state of the sandbox and of the client keeps its type, and the hops left
\* to execute() never fall below zero.
THEOREM TypeCorrect == Spec => []TypeOK
  <1>1. IndInv => TypeOK
    BY DEF IndInv, SandboxInv, ClientInv, TypeOK
  <1> QED
    BY <1>1, Invariance, PTL

\* Whatever the rule scripts reported and whatever failed, a sandbox that
\* counts as established lets out its policy's addresses and no others, provided
\* that its chains hold no rule of a shape verify() does not read; and its
\* workload has no capabilities unless the probe was cut short.
THEOREM EstablishedMeansEnforced == Spec => []EstablishedIsEnforced
  <1>1. IndInv => EstablishedIsEnforced
    <2> SUFFICES ASSUME IndInv, established PROVE EstablishedIsEnforced
      BY DEF EstablishedIsEnforced
    <2>1. ASSUME dContainer = "running", "unreadRule" \notin mishaps, NEW a \in Addresses
          PROVE  LetsOut(a) <=> a \in policy
      BY <2>1, OnlyThePolicy DEF IndInv
    <2>2. privileged => mishaps \cap {"probeTimeout", "containerDied"} # {}
      BY DEF IndInv, SandboxInv, Probed
    <2> QED
      BY <2>1, <2>2 DEF EstablishedIsEnforced
  <1> QED
    BY <1>1, Invariance, PTL

\* However often a host is resolved again, wherever a redirect points and
\* whatever rules the chains hold, a request leaves the container only for an
\* address validated for its host; and only for one of the policy, provided
\* that the chains hold no rule of a shape verify() does not read.
THEOREM DeliveredToValidated == Spec => []DeliveredIsValidated
  <1>1. IndInv => DeliveredIsValidated
    BY DEF IndInv, ClientInv
  <1> QED
    BY <1>1, Invariance, PTL

\* For every max_redirects, execute() makes at most one exchange more than
\* that, and follows no location twice.
THEOREM BudgetHolds == Spec => []RedirectBudget
  <1>1. IndInv => RedirectBudget
    BY DEF IndInv, ClientInv
  <1> QED
    BY <1>1, Invariance, PTL

\* A container or network that outlives its attempt has one of the named
\* causes; destroy() forgets nothing else.
THEOREM LeftoversExplained == Spec => []LeftoversAreExplained
  <1>1. IndInv => LeftoversAreExplained
    BY DEF IndInv, SandboxInv, Tracked, ContainerExplained, NetworkExplained, LeftoversAreExplained
  <1> QED
    BY <1>1, Invariance, PTL
=============================================================================
