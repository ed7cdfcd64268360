---------------------------- MODULE DockerSandbox ----------------------------
(***************************************************************************)
(* One egress sandbox (scanning/sandbox/docker_sandbox.py) and what the    *)
(* Docker daemon holds for it: a network, a container and the OUTPUT       *)
(* chains of the container's two netfilter tables.                         *)
(*                                                                         *)
(* A CLI call ends in one of three ways: exit code 0, another exit code,   *)
(* or an exception (TimeoutExpired, OSError).  A create that raised may    *)
(* have taken effect, may take effect later (inflight), or never will.     *)
(* What went wrong is remembered in mishaps, which no code reads.          *)
(* extra_networks is empty in production and is left out; the network and  *)
(* container names are fresh (uuid4), so one attempt cannot meet another's *)
(* resources.                                                              *)
(***************************************************************************)
EXTENDS TargetResolution

CONSTANT Mishaps    \* what may go wrong outside the process

VARIABLES
    phase,          \* the statement establish(), the workload or destroy() is at
    policy,         \* SandboxEgressPolicy: the addresses it allows
    network,        \* self._network is set
    container,      \* self._container is set
    pending,        \* self._pending_container is set
    established,    \* self._is_established
    dNetwork,       \* daemon: the network exists
    dContainer,     \* daemon: "absent", "created", "running" or "exited"
    chain,          \* kernel: the OUTPUT chain of each family
    inflight,       \* creations the daemon may still carry out
    privileged,     \* the runtime leaves capabilities to the workload's uid
    mishaps,        \* history: what went wrong
    outcome         \* how the attempt ends, for the caller

sandboxVars == <<phase, policy, network, container, pending, established,
                 dNetwork, dContainer, chain, inflight, privileged, mishaps,
                 outcome>>
handles == <<network, container, pending>>
daemon == <<dNetwork, dContainer, chain, inflight>>

Families == {"v4", "v6"}
InFamily(f) == IF f = "v6" THEN V6 ELSE Addresses \ V6

\* A chain: whether its policy drops, the destinations a reader of its dump
\* collects (_ACCEPT_DEST_RE), and those the kernel accepts.  The two sets
\* differ for a rule that accepts without a bare "-d X" before its "-j ACCEPT".
Rules(d, destinations) == [drop |-> d, named |-> destinations, accepts |-> destinations]

OpenChain == [f \in Families |-> Rules(FALSE, {})]

\* allowed_v4 / allowed_v6 of the policy.
Allowed(f) == IF f = "v6" THEN allowed_v6(policy) ELSE allowed_v4(policy)

\* The chain of the address's family lets a new connection out.
LetsOut(a) ==
    LET f == IF a \in V6 THEN "v6" ELSE "v4"
    IN  ~chain[f].drop \/ a \in chain[f].accepts

Phases == {"idle", "preflight", "createNetwork", "createContainer",
           "awaitRunning", "installV4", "installV6", "verify", "identity",
           "probe", "up", "reapPending", "rmContainer", "rmNetwork",
           "destroyed"}

AllMishaps == {"networkCreateRaised", "containerCreateRaised", "createdLate",
               "rmFailed", "probeTimeout", "containerDied", "chainDrift",
               "unreadRule", "killed"}

Chains == [drop : BOOLEAN, named : SUBSET Addresses, accepts : SUBSET Addresses]

Outcomes == {"none", "unresolved", "blocked", "unavailable", "setupFailed",
             "verificationFailed", "raised", "egressDenied",
             "redirectBlocked", "analysis", "unreachable"}

SandboxTypeOK ==
    /\ phase \in Phases
    /\ policy \subseteq Addresses
    /\ network \in BOOLEAN /\ container \in BOOLEAN /\ pending \in BOOLEAN
    /\ established \in BOOLEAN
    /\ dNetwork \in BOOLEAN
    /\ dContainer \in {"absent", "created", "running", "exited"}
    /\ chain \in [Families -> Chains]
    /\ inflight \subseteq {"network", "container"}
    /\ privileged \in BOOLEAN
    /\ mishaps \subseteq AllMishaps
    /\ outcome \in Outcomes

SandboxInit ==
    /\ phase = "idle" /\ policy = {} /\ outcome = "none"
    /\ network = FALSE /\ container = FALSE /\ pending = FALSE
    /\ established = FALSE
    /\ dNetwork = FALSE /\ dContainer = "absent" /\ chain = OpenChain
    /\ inflight = {} /\ mishaps = {}
    /\ privileged \in BOOLEAN

-----------------------------------------------------------------------------
(* establish().  Every failure inside its try block ends in destroy(), by   *)
(* the failing step itself, by _destroy_quietly, or by both; the second     *)
(* destroy() finds all handles cleared and does nothing.                    *)

Goes(next) == phase' = next /\ UNCHANGED outcome

\* An exception leaves establish(): destroy() begins.
Fails(error) ==
    /\ phase' = "reapPending"
    /\ outcome' = error

Noted(m) == m \in Mishaps /\ mishaps' = mishaps \cup {m}

\* _preflight runs before the try block: nothing was made, nothing to destroy.
Preflight ==
    /\ phase = "preflight"
    /\ \/ Goes("createNetwork")
       \/ phase' = "destroyed" /\ outcome' = "unavailable"
    /\ UNCHANGED <<policy, handles, established, daemon, privileged, mishaps>>

\* _create_network: the handle is set only after the command returned 0.
CreateNetwork ==
    /\ phase = "createNetwork"
    /\ \/ /\ dNetwork' = TRUE /\ network' = TRUE /\ Goes("createContainer")
          /\ UNCHANGED <<inflight, mishaps>>
       \/ Fails("setupFailed") /\ UNCHANGED <<dNetwork, network, inflight, mishaps>>
       \/ /\ Noted("networkCreateRaised") /\ Fails("setupFailed")
          /\ UNCHANGED network
          /\ \/ dNetwork' = TRUE /\ UNCHANGED inflight
             \/ inflight' = {"network"} /\ UNCHANGED dNetwork
    /\ UNCHANGED <<policy, container, pending, established, dContainer, chain, privileged>>

\* Mutant of CreateContainer: the name is recorded after the command.
CreateContainerUnreaped ==
    /\ phase = "createContainer"
    /\ \/ /\ dContainer' \in {"created", "running"}
          /\ container' = TRUE /\ Goes("awaitRunning")
          /\ UNCHANGED <<pending, inflight, mishaps>>
       \/ /\ dContainer' \in {"absent", "created"} /\ Fails("setupFailed")
          /\ UNCHANGED <<container, pending, inflight, mishaps>>
    /\ UNCHANGED <<policy, network, established, dNetwork, chain, privileged>>

\* _create_container: the name is recorded in _pending_container before the
\* command.  A run that exits with an error may leave a container that never
\* started.
CreateContainer ==
    /\ phase = "createContainer"
    /\ \/ /\ dContainer' \in {"created", "running"}
          /\ pending' = FALSE /\ container' = TRUE /\ Goes("awaitRunning")
          /\ UNCHANGED <<inflight, mishaps>>
       \/ /\ dContainer' \in {"absent", "created"}
          /\ pending' = TRUE /\ Fails("setupFailed")
          /\ UNCHANGED <<container, inflight, mishaps>>
       \/ /\ Noted("containerCreateRaised")
          /\ pending' = TRUE /\ Fails("setupFailed")
          /\ \/ dContainer' \in {"created", "running"} /\ UNCHANGED inflight
             \/ inflight' = {"container"} /\ UNCHANGED dContainer
          /\ UNCHANGED container
    /\ UNCHANGED <<policy, network, established, dNetwork, chain, privileged>>

\* Mutant of AwaitRunning: it polls without a deadline.
AwaitRunningForever ==
    /\ phase = "awaitRunning"
    /\ dContainer = "running" /\ Goes("installV4")
    /\ UNCHANGED <<policy, handles, established, daemon, privileged, mishaps>>

\* _await_running polls until the container runs, the deadline passes or
\* inspect cannot be invoked.
AwaitRunning ==
    /\ phase = "awaitRunning"
    /\ \/ dContainer = "running" /\ Goes("installV4")
       \/ Fails("setupFailed")
    /\ UNCHANGED <<policy, handles, established, daemon, privileged, mishaps>>

\* One of the two scripts of _install_egress_rules.  It is a && chain, so an
\* error leaves a part of the rules.  A script that reports success normally
\* leaves the rules of the policy.  A runtime where it leaves others is a
\* chainDrift when the dump shows them for what they are, and an unreadRule
\* when a chain that drops by default accepts what the dump's reader does not
\* collect, or fails to accept what it does.
InstallEgressRules(at, f, next) ==
    /\ phase = at
    /\ \/ /\ dContainer = "running" /\ Goes(next)
          /\ \/ /\ chain' = [chain EXCEPT ![f] = Rules(TRUE, Allowed(f))]
                /\ UNCHANGED mishaps
             \/ /\ Noted("chainDrift")
                /\ \E d \in BOOLEAN, destinations \in SUBSET InFamily(f) :
                      chain' = [chain EXCEPT ![f] = Rules(d, destinations)]
             \/ /\ Noted("unreadRule")
                /\ \E ns, as \in SUBSET InFamily(f) :
                      /\ ns # as
                      /\ chain' = [chain EXCEPT ![f] =
                                     [drop |-> TRUE, named |-> ns, accepts |-> as]]
       \/ /\ Fails("setupFailed") /\ UNCHANGED mishaps
          /\ \/ UNCHANGED chain
             \/ /\ dContainer = "running"
                /\ \E destinations \in SUBSET Allowed(f) :
                      chain' = [chain EXCEPT ![f] = Rules(TRUE, destinations)]
    /\ UNCHANGED <<policy, handles, established, dNetwork, dContainer, inflight, privileged>>

\* Mutant of compare_against_policy: only unexpected destinations count, and
\* the IPv6 chain is compared only when the policy has IPv6 addresses.
compare_v4_only ==
    \A f \in {g \in Families : Allowed(g) # {}} :
        chain[f].drop /\ chain[f].named \subseteq Allowed(f)

\* _compare_against_policy finds no problem: both chains drop by default, and
\* the destinations collected from their dumps are the policy's of their
\* family.  What a rule of another shape accepts is not looked at.
compare_against_policy ==
    \A f \in Families : chain[f].drop /\ chain[f].named = Allowed(f)

\* verify(): dumps and comparison.  A dump that fails or raises fails too.
Verify ==
    /\ phase = "verify"
    /\ \/ dContainer = "running" /\ compare_against_policy /\ Goes("identity")
       \/ dContainer = "running" /\ ~compare_against_policy /\ Fails("verificationFailed")
       \/ \E e \in {"verificationFailed", "setupFailed"} : Fails(e)
    /\ UNCHANGED <<policy, handles, established, daemon, privileged, mishaps>>

\* _verify_privilege_drop, first exec: `id -u` must succeed with the uid.  A
\* timeout is exit code 124; an exec that cannot be invoked raises as it is.
VerifyIdentity ==
    /\ phase = "identity"
    /\ \/ dContainer = "running" /\ Goes("probe")
       \/ \E e \in {"verificationFailed", "raised"} : Fails(e)
    /\ UNCHANGED <<policy, handles, established, daemon, privileged, mishaps>>

\* Second exec: reading netfilter must not succeed.  Any other exit code
\* passes: the refusal, a container that is gone, and the 124 of a timeout.
\* The sandbox is established.
VerifyPrivilegeDrop ==
    /\ phase = "probe"
    /\ \/ /\ privileged /\ dContainer = "running"
          /\ Fails("verificationFailed") /\ UNCHANGED <<established, mishaps>>
       \/ /\ ~privileged \/ dContainer # "running"
          /\ established' = TRUE /\ Goes("up") /\ UNCHANGED mishaps
       \/ /\ Noted("probeTimeout")
          /\ established' = TRUE /\ Goes("up")
       \/ Fails("raised") /\ UNCHANGED <<established, mishaps>>
    /\ UNCHANGED <<policy, handles, daemon, privileged>>

-----------------------------------------------------------------------------
(* destroy(): each command is best effort and its handle is cleared         *)
(* whatever it returned.                                                    *)

\* rm -f of a container: it is gone, or the command failed or timed out.
RemoveContainer ==
    \/ dContainer' = "absent" /\ UNCHANGED mishaps
    \/ dContainer # "absent" /\ Noted("rmFailed") /\ UNCHANGED dContainer

\* Entry of destroy(), and the container whose creation was not confirmed.
ReapPending ==
    /\ phase = "reapPending" /\ Goes("rmContainer")
    /\ established' = FALSE /\ pending' = FALSE
    /\ IF pending THEN RemoveContainer ELSE UNCHANGED <<dContainer, mishaps>>
    /\ UNCHANGED <<policy, network, container, dNetwork, chain, inflight, privileged>>

DestroyContainer ==
    /\ phase = "rmContainer" /\ Goes("rmNetwork")
    /\ container' = FALSE
    /\ IF container THEN RemoveContainer ELSE UNCHANGED <<dContainer, mishaps>>
    /\ UNCHANGED <<policy, network, pending, established, dNetwork, chain, inflight, privileged>>

\* The daemon refuses to remove a network that a running container uses.
DestroyNetwork ==
    /\ phase = "rmNetwork" /\ Goes("destroyed")
    /\ network' = FALSE
    /\ IF ~network THEN UNCHANGED <<dNetwork, mishaps>>
       ELSE \/ dContainer # "running" /\ dNetwork' = FALSE /\ UNCHANGED mishaps
            \/ dContainer = "running" /\ UNCHANGED <<dNetwork, mishaps>>
            \/ Noted("rmFailed") /\ UNCHANGED dNetwork
    /\ UNCHANGED <<policy, container, pending, established, dContainer, chain, inflight, privileged>>

-----------------------------------------------------------------------------
(* The daemon and the machine (external). *)

\* A container that `docker run -d` returned for begins to run.
ContainerStarts ==
    /\ dContainer = "created" /\ phase = "awaitRunning"
    /\ dContainer' = "running"
    /\ UNCHANGED <<phase, policy, handles, established, dNetwork, chain,
                   inflight, privileged, mishaps, outcome>>

\* It stops (out of memory, daemon restart); its network namespace goes too.
ContainerDies ==
    /\ dContainer = "running" /\ Noted("containerDied")
    /\ dContainer' = "exited" /\ chain' = OpenChain
    /\ UNCHANGED <<phase, policy, handles, established, dNetwork, inflight,
                   privileged, outcome>>

\* A creation whose client gave up is carried out, or dropped.
LateCreate ==
    \E what \in inflight :
        /\ inflight' = inflight \ {what}
        /\ \/ UNCHANGED <<dNetwork, dContainer, mishaps>>
           \/ /\ Noted("createdLate")
              /\ IF what = "network"
                 THEN dNetwork' = TRUE /\ UNCHANGED dContainer
                 ELSE /\ dContainer' = IF dNetwork THEN "running" ELSE "created"
                      /\ UNCHANGED dNetwork
        /\ UNCHANGED <<phase, policy, handles, established, chain, privileged, outcome>>

\* The worker process is killed (task_time_limit): no step follows.
Killed ==
    /\ phase \notin {"idle", "destroyed"} /\ Noted("killed")
    /\ phase' = "destroyed"
    /\ UNCHANGED <<policy, handles, established, daemon, privileged, outcome>>

EstablishStep ==
    \/ Preflight
    \/ CreateNetwork
    \/ CreateContainer
    \/ AwaitRunning
    \/ InstallEgressRules("installV4", "v4", "installV6")
    \/ InstallEgressRules("installV6", "v6", "verify")
    \/ Verify
    \/ VerifyIdentity
    \/ VerifyPrivilegeDrop

DestroyStep == ReapPending \/ DestroyContainer \/ DestroyNetwork

DaemonStep == ContainerStarts \/ ContainerDies \/ LateCreate
=============================================================================
