------------------------ MODULE SandboxedScanExecutor ------------------------
(***************************************************************************)
(* One scan attempt (scanning/runner.py, domain/scans/pipeline.py, and     *)
(* the request of scanning/engines/http_analysis.py): resolve, derive the  *)
(* policy, establish the sandbox, run the engine's one request through it, *)
(* destroy it.  Composes DockerSandbox and SandboxHttpClient: a request    *)
(* gets out of the container only where the kernel's chain lets it.        *)
(***************************************************************************)
EXTENDS DockerSandbox, SandboxHttpClient

CONSTANT TargetHost    \* host of the target being scanned

ASSUME TargetAssumption == TargetHost \in Hosts /\ Mishaps \subseteq AllMishaps

vars == <<sandboxVars, clientVars>>

\* Every variable of the sandbox and of the client holds a value of its kind;
\* remaining_hops never falls below zero.
TypeOK == SandboxTypeOK /\ ClientTypeOK

Init == SandboxInit /\ ClientInit

-----------------------------------------------------------------------------
\* prepare(): resolution, validation, the policy and the sandbox object.
Prepare ==
    /\ phase = "idle"
    /\ \E answer \in Answers :
          IF ResolveError(answer) = "none"
          THEN /\ phase' = "preflight"
               /\ policy' = for_binding(create(TargetHost, answer))
               /\ validated' = validated \cup ({TargetHost} \X answer)
               /\ UNCHANGED outcome
          ELSE /\ phase' = "destroyed" /\ outcome' = ResolveError(answer)
               /\ UNCHANGED <<policy, validated>>
    /\ UNCHANGED <<handles, established, daemon, privileged, mishaps>>
    /\ UNCHANGED <<client, current, via, remaining, response, exchanges, delivered>>

\* execute_scan and HttpSecurityAnalysisEngine.execute: pin the primary
\* address, build the one request of the engine, hand it to the client.
EngineRequest ==
    /\ phase = "up" /\ established
    /\ \E scheme \in Schemes :
          LET binding == create(TargetHost, policy)
          IN  Execute([binding |-> with_pinned(binding, Primary(policy)), scheme |-> scheme])
    /\ UNCHANGED sandboxVars

\* sandbox.run is refused unless the sandbox is established.
Running == phase = "up" /\ established

\* The attempt ends: `finally: sandbox.destroy()`.
Ends(result) ==
    /\ phase' = "reapPending" /\ outcome' = result
    /\ UNCHANGED <<policy, handles, established, daemon, privileged, mishaps>>

\* A request that the kernel lets out may be answered.
Exchange ==
    /\ Running /\ dContainer = "running"
    /\ client = "exchange" /\ LetsOut(current.binding.pinned_address)
    /\ ExchangeAnswered
    /\ UNCHANGED sandboxVars

\* ControlledTransportError: the engine reports the target as unreachable.  A
\* packet the chain drops, or a container that died, ends here too.
ExchangeError ==
    /\ Running /\ client = "exchange"
    /\ \/ ExchangeFails(FALSE)
       \/ /\ dContainer = "running" /\ LetsOut(current.binding.pinned_address)
          /\ ExchangeFails(TRUE)
    /\ Ends("unreachable")

\* The docker client cannot be invoked: the exception leaves the engine.
ExchangeRaises ==
    /\ Running /\ client = "exchange"
    /\ ExchangeFails(FALSE)
    /\ Ends("raised")

FollowRedirect ==
    /\ Running
    /\ FollowRelative \/ FollowAbsolute
    /\ UNCHANGED sandboxVars

FinishResponse == Running /\ ReturnResponse /\ Ends("analysis")
FinishClamped == Running /\ ClampedRedirect /\ Ends("unreachable")
FinishRefused == Running /\ RedirectRefused /\ Ends("redirectBlocked")

ClientStep ==
    \/ EngineRequest
    \/ Exchange
    \/ ExchangeError
    \/ ExchangeRaises
    \/ FollowRedirect
    \/ FinishResponse
    \/ FinishClamped
    \/ FinishRefused

Next ==
    \/ Prepare
    \/ EstablishStep /\ UNCHANGED clientVars
    \/ ClientStep
    \/ DestroyStep /\ UNCHANGED clientVars
    \/ DaemonStep /\ UNCHANGED clientVars
    \/ Killed /\ UNCHANGED clientVars

Spec == Init /\ [][Next]_vars

\* The worker thread goes on with the attempt: every command has a timeout.
ThreadStep ==
    \/ Prepare
    \/ EstablishStep /\ UNCHANGED clientVars
    \/ ClientStep
    \/ DestroyStep /\ UNCHANGED clientVars

FairSpec == Spec /\ WF_vars(ThreadStep)

-----------------------------------------------------------------------------
(* Properties *)

\* A sandbox counts as established only while the kernel enforces exactly its
\* policy in both families, whatever the rule scripts reported, unless a chain
\* holds a rule of a shape that _compare_against_policy does not read; and only
\* if the workload's uid has no capabilities or the probe for them timed out
\* (establish, verify, _verify_privilege_drop).
EstablishedIsEnforced ==
    established =>
        /\ dContainer = "running" /\ "unreadRule" \notin mishaps =>
              \A a \in Addresses : LetsOut(a) <=> a \in policy
        /\ privileged => mishaps \cap {"probeTimeout", "containerDied"} # {}

\* A request leaves the container only for an address that the IP policy
\* admitted as an address of the host it is addressed to, in this attempt,
\* whatever rules the chains hold.  It is also one the sandbox was established
\* for, so that a redirect can change the host and never the set of machines
\* talked to, unless a chain holds a rule that _compare_against_policy does not
\* read (execute, _next_hop, the OUTPUT chain).
DeliveredIsValidated ==
    \A d \in delivered :
        /\ d \in validated /\ evaluate_ip(d[2]) = "allowed"
        /\ "unreadRule" \notin mishaps => d[2] \in policy

\* The redirect budget: at most max_redirects hops after the first exchange,
\* and no location is followed twice (execute).
RedirectBudget ==
    /\ exchanges <= max_redirects + 1
    /\ \A i, j \in DOMAIN via : via[i] = via[j] => i = j

\* When an attempt is over, a container it left behind is one whose removal
\* failed, whose late creation came after the reaping, or whose worker was
\* killed; a network it left behind is one of these or one whose creation
\* raised (destroy, _pending_container).
LeftoversAreExplained ==
    phase = "destroyed" =>
        /\ dContainer # "absent" => mishaps \cap {"rmFailed", "createdLate", "killed"} # {}
        /\ dNetwork => mishaps \cap {"rmFailed", "createdLate", "killed", "networkCreateRaised"} # {}

\* Every attempt that began ends, and ends with its sandbox torn down.
AttemptEnds == <>(phase = "destroyed" /\ (established => "killed" \in mishaps))
=============================================================================
