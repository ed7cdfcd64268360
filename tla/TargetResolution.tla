--------------------------- MODULE TargetResolution ---------------------------
(***************************************************************************)
(* Scan-time resolution of a host name into a validated binding: the IP    *)
(* policy, the resolver's outcomes, the binding and the egress allow-list  *)
(* derived from it (domain/scanning/{ip_policy,resolver,resolution,        *)
(* binding,egress}.py, infrastructure/network/dns_resolver.py,             *)
(* scanning/sandbox/policy.py).                                            *)
(*                                                                         *)
(* An address is a number; numbers follow the order (version, int) in      *)
(* which resolve_all sorts.  A name is resolved afresh at every call and   *)
(* DNS may change between two calls, so a call receives any answer.        *)
(***************************************************************************)
EXTENDS Naturals, FiniteSets

CONSTANTS
    Addresses,        \* addresses a name may resolve to
    V6,               \* the IPv6 ones among them
    SpecialUse,       \* the ipaddress attributes of an address that refuse it
    Hosts,            \* host names
    ProhibitedNames,  \* names normalize_target rejects
    NoAddress

Reasons == {"cloud_metadata", "unspecified", "loopback", "link_local",
            "multicast", "reserved", "private", "not_global"}

ASSUME ResolutionAssumption ==
    /\ Addresses \subseteq Nat
    /\ V6 \subseteq Addresses
    /\ \A a \in Addresses \ V6, b \in V6 : a < b
    /\ SpecialUse \in [Addresses -> SUBSET Reasons]
    /\ ProhibitedNames \subseteq Hosts
    /\ NoAddress \notin Addresses

-----------------------------------------------------------------------------
(* ip_policy.py *)

\* The order of the checks after the metadata address, most specific first.
CheckOrder == <<"unspecified", "loopback", "link_local", "multicast",
                "reserved", "private", "not_global">>

\* The verdict on one address: "allowed", or the reason of the first check
\* that refuses.
evaluate_ip(a) ==
    CASE "cloud_metadata" \in SpecialUse[a] -> "cloud_metadata"
      [] SpecialUse[a] = {} -> "allowed"
      [] OTHER -> LET hit(i) == CheckOrder[i] \in SpecialUse[a]
                  IN  CheckOrder[CHOOSE i \in 1..7 :
                          hit(i) /\ \A j \in 1..(i - 1) : ~hit(j)]

\* evaluate_all returns None: one prohibited record poisons the whole name.
evaluate_all(addrs) == \A a \in addrs : evaluate_ip(a) = "allowed"

-----------------------------------------------------------------------------
(* dns_resolver.py, resolver.py: a call observes a set of records.  Every   *)
(* failure, and a lookup without usable records, is a ResolutionFailure,    *)
(* here the empty answer.                                                   *)

Answers == SUBSET Addresses

resolve_all(answer) == [success |-> answer # {}, addresses |-> answer]

\* The first of the sorted addresses.
Primary(addrs) == CHOOSE a \in addrs : \A b \in addrs : a <= b

-----------------------------------------------------------------------------
(* binding.py, egress.py, policy.py *)

Bindings == [hostname : Hosts, addresses : SUBSET Addresses,
             pinned_address : Addresses \cup {NoAddress}]

\* ValidatedTargetBinding.create, after its validation.
create(host, addrs) ==
    [hostname |-> host, addresses |-> addrs, pinned_address |-> NoAddress]

\* The guard of with_pinned, and the binding it returns.
CanPin(binding, a) == a \in binding.addresses
with_pinned(binding, a) == [binding EXCEPT !.pinned_address = a]

\* DefaultDenyEgressPolicy.authorize of the context created from a binding:
\* exactly the binding's addresses.
authorize(binding, a) == a \in binding.addresses

\* SandboxEgressPolicy: the same addresses, split by family for the rules.
for_binding(binding) == binding.addresses
allowed_v4(pol) == pol \ V6
allowed_v6(pol) == pol \cap V6

-----------------------------------------------------------------------------
(* resolution.py *)

\* ScanTargetResolutionService.resolve: the error it raises for an answer, or
\* "none" when it returns the binding create(host, answer).
ResolveError(answer) ==
    CASE ~resolve_all(answer).success -> "unresolved"
      [] ~evaluate_all(resolve_all(answer).addresses) -> "blocked"
      [] OTHER -> "none"
=============================================================================
