-------------------------- MODULE SandboxHttpClient --------------------------
(***************************************************************************)
(* The HTTP transport (scanning/sandbox/http_transport.py) with redirect   *)
(* validation (domain/scanning/redirects.py), the request contract         *)
(* (http_contract.py) and the program that runs inside the container       *)
(* (http_workload.py).                                                     *)
(*                                                                         *)
(* One logical request and the hops it is redirected over.  Paths, headers *)
(* and bodies are left out; a Location header is a record of what          *)
(* _next_hop tells apart.  Nothing in the repository calls                 *)
(* ScanCancellation.cancel, so cancellation.check never raises.            *)
(***************************************************************************)
EXTENDS TargetResolution, Sequences

CONSTANTS
    Locations,       \* values of the Location header
    max_redirects,   \* HttpLimits.max_redirects
    NoLocation, NoRequest

Forms == {"relative", "absolute", "malformed"}
Schemes == {"http", "https"}

ASSUME ClientAssumption ==
    /\ max_redirects \in Nat \ {0}
    /\ NoLocation \notin Locations
    /\ \A l \in Locations :
          /\ l.form \in Forms
          /\ l.scheme \in Schemes \cup {"other"}
          /\ l.host \in Hosts \cup {""}
          /\ l.portOk \in BOOLEAN

VARIABLES
    client,      \* "closed", "exchange" or "answered": where execute() is
    current,     \* the authorized request: binding with its pin, and scheme
    via,         \* the locations followed so far
    remaining,   \* remaining_hops
    response,    \* the last response: Location and whether it was clamped
    exchanges,   \* history: exchanges begun
    validated,   \* history: <<host, address>> pairs that passed the IP policy
    delivered    \* history: <<host, address>> pairs a request went out to

clientVars == <<client, current, via, remaining, response, exchanges,
                validated, delivered>>

Requests == [binding : Bindings, scheme : Schemes]
NoResponse == [location |-> NoLocation, truncated |-> FALSE]
Responses == [location : Locations \cup {NoLocation}, truncated : BOOLEAN]

\* seen_locations: every location that did not end the exchange is in via.
seen_locations == {via[i] : i \in DOMAIN via}

ClientTypeOK ==
    /\ client \in {"closed", "exchange", "answered"}
    /\ current \in Requests \cup {NoRequest}
    /\ via \in Seq(Locations)
    /\ remaining \in 0..max_redirects
    /\ response \in Responses
    /\ exchanges \in Nat
    /\ validated \subseteq Hosts \X Addresses
    /\ delivered \subseteq Hosts \X Addresses

ClientInit ==
    /\ client = "closed" /\ current = NoRequest
    /\ via = <<>> /\ remaining = max_redirects
    /\ response = NoResponse /\ exchanges = 0
    /\ validated = {} /\ delivered = {}

Target(req) == <<req.binding.hostname, req.binding.pinned_address>>

\* _authorize_or_refuse, and ConnectionTarget.for_context before it: the
\* request has a pin and the context's egress policy allows it.
AuthorizeOrRefuse(req) ==
    /\ req.binding.pinned_address # NoAddress
    /\ authorize(req.binding, req.binding.pinned_address)

\* execute() with the request the engine built for the origin.
Execute(req) ==
    /\ client = "closed" /\ exchanges = 0
    /\ AuthorizeOrRefuse(req)
    /\ client' = "exchange" /\ current' = req
    /\ UNCHANGED <<via, remaining, response, exchanges, validated, delivered>>

-----------------------------------------------------------------------------
(* _exchange *)

\* The request leaves the container, an answer comes back and is parsed.  A
\* redirect status without a Location header is an ordinary response.
ExchangeAnswered ==
    /\ client = "exchange"
    /\ client' = "answered"
    /\ exchanges' = exchanges + 1
    /\ delivered' = delivered \cup {Target(current)}
    /\ response' \in Responses
    /\ UNCHANGED <<current, via, remaining, validated>>

\* The exchange ends in a ControlledTransportError: a timeout, a TLS or
\* protocol error, or a workload that was killed or printed no result line.
ExchangeFails(reached) ==
    /\ client = "exchange"
    /\ client' = "closed"
    /\ exchanges' = exchanges + 1
    /\ delivered' = IF reached THEN delivered \cup {Target(current)} ELSE delivered
    /\ UNCHANGED <<current, via, remaining, response, validated>>

-----------------------------------------------------------------------------
(* The loop of execute() after a response. *)

Final == client = "answered" /\ response.location = NoLocation

\* A response without a redirect is returned, clamped or not.
ReturnResponse ==
    /\ Final
    /\ client' = "closed"
    /\ UNCHANGED <<current, via, remaining, response, exchanges, validated, delivered>>

\* A clamped redirect is a RESPONSE_TOO_LARGE.
ClampedRedirect ==
    /\ client = "answered" /\ ~Final /\ response.truncated
    /\ client' = "closed"
    /\ UNCHANGED <<current, via, remaining, response, exchanges, validated, delivered>>

\* Mutant of RedirectAllowed: the budget is not looked at.
RedirectAllowedAlways(loc) == loc \notin seen_locations

\* The loop check comes first, then the budget.
RedirectAllowed(loc) ==
    /\ loc \notin seen_locations
    /\ remaining > 0

\* What _next_hop and RedirectValidationService.evaluate refuse before they
\* resolve: unknown schemes, a step from https down to http, bad ports, a
\* missing host, a name that registration would reject.
AbsoluteAllowed(loc) ==
    /\ loc.form = "absolute"
    /\ loc.scheme \in Schemes
    /\ ~(current.scheme = "https" /\ loc.scheme = "http")
    /\ loc.portOk
    /\ loc.host # ""
    /\ loc.host \notin ProhibitedNames

\* Mutant of Followed: the hop is not counted.
FollowedUncounted(req) ==
    /\ client' = "exchange" /\ current' = req
    /\ via' = Append(via, response.location)
    /\ UNCHANGED <<remaining, response, exchanges, delivered>>

\* Bookkeeping common to all hops that are followed.
Followed(req) ==
    /\ client' = "exchange" /\ current' = req
    /\ remaining' = remaining - 1
    /\ via' = Append(via, response.location)
    /\ UNCHANGED <<response, exchanges, delivered>>

Redirected == client = "answered" /\ ~Final /\ ~response.truncated

\* A relative location keeps the origin, its binding and its pin.
FollowRelative ==
    /\ Redirected /\ RedirectAllowed(response.location)
    /\ response.location.form = "relative"
    /\ AuthorizeOrRefuse(current)
    /\ Followed(current) /\ UNCHANGED validated

\* Mutant of FollowAbsolute: the new host is asked for at the old address.
FollowAbsoluteStalePin ==
    LET loc == response.location IN
    /\ Redirected /\ RedirectAllowed(loc) /\ AbsoluteAllowed(loc)
    /\ \E answer \in Answers :
          /\ ResolveError(answer) = "none"
          /\ validated' = validated \cup ({loc.host} \X answer)
          /\ Followed([binding |-> [current.binding EXCEPT !.hostname = loc.host],
                       scheme |-> loc.scheme])

\* An absolute location is resolved and validated again, bound, and pinned to
\* the primary address of the new binding.
FollowAbsolute ==
    LET loc == response.location IN
    /\ Redirected /\ RedirectAllowed(loc) /\ AbsoluteAllowed(loc)
    /\ \E answer \in Answers :
          LET binding == create(loc.host, answer)
              pin == Primary(answer)
          IN  /\ ResolveError(answer) = "none"
              /\ CanPin(binding, pin)
              /\ validated' = validated \cup ({loc.host} \X answer)
              /\ LET req == [binding |-> with_pinned(binding, pin), scheme |-> loc.scheme]
                 IN  AuthorizeOrRefuse(req) /\ Followed(req)

\* RedirectDestinationBlockedError: a loop, the budget, a refused location, or
\* a name that does not resolve to admissible addresses only.  A location
\* urlsplit cannot parse raises ValueError.
RedirectRefused ==
    /\ Redirected
    /\ LET loc == response.location IN
       \/ ~RedirectAllowed(loc)
       \/ loc.form # "relative" /\ ~AbsoluteAllowed(loc)
       \/ loc.form = "absolute" /\ AbsoluteAllowed(loc)
          /\ \E answer \in Answers : ResolveError(answer) # "none"
    /\ client' = "closed"
    /\ UNCHANGED <<current, via, remaining, response, exchanges, validated, delivered>>
=============================================================================
