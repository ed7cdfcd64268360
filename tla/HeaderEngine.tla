---------------------------- MODULE HeaderEngine ----------------------------
(***************************************************************************)
(* The passive engine scanning/engines/http_analysis.py: what it observes  *)
(* and finds in one response, and the identity that                        *)
(* domain/scanning/findings.py and domain/scans/fingerprinting.py give to  *)
(* a finding.                                                              *)
(*                                                                         *)
(* A response keeps the security headers it sends, whether the last        *)
(* X-Content-Type-Options says nosniff, the attribute tokens of its        *)
(* cookies, and the headers that disclose the server.  A title is what it  *)
(* is about and what it says of it; the location is the same throughout a  *)
(* scan, so category and title are the id.                                 *)
(***************************************************************************)
EXTENDS Naturals, Sequences, SequencesExt, FiniteSetsExt

CONSTANT Unreachable  \* the exchange ended in a ControlledTransportError

SecurityHeaders ==
    <<"content-security-policy", "strict-transport-security",
      "x-content-type-options", "x-frame-options", "referrer-policy",
      "permissions-policy">>

xcto == "x-content-type-options"
ServerHeaders == <<"server", "x-powered-by", "x-generator", "x-framework">>

\* An observation and a finding, by category and title; which observation a
\* finding cites is left out.
Observation(category, about, says) ==
    [category |-> category, about |-> about, says |-> says]

Finding(category, about, says) ==
    [category |-> category, about |-> about, says |-> says]

\* make_id hashes category, title and location.
make_id(f) == <<f.category, f.about, f.says>>

Ids(findings) == {make_id(f) : f \in ToSet(findings)}

(***************************************************************************)
(* Each assessment takes a result so far and extends it.                   *)
(***************************************************************************)
NoResult == [observations |-> <<>>, findings |-> <<>>]

Observed(result, o) ==
    [result EXCEPT !.observations = Append(@, o)]

\* An observation and the finding it gives rise to.
Found(result, o, says) ==
    [observations |-> Append(result.observations, o),
     findings |-> Append(result.findings, Finding(o.category, o.about, says))]

_assess_transport(response) ==
    Observed(NoResult, Observation("http.transport", "posture", response.scheme))

assess_header(response, header, result) ==
    LET Says(what) == Observation("http.security-headers", header, what)
    IN  CASE header \notin response.sent ->
                Found(result, Says("absent"), "missing")
          [] header \in response.sent /\ header = xcto /\ ~response.nosniff ->
                Found(result, Says("nonstandard"), "nonstandard")
          [] OTHER -> Observed(result, Says("present"))

\* The result after each turn of the loop over the headers.
after_headers(response, result) ==
    LET after[i \in 0..Len(SecurityHeaders)] ==
            IF i = 0 THEN result
            ELSE assess_header(response, SecurityHeaders[i], after[i - 1])
    IN  after

\* The rule for each header in turn, then HSTS over plain http.
_assess_headers(response, result) ==
    LET all == after_headers(response, result)[Len(SecurityHeaders)]
    IN  IF response.finalScheme = "http"
           /\ "strict-transport-security" \in response.sent
        THEN Observed(all, Observation("http.security-headers",
                                       "strict-transport-security", "over http"))
        ELSE all

(***************************************************************************)
(* Cookies.  A cookie is the sequence of its attribute tokens, stripped    *)
(* and lowercased.                                                         *)
(***************************************************************************)
ValidSameSite == {"strict", "lax", "none"}

\* The tokens a cookie may carry, and what follows "samesite=" in one.
SameSiteOf == [samesite_lax |-> "lax", samesite_odd |-> "odd",
               samesite_padded |-> " lax"]
Tokens == {"secure", "httponly", "path=/secure"} \cup DOMAIN SameSiteOf

\* redact_cookie_value finds "secure" anywhere in the attributes.
SaysSecure == {"secure", "path=/secure"}

SameSiteTokens(cookie) == SelectSeq(cookie, LAMBDA t : t \in DOMAIN SameSiteOf)

\* Mutant: split(";") instead of split(";", 1) leaves one attribute.
redact_first_attribute(cookie) ==
    [Secure |-> cookie # <<>> /\ Head(cookie) \in SaysSecure,
     HttpOnly |-> cookie # <<>> /\ Head(cookie) = "httponly",
     SameSite |-> "unspecified"]

\* What is kept of a Set-Cookie header: the value is dropped, the last
\* SameSite counts, its padding stripped.
redact_cookie_value(cookie) ==
    [Secure |-> ToSet(cookie) \cap SaysSecure # {},
     HttpOnly |-> "httponly" \in ToSet(cookie),
     SameSite |-> LET s == SameSiteTokens(cookie) IN
         CASE s = <<>> -> "unspecified"
           [] s # <<>> /\ Last(s) = "samesite_odd" -> "invalid"
           [] OTHER -> "lax"]

\* The findings' own reading of the flags: whole tokens, and the first
\* SameSite as it stands.
SameSiteGap(cookie) ==
    LET s == SameSiteTokens(cookie)
    IN  s = <<>> \/ SameSiteOf[Head(s)] \notin ValidSameSite

Lacks(cookies, attribute) ==
    \E i \in DOMAIN cookies : IF attribute = "samesite"
                              THEN SameSiteGap(cookies[i])
                              ELSE attribute \notin ToSet(cookies[i])

CookieAttributes == <<"secure", "httponly", "samesite">>

\* The redacted cookies.
cookie_summary(cookies) ==
    Observation("http.cookies", "set-cookie",
                [i \in DOMAIN cookies |-> redact_cookie_value(cookies[i])])

\* One observation and one finding for an attribute that some cookie lacks.
assess_attribute(cookies, attribute, result) ==
    IF Lacks(cookies, attribute)
    THEN Found(result, Observation("http.cookies", attribute, "lacking"), "lacking")
    ELSE result

\* The result after each attribute.
after_attributes(cookies, result) ==
    LET after[i \in 0..Len(CookieAttributes)] ==
            IF i = 0 THEN result
            ELSE assess_attribute(cookies, CookieAttributes[i], after[i - 1])
    IN  after

_assess_cookies(response, result) ==
    LET cookies == response.cookies
    IN  IF cookies = <<>> THEN result
        ELSE after_attributes(cookies, Observed(result, cookie_summary(cookies)))
                 [Len(CookieAttributes)]

assess_server_header(response, header, result) ==
    IF header \in response.discloses
    THEN Observed(result, Observation("http.server-info", header, "exposed"))
    ELSE result

\* The result after each header that may disclose the server.
after_server_headers(response, result) ==
    LET after[i \in 0..Len(ServerHeaders)] ==
            IF i = 0 THEN result
            ELSE assess_server_header(response, ServerHeaders[i], after[i - 1])
    IN  after

_assess_server_info(response, result) ==
    after_server_headers(response, result)[Len(ServerHeaders)]

_unreachable_result ==
    Found(NoResult, Observation("http.transport", "response", "unreachable"),
          "none obtained")

\* HttpSecurityAnalysisEngine.execute, past the exchange itself.
execute(response) ==
    IF response = Unreachable THEN _unreachable_result
    ELSE _assess_server_info(response,
             _assess_cookies(response,
                 _assess_headers(response, _assess_transport(response))))

(***************************************************************************)
(* Cross-scan identity.  The category is the canonical code of a finding,  *)
(* so the rules for the engine's own categories are never looked up.       *)
(***************************************************************************)
NoFingerprint == <<>>

\* The table has all four categories of the engine.
canonical_category(category) ==
    CASE category \in {"http.security-headers", "http.cookies",
                       "http.server-info"} -> "MISSING_SECURITY_HEADER"
      [] category = "http.transport" -> "WEAK_CIPHER"

\* Mutant: the category alone identifies a finding.
extract_category(category, f) ==
    IF f.category = "http.cookies" THEN NoFingerprint ELSE <<category>>

\* A header's name, whether missing or nonstandard; a title of a cookie has
\* none; WEAK_CIPHER takes the title.
extract_identifier(category, f) ==
    CASE category = "MISSING_SECURITY_HEADER" ->
            IF f.about \in ToSet(SecurityHeaders) THEN <<f.about>>
            ELSE NoFingerprint
      [] category = "WEAK_CIPHER" -> <<f.about, f.says>>
      [] OTHER -> NoFingerprint

\* _safe_fingerprint: None when no identifier can be derived.
generate_fingerprint(f) ==
    LET category == canonical_category(f.category)
        identifier == extract_identifier(category, f)
    IN  IF identifier = NoFingerprint THEN NoFingerprint
        ELSE <<category, identifier>>

=============================================================================
