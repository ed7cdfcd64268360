----------------------------- MODULE AiAnalysis -----------------------------
(***************************************************************************)
(* The analysis of one scan's evidence by a language model:                *)
(* infrastructure/ai/gemini_provider.py calls the provider,                *)
(* domain/scanning/analysis/validator.py checks what it answered against   *)
(* the evidence, analysis/service.py turns every failure into a typed      *)
(* AssessmentUnavailable, analysis/fallback_templates.py supplies the      *)
(* explanations that need no provider.                                     *)
(*                                                                         *)
(* A payload keeps what the validator tells apart: whether its fixed       *)
(* fields and the shape of its lists are right, and, for every group,      *)
(* remediation item and claim, the list of finding ids it cites.  Texts,   *)
(* titles and hashes are left out.                                         *)
(***************************************************************************)
EXTENDS HeaderEngine

CONSTANT Payloads  \* the JSON objects a provider may answer with

EvidenceStatus == {"supported", "inferred", "unsupported"}
Undeclared == "undeclared"

\* A status that is none of the three counts as undeclared.
ASSUME PayloadsAssumption ==
    \A p \in Payloads : \A i \in DOMAIN p.claims :
        p.claims[i].declared \in EvidenceStatus \cup {Undeclared}

AnalysisFailureKind ==
    {"provider_unavailable", "authentication_failed", "timeout",
     "malformed_response", "schema_invalid", "limit_exceeded", "unexpected"}

(***************************************************************************)
(* The provider.                                                           *)
(***************************************************************************)

\* What generate_content and response.text may do short of an object.
ProviderFaults ==
    {"api 401", "api 403", "api 408", "api 504", "api 429", "api 5xx",
     "api other", "TimeoutError", "timeout in chain", "other exception",
     "no text", "empty", "oversized", "not JSON", "not an object"}

map_api_error(fault) ==
    CASE fault \in {"api 401", "api 403"} -> "authentication_failed"
      [] fault \in {"api 408", "api 504"} -> "timeout"
      [] OTHER -> "provider_unavailable"

extract_json(fault) ==
    IF fault = "oversized" THEN "limit_exceeded" ELSE "malformed_response"

\* The kind of the AnalysisProviderError that GeminiEvidenceAnalyzer raises.
gemini_failure(fault) ==
    CASE fault \in {"no text", "empty", "oversized", "not JSON",
                    "not an object"} -> extract_json(fault)
      [] fault \in {"TimeoutError", "timeout in chain"} -> "timeout"
      [] fault = "other exception" -> "provider_unavailable"
      [] OTHER -> map_api_error(fault)

\* Another EvidenceAnalyzer may raise anything and return raw text, so that
\* the validator's own checks of size and syntax are reached.
other_failure(fault) ==
    CASE fault = "oversized" -> "limit_exceeded"
      [] fault \in {"empty", "not JSON", "not an object"} ->
            "malformed_response"
      [] OTHER -> "unexpected"

(***************************************************************************)
(* The validator.  evidence is the set of ids of the EvidenceSet's index.  *)
(***************************************************************************)

known_ids(ids, evidence) == ToSet(ids) \cap evidence

\* The places of the list that cite nothing of the evidence.
unknown_ids(ids, evidence) == {i \in DOMAIN ids : ids[i] \notin evidence}

\* A group cites the known ids only, and is dropped when there are none; the
\* others keep their place.
validated_groups(payload, evidence) ==
    [i \in {j \in DOMAIN payload.groups : known_ids(payload.groups[j], evidence) # {}} |->
        known_ids(payload.groups[i], evidence)]

validated_remediation(payload, evidence) ==
    [i \in DOMAIN payload.remediation |->
        known_ids(payload.remediation[i], evidence)]

\* Mutant: the status the provider declared wins over unknown references.
claim_status_declared(claim, evidence) ==
    CASE claim.declared # Undeclared -> claim.declared
      [] OTHER -> IF unknown_ids(claim.ids, evidence) # {} \/ claim.ids = <<>>
                  THEN "unsupported" ELSE "supported"

claim_status(claim, evidence) ==
    CASE unknown_ids(claim.ids, evidence) # {} -> "unsupported"
      [] unknown_ids(claim.ids, evidence) = {}
         /\ claim.declared # Undeclared -> claim.declared
      [] OTHER -> IF claim.ids = <<>> THEN "unsupported" ELSE "supported"

validated_claims(payload, evidence) ==
    [i \in DOMAIN payload.claims |->
        [ids |-> ToSet(payload.claims[i].ids),
         status |-> claim_status(payload.claims[i], evidence)]]

\* One unsupported claim is recorded for every unknown reference of a group
\* or a claim; a remediation item loses its unknown references silently.
unsupported_count(payload, evidence) ==
    LET Unknown(ids) == Cardinality(unknown_ids(ids, evidence))
    IN  FoldSeq(LAMBDA g, n : n + Unknown(g), 0, payload.groups)
        + FoldSeq(LAMBDA c, n : n + Unknown(c.ids), 0, payload.claims)

Assessment(payload, evidence) ==
    [available |-> TRUE,
     groups |-> validated_groups(payload, evidence),
     remediation |-> validated_remediation(payload, evidence),
     claims |-> validated_claims(payload, evidence),
     unsupported |-> unsupported_count(payload, evidence)]

AssessmentUnavailable(kind) == [available |-> FALSE, kind |-> kind]

\* validate_analysis_response of a dict: any structural error rejects it all.
validate_structure(payload, evidence) ==
    IF payload.wellFormed THEN Assessment(payload, evidence)
    ELSE AssessmentUnavailable("schema_invalid")

(***************************************************************************)
(* AiAnalysisService.analyze: every outcome it can have for this evidence. *)
(***************************************************************************)
Outcomes(analyzer, evidence) ==
    {validate_structure(p, evidence) : p \in Payloads}
    \cup {AssessmentUnavailable(IF analyzer = "gemini"
                                THEN gemini_failure(f)
                                ELSE other_failure(f)) : f \in ProviderFaults}

(***************************************************************************)
(* Fallback templates are registered per canonical category code, the code *)
(* that _map_category stores with a finding.                               *)
(***************************************************************************)
TemplateKeys == {"MISSING_SECURITY_HEADER", "WEAK_CIPHER", "OUTDATED_TLS",
                 "KNOWN_CVE", "EXPOSED_ADMIN_PANEL"}

\* The codes that migration 0001 puts into finding_category.
FindingCategories == TemplateKeys \cup {"DNS_MISCONFIGURATION"}

\* A code without a row in finding_category falls back to the header one.
map_category(category) ==
    IF canonical_category(category) \in FindingCategories
    THEN canonical_category(category) ELSE "MISSING_SECURITY_HEADER"

get_template(code) == IF code \in TemplateKeys THEN code ELSE "GENERIC"

build_fallback_explanation(code) ==
    [template |-> get_template(code), validation_status |-> "fallback_used"]

=============================================================================
