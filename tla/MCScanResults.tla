--------------------------- MODULE MCScanResults ---------------------------
(* Instances of ScanResults for TLC.                                       *)
EXTENDS ScanResults

CONSTANTS u1, u2, u3, u4, u5, u6, u7, u8, u9, x

NineUuids == <<u1, u2, u3, u4, u5, u6, u7, u8, u9>>

Headers == ToSet(SecurityHeaders)

Response(finalScheme, sent, nosniff, cookies, discloses) ==
    [scheme |-> "https", finalScheme |-> finalScheme, sent |-> sent,
     nosniff |-> nosniff, cookies |-> cookies, discloses |-> discloses]

\* Everything missing; nothing missing; a nonstandard value, HSTS over http
\* and the tokens on which the two readings of a cookie may differ.
FewResponses ==
    {Unreachable,
     Response("https", {}, FALSE, <<<<>>>>, {"server"}),
     Response("https", Headers, TRUE,
              <<<<"httponly", "secure", "samesite_lax">>>>, {}),
     Response("http", Headers \ {"referrer-policy"}, FALSE, <<>>, {}),
     Response("https", Headers, TRUE,
              <<<<"httponly", "path=/secure">>,
                <<"secure", "samesite_lax", "samesite_odd">>>>,
              {"server", "x-powered-by"}),
     Response("https", Headers \ {xcto}, TRUE,
              <<<<"secure", "httponly", "samesite_padded">>>>, {})}

\* Id lists that cite findings of one scan, of another, a made-up one, or
\* a finding twice.
f1 == <<"http.security-headers", xcto, "missing">>
f2 == <<"http.cookies", "samesite", "lacking">>
IdLists == {<<>>, <<f1>>, <<x>>, <<f2, x>>, <<f1, f1>>}
Lists(S) == {<<>>} \cup {<<e>> : e \in S}
Claims == [ids : IdLists, declared : {"supported", Undeclared}]

SmallPayloads ==
    [wellFormed : {TRUE}, groups : Lists(IdLists),
     remediation : {<<>>, <<<<f1, x>>>>}, claims : Lists(Claims)]
    \cup {[wellFormed |-> FALSE, groups |-> <<>>, remediation |-> <<>>,
           claims |-> <<>>]}

=============================================================================
