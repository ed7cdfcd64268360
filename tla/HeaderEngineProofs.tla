------------------------ MODULE HeaderEngineProofs ------------------------
(***************************************************************************)
(* What the header and cookie engine finds in any response: each finding   *)
(* once and one that the engine has words for, whatever the response sends *)
(* and however many cookies it sets.                                       *)
(*                                                                         *)
(* The engine's loops are recursive functions.  That such a function       *)
(* exists, and what it computes, is proved by the least number for which   *)
(* it would fail.                                                          *)
(***************************************************************************)
EXTENDS HeaderEngine, SequenceTheorems, FiniteSetTheorems, WellFoundedInduction, TLAPS

\* A set of numbers has a least one.
LEMMA LeastNumber ==
    ASSUME NEW T, T \subseteq Nat, T # {}
    PROVE  \E x \in T : \A y \in T : x <= y
  <1>1. PICK x \in T : \A y \in T : ~(<<y, x>> \in OpToRel(<, Nat))
    BY WFMin, NatLessThanWellFounded
  <1>2. ASSUME NEW y \in T
        PROVE  x <= y
    <2>1. x \in Nat /\ y \in Nat
      BY <1>2
    <2>2. <<y, x>> \notin OpToRel(<, Nat)
      BY <1>1, <1>2
    <2> QED BY <2>1, <2>2 DEF OpToRel
  <1> QED BY <1>2

-----------------------------------------------------------------------------
(* The loops of the engine.                                                *)

\* The loop over the security headers takes one header in each turn.
LEMMA AfterHeaders ==
    ASSUME NEW response, NEW result
    PROVE  LET after == after_headers(response, result) IN
           /\ after[0] = result
           /\ \A i \in 1..6 : after[i] = assess_header(response, SecurityHeaders[i], after[i - 1])
  <1> DEFINE Turn(i, r) == assess_header(response, SecurityHeaders[i], r)
             IsLoop(f, n) == \A i \in 0..n : f[i] = IF i = 0 THEN result ELSE Turn(i, f[i - 1])
             Bad == {n \in Nat : ~\E f : IsLoop(f, n)}
  <1>0. Len(SecurityHeaders) = 6
    BY DEF SecurityHeaders
  <1>1. Bad = {}
    <2>0. SUFFICES ASSUME Bad # {} PROVE FALSE
      OBVIOUS
    <2>1. PICK n \in Bad : \A m \in Bad : n <= m
      BY <2>0, LeastNumber
    <2> HIDE DEF Turn
    <2>2. CASE n = 0
      <3>1. IsLoop([i \in 0..0 |-> result], 0)
        OBVIOUS
      <3> QED BY <2>2, <3>1
    <2>3. CASE n # 0
      <3>1. n \in Nat /\ n - 1 \in Nat /\ n - 1 \notin Bad
        BY <2>1, <2>3
      <3>2. PICK f : IsLoop(f, n - 1)
        BY <3>1
      <3> DEFINE g == [i \in 0..n |-> IF i = n THEN Turn(n, f[n - 1]) ELSE f[i]]
      <3>3. ASSUME NEW i \in 0..n
            PROVE  g[i] = IF i = 0 THEN result ELSE Turn(i, g[i - 1])
        <4>1. CASE i = n
          BY <2>3, <3>1, <4>1
        <4>2. CASE i # n
          BY <3>1, <3>2, <4>2
        <4> QED BY <4>1, <4>2
      <3>4. IsLoop(g, n)
        BY <3>3
      <3> QED BY <3>4, <2>1
    <2> QED BY <2>2, <2>3
  <1>2. PICK f : IsLoop(f, 6)
    BY <1>1
  <1> DEFINE Eq(g) == g = [i \in 0..Len(SecurityHeaders) |->
                 IF i = 0 THEN result
                 ELSE assess_header(response, SecurityHeaders[i], g[i - 1])]
             w == [i \in 0..6 |-> f[i]]
             a == after_headers(response, result)
  <1>3. Eq(w)
    <2> HIDE DEF Turn
    <2>1. \A i \in 0..6 : w[i] = IF i = 0 THEN result ELSE Turn(i, w[i - 1])
      BY <1>2
    <2>2. w = [i \in 0..6 |-> IF i = 0 THEN result ELSE Turn(i, w[i - 1])]
      BY <2>1
    <2> HIDE DEF w
    <2> QED BY <1>0, <2>2 DEF Turn
  <1>4. a = CHOOSE g : Eq(g)
    BY DEF after_headers
  <1>5. Eq(a)
    <2> HIDE DEF Eq, a
    <2> QED BY <1>3, <1>4
  <1>6. a = [i \in 0..6 |-> IF i = 0 THEN result ELSE Turn(i, a[i - 1])]
    BY <1>0, <1>5
  <1> HIDE DEF Turn, a
  <1>7. a[0] = result /\ \A i \in 1..6 : a[i] = Turn(i, a[i - 1])
    BY <1>6
  <1> QED BY <1>7 DEF Turn, a

\* The loop over the attributes of cookies takes one attribute in each turn.
LEMMA AfterAttributes ==
    ASSUME NEW cookies, NEW result
    PROVE  LET after == after_attributes(cookies, result) IN
           /\ after[0] = result
           /\ \A i \in 1..3 : after[i] = assess_attribute(cookies, CookieAttributes[i], after[i - 1])
  <1> DEFINE Turn(i, r) == assess_attribute(cookies, CookieAttributes[i], r)
             IsLoop(f, n) == \A i \in 0..n : f[i] = IF i = 0 THEN result ELSE Turn(i, f[i - 1])
             Bad == {n \in Nat : ~\E f : IsLoop(f, n)}
  <1>0. Len(CookieAttributes) = 3
    BY DEF CookieAttributes
  <1>1. Bad = {}
    <2>0. SUFFICES ASSUME Bad # {} PROVE FALSE
      OBVIOUS
    <2>1. PICK n \in Bad : \A m \in Bad : n <= m
      BY <2>0, LeastNumber
    <2> HIDE DEF Turn
    <2>2. CASE n = 0
      <3>1. IsLoop([i \in 0..0 |-> result], 0)
        OBVIOUS
      <3> QED BY <2>2, <3>1
    <2>3. CASE n # 0
      <3>1. n \in Nat /\ n - 1 \in Nat /\ n - 1 \notin Bad
        BY <2>1, <2>3
      <3>2. PICK f : IsLoop(f, n - 1)
        BY <3>1
      <3> DEFINE g == [i \in 0..n |-> IF i = n THEN Turn(n, f[n - 1]) ELSE f[i]]
      <3>3. ASSUME NEW i \in 0..n
            PROVE  g[i] = IF i = 0 THEN result ELSE Turn(i, g[i - 1])
        <4>1. CASE i = n
          BY <2>3, <3>1, <4>1
        <4>2. CASE i # n
          BY <3>1, <3>2, <4>2
        <4> QED BY <4>1, <4>2
      <3>4. IsLoop(g, n)
        BY <3>3
      <3> QED BY <3>4, <2>1
    <2> QED BY <2>2, <2>3
  <1>2. PICK f : IsLoop(f, 3)
    BY <1>1
  <1> DEFINE Eq(g) == g = [i \in 0..Len(CookieAttributes) |->
                 IF i = 0 THEN result
                 ELSE assess_attribute(cookies, CookieAttributes[i], g[i - 1])]
             w == [i \in 0..3 |-> f[i]]
             a == after_attributes(cookies, result)
  <1>3. Eq(w)
    <2> HIDE DEF Turn
    <2>1. \A i \in 0..3 : w[i] = IF i = 0 THEN result ELSE Turn(i, w[i - 1])
      BY <1>2
    <2>2. w = [i \in 0..3 |-> IF i = 0 THEN result ELSE Turn(i, w[i - 1])]
      BY <2>1
    <2> HIDE DEF w
    <2> QED BY <1>0, <2>2 DEF Turn
  <1>4. a = CHOOSE g : Eq(g)
    BY DEF after_attributes
  <1>5. Eq(a)
    <2> HIDE DEF Eq, a
    <2> QED BY <1>3, <1>4
  <1>6. a = [i \in 0..3 |-> IF i = 0 THEN result ELSE Turn(i, a[i - 1])]
    BY <1>0, <1>5
  <1> HIDE DEF Turn, a
  <1>7. a[0] = result /\ \A i \in 1..3 : a[i] = Turn(i, a[i - 1])
    BY <1>6
  <1> QED BY <1>7 DEF Turn, a

\* The loop over the headers of the server takes one header in each turn.
LEMMA AfterServerHeaders ==
    ASSUME NEW response, NEW result
    PROVE  LET after == after_server_headers(response, result) IN
           /\ after[0] = result
           /\ \A i \in 1..4 : after[i] = assess_server_header(response, ServerHeaders[i], after[i - 1])
  <1> DEFINE Turn(i, r) == assess_server_header(response, ServerHeaders[i], r)
             IsLoop(f, n) == \A i \in 0..n : f[i] = IF i = 0 THEN result ELSE Turn(i, f[i - 1])
             Bad == {n \in Nat : ~\E f : IsLoop(f, n)}
  <1>0. Len(ServerHeaders) = 4
    BY DEF ServerHeaders
  <1>1. Bad = {}
    <2>0. SUFFICES ASSUME Bad # {} PROVE FALSE
      OBVIOUS
    <2>1. PICK n \in Bad : \A m \in Bad : n <= m
      BY <2>0, LeastNumber
    <2> HIDE DEF Turn
    <2>2. CASE n = 0
      <3>1. IsLoop([i \in 0..0 |-> result], 0)
        OBVIOUS
      <3> QED BY <2>2, <3>1
    <2>3. CASE n # 0
      <3>1. n \in Nat /\ n - 1 \in Nat /\ n - 1 \notin Bad
        BY <2>1, <2>3
      <3>2. PICK f : IsLoop(f, n - 1)
        BY <3>1
      <3> DEFINE g == [i \in 0..n |-> IF i = n THEN Turn(n, f[n - 1]) ELSE f[i]]
      <3>3. ASSUME NEW i \in 0..n
            PROVE  g[i] = IF i = 0 THEN result ELSE Turn(i, g[i - 1])
        <4>1. CASE i = n
          BY <2>3, <3>1, <4>1
        <4>2. CASE i # n
          BY <3>1, <3>2, <4>2
        <4> QED BY <4>1, <4>2
      <3>4. IsLoop(g, n)
        BY <3>3
      <3> QED BY <3>4, <2>1
    <2> QED BY <2>2, <2>3
  <1>2. PICK f : IsLoop(f, 4)
    BY <1>1
  <1> DEFINE Eq(g) == g = [i \in 0..Len(ServerHeaders) |->
                 IF i = 0 THEN result
                 ELSE assess_server_header(response, ServerHeaders[i], g[i - 1])]
             w == [i \in 0..4 |-> f[i]]
             a == after_server_headers(response, result)
  <1>3. Eq(w)
    <2> HIDE DEF Turn
    <2>1. \A i \in 0..4 : w[i] = IF i = 0 THEN result ELSE Turn(i, w[i - 1])
      BY <1>2
    <2>2. w = [i \in 0..4 |-> IF i = 0 THEN result ELSE Turn(i, w[i - 1])]
      BY <2>1
    <2> HIDE DEF w
    <2> QED BY <1>0, <2>2 DEF Turn
  <1>4. a = CHOOSE g : Eq(g)
    BY DEF after_server_headers
  <1>5. Eq(a)
    <2> HIDE DEF Eq, a
    <2> QED BY <1>3, <1>4
  <1>6. a = [i \in 0..4 |-> IF i = 0 THEN result ELSE Turn(i, a[i - 1])]
    BY <1>0, <1>5
  <1> HIDE DEF Turn, a
  <1>7. a[0] = result /\ \A i \in 1..4 : a[i] = Turn(i, a[i - 1])
    BY <1>6
  <1> QED BY <1>7 DEF Turn, a

-----------------------------------------------------------------------------
(* Sequences that grow.                                                    *)

AnySeq(s) == \E S : s \in Seq(S)

LEMMA AppendFacts ==
    ASSUME NEW s, AnySeq(s), NEW e
    PROVE  /\ AnySeq(Append(s, e))
           /\ Len(s) \in Nat /\ Len(Append(s, e)) = Len(s) + 1
           /\ ToSet(Append(s, e)) = ToSet(s) \cup {e}
  <1>1. PICK S : s \in Seq(S)
    BY DEF AnySeq
  <1>2. s \in Seq(S \cup {e}) /\ e \in S \cup {e}
    BY <1>1, SeqMonotonic
  <1>3. Append(s, e) \in Seq(S \cup {e})
    BY <1>2
  <1>4. /\ DOMAIN s = 1..Len(s) /\ Len(s) \in Nat
        /\ DOMAIN Append(s, e) = 1..Len(s) + 1 /\ Len(Append(s, e)) = Len(s) + 1
        /\ \A i \in 1..Len(s) : Append(s, e)[i] = s[i]
        /\ Append(s, e)[Len(s) + 1] = e
    BY <1>2
  <1>5. ASSUME NEW y
        PROVE  y \in ToSet(Append(s, e)) <=> y \in ToSet(s) \cup {e}
    BY <1>4 DEF ToSet
  <1> QED BY <1>3, <1>4, <1>5 DEF AnySeq

-----------------------------------------------------------------------------
(* What holds of a result while the engine extends it.                     *)

\* The findings the engine has words for.
Reportable(f) ==
    \/ f.category = "http.security-headers" /\ f.about \in ToSet(SecurityHeaders)
    \/ f.category = "http.cookies" /\ f.about \in ToSet(CookieAttributes)
    \/ f.category = "http.transport" /\ f.about = "response" /\ f.says = "none obtained"

\* A result whose findings are about things of D, each once, and whose only
\* reading of Set-Cookie is summary.
Sound(r, D, summary) ==
    /\ r = [observations |-> r.observations, findings |-> r.findings]
    /\ AnySeq(r.observations) /\ AnySeq(r.findings)
    /\ \A f \in ToSet(r.findings) : Reportable(f) /\ f.about \in D
    /\ IsFiniteSet(Ids(r.findings)) /\ Cardinality(Ids(r.findings)) = Len(r.findings)
    /\ \A o \in ToSet(r.observations) : o.about = "set-cookie" => o = summary

\* Nothing is observed yet.
LEMMA NothingIsSound ==
    ASSUME NEW D, NEW summary
    PROVE  Sound(NoResult, D, summary)
  <1>1. NoResult.observations = <<>> /\ NoResult.findings = <<>>
    BY DEF NoResult
  <1>2. AnySeq(<<>>) /\ Len(<<>>) = 0 /\ ToSet(<<>>) = {}
    BY EmptySeq DEF AnySeq, ToSet
  <1>3. Ids(<<>>) = {}
    BY <1>2 DEF Ids
  <1>4. NoResult = [observations |-> NoResult.observations, findings |-> NoResult.findings]
    BY DEF NoResult
  <1> QED BY <1>1, <1>2, <1>3, <1>4, FS_EmptySet DEF Sound

\* An observation leaves the findings alone.
LEMMA ObservedIsSound ==
    ASSUME NEW r, NEW D, NEW summary, Sound(r, D, summary), NEW category, NEW about, NEW says,
           about = "set-cookie" => Observation(category, about, says) = summary
    PROVE  LET o == Observation(category, about, says)
           IN  /\ Sound(Observed(r, o), D, summary)
               /\ Observed(r, o).findings = r.findings
  <1> DEFINE o == Observation(category, about, says)
             n == Observed(r, o)
  <1>2. o.about = about
    BY DEF Observation
  <1> HIDE DEF o
  <1>1. /\ n = [observations |-> Append(r.observations, o), findings |-> r.findings]
        /\ n.observations = Append(r.observations, o) /\ n.findings = r.findings
    <2>1. PICK seen, found : r = [observations |-> seen, findings |-> found]
      BY DEF Sound
    <2>2. r.observations = seen /\ r.findings = found
      BY <2>1
    <2>3. n = [observations |-> Append(seen, o), findings |-> found]
      BY <2>1, <2>2 DEF Observed
    <2> HIDE DEF n
    <2>4. n.observations = Append(seen, o) /\ n.findings = found
      BY <2>3
    <2> QED BY <2>2, <2>3, <2>4
  <1> HIDE DEF n
  <1>3. AnySeq(n.observations) /\ ToSet(n.observations) = ToSet(r.observations) \cup {o}
    BY <1>1, AppendFacts DEF Sound
  <1>4. \A y \in ToSet(n.observations) : y.about = "set-cookie" => y = summary
    BY <1>2, <1>3 DEF Sound, o
  <1>5. Sound(n, D, summary)
    BY <1>1, <1>3, <1>4 DEF Sound
  <1> QED BY <1>1, <1>5 DEF n, o

\* A finding about something new is appended with its observation.
LEMMA FoundIsSound ==
    ASSUME NEW r, NEW D, NEW summary, Sound(r, D, summary), NEW category, NEW about, NEW seen,
           NEW says, about # "set-cookie", about \notin D,
           Reportable(Finding(category, about, says))
    PROVE  Sound(Found(r, Observation(category, about, seen), says), D \cup {about}, summary)
  <1> DEFINE o == Observation(category, about, seen)
             f == Finding(category, about, says)
             n == Found(r, o, says)
  <1>1. o.about = about /\ o.category = category
    BY DEF Observation
  <1>2. f.about = about /\ make_id(f) = <<category, about, says>>
    BY DEF Finding, make_id
  <1>3. /\ n = [observations |-> Append(r.observations, o), findings |-> Append(r.findings, f)]
        /\ n.observations = Append(r.observations, o) /\ n.findings = Append(r.findings, f)
    BY <1>1 DEF Found
  <1>4. Reportable(f)
    OBVIOUS
  <1> HIDE DEF n, o, f
  <1>5. /\ AnySeq(n.observations) /\ ToSet(n.observations) = ToSet(r.observations) \cup {o}
        /\ AnySeq(n.findings) /\ ToSet(n.findings) = ToSet(r.findings) \cup {f}
        /\ Len(n.findings) = Len(r.findings) + 1 /\ Len(r.findings) \in Nat
    BY <1>3, AppendFacts DEF Sound
  <1>6. Ids(n.findings) = Ids(r.findings) \cup {make_id(f)}
    BY <1>5 DEF Ids
  <1>7. make_id(f) \notin Ids(r.findings)
    <2>1. ASSUME NEW g \in ToSet(r.findings), make_id(g) = make_id(f)
          PROVE  FALSE
      <3>1. g.about = about
        BY <1>2, <2>1 DEF make_id
      <3> QED BY <2>1, <3>1 DEF Sound
    <2> QED BY <2>1 DEF Ids
  <1>8. IsFiniteSet(Ids(n.findings)) /\ Cardinality(Ids(n.findings)) = Len(n.findings)
    <2>1. IsFiniteSet(Ids(r.findings)) /\ Cardinality(Ids(r.findings)) = Len(r.findings)
      BY DEF Sound
    <2>2. /\ IsFiniteSet(Ids(r.findings) \cup {make_id(f)})
          /\ Cardinality(Ids(r.findings) \cup {make_id(f)}) = Cardinality(Ids(r.findings)) + 1
      BY <1>7, <2>1, FS_AddElement
    <2> QED BY <1>5, <1>6, <2>1, <2>2
  <1>9. \A y \in ToSet(n.observations) : y.about = "set-cookie" => y = summary
    BY <1>1, <1>5 DEF Sound
  <1>10. ASSUME NEW g \in ToSet(n.findings)
         PROVE  Reportable(g) /\ g.about \in D \cup {about}
    <2>1. CASE g = f
      BY <1>1, <1>2, <1>4, <1>5, <2>1
    <2>2. CASE g \in ToSet(r.findings)
      BY <1>5, <2>2 DEF Sound
    <2> QED BY <1>5, <2>1, <2>2
  <1>11. Sound(n, D \cup {about}, summary)
    BY <1>3, <1>5, <1>8, <1>9, <1>10 DEF Sound
  <1> QED BY <1>11 DEF n, o

\* Findings about fewer things.
LEMMA SoundAbout ==
    ASSUME NEW r, NEW D, NEW E, NEW summary, Sound(r, D, summary), D \subseteq E
    PROVE  Sound(r, E, summary)
  BY DEF Sound

-----------------------------------------------------------------------------
(* The engine.                                                             *)

\* The names are different, and none is "set-cookie".
LEMMA Names ==
    /\ \A i, j \in 1..6 : SecurityHeaders[i] = SecurityHeaders[j] => i = j
    /\ \A i, j \in 1..3 : CookieAttributes[i] = CookieAttributes[j] => i = j
    /\ \A i \in 1..6, j \in 1..3 : SecurityHeaders[i] # CookieAttributes[j]
    /\ \A i \in 1..6 : SecurityHeaders[i] # "set-cookie"
    /\ \A i \in 1..3 : CookieAttributes[i] # "set-cookie"
    /\ \A i \in 1..4 : ServerHeaders[i] # "set-cookie"
    /\ DOMAIN SecurityHeaders = 1..6 /\ DOMAIN CookieAttributes = 1..3
  <1>1. DOMAIN SecurityHeaders = 1..6 /\ DOMAIN CookieAttributes = 1..3
    BY DEF SecurityHeaders, CookieAttributes
  <1>2. \A i, j \in 1..6 : SecurityHeaders[i] = SecurityHeaders[j] => i = j
    BY DEF SecurityHeaders
  <1>3. \A i, j \in 1..3 : CookieAttributes[i] = CookieAttributes[j] => i = j
    BY DEF CookieAttributes
  <1>4. \A i \in 1..6, j \in 1..3 : SecurityHeaders[i] # CookieAttributes[j]
    BY DEF SecurityHeaders, CookieAttributes
  <1>5. /\ \A i \in 1..6 : SecurityHeaders[i] # "set-cookie"
        /\ \A i \in 1..3 : CookieAttributes[i] # "set-cookie"
        /\ \A i \in 1..4 : ServerHeaders[i] # "set-cookie"
    BY DEF SecurityHeaders, CookieAttributes, ServerHeaders
  <1> QED BY <1>1, <1>2, <1>3, <1>4, <1>5

HeadersUpTo(i) == {SecurityHeaders[j] : j \in 1..i}
AttributesUpTo(i) == {CookieAttributes[j] : j \in 1..i}

\* One header's rule.
LEMMA HeaderTurn ==
    ASSUME NEW response, NEW summary, NEW i \in 1..6, NEW r,
           Sound(r, HeadersUpTo(i - 1), summary)
    PROVE  Sound(assess_header(response, SecurityHeaders[i], r), HeadersUpTo(i), summary)
  <1> DEFINE h == SecurityHeaders[i]
             Says(what) == Observation("http.security-headers", h, what)
  <1>1. h \notin HeadersUpTo(i - 1) /\ h # "set-cookie" /\ h \in ToSet(SecurityHeaders)
    BY Names DEF HeadersUpTo, ToSet
  <1>2. HeadersUpTo(i) = HeadersUpTo(i - 1) \cup {h}
    BY DEF HeadersUpTo
  <1>3. \A says : Reportable(Finding("http.security-headers", h, says))
    BY <1>1 DEF Reportable, Finding
  <1>4. assess_header(response, h, r) \in
            {Found(r, Says("absent"), "missing"), Found(r, Says("nonstandard"), "nonstandard"),
             Observed(r, Says("present"))}
    BY DEF assess_header
  <1> HIDE DEF h
  <1>5. Sound(Found(r, Says("absent"), "missing"), HeadersUpTo(i - 1) \cup {h}, summary)
    BY <1>1, <1>3, FoundIsSound
  <1>6. Sound(Found(r, Says("nonstandard"), "nonstandard"), HeadersUpTo(i - 1) \cup {h}, summary)
    BY <1>1, <1>3, FoundIsSound
  <1>7. Sound(Observed(r, Says("present")), HeadersUpTo(i - 1) \cup {h}, summary)
    BY <1>1, ObservedIsSound, SoundAbout
  <1> QED BY <1>2, <1>4, <1>5, <1>6, <1>7 DEF h

\* The headers of a response.
LEMMA HeadersAreSound ==
    ASSUME NEW response, NEW summary, NEW r, Sound(r, {}, summary)
    PROVE  Sound(_assess_headers(response, r), ToSet(SecurityHeaders), summary)
  <1> DEFINE after == after_headers(response, r)
             Bad == {i \in 0..6 : ~Sound(after[i], HeadersUpTo(i), summary)}
  <1>1. after[0] = r /\ \A i \in 1..6 : after[i] = assess_header(response, SecurityHeaders[i], after[i - 1])
    BY AfterHeaders
  <1> HIDE DEF after
  <1>2. Bad = {}
    <2>0. SUFFICES ASSUME Bad # {} PROVE FALSE
      OBVIOUS
    <2>1. PICK i \in Bad : \A j \in Bad : i <= j
      BY <2>0, LeastNumber
    <2>2. CASE i = 0
      <3>1. HeadersUpTo(0) = {}
        BY DEF HeadersUpTo
      <3> QED BY <1>1, <2>1, <2>2, <3>1
    <2>3. CASE i # 0
      <3>1. i \in 1..6 /\ i - 1 \in 0..6 /\ i - 1 \notin Bad
        BY <2>1, <2>3
      <3>2. Sound(after[i - 1], HeadersUpTo(i - 1), summary)
        BY <3>1
      <3>3. Sound(after[i], HeadersUpTo(i), summary)
        BY <1>1, <3>1, <3>2, HeaderTurn
      <3> QED BY <2>1, <3>3
    <2> QED BY <2>2, <2>3
  <1>3. HeadersUpTo(6) = ToSet(SecurityHeaders) /\ Len(SecurityHeaders) = 6
    BY Names DEF HeadersUpTo, ToSet, SecurityHeaders
  <1>4. Sound(after[6], ToSet(SecurityHeaders), summary)
    BY <1>2, <1>3
  <1> DEFINE o == Observation("http.security-headers", "strict-transport-security", "over http")
  <1>5. Sound(Observed(after[6], o), ToSet(SecurityHeaders), summary)
    BY <1>4, ObservedIsSound
  <1>6. _assess_headers(response, r) \in {after[6], Observed(after[6], o)}
    BY <1>3 DEF _assess_headers, after
  <1> QED BY <1>4, <1>5, <1>6

\* One attribute, and what it leaves of the findings.
LEMMA AttributeTurn ==
    ASSUME NEW cookies, NEW summary, NEW i \in 1..3, NEW r, NEW D,
           Sound(r, D, summary), CookieAttributes[i] \notin D
    PROVE  Sound(assess_attribute(cookies, CookieAttributes[i], r),
                 D \cup {CookieAttributes[i]}, summary)
  <1> DEFINE a == CookieAttributes[i]
             o == Observation("http.cookies", a, "lacking")
  <1>1. a \notin D /\ a # "set-cookie" /\ a \in ToSet(CookieAttributes)
    BY Names DEF ToSet
  <1>2. Reportable(Finding("http.cookies", a, "lacking"))
    BY <1>1 DEF Reportable, Finding
  <1>3. assess_attribute(cookies, a, r) \in {r, Found(r, o, "lacking")}
    BY DEF assess_attribute
  <1> HIDE DEF a
  <1>4. Sound(Found(r, o, "lacking"), D \cup {a}, summary)
    BY <1>1, <1>2, FoundIsSound
  <1>5. Sound(r, D \cup {a}, summary)
    BY SoundAbout
  <1> QED BY <1>3, <1>4, <1>5 DEF a

\* The findings are kept, and one is there for an attribute that a cookie lacks.
LEMMA AttributeFound ==
    ASSUME NEW cookies, NEW a, NEW r, AnySeq(r.findings)
    PROVE  /\ ToSet(r.findings) \subseteq ToSet(assess_attribute(cookies, a, r).findings)
           /\ Lacks(cookies, a) =>
                 \E f \in ToSet(assess_attribute(cookies, a, r).findings) : f.about = a
  <1> DEFINE o == Observation("http.cookies", a, "lacking")
             f == Finding("http.cookies", a, "lacking")
  <1>1. CASE Lacks(cookies, a)
    <2>1. assess_attribute(cookies, a, r).findings = Append(r.findings, f)
      BY <1>1 DEF assess_attribute, Found, Observation
    <2>2. f.about = a
      BY DEF Finding
    <2> HIDE DEF f
    <2>3. ToSet(assess_attribute(cookies, a, r).findings) = ToSet(r.findings) \cup {f}
      BY <2>1, AppendFacts
    <2> QED BY <2>2, <2>3
  <1>2. CASE ~Lacks(cookies, a)
    BY <1>2 DEF assess_attribute
  <1> QED BY <1>1, <1>2

\* The cookies of a response: every attribute that one of them lacks is found.
LEMMA CookiesAreSound ==
    ASSUME NEW response, NEW r,
           Sound(r, ToSet(SecurityHeaders), cookie_summary(response.cookies))
    PROVE  LET n == _assess_cookies(response, r)
           IN  /\ Sound(n, ToSet(SecurityHeaders) \cup ToSet(CookieAttributes),
                        cookie_summary(response.cookies))
               /\ response.cookies # <<>> =>
                     \A a \in ToSet(CookieAttributes) : Lacks(response.cookies, a) =>
                         \E f \in ToSet(n.findings) : f.about = a
  <1> DEFINE cookies == response.cookies
             summary == cookie_summary(cookies)
             H == ToSet(SecurityHeaders)
             r0 == Observed(r, summary)
             after == after_attributes(cookies, r0)
             n == _assess_cookies(response, r)
             Good(i) == /\ Sound(after[i], H \cup AttributesUpTo(i), summary)
                        /\ \A j \in 1..i : Lacks(cookies, CookieAttributes[j]) =>
                              \E f \in ToSet(after[i].findings) : f.about = CookieAttributes[j]
  <1>1. CASE cookies = <<>>
    <2>1. n = r
      BY <1>1 DEF _assess_cookies
    <2> QED BY <1>1, <2>1, SoundAbout
  <1>2. CASE cookies # <<>>
    <2>1. after[0] = r0 /\ \A i \in 1..3 : after[i] = assess_attribute(cookies, CookieAttributes[i], after[i - 1])
      BY AfterAttributes
    <2>2. n = after[3]
      <3>1. Len(CookieAttributes) = 3
        BY DEF CookieAttributes
      <3> QED BY <1>2, <3>1 DEF _assess_cookies
    <2>3. Sound(r0, H, summary)
      BY ObservedIsSound DEF cookie_summary
    <2> HIDE DEF after, r0, cookies, summary, H
    <2>4. Good(0)
      <3>1. AttributesUpTo(0) = {}
        BY DEF AttributesUpTo
      <3>2. H \cup {} = H /\ 1..0 = {}
        OBVIOUS
      <3> QED BY <2>1, <2>3, <3>1, <3>2
    <2>5. ASSUME NEW i \in 1..3, Good(i - 1)
          PROVE  Good(i)
      <3> DEFINE a == CookieAttributes[i]
                 D == H \cup AttributesUpTo(i - 1)
      <3>1. a \notin D
        BY Names DEF AttributesUpTo, ToSet, H
      <3>2. H \cup AttributesUpTo(i) = D \cup {a}
        BY DEF AttributesUpTo
      <3> HIDE DEF D
      <3>3. Sound(after[i - 1], D, summary)
        BY <2>5 DEF D
      <3>6. after[i] = assess_attribute(cookies, a, after[i - 1])
        BY <2>1
      <3>7. Sound(after[i], D \cup {a}, summary)
        BY <3>1, <3>3, <3>6, AttributeTurn
      <3>8. AnySeq(after[i - 1].findings)
        BY <3>3 DEF Sound
      <3>4. /\ ToSet(after[i - 1].findings) \subseteq ToSet(after[i].findings)
            /\ Lacks(cookies, a) => \E f \in ToSet(after[i].findings) : f.about = a
        BY <3>6, <3>8, AttributeFound
      <3>5. ASSUME NEW j \in 1..i, Lacks(cookies, CookieAttributes[j])
            PROVE  \E f \in ToSet(after[i].findings) : f.about = CookieAttributes[j]
        <4>1. CASE j = i
          BY <3>4, <3>5, <4>1
        <4>2. CASE j # i
          <5>1. j \in 1..i - 1
            BY <4>2
          <5> QED BY <2>5, <3>4, <3>5, <5>1
        <4> QED BY <4>1, <4>2
      <3> QED BY <3>2, <3>5, <3>7
    <2>6. Good(3)
      <3> HIDE DEF Good
      <3>1. Good(1)
        BY <2>4, <2>5
      <3>2. Good(2)
        BY <2>5, <3>1
      <3> QED BY <2>5, <3>2
    <2>7. ToSet(CookieAttributes) = AttributesUpTo(3)
      BY Names DEF ToSet, AttributesUpTo
    <2>8. ASSUME NEW a \in ToSet(CookieAttributes), Lacks(cookies, a)
          PROVE  \E f \in ToSet(after[3].findings) : f.about = a
      <3>1. PICK j \in 1..3 : a = CookieAttributes[j]
        BY <2>7 DEF AttributesUpTo
      <3> QED BY <2>6, <2>8, <3>1
    <2>9. Sound(after[3], H \cup ToSet(CookieAttributes), summary)
      BY <2>6, <2>7
    <2> QED BY <2>2, <2>8, <2>9 DEF cookies, summary, H
  <1> QED BY <1>1, <1>2

\* The headers that disclose the server are observed, not found.
LEMMA ServerInfoIsSound ==
    ASSUME NEW response, NEW summary, NEW D, NEW r, Sound(r, D, summary)
    PROVE  LET n == _assess_server_info(response, r)
           IN  Sound(n, D, summary) /\ n.findings = r.findings
  <1> DEFINE after == after_server_headers(response, r)
             Good(i) == Sound(after[i], D, summary) /\ after[i].findings = r.findings
  <1>1. after[0] = r /\ \A i \in 1..4 : after[i] = assess_server_header(response, ServerHeaders[i], after[i - 1])
    BY AfterServerHeaders
  <1>2. _assess_server_info(response, r) = after[4]
    BY DEF _assess_server_info, ServerHeaders
  <1> HIDE DEF after
  <1>3. Good(0)
    BY <1>1
  <1>4. ASSUME NEW i \in 1..4, Good(i - 1)
        PROVE  Good(i)
    <2> DEFINE o == Observation("http.server-info", ServerHeaders[i], "exposed")
    <2>1. after[i] \in {after[i - 1], Observed(after[i - 1], o)}
      BY <1>1 DEF assess_server_header
    <2>2. ServerHeaders[i] # "set-cookie"
      BY Names
    <2>3. /\ Sound(Observed(after[i - 1], o), D, summary)
          /\ Observed(after[i - 1], o).findings = after[i - 1].findings
      BY <1>4, <2>2, ObservedIsSound
    <2> QED BY <1>4, <2>1, <2>3
  <1>5. Good(4)
    <2> HIDE DEF Good
    <2>1. Good(1)
      BY <1>3, <1>4
    <2>2. Good(2)
      BY <1>4, <2>1
    <2>3. Good(3)
      BY <1>4, <2>2
    <2> QED BY <1>4, <2>3
  <1> QED BY <1>2, <1>5

\* A response that was obtained: Set-Cookie is observed as the redacted cookies
\* only, and every attribute that a cookie lacks is found.
LEMMA ObtainedIsSound ==
    ASSUME NEW response, response # Unreachable
    PROVE  /\ Sound(execute(response), ToSet(SecurityHeaders) \cup ToSet(CookieAttributes),
                    cookie_summary(response.cookies))
           /\ response.cookies # <<>> =>
                 \A a \in ToSet(CookieAttributes) : Lacks(response.cookies, a) =>
                     \E f \in ToSet(execute(response).findings) : f.about = a
  <1> DEFINE summary == cookie_summary(response.cookies)
             r1 == _assess_transport(response)
             r2 == _assess_headers(response, r1)
             r3 == _assess_cookies(response, r2)
             r4 == _assess_server_info(response, r3)
             D == ToSet(SecurityHeaders) \cup ToSet(CookieAttributes)
  <1>1. execute(response) = r4
    BY DEF execute
  <1>2. Sound(NoResult, {}, summary)
    BY NothingIsSound
  <1>3. Sound(r1, {}, summary)
    <2> HIDE DEF summary
    <2> QED BY <1>2, ObservedIsSound DEF _assess_transport
  <1> HIDE DEF r1
  <1>4. Sound(r2, ToSet(SecurityHeaders), summary)
    BY <1>3, HeadersAreSound
  <1> HIDE DEF r2
  <1>5. /\ Sound(r3, D, summary)
        /\ response.cookies # <<>> =>
              \A a \in ToSet(CookieAttributes) : Lacks(response.cookies, a) =>
                  \E f \in ToSet(r3.findings) : f.about = a
    BY <1>4, CookiesAreSound
  <1> HIDE DEF r3
  <1>6. Sound(r4, D, summary) /\ r4.findings = r3.findings
    BY <1>5, ServerInfoIsSound
  <1> HIDE DEF r4
  <1> QED BY <1>1, <1>5, <1>6

\* No response: one observation and one finding.
LEMMA UnreachableIsSound ==
    LET o == Observation("http.transport", "response", "unreachable")
    IN  Sound(execute(Unreachable), {"response"}, o) /\ o.about # "set-cookie"
  <1> DEFINE o == Observation("http.transport", "response", "unreachable")
  <1>1. execute(Unreachable) = Found(NoResult, o, "none obtained")
    BY DEF execute, _unreachable_result
  <1>2. Reportable(Finding("http.transport", "response", "none obtained"))
    BY DEF Reportable, Finding
  <1>3. Sound(NoResult, {}, o)
    BY NothingIsSound
  <1>4. Sound(Found(NoResult, o, "none obtained"), {} \cup {"response"}, o)
    <2>1. "response" # "set-cookie" /\ "response" \notin {}
      OBVIOUS
    <2> QED BY <1>2, <1>3, <2>1, FoundIsSound
  <1>5. o.about # "set-cookie" /\ {} \cup {"response"} = {"response"}
    BY DEF Observation
  <1> QED BY <1>1, <1>4, <1>5

\* Whatever a response is, the result is sound.
LEMMA ExecuteIsSound ==
    ASSUME NEW response
    PROVE  \E D, summary : Sound(execute(response), D, summary)
  BY ObtainedIsSound, UnreachableIsSound

-----------------------------------------------------------------------------
\* Every finding is one that the engine has words for.
LEMMA EachFindingReportable ==
    ASSUME NEW response, NEW f \in ToSet(execute(response).findings)
    PROVE  Reportable(f)
  BY ExecuteIsSound DEF Sound

\* Whatever a response sends, the engine names each finding once: as many ids as
\* findings.
THEOREM EachFindingOnce ==
    ASSUME NEW response
    PROVE  LET n == execute(response)
           IN  Cardinality(Ids(n.findings)) = Len(n.findings)
  BY ExecuteIsSound DEF Sound

\* Two findings with one fingerprint are about the same header, or the same
\* failure, in whatever responses they were found (fingerprinting.py).
THEOREM FingerprintIdentifies ==
    ASSUME NEW f, NEW g, Reportable(f), Reportable(g),
           generate_fingerprint(f) = generate_fingerprint(g)
    PROVE  \/ generate_fingerprint(f) = NoFingerprint
           \/ f.category = g.category /\ f.about = g.about
  <1>0. /\ \A a \in ToSet(CookieAttributes) : a \notin ToSet(SecurityHeaders)
        /\ \A x : <<x>> # <<>>
    BY Names DEF ToSet
  <1>1. ASSUME NEW x, Reportable(x)
        PROVE  /\ x.category = "http.security-headers" =>
                     generate_fingerprint(x) = <<"MISSING_SECURITY_HEADER", <<x.about>> >>
               /\ x.category = "http.cookies" => generate_fingerprint(x) = NoFingerprint
               /\ x.category = "http.transport" =>
                     generate_fingerprint(x) = <<"WEAK_CIPHER", <<x.about, x.says>> >>
    <2>1. CASE x.category = "http.security-headers"
      <3>1. canonical_category(x.category) = "MISSING_SECURITY_HEADER"
        BY <2>1 DEF canonical_category
      <3>2. x.about \in ToSet(SecurityHeaders)
        BY <1>1, <2>1 DEF Reportable
      <3>3. extract_identifier("MISSING_SECURITY_HEADER", x) = <<x.about>>
        BY <3>2 DEF extract_identifier
      <3>4. <<x.about>> # NoFingerprint
        BY DEF NoFingerprint
      <3>5. generate_fingerprint(x) = <<"MISSING_SECURITY_HEADER", <<x.about>> >>
        BY <3>1, <3>3, <3>4, Zenon DEF generate_fingerprint
      <3> QED BY <2>1, <3>5
    <2>2. CASE x.category = "http.cookies"
      <3>1. canonical_category(x.category) = "MISSING_SECURITY_HEADER"
        BY <2>2 DEF canonical_category
      <3>2. x.about \notin ToSet(SecurityHeaders)
        BY <1>0, <1>1, <2>2 DEF Reportable
      <3>3. extract_identifier("MISSING_SECURITY_HEADER", x) = NoFingerprint
        BY <3>2 DEF extract_identifier
      <3> QED BY <2>2, <3>1, <3>3 DEF generate_fingerprint
    <2>3. CASE x.category = "http.transport"
      <3>1. canonical_category(x.category) = "WEAK_CIPHER"
        BY <2>3 DEF canonical_category
      <3>2. extract_identifier("WEAK_CIPHER", x) = <<x.about, x.says>>
        BY DEF extract_identifier
      <3>3. <<x.about, x.says>> # NoFingerprint
        BY DEF NoFingerprint
      <3>4. generate_fingerprint(x) = <<"WEAK_CIPHER", <<x.about, x.says>> >>
        BY <3>1, <3>2, <3>3, Zenon DEF generate_fingerprint
      <3> QED BY <2>3, <3>4
    <2> QED BY <2>1, <2>2, <2>3
  <1>2. \A a, b : <<"MISSING_SECURITY_HEADER", a>> # <<"WEAK_CIPHER", b>>
    OBVIOUS
  <1>3. ASSUME NEW x, Reportable(x)
        PROVE  /\ x.category \in {"http.security-headers", "http.cookies", "http.transport"}
               /\ x.category = "http.transport" => x.about = "response"
    BY <1>3 DEF Reportable
  <1>4. CASE f.category = "http.cookies" \/ g.category = "http.cookies"
    BY <1>1, <1>4
  <1>5. CASE f.category = "http.security-headers" /\ g.category = "http.security-headers"
    BY <1>1, <1>5
  <1>6. CASE f.category = "http.transport" /\ g.category = "http.transport"
    BY <1>3, <1>6
  <1>7. CASE f.category = "http.security-headers" /\ g.category = "http.transport"
    BY <1>1, <1>2, <1>7
  <1>8. CASE f.category = "http.transport" /\ g.category = "http.security-headers"
    BY <1>1, <1>2, <1>8
  <1> QED BY <1>3, <1>4, <1>5, <1>6, <1>7, <1>8

\* A cookie that is shown without Secure or without HttpOnly is backed by the
\* finding: what findings.py redacts, http_analysis.py has judged.
THEOREM RedactedIsJudged ==
    ASSUME NEW response,
           NEW o \in ToSet(execute(response).observations), o.about = "set-cookie",
           NEW i \in DOMAIN o.says
    PROVE  /\ ~o.says[i].Secure =>
                 \E f \in ToSet(execute(response).findings) : f.about = "secure"
           /\ ~o.says[i].HttpOnly =>
                 \E f \in ToSet(execute(response).findings) : f.about = "httponly"
  <1> DEFINE cookies == response.cookies
             n == execute(response)
  <1>0. response # Unreachable
    BY UnreachableIsSound DEF Sound
  <1>1. /\ o = cookie_summary(cookies)
        /\ cookies # <<>> =>
              \A a \in ToSet(CookieAttributes) : Lacks(cookies, a) =>
                  \E f \in ToSet(n.findings) : f.about = a
    BY <1>0, ObtainedIsSound DEF Sound
  <1>2. i \in DOMAIN cookies /\ o.says[i] = redact_cookie_value(cookies[i])
    BY <1>1 DEF cookie_summary, Observation
  <1>3. cookies # <<>>
    BY <1>2
  <1>4. "secure" \in ToSet(CookieAttributes) /\ "httponly" \in ToSet(CookieAttributes)
    <2>1. CookieAttributes[1] = "secure" /\ CookieAttributes[2] = "httponly"
      BY DEF CookieAttributes
    <2> QED BY <2>1, Names DEF ToSet
  <1>5. /\ o.says[i].Secure = (ToSet(cookies[i]) \cap SaysSecure # {})
        /\ o.says[i].HttpOnly = ("httponly" \in ToSet(cookies[i]))
    BY <1>2 DEF redact_cookie_value
  <1>6. ~o.says[i].Secure => Lacks(cookies, "secure")
    BY <1>2, <1>5 DEF Lacks, SaysSecure
  <1>7. ~o.says[i].HttpOnly => Lacks(cookies, "httponly")
    BY <1>2, <1>5 DEF Lacks
  <1> HIDE DEF cookies, n
  <1>8. /\ ~o.says[i].Secure => \E f \in ToSet(n.findings) : f.about = "secure"
        /\ ~o.says[i].HttpOnly => \E f \in ToSet(n.findings) : f.about = "httponly"
    BY <1>1, <1>3, <1>4, <1>6, <1>7
  <1> QED BY <1>8 DEF n
=============================================================================
