----------------------- MODULE TargetCatalogueProofs -----------------------
(***************************************************************************)
(* Proofs, for any users, hosts and spellings, any number of registrations *)
(* and any page size, that the catalogue has one row per owner and URL and *)
(* only hosts the rules admit, and that a listing read page by page is     *)
(* exact.                                                                  *)
(*                                                                         *)
(* For the listing the invariant says where it stands: what it has given   *)
(* it has passed, what it owes is given or lies ahead of its cursor.  That *)
(* the has-next probe tells whether anything lies ahead is a fact about    *)
(* finite ordered sets (ProbeFinds).                                       *)
(***************************************************************************)
EXTENDS TargetCatalogue, SequenceTheorems, FiniteSetTheorems, WellFoundedInduction, TLAPS

\* Whatever is registered was accepted, so a URL's host is spelled in lower
\* case and without a trailing dot, and is public as the rules read it.
UrlsAreCanonical ==
    \A url \in Urls :
        /\ url = [scheme |-> url.scheme, host |-> url.host, port |-> url.port, path |-> url.path]
        /\ url.host = [name |-> url.host.name, dot |-> FALSE, upper |-> FALSE,
                       script |-> url.host.script]
        /\ \/ url.host.script = "plain" /\ HostKind[url.host.name] = "public"
           \/ url.host.script = "masked"

\* The rows of an owner are told apart by their URLs as they are stored.
RowsAreKeyed == \A s, t \in targets : s.owner = t.owner /\ s.url = t.url => s = t

\* Type correctness needs to know that a listing is a record with a step.
IndInv ==
    /\ TypeOK
    /\ "step" \in DOMAIN listing
    /\ RowsAreKeyed

Hosts == [name : DOMAIN HostKind, dot : BOOLEAN, upper : BOOLEAN,
          script : {"plain", "digits", "masked"}]

\* normalize_target validates the very spelling it returns.
LEMMA AcceptedIsCanonical == UrlsAreCanonical
  <1> SUFFICES ASSUME NEW in \in Inputs, Accepted(in), NEW url, url = normalized_url(in)
               PROVE  /\ url = [scheme |-> url.scheme, host |-> url.host, port |-> url.port,
                                path |-> url.path]
                      /\ url.host = [name |-> url.host.name, dot |-> FALSE, upper |-> FALSE,
                                     script |-> url.host.script]
                      /\ \/ url.host.script = "plain" /\ HostKind[url.host.name] = "public"
                         \/ url.host.script = "masked"
    BY DEF UrlsAreCanonical, Urls
  <1> DEFINE host == normalize_host(in)
  <1>1. in.host \in Hosts
    BY CatalogueAssumption DEF Hosts
  <1>2. /\ host \in Hosts /\ host.dot = FALSE /\ host.upper = FALSE
        /\ host.name = in.host.name /\ host.script = in.host.script
    <2>1. /\ lower(in.host) \in Hosts /\ lower(in.host).upper = FALSE
          /\ lower(in.host).name = in.host.name /\ lower(in.host).script = in.host.script
      BY <1>1 DEF lower, Hosts
    <2>2. ASSUME NEW h \in Hosts
          PROVE  /\ strip_trailing_dot(h) \in Hosts /\ strip_trailing_dot(h).dot = FALSE
                 /\ strip_trailing_dot(h).upper = h.upper /\ strip_trailing_dot(h).name = h.name
                 /\ strip_trailing_dot(h).script = h.script
      BY DEF strip_trailing_dot, Hosts
    <2> QED
      BY <2>1, <2>2 DEF normalize_host
  <1>3. validate_host(host)
    BY DEF Accepted
  <1> HIDE DEF host
  <1>4. host = [name |-> host.name, dot |-> FALSE, upper |-> FALSE, script |-> host.script]
    BY <1>2 DEF Hosts
  <1>5. \/ host.script = "plain" /\ HostKind[host.name] = "public"
        \/ host.script = "masked"
    BY <1>2, <1>3 DEF validate_host, HasForeignDigits, Kind, Hosts
  <1>6. PICK path : url = [scheme |-> in.scheme, host |-> host, port |-> in.port, path |-> path]
    BY DEF normalized_url, host
  <1>7. url.host = host
    BY <1>6
  <1>8. url = [scheme |-> url.scheme, host |-> url.host, port |-> url.port, path |-> url.path]
    BY <1>6
  <1> QED
    BY <1>4, <1>5, <1>7, <1>8

\* A registration in progress holds an accepted URL.
LEMMA CheckStep ==
    ASSUME IndInv, NEW u \in Users, NEW owner \in Owners, NEW in \in Inputs,
           RegisterCheck(u, owner, in)
    PROVE  IndInv'
  <1>1. normalized_url(in) \in Urls
    BY DEF RegisterCheck, Urls
  <1>2. pending' \subseteq [owner : Owners, url : Urls, at : 0..MaxTime]
    BY <1>1 DEF RegisterCheck, IndInv, TypeOK
  <1> QED
    BY <1>2 DEF RegisterCheck, IndInv, TypeOK, RowsAreKeyed

\* The INSERT: the primary key is new, and the constraint of the table refuses
\* a second row for the owner and URL.
LEMMA InsertStep ==
    ASSUME IndInv, NEW p \in pending, NEW id \in Ids, RegisterInsert(p, id)
    PROVE  IndInv'
  <1> DEFINE new == [id |-> id, owner |-> p.owner, url |-> p.url,
                     archived |-> FALSE, at |-> p.at]
  <1>1. targets' = targets \cup {new} /\ UNCHANGED <<members, clock, listing>>
    BY DEF RegisterInsert
  <1>2. p \in [owner : Owners, url : Urls, at : 0..MaxTime]
    BY DEF IndInv, TypeOK
  <1>3. new \in Target
    BY <1>2 DEF Target
  <1>4. \A t \in targets : t.id # id /\ ~(t.owner = p.owner /\ t.url = p.url)
    BY DEF RegisterInsert, UniqueConstraint, find_by_owner_and_url
  <1>5. ASSUME NEW s \in targets', NEW t \in targets'
        PROVE  /\ s.id = t.id => s = t
               /\ s.owner = t.owner /\ s.url = t.url => s = t
    <2>1. CASE s \in targets /\ t \in targets
      BY <2>1 DEF IndInv, TypeOK, RowsAreKeyed
    <2>2. CASE s \in targets /\ t = new
      BY <1>4, <2>2
    <2>3. CASE s = new /\ t \in targets
      BY <1>4, <2>3
    <2>4. CASE s = new /\ t = new
      BY <2>4
    <2> QED
      BY <1>1, <2>1, <2>2, <2>3, <2>4
  <1>6. RowsAreKeyed'
    BY <1>5 DEF RowsAreKeyed
  <1>7. TypeOK'
    BY <1>1, <1>3, <1>5 DEF RegisterInsert, IndInv, TypeOK
  <1> QED
    BY <1>1, <1>6, <1>7 DEF IndInv

\* Archiving changes no id, owner or URL.
LEMMA ArchiveStep ==
    ASSUME IndInv, NEW u \in Users, NEW t \in targets, NEW archived \in BOOLEAN,
           set_archived(u, t, archived)
    PROVE  IndInv'
  <1> DEFINE new == [t EXCEPT !.archived = archived]
  <1>1. targets' = (targets \ {t}) \cup {new} /\ UNCHANGED <<members, clock, pending>>
    BY DEF set_archived
  <1>2. t \in Target
    BY DEF IndInv, TypeOK
  <1>3. new \in Target /\ new.id = t.id /\ new.owner = t.owner /\ new.url = t.url
    BY <1>2 DEF Target
  <1>4. ASSUME NEW r \in targets', NEW s \in targets'
        PROVE  /\ r.id = s.id => r = s
               /\ r.owner = s.owner /\ r.url = s.url => r = s
    <2> HIDE DEF new
    <2>1. CASE r \in targets \ {t} /\ s \in targets \ {t}
      BY <2>1 DEF IndInv, TypeOK, RowsAreKeyed
    <2>2. CASE r \in targets \ {t} /\ s = new
      BY <1>3, <2>2 DEF IndInv, TypeOK, RowsAreKeyed
    <2>3. CASE r = new /\ s \in targets \ {t}
      BY <1>3, <2>3 DEF IndInv, TypeOK, RowsAreKeyed
    <2>4. CASE r = new /\ s = new
      BY <2>4
    <2> QED
      BY <1>1, <2>1, <2>2, <2>3, <2>4
  <1>5. RowsAreKeyed'
    BY <1>4 DEF RowsAreKeyed
  <1>6. listing'.step = listing.step /\ "step" \in DOMAIN listing'
    <2>1. CASE listing.step = "idle"
      BY <2>1 DEF set_archived, IndInv
    <2>2. CASE listing.step # "idle"
      BY <2>2 DEF set_archived, IndInv
    <2> QED
      BY <2>1, <2>2
  <1> HIDE DEF new
  <1>7. TypeOK'
    BY <1>1, <1>3, <1>4, <1>6 DEF IndInv, TypeOK
  <1> QED
    BY <1>5, <1>6, <1>7 DEF IndInv

\* Listings read; the members, the clock and a failed registration leave the
\* rows alone.
LEMMA OtherSteps ==
    ASSUME IndInv,
           \/ \E u \in Users : MembershipChanges(u)
           \/ Tick
           \/ \E p \in pending : RegisterFails(p)
           \/ \E u \in Users, owner \in Owners, archivedToo \in BOOLEAN :
                 StartListing(u, owner, archivedToo)
           \/ list_targets
           \/ StopListing
    PROVE  IndInv'
  <1>1. UNCHANGED targets
    BY DEF MembershipChanges, Tick, RegisterFails, StartListing, list_targets, StopListing
  <1>2. members' \subseteq Users /\ clock' \in 0..MaxTime
        /\ pending' \subseteq [owner : Owners, url : Urls, at : 0..MaxTime]
    <2>1. CASE \E u \in Users : MembershipChanges(u)
      BY <2>1 DEF IndInv, TypeOK, MembershipChanges
    <2>2. CASE Tick
      BY <2>2, CatalogueAssumption DEF IndInv, TypeOK, Tick
    <2>3. CASE \E p \in pending : RegisterFails(p)
      BY <2>3 DEF IndInv, TypeOK, RegisterFails
    <2>4. CASE UNCHANGED <<members, clock, pending>>
      BY <2>4 DEF IndInv, TypeOK
    <2> QED
      BY <2>1, <2>2, <2>3, <2>4 DEF StartListing, list_targets, StopListing
  <1>3. listing'.step \in {"idle", "paging", "done"} /\ "step" \in DOMAIN listing'
    <2>1. CASE UNCHANGED listing
      BY <2>1 DEF IndInv, TypeOK
    <2>2. CASE list_targets
      BY <2>2 DEF list_targets, IndInv
    <2>3. CASE \E u \in Users, owner \in Owners, archivedToo \in BOOLEAN :
                  StartListing(u, owner, archivedToo)
      BY <2>3 DEF StartListing
    <2>4. CASE StopListing
      BY <2>4 DEF StopListing, NotListing
    <2> QED
      BY <2>1, <2>2, <2>3, <2>4 DEF MembershipChanges, Tick, RegisterFails
  <1> QED
    BY <1>1, <1>2, <1>3 DEF IndInv, TypeOK, RowsAreKeyed

\* The inductive invariant holds however many requests register, archive and
\* list at once.
THEOREM Invariance == Spec => []IndInv
  <1>1. Init => IndInv
    BY CatalogueAssumption DEF Init, IndInv, TypeOK, RowsAreKeyed, NotListing
  <1>2. IndInv /\ [Next]_vars => IndInv'
    <2> SUFFICES ASSUME IndInv, [Next]_vars
                 PROVE  IndInv'
      OBVIOUS
    <2>1. CASE UNCHANGED vars
      BY <2>1 DEF vars, IndInv, TypeOK, RowsAreKeyed
    <2>2. CASE Next
      BY <2>2, CheckStep, InsertStep, ArchiveStep, OtherSteps DEF Next
    <2> QED
      BY <2>1, <2>2
  <1> QED
    BY <1>1, <1>2, PTL DEF Spec

\* Every variable keeps its type and no two rows share a primary key.
THEOREM TypeCorrect == Spec => []TypeOK
  <1>1. IndInv => TypeOK
    BY DEF IndInv
  <1> QED
    BY <1>1, Invariance, PTL

\* Requests that all looked before any inserted leave one row per owner and
\* target, however each wrote the host's case and trailing dots.
THEOREM OneRowPerUrl == Spec => []TargetsAreUnique
  <1>1. IndInv => TargetsAreUnique
    <2> SUFFICES ASSUME IndInv, NEW s \in targets, NEW t \in targets, s.owner = t.owner,
                        Named(s.url) = Named(t.url)
                 PROVE  s = t
      BY DEF TargetsAreUnique
    <2>1. s.url \in Urls /\ t.url \in Urls
      BY DEF IndInv, TypeOK, Target
    <2>2. /\ s.url.scheme = t.url.scheme /\ s.url.port = t.url.port /\ s.url.path = t.url.path
          /\ s.url.host.name = t.url.host.name /\ s.url.host.script = t.url.host.script
      BY DEF Named
    <2>3. s.url.host = t.url.host
      BY <2>1, <2>2, AcceptedIsCanonical DEF UrlsAreCanonical
    <2>4. s.url = t.url
      BY <2>1, <2>2, <2>3, AcceptedIsCanonical DEF UrlsAreCanonical
    <2> QED
      BY <2>4 DEF IndInv, RowsAreKeyed
  <1> QED
    BY <1>1, Invariance, PTL

\* Case, trailing dots and non-ASCII digits get no host past the rules: a row's
\* host is a public name, or masked by other characters that IDNA maps.
THEOREM RowsArePublic == Spec => []TargetsArePublic
  <1>1. IndInv => TargetsArePublic
    <2> SUFFICES ASSUME IndInv, NEW t \in targets
                 PROVE  \/ t.url.host.script = "plain" /\ HostKind[t.url.host.name] = "public"
                        \/ t.url.host.script = "masked"
      BY DEF TargetsArePublic
    <2>1. t.url \in Urls
      BY DEF IndInv, TypeOK, Target
    <2> QED
      BY <2>1, AcceptedIsCanonical DEF UrlsAreCanonical
  <1> QED
    BY <1>1, Invariance, PTL

-----------------------------------------------------------------------------
(* The order of a listing, and what LIMIT takes of it.                     *)

\* A set of numbers has a least one.
LEMMA LeastNumber ==
    ASSUME NEW T, T \subseteq Nat, T # {}
    PROVE  \E x \in T : \A y \in T : x <= y
  <1>1. PICK x \in T : \A y \in T : ~(<<y, x>> \in OpToRel(<, Nat))
    BY WFMin, NatLessThanWellFounded
  <1>2. ASSUME NEW y \in T
        PROVE  x <= y
    <2>1. x \in Nat /\ y \in Nat
      BY <1>2
    <2>2. <<y, x>> \notin OpToRel(<, Nat)
      BY <1>1, <1>2
    <2> QED BY <2>1, <2>2 DEF OpToRel
  <1> QED BY <1>2

\* Finitely many rows, told apart by their primary keys.
Rows(S) ==
    /\ IsFiniteSet(S)
    /\ \A t \in S : t.at \in Nat /\ t.id \in Nat
    /\ \A s, t \in S : s.id = t.id => s = t

Rank(S, t) == Cardinality({s \in S : Newer(s, t)})

LEMMA SubRows ==
    ASSUME NEW S, Rows(S), NEW T, T \subseteq S
    PROVE  Rows(T)
  BY FS_Subset DEF Rows

\* (created_at, id) orders rows totally.
LEMMA NewerIsTotal ==
    ASSUME NEW S, Rows(S)
    PROVE  /\ \A s \in S : ~Newer(s, s)
           /\ \A s, t \in S : s = t \/ Newer(s, t) \/ Newer(t, s)
           /\ \A s, t \in S : Newer(s, t) => ~Newer(t, s)
           /\ \A s, t, u \in S : Newer(s, t) /\ Newer(t, u) => Newer(s, u)
  <1>1. \A s \in S : ~Newer(s, s)
    BY DEF Rows, Newer
  <1>2. \A s, t \in S : s = t \/ Newer(s, t) \/ Newer(t, s)
    BY DEF Rows, Newer
  <1>3. \A s, t \in S : Newer(s, t) => ~Newer(t, s)
    BY DEF Rows, Newer
  <1>4. \A s, t, u \in S : Newer(s, t) /\ Newer(t, u) => Newer(s, u)
    BY DEF Rows, Newer
  <1> QED BY <1>1, <1>2, <1>3, <1>4

LEMMA RankGrows ==
    ASSUME NEW S, Rows(S), NEW s \in S, NEW t \in S
    PROVE  /\ Rank(S, s) \in Nat
           /\ Newer(s, t) => Rank(S, s) < Rank(S, t)
  <1> DEFINE A == {x \in S : Newer(x, s)}
             B == {x \in S : Newer(x, t)}
  <1>1. IsFiniteSet(A) /\ IsFiniteSet(B)
    BY FS_Subset DEF Rows
  <1>2. Cardinality(A) \in Nat /\ Cardinality(B) \in Nat
    BY <1>1, FS_CardinalityType
  <1>3. ASSUME Newer(s, t)
        PROVE  A \subseteq B /\ A # B
    <2>1. A \subseteq B
      BY <1>3, NewerIsTotal
    <2>2. s \in B /\ s \notin A
      BY <1>3, NewerIsTotal
    <2> QED BY <2>1, <2>2
  <1>4. ASSUME Newer(s, t)
        PROVE  Cardinality(A) < Cardinality(B)
    <2>1. A \in SUBSET B /\ A # B
      BY <1>3, <1>4
    <2> HIDE DEF A, B
    <2>2. Cardinality(A) <= Cardinality(B) /\ (Cardinality(B) = Cardinality(A) => B = A)
      BY <1>1, <2>1, FS_Subset
    <2> QED BY <1>2, <2>1, <2>2
  <1> QED BY <1>2, <1>4 DEF Rank

\* There is an oldest row, so rows[-1] is one.
LEMMA OldestOfRows ==
    ASSUME NEW S, Rows(S), S # {}
    PROVE  Oldest(S) \in S /\ \A s \in S : s = Oldest(S) \/ Newer(s, Oldest(S))
  <1>0. {t.at : t \in S} \subseteq Nat /\ {t.at : t \in S} # {}
    BY DEF Rows
  <1>1. PICK a \in {t.at : t \in S} : \A b \in {t.at : t \in S} : a <= b
    BY <1>0, LeastNumber
  <1> DEFINE E == {t \in S : t.at = a}
  <1>2. {t.id : t \in E} # {} /\ {t.id : t \in E} \subseteq Nat
    BY <1>1 DEF Rows
  <1>3. PICK i \in {t.id : t \in E} : \A j \in {t.id : t \in E} : i <= j
    BY <1>2, LeastNumber
  <1>4. PICK t \in E : t.id = i
    BY <1>3
  <1>5. \A s \in S : s = t \/ Newer(s, t)
    <2> SUFFICES ASSUME NEW s \in S, s # t PROVE Newer(s, t)
      OBVIOUS
    <2>1. a <= s.at /\ t.at = a /\ s.at \in Nat /\ a \in Nat
      BY <1>1 DEF Rows
    <2>2. CASE s.at = a
      <3>1. i <= s.id /\ s.id # t.id /\ s.id \in Nat /\ t.id \in Nat
        BY <1>3, <1>4, <2>2 DEF Rows
      <3> QED BY <1>4, <2>1, <2>2, <3>1 DEF Newer
    <2>3. CASE s.at # a
      BY <2>1, <2>3 DEF Newer
    <2> QED BY <2>2, <2>3
  <1> QED BY <1>4, <1>5 DEF Oldest

\* There is a newest row.
LEMMA NewestOfRows ==
    ASSUME NEW S, Rows(S), NEW T, T \subseteq S, T # {}
    PROVE  \E t \in T : \A s \in T : s = t \/ Newer(t, s)
  <1>1. {Rank(S, t) : t \in T} \subseteq Nat
    BY RankGrows
  <1>2. PICK n \in {Rank(S, t) : t \in T} : \A m \in {Rank(S, t) : t \in T} : n <= m
    BY <1>1, LeastNumber
  <1>3. PICK t \in T : n = Rank(S, t)
    BY <1>2
  <1>4. ASSUME NEW s \in T, s # t
        PROVE  Newer(t, s)
    <2>1. n <= Rank(S, s) /\ Rank(S, s) \in Nat /\ n \in Nat
      BY <1>1, <1>2
    <2>2. ~Newer(s, t)
      BY <1>3, <2>1, RankGrows
    <2> QED BY <1>4, <2>2, NewerIsTotal
  <1> QED BY <1>4

\* LIMIT n takes rows that are newer than all it leaves.
LEMMA NewestFacts ==
    ASSUME NEW S, Rows(S), NEW n \in Nat
    PROVE  /\ Newest(S, n) \subseteq S
           /\ Rows(Newest(S, n))
           /\ \A t \in Newest(S, n), s \in S : Newer(s, t) => s \in Newest(S, n)
           /\ \A s \in Newest(S, n), t \in S \ Newest(S, n) : Newer(s, t)
  <1>1. Newest(S, n) = {t \in S : Rank(S, t) < n}
    BY DEF Newest, Rank
  <1>2. \A t \in Newest(S, n), s \in S : Newer(s, t) => s \in Newest(S, n)
    <2> SUFFICES ASSUME NEW t \in S, Rank(S, t) < n, NEW s \in S, Newer(s, t)
                 PROVE  Rank(S, s) < n
      BY <1>1
    <2>1. Rank(S, s) \in Nat /\ Rank(S, t) \in Nat /\ Rank(S, s) < Rank(S, t)
      BY RankGrows
    <2> QED BY <2>1
  <1>3. Newest(S, n) \subseteq S
    BY <1>1
  <1>4. \A s \in Newest(S, n), t \in S \ Newest(S, n) : Newer(s, t)
    BY <1>2, <1>3, NewerIsTotal
  <1> QED BY <1>2, <1>3, <1>4, SubRows

\* LIMIT takes a row when there is one.
LEMMA NewestTakes ==
    ASSUME NEW S, Rows(S), S # {}, NEW n \in Nat, n # 0
    PROVE  Newest(S, n) # {}
  <1>1. PICK t \in S : \A s \in S : s = t \/ Newer(t, s)
    BY NewestOfRows
  <1>2. {s \in S : Newer(s, t)} = {}
    BY <1>1, NewerIsTotal
  <1>3. Cardinality({s \in S : Newer(s, t)}) < n
    BY <1>2, FS_EmptySet
  <1> QED BY <1>3 DEF Newest

\* rows[:limit] of the rows that LIMIT limit + 1 fetched is what LIMIT limit
\* would have fetched.
LEMMA NewestOfNewest ==
    ASSUME NEW S, Rows(S), NEW m \in Nat, NEW n \in Nat, m <= n
    PROVE  Newest(Newest(S, n), m) = Newest(S, m)
  <1> DEFINE N == Newest(S, n)
  <1>1. N = {t \in S : Rank(S, t) < n}
    BY DEF Newest, Rank
  <1>2. \A t \in N, s \in S : Newer(s, t) => s \in N
    BY NewestFacts
  <1>3. ASSUME NEW t \in N
        PROVE  Rank(N, t) = Rank(S, t)
    <2>1. {s \in N : Newer(s, t)} = {s \in S : Newer(s, t)}
      BY <1>1, <1>2
    <2> QED BY <2>1 DEF Rank
  <1>4. Newest(N, m) = {t \in N : Rank(N, t) < m} /\ Newest(S, m) = {t \in S : Rank(S, t) < m}
    BY DEF Newest, Rank
  <1> HIDE DEF N
  <1>5. \A t \in S : Rank(S, t) \in Nat
    BY RankGrows
  <1>6. \A t \in S : Rank(S, t) < m => Rank(S, t) < n
    BY <1>5
  <1> QED BY <1>1, <1>3, <1>4, <1>6 DEF N

\* The probe: when LIMIT n leaves a row, LIMIT n + 1 fetches more than n.
LEMMA ProbeFinds ==
    ASSUME NEW S, Rows(S), NEW n \in Nat, S \ Newest(S, n) # {}
    PROVE  Cardinality(Newest(S, n + 1)) > n
  <1> DEFINE N == Newest(S, n)
             M == Newest(S, n + 1)
  <1>1. /\ N \subseteq S /\ Rows(N)
        /\ \A t \in N, s \in S : Newer(s, t) => s \in N
        /\ \A s \in N, t \in S \ N : Newer(s, t)
    BY NewestFacts
  <1>2. N = {t \in S : Rank(S, t) < n} /\ M = {t \in S : Rank(S, t) < n + 1}
    BY DEF Newest, Rank
  <1>3. \A t \in S : Rank(S, t) \in Nat
    BY RankGrows
  <1>4. PICK t \in S \ N : \A s \in S \ N : s = t \/ Newer(t, s)
    BY NewestOfRows
  <1> HIDE DEF N, M
  <1>5. IsFiniteSet(N) /\ Cardinality(N) \in Nat
    BY <1>1, FS_CardinalityType DEF Rows
  <1>6. Rank(S, t) = Cardinality(N)
    <2>1. {s \in S : Newer(s, t)} = N
      BY <1>1, <1>4, NewerIsTotal
    <2> QED BY <2>1 DEF Rank
  <1>7. Cardinality(N) >= n
    BY <1>2, <1>3, <1>4, <1>6
  <1>8. Cardinality(N) <= n
    <2>1. CASE N = {}
      BY <2>1, FS_EmptySet
    <2>2. CASE N # {}
      <3> DEFINE o == Oldest(N)
      <3>1. o \in N /\ \A s \in N : s = o \/ Newer(s, o)
        BY <1>1, <2>2, OldestOfRows
      <3> HIDE DEF o
      <3>2. {s \in S : Newer(s, o)} = N \ {o}
        BY <1>1, <3>1, NewerIsTotal
      <3>3. Rank(S, o) = Cardinality(N) - 1
        BY <1>5, <3>1, <3>2, FS_RemoveElement DEF Rank
      <3>4. Rank(S, o) < n /\ Rank(S, o) \in Nat
        BY <1>1, <1>2, <1>3, <3>1
      <3> QED BY <1>5, <3>3, <3>4
    <2> QED BY <2>1, <2>2
  <1>9. N \cup {t} \subseteq M
    <2>1. t \in M
      BY <1>2, <1>4, <1>5, <1>6, <1>8
    <2>2. N \subseteq M
      BY <1>2, <1>3
    <2> QED BY <2>1, <2>2
  <1>10. IsFiniteSet(M)
    <2>1. M \in SUBSET S /\ IsFiniteSet(S)
      BY <1>2 DEF Rows
    <2> QED BY <2>1, FS_Subset
  <1>11. Cardinality(N \cup {t}) = Cardinality(N) + 1
    BY <1>4, <1>5, FS_AddElement
  <1>12. Cardinality(N \cup {t}) <= Cardinality(M) /\ Cardinality(M) \in Nat
    BY <1>9, <1>10, FS_Subset, FS_CardinalityType
  <1> QED BY <1>5, <1>7, <1>11, <1>12 DEF M

-----------------------------------------------------------------------------
(* A listing read page by page.                                            *)

Fields == {"step", "user", "owner", "archivedToo", "first", "cursor", "served", "owed"}

Given(l) == UNION {l.served[i] : i \in DOMAIN l.served}

\* The listing has passed the row and will not come back to it.
Past(t, l) == ~(l.first \/ AfterCursor(t, l.cursor))

\* What it has given it has passed, and what it owes is given or lies ahead.
Paged ==
    /\ DOMAIN listing = Fields
    /\ listing.cursor.at \in Nat /\ listing.cursor.id \in Nat
    /\ listing.served \in Seq(SUBSET Ids)
    /\ \A x \in Given(listing) : \E t \in targets : t.id = x /\ Past(t, listing)
    /\ \A i, j \in DOMAIN listing.served :
          i # j => listing.served[i] \cap listing.served[j] = {}
    /\ \A x \in listing.owed :
          \/ x \in Given(listing)
          \/ /\ listing.step = "paging"
             /\ \E t \in targets : t.id = x /\ InScope(t, listing) /\ ~Past(t, listing)

ListingInv ==
    /\ IsFiniteSet(targets)
    /\ listing.step # "idle" => Paged

LEMMA TargetsAreRows ==
    ASSUME IndInv, IsFiniteSet(targets)
    PROVE  Rows(targets) /\ \A t \in targets : t.id \in Ids
  <1>1. ASSUME NEW t \in targets
        PROVE  t.at \in Nat /\ t.id \in Nat /\ t.id \in Ids
    <2>1. t \in Target
      BY DEF IndInv, TypeOK
    <2>2. t.at \in 0..MaxTime /\ t.id \in Ids
      BY <2>1 DEF Target
    <2> QED BY <2>2, CatalogueAssumption DEF Ids
  <1> QED BY <1>1 DEF IndInv, TypeOK, Rows

\* Steps that touch neither rows nor listing.
LEMMA ListingStays ==
    ASSUME ListingInv, UNCHANGED <<targets, listing>>
    PROVE  ListingInv'
  BY DEF ListingInv, Paged, Given, Past, AfterCursor, InScope

\* A new row may or may not be met by the listing; it owes nothing for it.
LEMMA ListingOfInsert ==
    ASSUME IndInv, ListingInv, NEW p \in pending, NEW id \in Ids, RegisterInsert(p, id)
    PROVE  ListingInv'
  <1>1. UNCHANGED listing /\ targets \subseteq targets'
    BY DEF RegisterInsert
  <1>2. IsFiniteSet(targets')
    BY FS_AddElement DEF RegisterInsert, ListingInv
  <1>3. ASSUME listing.step # "idle" PROVE Paged'
    <2>1. Paged
      BY <1>3 DEF ListingInv
    <2>2. Given(listing') = Given(listing)
      BY <1>1
    <2>3. \A t : (Past(t, listing') <=> Past(t, listing)) /\ (InScope(t, listing') <=> InScope(t, listing))
      BY <1>1
    <2> QED BY <1>1, <2>1, <2>2, <2>3 DEF Paged
  <1> QED BY <1>1, <1>2, <1>3 DEF ListingInv

\* A row that is archived or restored keeps its place and is owed no longer.
LEMMA ListingOfArchive ==
    ASSUME IndInv, ListingInv, NEW u \in Users, NEW t \in targets, NEW archived \in BOOLEAN,
           set_archived(u, t, archived)
    PROVE  ListingInv'
  <1> DEFINE new == [t EXCEPT !.archived = archived]
  <1>1. targets' = (targets \ {t}) \cup {new}
    BY DEF set_archived
  <1>2. t \in Target
    BY DEF IndInv, TypeOK
  <1>3. new.id = t.id /\ new.at = t.at
    BY <1>2 DEF Target
  <1>4. IsFiniteSet(targets')
    <2>1. IsFiniteSet(targets \ {t})
      BY FS_RemoveElement DEF ListingInv
    <2> QED BY <1>1, <2>1, FS_AddElement
  <1> HIDE DEF new
  <1>5. CASE listing.step = "idle"
    BY <1>4, <1>5 DEF set_archived, ListingInv
  <1>6. CASE listing.step # "idle"
    <2>1. Paged
      BY <1>6 DEF ListingInv
    <2>2. listing' = [listing EXCEPT !.owed = @ \ {t.id}]
      BY <1>6 DEF set_archived
    <2>3. /\ DOMAIN listing' = Fields /\ listing'.owed = listing.owed \ {t.id}
          /\ listing'.step = listing.step /\ listing'.first = listing.first
          /\ listing'.cursor = listing.cursor /\ listing'.served = listing.served
          /\ listing'.owner = listing.owner /\ listing'.archivedToo = listing.archivedToo
      BY <2>1, <2>2 DEF Paged, Fields
    <2>4. Given(listing') = Given(listing)
      BY <2>3 DEF Given
    <2>5. /\ \A s : Past(s, listing') <=> Past(s, listing)
          /\ \A s : InScope(s, listing') <=> InScope(s, listing)
          /\ Past(new, listing) <=> Past(t, listing)
      BY <1>3, <2>3 DEF Past, InScope, AfterCursor
    <2>6. \A x \in Given(listing) : \E s \in targets' : s.id = x /\ Past(s, listing)
      BY <1>1, <1>3, <2>1, <2>5 DEF Paged
    <2>7. ASSUME NEW x \in listing'.owed
          PROVE  \/ x \in Given(listing)
                 \/ /\ listing.step = "paging"
                    /\ \E s \in targets' : s.id = x /\ InScope(s, listing) /\ ~Past(s, listing)
      BY <1>1, <2>1, <2>3, <2>7 DEF Paged
    <2>8. Paged'
      BY <2>1, <2>3, <2>4, <2>5, <2>6, <2>7 DEF Paged
    <2> QED BY <1>4, <2>8 DEF ListingInv
  <1> QED BY <1>5, <1>6

\* A listing begins with all that is in scope ahead of it.
LEMMA ListingOfStart ==
    ASSUME IndInv, ListingInv, NEW u \in Users, NEW owner \in Owners, NEW archivedToo \in BOOLEAN,
           StartListing(u, owner, archivedToo)
    PROVE  ListingInv'
  <1> DEFINE l == [step |-> "paging", user |-> u, owner |-> owner,
                   archivedToo |-> archivedToo, first |-> TRUE,
                   cursor |-> [at |-> 0, id |-> 0], served |-> <<>>, owed |-> {}]
             owed == {t.id : t \in {t \in targets : InScope(t, l)}}
  <1>1. UNCHANGED targets /\ listing' = [l EXCEPT !.owed = owed]
    BY DEF StartListing
  <1>2. /\ DOMAIN listing' = Fields /\ listing'.owed = owed /\ listing'.step = "paging"
        /\ listing'.first = TRUE /\ listing'.served = <<>>
        /\ listing'.cursor = [at |-> 0, id |-> 0]
        /\ listing'.owner = l.owner /\ listing'.archivedToo = l.archivedToo
    BY <1>1 DEF Fields
  <1> HIDE DEF l
  <1>3. \A t : InScope(t, listing') <=> InScope(t, l)
    BY <1>2 DEF InScope
  <1>4. \A t : ~Past(t, listing')
    BY <1>2 DEF Past
  <1>5. \A x \in listing'.owed : \E t \in targets' : t.id = x /\ InScope(t, listing') /\ ~Past(t, listing')
    BY <1>1, <1>2, <1>3, <1>4
  <1>6. Given(listing') = {} /\ <<>> \in Seq(SUBSET Ids) /\ DOMAIN <<>> = {}
    BY <1>2 DEF Given
  <1>7. listing'.cursor.at \in Nat /\ listing'.cursor.id \in Nat
    BY <1>2
  <1>8. Paged'
    BY <1>2, <1>5, <1>6, <1>7 DEF Paged
  <1> QED BY <1>1, <1>8 DEF ListingInv

\* A page lies ahead of the cursor, and the new cursor is its oldest row: what was
\* given before has no row of it, and what is neither given nor on it lies ahead of
\* the new cursor.
LEMMA ListingOfPage ==
    ASSUME IndInv, ListingInv, list_targets
    PROVE  ListingInv'
  <1> DEFINE rest == {t \in targets : InScope(t, listing)
                                      /\ (listing.first \/ AfterCursor(t, listing.cursor))}
             rows == Newest(rest, Limit + 1)
             items == Newest(rows, Limit)
             ids == {t.id : t \in items}
             cursor == IF items = {} THEN listing.cursor
                       ELSE [at |-> Oldest(items).at, id |-> Oldest(items).id]
  <1>1. /\ listing.step = "paging" /\ UNCHANGED targets
        /\ listing' = [listing EXCEPT
              !.step = IF Cardinality(rows) > Limit THEN "paging" ELSE "done",
              !.first = FALSE, !.cursor = cursor, !.served = Append(@, ids)]
    BY DEF list_targets, Page
  <1>2. Paged
    BY <1>1 DEF ListingInv
  <1>3. Rows(targets) /\ \A t \in targets : t.id \in Ids
    BY TargetsAreRows DEF ListingInv
  <1>4. rest \subseteq targets /\ \A t \in targets : t \in rest <=> InScope(t, listing) /\ ~Past(t, listing)
    BY DEF Past
  <1>5. Limit \in Nat /\ Limit + 1 \in Nat /\ Limit <= Limit + 1
    BY CatalogueAssumption
  <1> HIDE DEF rest
  <1>6. Rows(rest)
    BY <1>3, <1>4, SubRows
  <1>7. items = Newest(rest, Limit)
    BY <1>5, <1>6, NewestOfNewest
  <1>8. /\ items \subseteq rest /\ Rows(items)
        /\ \A s \in items, t \in rest \ items : Newer(s, t)
    BY <1>5, <1>6, <1>7, NewestFacts
  <1>9. Cardinality(rows) > Limit \/ rest \subseteq items
    BY <1>5, <1>6, <1>7, ProbeFinds
  <1> HIDE DEF rows, items
  <1>10. /\ DOMAIN listing' = Fields /\ listing'.first = FALSE /\ listing'.cursor = cursor
         /\ listing'.served = Append(listing.served, ids)
         /\ listing'.owed = listing.owed /\ listing'.owner = listing.owner
         /\ listing'.archivedToo = listing.archivedToo
         /\ listing'.step = IF Cardinality(rows) > Limit THEN "paging" ELSE "done"
    BY <1>1, <1>2 DEF Paged, Fields
  <1>11. \A t \in items : t \in targets /\ ~Past(t, listing) /\ t.id \in Ids
    BY <1>3, <1>4, <1>8
  <1>12. cursor.at \in Nat /\ cursor.id \in Nat
    <2>1. CASE items = {}
      BY <1>2, <2>1 DEF Paged
    <2>2. CASE items # {}
      BY <1>8, <2>2, OldestOfRows DEF Rows
    <2> QED BY <2>1, <2>2
  <1>13. \A t \in items : Past(t, listing')
    <2> SUFFICES ASSUME NEW t \in items PROVE ~AfterCursor(t, cursor)
      BY <1>10 DEF Past
    <2> DEFINE o == Oldest(items)
    <2>1. o \in items /\ (t = o \/ Newer(t, o))
      BY <1>8, OldestOfRows
    <2> HIDE DEF o
    <2>2. cursor.at = o.at /\ cursor.id = o.id
      BY DEF o
    <2> HIDE DEF cursor
    <2>3. t.at \in Nat /\ t.id \in Nat /\ o.at \in Nat /\ o.id \in Nat
      BY <1>8, <2>1 DEF Rows
    <2> QED BY <2>1, <2>2, <2>3 DEF Newer, AfterCursor
  <1>14. \A t \in rest \ items : items # {} => ~Past(t, listing')
    <2> SUFFICES ASSUME NEW t \in rest \ items, items # {} PROVE AfterCursor(t, cursor)
      BY <1>10 DEF Past
    <2> DEFINE o == Oldest(items)
    <2>1. o \in items
      BY <1>8, OldestOfRows
    <2> HIDE DEF o
    <2>2. cursor.at = o.at /\ cursor.id = o.id /\ Newer(o, t)
      BY <1>8, <2>1 DEF o
    <2> HIDE DEF cursor
    <2>3. t.at \in Nat /\ t.id \in Nat /\ o.at \in Nat /\ o.id \in Nat
      BY <1>6, <1>8, <2>1 DEF Rows
    <2> QED BY <2>2, <2>3 DEF Newer, AfterCursor
  <1>15. \A t \in targets : Past(t, listing) => Past(t, listing')
    <2> SUFFICES ASSUME NEW t \in targets, ~listing.first, ~AfterCursor(t, listing.cursor)
                 PROVE  ~AfterCursor(t, cursor)
      BY <1>10 DEF Past
    <2>1. CASE items = {}
      BY <2>1
    <2>2. CASE items # {}
      <3> DEFINE o == Oldest(items)
      <3>1. o \in items
        BY <1>8, <2>2, OldestOfRows
      <3> HIDE DEF o
      <3>2. AfterCursor(o, listing.cursor)
        BY <1>11, <3>1 DEF Past
      <3>3. cursor.at = o.at /\ cursor.id = o.id
        BY <2>2 DEF o
      <3> HIDE DEF cursor
      <3>4. /\ t.at \in Nat /\ t.id \in Nat /\ o.at \in Nat /\ o.id \in Nat
            /\ listing.cursor.at \in Nat /\ listing.cursor.id \in Nat
        BY <1>2, <1>3, <1>8, <3>1 DEF Rows, Paged
      <3> QED BY <3>2, <3>3, <3>4 DEF AfterCursor
    <2> QED BY <2>1, <2>2
  <1> HIDE DEF cursor
  <1>16. ids \in SUBSET Ids
    BY <1>11
  <1>17. ids \cap Given(listing) = {}
    <2> SUFFICES ASSUME NEW t \in items, t.id \in Given(listing) PROVE FALSE
      OBVIOUS
    <2>1. PICK s \in targets : s.id = t.id /\ Past(s, listing)
      BY <1>2 DEF Paged
    <2>2. s = t
      BY <1>3, <1>11, <2>1 DEF Rows
    <2> QED BY <1>11, <2>1, <2>2
  <1>18. \A x \in ids : \E t \in targets' : t.id = x /\ Past(t, listing')
    BY <1>1, <1>11, <1>13
  <1> DEFINE old == listing.served
             now == listing'.served
             n == Len(old)
  <1>19. /\ old \in Seq(SUBSET Ids) /\ n \in Nat
         /\ DOMAIN old = 1..n
    BY <1>2 DEF Paged
  <1> HIDE DEF ids
  <1>20. /\ now \in Seq(SUBSET Ids) /\ DOMAIN now = 1..(n + 1)
         /\ \A i \in 1..n : now[i] = old[i]
         /\ now[n + 1] = ids
    BY <1>10, <1>16, <1>19, AppendProperties
  <1> HIDE DEF old, now, n
  <1>21. Given(listing) = UNION {old[i] : i \in 1..n}
    BY <1>19 DEF Given, old
  <1>22. Given(listing') = UNION {now[i] : i \in 1..(n + 1)}
    BY <1>20 DEF Given, now
  <1>23. Given(listing') = Given(listing) \cup ids
    <2>1. \A i \in 1..(n + 1) : i \in 1..n \/ i = n + 1
      BY <1>19
    <2>2. \A i \in 1..n : i \in 1..(n + 1)
      BY <1>19
    <2>3. n + 1 \in 1..(n + 1)
      BY <1>19
    <2> QED BY <1>20, <1>21, <1>22, <2>1, <2>2, <2>3
  <1>24. ASSUME NEW i \in DOMAIN now, NEW j \in DOMAIN now, i # j
         PROVE  now[i] \cap now[j] = {}
    <2>1. CASE i \in 1..n /\ j \in 1..n
      BY <1>2, <1>19, <1>20, <1>24, <2>1 DEF Paged, old
    <2>2. CASE i \in 1..n /\ j = n + 1
      BY <1>17, <1>20, <1>21, <2>2
    <2>3. CASE i = n + 1 /\ j \in 1..n
      BY <1>17, <1>20, <1>21, <2>3
    <2> QED BY <1>19, <1>20, <1>24, <2>1, <2>2, <2>3
  <1>25. ASSUME NEW x \in listing'.owed
         PROVE  \/ x \in Given(listing')
                \/ /\ listing'.step = "paging"
                   /\ \E t \in targets' : t.id = x /\ InScope(t, listing') /\ ~Past(t, listing')
    <2>1. CASE x \in Given(listing)
      BY <1>23, <2>1
    <2>2. CASE x \notin Given(listing)
      <3>1. PICK t \in targets : t.id = x /\ InScope(t, listing) /\ ~Past(t, listing)
        BY <1>2, <1>10, <1>25, <2>2 DEF Paged
      <3>2. t \in rest
        BY <1>4, <3>1
      <3>3. CASE t \in items
        BY <1>23, <3>1, <3>3 DEF ids
      <3>4. CASE t \notin items
        <4>1. Cardinality(rows) > Limit
          BY <1>9, <3>2, <3>4
        <4>2. items # {}
          BY <1>5, <1>6, <1>7, <3>2, NewestTakes, CatalogueAssumption
        <4>3. InScope(t, listing')
          BY <1>10, <3>1 DEF InScope
        <4> QED BY <1>1, <1>10, <1>14, <3>1, <3>2, <3>4, <4>1, <4>2, <4>3
      <3> QED BY <3>3, <3>4
    <2> QED BY <2>1, <2>2
  <1>26. \A x \in Given(listing') : \E t \in targets' : t.id = x /\ Past(t, listing')
    BY <1>1, <1>2, <1>15, <1>18, <1>23 DEF Paged
  <1>27. Paged'
    BY <1>10, <1>12, <1>20, <1>24, <1>25, <1>26 DEF Paged, now
  <1> QED BY <1>1, <1>27 DEF ListingInv

\* While others register, archive and restore, a listing gives no row twice and
\* has in the end given every row that stood there untouched since its first page.
THEOREM ListingExact == Spec => []ListingIsExact
  <1>1. Init => ListingInv
    BY FS_EmptySet DEF Init, ListingInv, NotListing
  <1>2. IndInv /\ ListingInv /\ [Next]_vars => ListingInv'
    <2> SUFFICES ASSUME IndInv, ListingInv, [Next]_vars PROVE ListingInv'
      OBVIOUS
    <2>1. ASSUME \/ \E u \in Users : MembershipChanges(u)
                 \/ Tick
                 \/ \E u \in Users, owner \in Owners, in \in Inputs : RegisterCheck(u, owner, in)
                 \/ \E p \in pending : RegisterFails(p)
                 \/ UNCHANGED vars
          PROVE  ListingInv'
      <3>1. UNCHANGED <<targets, listing>>
        BY <2>1 DEF MembershipChanges, Tick, RegisterCheck, RegisterFails, vars
      <3> QED BY <3>1, ListingStays
    <2>2. CASE StopListing
      BY <2>2 DEF StopListing, NotListing, ListingInv
    <2> QED BY <2>1, <2>2, ListingOfInsert, ListingOfArchive, ListingOfStart, ListingOfPage DEF Next
  <1>3. ListingInv => ListingIsExact
    <2> SUFFICES ASSUME Paged PROVE ListingIsExact
      BY DEF ListingInv, ListingIsExact
    <2>1. listing.step = "done" => listing.owed \subseteq Given(listing)
      BY DEF Paged
    <2> QED BY <2>1 DEF Paged, ListingIsExact, Given
  <1> QED BY <1>1, <1>2, <1>3, Invariance, PTL DEF Spec
=============================================================================
