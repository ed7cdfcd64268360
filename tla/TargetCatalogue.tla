-------------------------- MODULE TargetCatalogue --------------------------
(***************************************************************************)
(* The targets that users and their organization register, and how they   *)
(* are listed: domain/targets/target_normalization.py, target_service.py,  *)
(* target_repository.py and api/routes/target_routes.py.  Memberships has  *)
(* the organization's members in detail; here any user may join or leave   *)
(* at any time.                                                            *)
(*                                                                         *)
(* A registration looks for a duplicate, then inserts: two may look before *)
(* either inserts.  A listing is a sequence of requests, one per page,     *)
(* each resuming at the (created_at, id) of the last row it was given.     *)
(***************************************************************************)
EXTENDS Naturals, Sequences, FiniteSets

CONSTANTS
    Users,
    Org,         \* the organization, as an owner
    HostKind,    \* what the name of each host is, without a trailing dot
    Inputs,      \* the (hostname, url) pairs that users submit
    MaxTargets,  \* bound on the target rows
    MaxTime,     \* bound on the clock's ticks
    Limit        \* the page size

ASSUME CatalogueAssumption ==
    /\ Org \notin Users
    /\ MaxTargets \in Nat
    /\ MaxTime \in Nat
    /\ Limit \in Nat \ {0}
    /\ \A in \in Inputs :
          in.host \in [name : DOMAIN HostKind, dot : BOOLEAN, upper : BOOLEAN,
                       script : {"plain", "digits", "masked"}]

VARIABLES
    members,    \* who is a member of the organization
    targets,    \* committed target rows
    clock,      \* the clock created_at is read from
    pending,    \* registrations that have looked and not yet inserted
    listing     \* the listing in progress

vars == <<members, targets, clock, pending, listing>>

(***************************************************************************)
(* normalize_target.  A host is spelled as a name in some case, with or    *)
(* without trailing dots, in some script: plain where the rules read it,   *)
(* with non-ASCII digits, or masked by other characters that IDNA maps to  *)
(* ASCII (an ideographic full stop as separator, fullwidth letters).  The  *)
(* rules on numeric, private and special names are HostKind's, and see the *)
(* spelling they are given.                                                *)
(***************************************************************************)

\* Mutant: the trailing dot is kept.
keep_trailing_dot(host) == host

strip_trailing_dot(host) == [host EXCEPT !.dot = FALSE]
lower(host) == [host EXCEPT !.upper = FALSE]

\* No rule matches a host that still ends in a dot, or one that is masked: it
\* is neither one of the listed names or suffixes, nor numeric, nor a literal.
Kind(host) ==
    IF host.dot \/ host.script # "plain" THEN "public" ELSE HostKind[host.name]

\* _contains_non_ascii_numeric: the only rule about the script.
HasForeignDigits(host) == host.script = "digits"

\* empty, non-ASCII digits, localhost, metadata and private suffixes,
\* non-canonical numeric forms, literals of special ranges.
validate_host(host) == ~HasForeignDigits(host) /\ Kind(host) = "public"

\* urlsplit lowercases the host; the host name given must be the URL's.
normalize_host(in) == strip_trailing_dot(lower(in.host))

Accepted(in) ==
    /\ in.fits                          \* the three length limits
    /\ in.scheme \in {"http", "https"}
    /\ ~in.userinfo
    /\ in.port # "invalid"
    /\ validate_host(normalize_host(in))
    /\ normalize_host(in) = strip_trailing_dot(lower(in.hostname))

\* The fragment is dropped, an empty path becomes /, the port stays as given.
normalized_url(in) ==
    [scheme |-> in.scheme, host |-> normalize_host(in), port |-> in.port,
     path |-> IF in.path = "" THEN "/" ELSE in.path]

Urls == {normalized_url(in) : in \in {in \in Inputs : Accepted(in)}}

(***************************************************************************)
(* Registration.                                                           *)
(***************************************************************************)
Owners == Users \cup {Org}
Ids == 1..MaxTargets
NotListing == [step |-> "idle"]

Target == [id : Ids, owner : Owners, url : Urls, archived : BOOLEAN,
           at : 0..MaxTime]

Init ==
    /\ members = {}
    /\ targets = {}
    /\ clock = 0
    /\ pending = {}
    /\ listing = NotListing

\* The organization's administrators add and remove members.
MembershipChanges(u) ==
    /\ members' = IF u \in members THEN members \ {u} ELSE members \cup {u}
    /\ UNCHANGED <<targets, clock, pending, listing>>

Tick ==
    /\ clock < MaxTime
    /\ clock' = clock + 1
    /\ UNCHANGED <<members, targets, pending, listing>>

\* owner_user_id is the caller, or the caller is a member of the owner.
May(u, owner) == owner = u \/ (owner = Org /\ u \in members)

find_by_owner_and_url(owner, url) ==
    {t \in targets : t.owner = owner /\ t.url = url}

\* normalize_target, the membership check and the look for a duplicate
\* (422, 403 and 409 change nothing), then created_at := now.
RegisterCheck(u, owner, in) ==
    /\ Accepted(in)
    /\ May(u, owner)
    /\ find_by_owner_and_url(owner, normalized_url(in)) = {}
    /\ Cardinality(pending) < 2
    /\ pending' = pending \cup {[owner |-> owner, url |-> normalized_url(in),
                                 at |-> clock]}
    /\ UNCHANGED <<members, targets, clock, listing>>

\* Mutant: NULLs are distinct, so only rows whose owner columns are both set
\* would ever conflict, and there are none.
UniqueNullsDistinct(p) == TRUE

\* uq_target_owner_url: the NULL owner column counts as equal to itself.
UniqueConstraint(p) == find_by_owner_and_url(p.owner, p.url) = {}

\* Mutant: the primary key is a count of rows, and another may have it.
RegisterInsertCounted(p, id) ==
    /\ UniqueConstraint(p)
    /\ id = Cardinality({t \in targets : t.owner = p.owner}) + 1
    /\ targets' = targets \cup {[id |-> id, owner |-> p.owner, url |-> p.url,
                                 archived |-> FALSE, at |-> p.at]}
    /\ pending' = pending \ {p}
    /\ UNCHANGED <<members, clock, listing>>

\* The INSERT commits under a random primary key, or the constraint or the
\* COMMIT fails and nothing is kept.
RegisterInsert(p, id) ==
    /\ UniqueConstraint(p)
    /\ id \notin {t.id : t \in targets}
    /\ targets' = targets \cup {[id |-> id, owner |-> p.owner, url |-> p.url,
                                 archived |-> FALSE, at |-> p.at]}
    /\ pending' = pending \ {p}
    /\ UNCHANGED <<members, clock, listing>>

RegisterFails(p) ==
    /\ pending' = pending \ {p}
    /\ UNCHANGED <<members, targets, clock, listing>>

\* set_archived and archive_target: a caller who may not see the target is
\* answered 404.  A listing under way owes the target nothing any more.
set_archived(u, t, archived) ==
    /\ May(u, t.owner)
    /\ targets' = (targets \ {t}) \cup {[t EXCEPT !.archived = archived]}
    /\ listing' = IF listing.step = "idle" THEN listing
                  ELSE [listing EXCEPT !.owed = @ \ {t.id}]
    /\ UNCHANGED <<members, clock, pending>>

(***************************************************************************)
(* list_for_owner.                                                         *)
(***************************************************************************)

Newer(s, t) == s.at > t.at \/ (s.at = t.at /\ s.id > t.id)

\* Mutant: the keyset predicate compares created_at alone.
AfterTime(t, cursor) == t.at < cursor.at

\* (created_at, id) < the cursor's, or no cursor yet.
AfterCursor(t, cursor) ==
    t.at < cursor.at \/ (t.at = cursor.at /\ t.id < cursor.id)

InScope(t, l) == t.owner = l.owner /\ (l.archivedToo \/ ~t.archived)

\* ORDER BY created_at DESC, id DESC LIMIT n.
Newest(rows, n) == {t \in rows : Cardinality({s \in rows : Newer(s, t)}) < n}

\* Every row of the next page and, as the has-next probe, one more.
Page(l) ==
    Newest({t \in targets : InScope(t, l) /\ (l.first \/ AfterCursor(t, l.cursor))},
           Limit + 1)

\* rows[-1]
Oldest(rows) == CHOOSE t \in rows : \A s \in rows : s = t \/ Newer(s, t)

\* served and owed are history: the ids on each page given so far, and those
\* the listing owes because they were there at its first page and nobody
\* touched them.
StartListing(u, owner, archivedToo) ==
    /\ listing.step \in {"idle", "done"}
    /\ May(u, owner)
    /\ LET l == [step |-> "paging", user |-> u, owner |-> owner,
                 archivedToo |-> archivedToo, first |-> TRUE,
                 cursor |-> [at |-> 0, id |-> 0], served |-> <<>>,
                 owed |-> {}]
       IN  listing' = [l EXCEPT
               !.owed = {t.id : t \in {t \in targets : InScope(t, l)}}]
    /\ UNCHANGED <<members, targets, clock, pending>>

\* One GET /targets: the page, and the cursor of its last row when the probe
\* found another.
list_targets ==
    /\ listing.step = "paging"
    /\ May(listing.user, listing.owner)
    /\ LET rows == Page(listing)
           items == Newest(rows, Limit)
       IN  listing' = [listing EXCEPT
              !.step = IF Cardinality(rows) > Limit THEN "paging" ELSE "done",
              !.first = FALSE,
              !.cursor = IF items = {} THEN @
                         ELSE [at |-> Oldest(items).at, id |-> Oldest(items).id],
              !.served = Append(@, {t.id : t \in items})]
    /\ UNCHANGED <<members, targets, clock, pending>>

\* The caller stops asking, or is no longer a member and is answered 403.
StopListing ==
    /\ listing.step = "paging"
    /\ listing' = NotListing
    /\ UNCHANGED <<members, targets, clock, pending>>

-----------------------------------------------------------------------------
Next ==
    \/ \E u \in Users : MembershipChanges(u)
    \/ Tick
    \/ \E u \in Users, owner \in Owners, in \in Inputs :
          RegisterCheck(u, owner, in)
    \/ \E p \in pending : \/ \E id \in Ids : RegisterInsert(p, id)
                          \/ RegisterFails(p)
    \/ \E u \in Users, t \in targets, archived \in BOOLEAN :
          set_archived(u, t, archived)
    \/ \E u \in Users, owner \in Owners, archivedToo \in BOOLEAN :
          StartListing(u, owner, archivedToo)
    \/ list_targets
    \/ StopListing

Spec == Init /\ [][Next]_vars

-----------------------------------------------------------------------------
\* Every variable holds a value of its kind, and a row's id is its own.
TypeOK ==
    /\ members \subseteq Users
    /\ \A s, t \in targets : s.id = t.id => s = t
    /\ targets \subseteq Target
    /\ clock \in 0..MaxTime
    /\ pending \subseteq [owner : Owners, url : Urls, at : 0..MaxTime]
    /\ listing.step \in {"idle", "paging", "done"}

\* What a URL names however its host's case and trailing dots are written.
\* That a masked host names the same machine is known to a resolver only.
Named(url) == [scheme |-> url.scheme, port |-> url.port, path |-> url.path,
               name |-> url.host.name, script |-> url.host.script]

\* Two requests that both looked before either inserted still leave one row
\* per owner and target, whichever owner column is NULL (target_models.py)
\* and however each of them wrote the host's case and trailing dots
\* ("equivalent names register as distinct targets", target_normalization.py).
TargetsAreUnique ==
    \A s, t \in targets : s.owner = t.owner /\ Named(s.url) = Named(t.url) => s = t

\* Neither case, nor trailing dots, nor non-ASCII digits get a host past the
\* rules on names and literals ("localhost." bypasses the localhost check,
\* target_normalization.py): a row's host is public, or masked by characters
\* that are no digits, which these rules leave to the resolution of each scan
\* (TargetResolution).
TargetsArePublic ==
    \A t \in targets :
        \/ t.url.host.script = "plain" /\ HostKind[t.url.host.name] = "public"
        \/ t.url.host.script = "masked"

\* A listing read page by page while others register and archive gives no
\* row twice, and every row that was there from its first page on and that
\* nobody archived or restored meanwhile (target_repository.list_for_owner).
ListingIsExact ==
    listing.step # "idle" =>
        /\ \A i, j \in DOMAIN listing.served :
              i # j => listing.served[i] \cap listing.served[j] = {}
        /\ listing.step = "done" =>
              listing.owed \subseteq UNION {listing.served[i] : i \in DOMAIN listing.served}

=============================================================================
