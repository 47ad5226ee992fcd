----------------------------- MODULE Allowlist -----------------------------
(***************************************************************************)
(* ClaudeRepository specifications and the in-memory AllowlistCache that   *)
(* the repository reconciler fills and the webhook handlers query.  Each   *)
(* operation holds the cache's mutex from beginning to end.                *)
(***************************************************************************)
EXTENDS Integers

CONSTANTS
    Names,        \* the full names "owner/repo" of GitHub repositories
    Patterns,     \* the values of repositoryPattern
    Covers,       \* Covers[p]: the names that the regex p matches
    Invalid,      \* the patterns that do not compile
    Labels, Users, Roles,
    GlobalUsers, GlobalRoles,
    Nil           \* no entry, no client, no specification

ASSUME AllowlistAssumption ==
    /\ Names \cap Patterns = {}
    /\ Covers \in [Patterns -> SUBSET Names]
    /\ Invalid \subseteq Patterns
    /\ GlobalUsers \subseteq Users
    /\ GlobalRoles \subseteq Roles

\* FullName: "owner/repo", or the pattern itself.
Keys == Names \cup Patterns

\* pat: the specification has a patSecretRef.
RepositorySpec == [key : Keys, labels : SUBSET Labels, users : SUBSET Users,
                   roles : SUBSET Roles, pat : BOOLEAN]

IsPattern(s) == s.key \in Patterns

-----------------------------------------------------------------------------
Cache == [exact    : [Keys -> RepositorySpec \cup {Nil}],
          patterns : [Keys -> RepositorySpec \cup {Nil}],
          clients  : SUBSET Keys]

NewAllowlistCache == [exact    |-> [k \in Keys |-> Nil],
                      patterns |-> [k \in Keys |-> Nil],
                      clients  |-> {}]

\* A pattern that does not compile is stored as an exact name.
Set(c, s) ==
    IF IsPattern(s) /\ s.key \notin Invalid
    THEN [c EXCEPT !.patterns[s.key] = s]
    ELSE [c EXCEPT !.exact[s.key] = s]

Delete(c, key) == [c EXCEPT !.exact[key] = Nil, !.patterns[key] = Nil]

SetClient(c, key) == [c EXCEPT !.clients = @ \cup {key}]

DeleteClient(c, key) == [c EXCEPT !.clients = @ \ {key}]

GetClient(c, name) == name \in c.clients

\* Where the cache keeps a specification.
EntryIn(c, s) == IF IsPattern(s) /\ s.key \notin Invalid THEN c.patterns[s.key]
                 ELSE c.exact[s.key]

\* The entries that a query for a name may find: the exact one, or any of the
\* patterns that match, since a map has no order.
Found(c, name) ==
    IF c.exact[name] # Nil THEN {c.exact[name]}
    ELSE {c.patterns[p] : p \in {q \in Patterns : /\ c.patterns[q] # Nil
                                                  /\ name \in Covers[q]}}

\* Patterns forgotten.
IsAllowedMutant(c, name) == c.exact[name] # Nil

IsAllowed(c, name) == Found(c, name) # {}

\* Get, as used for the labels of a repository; an unknown one has none.
AutoLabels(c, name) ==
    IF Found(c, name) = {} THEN {{}} ELSE {s.labels : s \in Found(c, name)}

\* The lists of the repository replace the global ones.
MergedAllowlistsMutant(c, name) ==
    IF Found(c, name) = {} THEN {[users |-> GlobalUsers, roles |-> GlobalRoles]}
    ELSE {[users |-> s.users, roles |-> s.roles] : s \in Found(c, name)}

\* The lists GetMergedAllowlist may return.
MergedAllowlists(c, name) ==
    IF Found(c, name) = {} THEN {[users |-> GlobalUsers, roles |-> GlobalRoles]}
    ELSE {[users |-> GlobalUsers \cup s.users, roles |-> GlobalRoles \cup s.roles] :
             s \in Found(c, name)}

=============================================================================
