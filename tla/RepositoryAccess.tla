-------------------------- MODULE RepositoryAccess --------------------------
(***************************************************************************)
(* The tokens of the repositories of a namespace                           *)
(* (apps/api/src/token-registry.ts) beside the requests that create, fork  *)
(* and delete those repositories: who issues a token, what ends it, and    *)
(* how a Git request gets from the token it presents to an object.         *)
(*                                                                         *)
(* A token row names its repository.  The registry calls of one request    *)
(* are calls of their own: the name may be deleted and taken again between *)
(* any two of them.                                                        *)
(***************************************************************************)
EXTENDS RepositoryLifecycle

CONSTANTS
    Issue,      \* requests for a token of a repository that is there
    Git,        \* Git requests
    Minter      \* the requests whose tokens are followed; no token affects another

ASSUME AccessAssumption ==
    /\ Issue \cap Object = {} /\ Git \cap (Issue \cup Object) = {}
    /\ Minter \subseteq Object \cup Issue

Caller == Issue \cup Git
Scope  == {"read", "write"}

VARIABLES
    tokens,     \* tokens[m]: the row of the token that m issued, or None
    at,         \* the call each of these requests makes next
    about,      \* the name it is about
    presented,  \* the token a Git request was let through with
    reached     \* the object a Git request goes to

access == <<at, about, presented, reached>>
avars  == <<vars, tokens, access>>

AccessInit ==
    /\ Init
    /\ tokens = [m \in Minter |-> None]
    /\ at = [c \in Caller |-> "start"] /\ about = [c \in Caller |-> None]
    /\ presented = [g \in Git |-> None] /\ reached = [g \in Git |-> None]

-----------------------------------------------------------------------------
\* createToken: that the name has a row and the insert are one transaction.
\* "object" is whose row it was, which the token row does not say.
Minted(m, n, scope) ==
    IF m \notin Minter \/ rows[n] = None THEN tokens
    ELSE [tokens EXCEPT ![m] =
             [name |-> n, object |-> rows[n].object, scope |-> scope, state |-> "active"]]

\* Defect: nothing ties a token row to the row of its repository.
CascadeNothing(left) == tokens

\* The foreign key of a token row: it goes with the repository row it names.
Cascade(left) ==
    [m \in Minter |-> IF tokens[m] # None /\ left[tokens[m].name] = None THEN None ELSE tokens[m]]

\* A step of a create, a fork or a deletion; its answer carries a token.
AnswerToken(r) ==
    /\ TokenStep(r)
    /\ tokens' = Minted(r, name[r], "write")
    /\ UNCHANGED access

RowsMove ==
    /\ RowStep
    /\ tokens' = Cascade(rows')
    /\ UNCHANGED access

-----------------------------------------------------------------------------
Goes(c, step) == at' = [at EXCEPT ![c] = step]

\* POST tokens, and a repository handle's createToken: the name is resolved first,
\* or was when the handle was made.
ResolveForToken(i) ==
    /\ at[i] = "start" /\ i \in Issue
    /\ \E n \in Name : Ready(n) /\ about' = [about EXCEPT ![i] = n]
    /\ Goes(i, "token")
    /\ UNCHANGED <<vars, tokens, presented, reached>>

IssueToken(i) ==
    /\ at[i] = "token"
    /\ \E scope \in Scope : tokens' = Minted(i, about[i], scope)
    /\ Goes(i, "done")
    /\ UNCHANGED <<vars, about, presented, reached>>

\* tokenState: a token that was revoked is that, expired or not.
Expire(m) ==
    /\ tokens[m] # None /\ tokens[m].state = "active"
    /\ tokens' = [tokens EXCEPT ![m].state = "expired"]
    /\ UNCHANGED <<vars, access>>

\* revokeToken: by id, anywhere in the namespace.
RevokeToken(m) ==
    /\ tokens[m] # None
    /\ tokens' = [tokens EXCEPT ![m].state = "revoked"]
    /\ UNCHANGED <<vars, access>>

\* revokeRepositoryToken: what a handle of a name revokes is a token of that name.
RevokeRepositoryToken(n, m) == tokens[m] # None /\ tokens[m].name = n /\ RevokeToken(m)

\* authorizeToken
Authorizes(m, n, required) ==
    /\ tokens[m] # None /\ tokens[m].name = n /\ tokens[m].state = "active"
    /\ required = "read" \/ tokens[m].scope = "write"

\* The resolver refuses a Git request before it looks the name up.
Authorize(g) ==
    /\ at[g] = "start" /\ g \in Git
    /\ \E n \in Name, m \in Minter, required \in Scope :
          IF Authorizes(m, n, required)
          THEN /\ about' = [about EXCEPT ![g] = n] /\ presented' = [presented EXCEPT ![g] = m]
               /\ Goes(g, "resolve")
          ELSE Goes(g, "done") /\ UNCHANGED <<about, presented>>
    /\ UNCHANGED <<vars, tokens, reached>>

\* getRepository, in a call of its own: the pointer of whoever has the name by now.
Resolve(g) ==
    /\ at[g] = "resolve"
    /\ IF Ready(about[g])
       THEN reached' = [reached EXCEPT ![g] = rows[about[g]].object] /\ Goes(g, "served")
       ELSE Goes(g, "done") /\ UNCHANGED reached
    /\ UNCHANGED <<vars, tokens, about, presented>>

-----------------------------------------------------------------------------
AccessNext ==
    \/ RowsMove
    \/ \E r \in Object : AnswerToken(r)
    \/ \E i \in Issue : ResolveForToken(i) \/ IssueToken(i)
    \/ \E m \in Minter : Expire(m) \/ RevokeToken(m) \/ \E n \in Name : RevokeRepositoryToken(n, m)
    \/ \E g \in Git : Authorize(g) \/ Resolve(g)

AccessSpec == AccessInit /\ [][AccessNext]_avars

\* As in RepositoryLifecycle: a fork that is under way goes on.
ForkMoves(f) == ForkGoesOn(f) /\ (RowsMove \/ AnswerToken(f))
AccessFairSpec == AccessSpec /\ \A f \in Fork : WF_avars(ForkMoves(f))

-----------------------------------------------------------------------------
Token == [name : Name, object : Object, scope : Scope, state : {"active", "expired", "revoked"}]

AccessTypeOK ==
    /\ TypeOK
    /\ tokens \in [Minter -> Token \cup {None}]
    /\ at \in [Caller -> {"start", "token", "resolve", "served", "done"}]
    /\ about \in [Caller -> Name \cup {None}]
    /\ presented \in [Git -> Minter \cup {None}] /\ reached \in [Git -> Object \cup {None}]

\* A token is one of the repository that has its name: a repository that is deleted
\* and one that takes its name have no token in common (token-registry.ts,
\* authorizeToken, compares names only).  A Git request that was let through
\* reaches the repository its token was issued for, as long as that token is there.
TokensFollowRows ==
    /\ \A m \in Minter : tokens[m] # None =>
          /\ rows[tokens[m].name] # None
          /\ rows[tokens[m].name].object = tokens[m].object
    /\ \A g \in Git : LET m == presented[g] IN
          reached[g] # None /\ tokens[m] # None => tokens[m].object = reached[g]
=============================================================================
