-------------------------------- MODULE Accounts --------------------------------
(***************************************************************************)
(* Users, their roles and scopes, and their sessions: app/services/auth.py *)
(* and the auth, user and member routes of app/api/routes.py, with the     *)
(* account app/main.py creates when the process starts.                    *)
(*                                                                         *)
(* An HTTP request reads the revoked tokens, then the row of its user,     *)
(* then the row it changes, and commits; requests run on a pool of         *)
(* threads, at READ COMMITTED.  What a request does between two queries    *)
(* touches no shared state and is part of the later one's step.  The two   *)
(* WebSocket routes make fewer tests and change nothing.  Passwords, names *)
(* and unit_id are left out: nothing here depends on them.  So is the      *)
(* expiry of tokens: an expired token is one that is not used again; and   *)
(* auth_enabled = False, with which there are no tokens.                   *)
(***************************************************************************)
EXTENDS Integers, FiniteSets

CONSTANTS
    Users,
    Admin,          \* admin-001, the account created at start-up
    Communities,
    Buildings,
    None,
    Absent,         \* no such row
    Keep,           \* a field that the body of a request leaves out
    Slots,          \* places for requests and WebSockets under way
    Payloads,       \* the bodies of update_user
    NewAccounts,    \* the roles and statuses in the bodies of create_user
    MaxPairs,       \* bound: pairs of tokens issued to a user
    MaxRevoked,     \* bound: tokens revoked
    MaxEdits        \* bound: edits committed

Roles == {"ADMIN", "COORDINATOR", "BUILDING_MANAGER", "RESIDENT"}
Statuses == {"ACTIVE", "PENDING", "INACTIVE", "DELETED"}
\* settings.bootstrap_admin_email, or an address of the user's own.
Emails == {"configured", "own"}

ScopeColumns == {"community", "building"}
Columns == {"role", "status", "email"} \union ScopeColumns

Row == [role : Roles, status : Statuses, email : Emails,
        community : Communities \union {None}, building : Buildings \union {None}]
Payload == [role : Roles \union {Keep}, status : Statuses \union {Keep},
            email : Emails \union {Keep}, community : Communities \union {None, Keep},
            building : Buildings \union {None, Keep}]
Token == [user : Users, pair : 1..MaxPairs, type : {"access", "refresh"}]

ASSUME AccountAssumption ==
    /\ Admin \in Users
    /\ Payloads \subseteq Payload
    /\ NewAccounts \subseteq [role : Roles, status : Statuses]
    /\ None \notin Communities \union Buildings
    /\ Keep \notin Roles \union Statuses \union Emails \union Communities \union Buildings
    /\ Keep # None
    /\ Absent \notin Row
    /\ MaxPairs \in Nat /\ MaxRevoked \in Nat /\ MaxEdits \in Nat

VARIABLES
    users,      \* the table users: a row for each user, or Absent
    pairs,      \* how many pairs of tokens each user has been issued
    revoked,    \* revoked_tokens
    requests,   \* the request or the WebSocket in each place
    process,    \* up, down, or failed to start
    edits

vars == <<users, pairs, revoked, requests, process, edits>>

Idle == [at |-> "idle"]

\* A request on its way: with its token checked, with its user's row, with a pair to
\* issue, or with the row it changes, as loaded, and the columns to write; or a
\* WebSocket on which a dashboard is sent.
Request ==
    {Idle}
      \union [at : {"user"}, token : Token]
      \union [at : {"handler"}, user : Users, row : Row]
      \union [at : {"issue"}, user : Users]
      \union [at : {"watch"}, user : Users]
      \union [at : {"commit"}, user : Users, by : Roles, target : Users,
              seen : Row, writes : Payload]

TypeOK ==
    /\ users \in [Users -> Row \union {Absent}]
    /\ pairs \in [Users -> 0..MaxPairs]
    /\ revoked \in SUBSET Token
    /\ requests \in [Slots -> Request]
    /\ process \in {"up", "down", "failed"}
    /\ edits \in 0..MaxEdits

NewRow(role, status, email) ==
    [role |-> role, status |-> status, email |-> email,
     community |-> None, building |-> None]

\* An empty database, and the process not started yet.
Init ==
    /\ users = [u \in Users |-> Absent]
    /\ pairs = [u \in Users |-> 0]
    /\ revoked = {}
    /\ requests = [s \in Slots |-> Idle]
    /\ process = "down"
    /\ edits = 0

-----------------------------------------------------------------------------
(* Rows of users.                                                          *)

Exists(u) == users[u] # Absent
EmailFree(u, e) == e = "own" \/ \A v \in Users \ {u} : Exists(v) => users[v].email # e
Configured == \E u \in Users : Exists(u) /\ users[u].email = "configured"

\* Mutant of CanAuthenticate: forgets accounts that were deleted.
CanAuthenticateDeleted(row) == row.status # "INACTIVE"

CanAuthenticate(row) == row.status \notin {"INACTIVE", "DELETED"}

\* _validate_user_scope.
ScopeValid(row) == row.community = None \/ row.building = None

\* The row with the fields of a payload assigned.
Assigned(row, p) == [c \in Columns |-> IF p[c] = Keep THEN row[c] ELSE p[c]]

\* The session writes the columns whose value differs from the one it loaded.
Written(row, p) == [c \in Columns |-> IF p[c] = row[c] THEN Keep ELSE p[c]]

Nothing == [c \in Columns |-> Keep]

-----------------------------------------------------------------------------
(* The process.                                                            *)

\* Mutant of Boot: the account is looked up by its id.
BootById ==
    /\ process = "down"
    /\ process' = IF Exists(Admin) /\ users[Admin].email # "configured" THEN "failed" ELSE "up"
    /\ users' = IF Exists(Admin) THEN users
                ELSE [users EXCEPT ![Admin] = NewRow("ADMIN", "ACTIVE", "configured")]
    /\ UNCHANGED <<pairs, revoked, requests, edits>>

\* lifespan looks for the configured address and inserts admin-001 when nobody has
\* it; the insert meets the unique key on user_id when admin-001 exists.
Boot ==
    /\ process = "down"
    /\ IF Configured
       THEN process' = "up" /\ UNCHANGED users
       ELSE IF Exists(Admin)
       THEN process' = "failed" /\ UNCHANGED users
       ELSE /\ process' = "up"
            /\ users' = [users EXCEPT ![Admin] = NewRow("ADMIN", "ACTIVE", "configured")]
    /\ UNCHANGED <<pairs, revoked, requests, edits>>

\* The process ends, wherever its requests are.
Stop ==
    /\ process = "up"
    /\ process' = "down"
    /\ requests' = [s \in Slots |-> Idle]
    /\ UNCHANGED <<users, pairs, revoked, edits>>

-----------------------------------------------------------------------------
(* Sessions.                                                               *)

Go(s, request) ==
    /\ requests' = [requests EXCEPT ![s] = request]
    /\ UNCHANGED <<users, pairs, revoked, process, edits>>

Issued(t) == t.pair <= pairs[t.user]

\* An HTTP request with a token issued before: refresh takes a refresh token, every
\* other HTTP route an access token, and either looks for it in revoked_tokens.
CheckToken(s, t) ==
    /\ process = "up"
    /\ requests[s] = Idle
    /\ Issued(t)
    /\ t \notin revoked
    /\ Go(s, [at |-> "user", token |-> t])

\* The row of the token's user.
TokenUser(s) ==
    /\ requests[s].at = "user"
    /\ Exists(requests[s].token.user)
    /\ CanAuthenticate(users[requests[s].token.user])

\* get_current_user, in front of every HTTP route that takes an access token.
LoadUser(s) ==
    /\ TokenUser(s)
    /\ LET u == requests[s].token.user
       IN  /\ requests[s].token.type = "access"
           /\ Go(s, [at |-> "handler", user |-> u, row |-> users[u]])

\* ws_community_dashboard only decodes the token and tests its claims, the role and
\* community of when it was issued, which may or may not let it pass (left open).
WatchCommunity(s, t) ==
    /\ process = "up"
    /\ requests[s] = Idle
    /\ Issued(t)
    /\ Go(s, [at |-> "watch", user |-> t.user])

\* _ensure_unit_operation_access, as far as it looks at the user's row.
OperatesUnits(row) ==
    \/ row.role \in {"ADMIN", "RESIDENT"}
    \/ row.role = "COORDINATOR" /\ row.community # None
    \/ row.role = "BUILDING_MANAGER" /\ row.building # None

\* ws_unit_dashboard tests the role and scope of the user's row, not its status.
WatchUnit(s, t) ==
    /\ process = "up"
    /\ requests[s] = Idle
    /\ Issued(t)
    /\ Exists(t.user)
    /\ OperatesUnits(users[t.user])
    /\ Go(s, [at |-> "watch", user |-> t.user])

\* auth_refresh; the token it was given stays good.
Refresh(s) ==
    /\ TokenUser(s)
    /\ requests[s].token.type = "refresh"
    /\ Go(s, [at |-> "issue", user |-> requests[s].token.user])

\* auth_login, with the right password.
Login(s, u) ==
    /\ process = "up"
    /\ requests[s] = Idle
    /\ Exists(u)
    /\ CanAuthenticate(users[u])
    /\ Go(s, [at |-> "issue", user |-> u])

\* create_token, twice.
Issue(s) ==
    /\ requests[s].at = "issue"
    /\ LET u == requests[s].user
       IN  /\ pairs[u] < MaxPairs
           /\ pairs' = [pairs EXCEPT ![u] = @ + 1]
    /\ requests' = [requests EXCEPT ![s] = Idle]
    /\ UNCHANGED <<users, revoked, process, edits>>

\* auth_logout revokes the token in its body, of whatever type and user; a second
\* time the unique key on jti fails the request.
Logout(s, t) ==
    /\ requests[s].at = "handler"
    /\ Issued(t)
    /\ t \notin revoked
    /\ Cardinality(revoked) < MaxRevoked
    /\ revoked' = revoked \union {t}
    /\ requests' = [requests EXCEPT ![s] = Idle]
    /\ UNCHANGED <<users, pairs, process, edits>>

-----------------------------------------------------------------------------
(* Users and members.                                                      *)

\* A row as this request's session has it: its own user's is not read again.
Loaded(s, u) == IF u = requests[s].user THEN requests[s].row ELSE users[u]

\* The row is loaded, tested and changed in the session; the commit comes later.
Change(s, u, p) ==
    Go(s, [at |-> "commit", user |-> requests[s].user, by |-> requests[s].row.role,
           target |-> u, seen |-> Loaded(s, u), writes |-> Written(Loaded(s, u), p)])

\* update_user.
UpdateUser(s, u, p) ==
    /\ requests[s].at = "handler"
    /\ Exists(u)
    /\ requests[s].row.role # "ADMIN" =>
         u = requests[s].user /\ \A c \in Columns \ {"email"} : p[c] = Keep
    /\ (\E c \in ScopeColumns : p[c] # Keep) => ScopeValid(Assigned(Loaded(s, u), p))
    /\ Change(s, u, p)

\* _ensure_community_member_manager_access.
ManagesMembers(row, community) ==
    row.role = "ADMIN" \/ (row.role = "COORDINATOR" /\ row.community = community)

\* Mutant of AddMember: a user with a building is taken.
AddMemberAny(s, u, community) ==
    /\ requests[s].at = "handler"
    /\ ManagesMembers(requests[s].row, community)
    /\ Exists(u)
    /\ Loaded(s, u).community = None
    /\ Change(s, u, [Nothing EXCEPT !.community = community])

\* add_community_member; a member already is answered at once.
AddMember(s, u, community) ==
    /\ requests[s].at = "handler"
    /\ ManagesMembers(requests[s].row, community)
    /\ Exists(u)
    /\ Loaded(s, u).building = None
    /\ Loaded(s, u).community = None
    /\ Change(s, u, [Nothing EXCEPT !.community = community])

\* remove_community_member.
RemoveMember(s, u, community) ==
    /\ requests[s].at = "handler"
    /\ ManagesMembers(requests[s].row, community)
    /\ Exists(u)
    /\ Loaded(s, u).community = community
    /\ Change(s, u, [Nothing EXCEPT !.community = None])

\* Mutant of Commit: the whole row is written back as it was loaded.
CommitRow(s) ==
    /\ requests[s].at = "commit"
    /\ edits < MaxEdits
    /\ LET q == requests[s]
       IN  users' = [users EXCEPT ![q.target] = Assigned(q.seen, q.writes)]
    /\ requests' = [requests EXCEPT ![s] = Idle]
    /\ edits' = edits + 1
    /\ UNCHANGED <<pairs, revoked, process>>

\* The UPDATE of the columns that changed, and its commit; a used address fails.
Commit(s) ==
    /\ requests[s].at = "commit"
    /\ edits < MaxEdits
    /\ LET q == requests[s]
       IN  /\ q.writes.email # Keep => EmailFree(q.target, q.writes.email)
           /\ users' = [users EXCEPT ![q.target] = Assigned(@, q.writes)]
    /\ requests' = [requests EXCEPT ![s] = Idle]
    /\ edits' = edits + 1
    /\ UNCHANGED <<pairs, revoked, process>>

\* Mutant of Register: an empty status instead of PENDING.
RegisterBlank(u, email) ==
    /\ process = "up"
    /\ ~Exists(u)
    /\ EmailFree(u, email)
    /\ users' = [users EXCEPT ![u] = NewRow("RESIDENT", None, email)]
    /\ UNCHANGED <<pairs, revoked, requests, process, edits>>

\* auth_register; of two at once the unique key lets one through.
Register(u, email) ==
    /\ process = "up"
    /\ ~Exists(u)
    /\ EmailFree(u, email)
    /\ users' = [users EXCEPT ![u] = NewRow("RESIDENT", "PENDING", email)]
    /\ UNCHANGED <<pairs, revoked, requests, process, edits>>

\* create_user.
CreateUser(s, u, account, email) ==
    /\ requests[s].at = "handler"
    /\ requests[s].row.role = "ADMIN"
    /\ ~Exists(u)
    /\ EmailFree(u, email)
    /\ users' = [users EXCEPT ![u] = NewRow(account.role, account.status, email)]
    /\ requests' = [requests EXCEPT ![s] = Idle]
    /\ UNCHANGED <<pairs, revoked, process, edits>>

\* A request that is answered without a change: refused, failed, or read-only; or a
\* WebSocket that is closed.
Answer(s) ==
    /\ requests[s] # Idle
    /\ Go(s, Idle)

Handle(s) ==
    \/ \E t \in Token : Logout(s, t)
    \/ \E u \in Users, p \in Payloads : UpdateUser(s, u, p)
    \/ \E u \in Users, c \in Communities : AddMember(s, u, c) \/ RemoveMember(s, u, c)
    \/ \E u \in Users, account \in NewAccounts, email \in Emails :
         CreateUser(s, u, account, email)

Next ==
    \/ Boot
    \/ Stop
    \/ \E u \in Users, email \in Emails : Register(u, email)
    \/ \E s \in Slots :
         \/ \E t \in Token : CheckToken(s, t) \/ WatchCommunity(s, t) \/ WatchUnit(s, t)
         \/ LoadUser(s)
         \/ Refresh(s)
         \/ \E u \in Users : Login(s, u)
         \/ Issue(s)
         \/ Handle(s)
         \/ Commit(s)
         \/ Answer(s)

Spec == Init /\ [][Next]_vars

-----------------------------------------------------------------------------
(* Properties.                                                             *)

BothScopes(u) == Exists(u) /\ users[u].community # None /\ users[u].building # None

\* A user comes to have a community and a building at once only by a commit whose
\* request tested a row that has changed since: the two tests of add_community_member
\* and update_user exclude it otherwise, whichever of them meet.
OneScopeUnlessStale ==
    [][\A u \in Users : BothScopes(u)' /\ ~BothScopes(u) =>
         \E s \in Slots :
           /\ requests[s].at = "commit" /\ requests[s].target = u
           /\ \E c \in ScopeColumns : requests[s].seen[c] # users[u][c]]_vars

\* No commit undoes another: a column of a user changes only to the value its request
\* asked for, and role, status and building only for an administrator; an account
\* deactivated while its user's profile edit is under way stays deactivated.
OnlyAskedColumnsChange ==
    [][\A u \in Users : \A c \in Columns :
         (Exists(u) /\ users[u][c] # users[u]'[c]) =>
           \E s \in Slots :
             /\ requests[s].at = "commit" /\ requests[s].target = u
             /\ requests[s].writes[c] = users[u]'[c]
             /\ c \in {"role", "status", "building"} => requests[s].by = "ADMIN"]_vars

\* The HTTP requests of a user that have passed their checks.
ActsFor(s, u) == requests[s].at \in {"handler", "issue", "commit"} /\ requests[s].user = u

ShutOut(u) ==
    /\ Exists(u) /\ users[u].status \in {"INACTIVE", "DELETED"}
    /\ \A s \in Slots : ~ActsFor(s, u)
LoggedOut(t) ==
    t \in revoked /\ \A s \in Slots : requests[s].at = "user" => requests[s].token # t

\* A deactivated user whose requests under way have ended gets nothing more done by
\* an HTTP route, and no new tokens, until an administrator reactivates the account;
\* a revoked token passes the check of no HTTP route again.  Both may still open a
\* WebSocket and watch a dashboard, from which nobody gets any further.
OutStaysOut ==
    [][/\ \A u \in Users : ShutOut(u) =>
            /\ pairs'[u] = pairs[u]
            /\ users[u]'.status \in {"INACTIVE", "DELETED"} => ShutOut(u)'
       /\ \A t \in Token : LoggedOut(t) => LoggedOut(t)']_vars

\* The process fails to start only when admin-001 exists without the configured
\* address and nobody else has it: its user, or an administrator, changed it.
StartsUnlessRenamed ==
    process = "failed" =>
      /\ Exists(Admin) /\ users[Admin].email # "configured"
      /\ \A u \in Users : Exists(u) => users[u].email # "configured"
=============================================================================
