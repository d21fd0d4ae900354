---------------------------- MODULE Accounts_proofs ----------------------------
(***************************************************************************)
(* Proofs about users and sessions, for any users, communities, buildings, *)
(* bodies of requests and number of threads.                               *)
(***************************************************************************)
EXTENDS Accounts, TLAPS

-----------------------------------------------------------------------------
(* The inductive invariant.                                                *)

\* A commit under way writes to a user who exists, what its requester may write, and
\* a scope that was tested on the row as loaded.
Tested(s) ==
    requests[s].at = "commit" =>
      LET q == requests[s]
      IN  /\ Exists(q.target)
          /\ \A c \in {"role", "status", "building"} : q.writes[c] # Keep => q.by = "ADMIN"
          /\ (\E c \in ScopeColumns : q.writes[c] # Keep)
               => ScopeValid(Assigned(q.seen, q.writes))

IInv ==
    /\ TypeOK
    /\ process # "up" => \A s \in Slots : requests[s] = Idle
    /\ \A s \in Slots : Tested(s)
    /\ StartsUnlessRenamed

-----------------------------------------------------------------------------
(* Rows and requests.                                                      *)

LEMMA KeepIsNoValue ==
    /\ \A r \in Row, c \in Columns : r[c] # Keep
    /\ Idle.at = "idle"
BY AccountAssumption DEF Row, Columns, ScopeColumns, Idle, Roles, Statuses, Emails

\* What a request in each state holds.
LEMMA RequestType ==
    ASSUME TypeOK, NEW s \in Slots
    PROVE  /\ requests[s].at = "user" => requests[s].token \in Token
           /\ requests[s].at = "handler" => requests[s].user \in Users /\ requests[s].row \in Row
           /\ requests[s].at \in {"issue", "watch"} => requests[s].user \in Users
           /\ requests[s].at = "commit" =>
                /\ requests[s].user \in Users /\ requests[s].by \in Roles
                /\ requests[s].target \in Users
                /\ requests[s].seen \in Row /\ requests[s].writes \in Payload
           /\ requests[s] = Idle => requests[s].at = "idle"
<1>1. requests[s] \in Request
  BY DEF TypeOK
<1>q. QED
  BY <1>1 DEF Request, Idle

LEMMA AssignedType ==
    ASSUME NEW row \in Row, NEW p \in Payload
    PROVE  /\ Assigned(row, p) \in Row
           /\ \A c \in Columns : Assigned(row, p)[c] = IF p[c] = Keep THEN row[c] ELSE p[c]
BY AccountAssumption DEF Assigned, Row, Payload, Columns, ScopeColumns

LEMMA WrittenType ==
    ASSUME NEW row \in Row, NEW p \in Payload
    PROVE  /\ Written(row, p) \in Payload
           /\ \A c \in Columns : Written(row, p)[c] = IF p[c] = row[c] THEN Keep ELSE p[c]
BY AccountAssumption DEF Written, Row, Payload, Columns, ScopeColumns

\* What is written comes to the same as what was assigned.
LEMMA WrittenSame ==
    ASSUME NEW row \in Row, NEW p \in Payload
    PROVE  \A c \in Columns : Assigned(row, Written(row, p))[c] = Assigned(row, p)[c]
<1>1. Written(row, p) \in Payload
  BY WrittenType
<1>q. QED
  BY <1>1, AssignedType, WrittenType, KeepIsNoValue

LEMMA MemberPayload ==
    ASSUME NEW c \in Communities \union {None}
    PROVE  LET p == [Nothing EXCEPT !.community = c]
           IN  /\ p \in Payload
               /\ p.community = c
               /\ \A d \in Columns \ {"community"} : p[d] = Keep
BY AccountAssumption DEF Nothing, Payload, Columns, ScopeColumns

LEMMA NewRowType ==
    ASSUME NEW role \in Roles, NEW status \in Statuses, NEW email \in Emails
    PROVE  NewRow(role, status, email) \in Row
BY DEF NewRow, Row

\* A row is loaded with the type of rows.
LEMMA LoadedType ==
    ASSUME TypeOK, NEW s \in Slots, requests[s].at = "handler", NEW u \in Users, Exists(u)
    PROVE  Loaded(s, u) \in Row
BY RequestType DEF Loaded, Exists, TypeOK

\* What a handler leaves to be committed.
LEMMA ChangeLeaves ==
    ASSUME TypeOK, NEW s \in Slots, requests[s].at = "handler",
           NEW u \in Users, Exists(u), NEW p \in Payload, Change(s, u, p)
    PROVE  /\ requests' \in [Slots -> Request]
           /\ requests'[s].at = "commit"
           /\ requests'[s].user = requests[s].user
           /\ requests'[s].by = requests[s].row.role
           /\ requests'[s].target = u
           /\ requests'[s].seen = Loaded(s, u)
           /\ requests'[s].writes = Written(Loaded(s, u), p)
           /\ \A q \in Slots \ {s} : requests'[q] = requests[q]
           /\ UNCHANGED <<users, pairs, revoked, process, edits>>
<1> DEFINE new == [at |-> "commit", user |-> requests[s].user, by |-> requests[s].row.role,
                   target |-> u, seen |-> Loaded(s, u), writes |-> Written(Loaded(s, u), p)]
<1>1. Loaded(s, u) \in Row
  BY LoadedType
<1>2. Written(Loaded(s, u), p) \in Payload
  BY <1>1, WrittenType
<1>3. requests[s].user \in Users /\ requests[s].row \in Row
  BY RequestType
<1>4. requests[s].row.role \in Roles
  BY <1>3 DEF Row
<1>5. new \in Request
  BY <1>1, <1>2, <1>3, <1>4 DEF Request
<1>6. requests' = [requests EXCEPT ![s] = new] /\ UNCHANGED <<users, pairs, revoked, process, edits>>
  BY DEF Change, Go
<1>q. QED
  BY <1>5, <1>6 DEF TypeOK

\* A change a handler may prepare, with the row as loaded.
Prepared(s, u, body) ==
    /\ requests[s].at = "handler" /\ Exists(u) /\ Change(s, u, body)
    /\ \A c \in {"role", "status", "building"} :
         body[c] # Keep => requests[s].row.role = "ADMIN"
    /\ (\E c \in ScopeColumns : body[c] # Keep) => ScopeValid(Assigned(Loaded(s, u), body))

\* The tests of the three handlers, on the row as loaded.
LEMMA HandlersTest ==
    ASSUME TypeOK, NEW s \in Slots, NEW u \in Users,
           \/ \E p \in Payloads : UpdateUser(s, u, p)
           \/ \E c \in Communities : AddMember(s, u, c) \/ RemoveMember(s, u, c)
    PROVE  \E body \in Payload : Prepared(s, u, body)
<1>1. ASSUME NEW p \in Payloads, UpdateUser(s, u, p) PROVE \E body \in Payload : Prepared(s, u, body)
  <2>1. p \in Payload
    BY AccountAssumption
  <2>q. QED
    BY <1>1, <2>1 DEF UpdateUser, Prepared, Columns, ScopeColumns
<1>2. ASSUME NEW c \in Communities, AddMember(s, u, c) PROVE \E body \in Payload : Prepared(s, u, body)
  <2> DEFINE body == [Nothing EXCEPT !.community = c]
  <2>1. /\ body \in Payload
        /\ \A d \in Columns \ {"community"} : body[d] = Keep
    BY MemberPayload
  <2>2. Loaded(s, u) \in Row
    BY <1>2, LoadedType DEF AddMember
  <2>3. Assigned(Loaded(s, u), body).building = None
    BY <1>2, <2>1, <2>2, AssignedType DEF AddMember, Columns, ScopeColumns
  <2>4. requests[s].at = "handler" /\ Exists(u) /\ Change(s, u, body)
    BY <1>2 DEF AddMember
  <2>q. QED
    BY <2>1, <2>3, <2>4 DEF Prepared, ScopeValid, Columns, ScopeColumns
<1>3. ASSUME NEW c \in Communities, RemoveMember(s, u, c) PROVE \E body \in Payload : Prepared(s, u, body)
  <2> DEFINE body == [Nothing EXCEPT !.community = None]
  <2>1. /\ body \in Payload /\ body.community = None
        /\ \A d \in Columns \ {"community"} : body[d] = Keep
    BY MemberPayload
  <2>2. Loaded(s, u) \in Row
    BY <1>3, LoadedType DEF RemoveMember
  <2>3. Assigned(Loaded(s, u), body).community = None
    BY <2>1, <2>2, AssignedType, AccountAssumption DEF Columns, ScopeColumns
  <2>4. requests[s].at = "handler" /\ Exists(u) /\ Change(s, u, body)
    BY <1>3 DEF RemoveMember
  <2>q. QED
    BY <2>1, <2>3, <2>4 DEF Prepared, ScopeValid, Columns, ScopeColumns
<1>q. QED
  BY <1>1, <1>2, <1>3

-----------------------------------------------------------------------------
(* The invariant holds.                                                    *)

LEMMA InvariantInitially == Init => IInv
BY AccountAssumption DEF Init, IInv, TypeOK, Request, Idle, Tested, StartsUnlessRenamed

\* A commit under way stays tested while its request waits: no row is ever deleted.
LEMMA TestedStays ==
    ASSUME NEW s \in Slots, Tested(s), requests'[s] = requests[s],
           \A u \in Users : Exists(u) => Exists(u)', TypeOK
    PROVE  Tested(s)'
BY RequestType DEF Tested, Exists

\* A request that goes on, or ends, and leaves the tables alone.
LEMMA GoKeeps ==
    ASSUME IInv, NEW s \in Slots, NEW r \in Request, Go(s, r),
           process = "up" \/ r = Idle, r.at # "commit"
    PROVE  IInv'
<1>1. /\ requests' = [requests EXCEPT ![s] = r]
      /\ UNCHANGED <<users, pairs, revoked, process, edits>>
  BY DEF Go
<1>2. TypeOK'
  BY <1>1 DEF IInv, TypeOK
<1>3. process' # "up" => \A q \in Slots : requests'[q] = Idle
  BY <1>1 DEF IInv, TypeOK
<1>4. ASSUME NEW q \in Slots PROVE Tested(q)'
  <2>1. CASE q = s
    BY <1>1, <2>1 DEF IInv, TypeOK, Tested
  <2>2. CASE q # s
    BY <1>1, <2>2, TestedStays DEF IInv, TypeOK, Exists
  <2>q. QED
    BY <2>1, <2>2
<1>5. StartsUnlessRenamed'
  BY <1>1 DEF IInv, StartsUnlessRenamed, Exists
<1>q. QED
  BY <1>2, <1>3, <1>4, <1>5 DEF IInv

\* A request under way means the process is up.
LEMMA UnderWay ==
    ASSUME IInv, NEW s \in Slots, requests[s] # Idle
    PROVE  process = "up"
BY DEF IInv

\* A step that ends the request of s and may insert or change rows.
LEMMA EndKeeps ==
    ASSUME IInv, NEW s \in Slots, process = "up", UNCHANGED process, TypeOK',
           requests' = [requests EXCEPT ![s] = Idle],
           \A u \in Users : Exists(u) => Exists(u)'
    PROVE  IInv'
<1>1. ASSUME NEW q \in Slots PROVE Tested(q)'
  <2>1. CASE q = s
    BY <2>1, KeepIsNoValue DEF IInv, TypeOK, Tested
  <2>2. CASE q # s
    BY <2>2, TestedStays DEF IInv, TypeOK
  <2>q. QED
    BY <2>1, <2>2
<1>2. StartsUnlessRenamed'
  BY DEF StartsUnlessRenamed
<1>q. QED
  BY <1>1, <1>2 DEF IInv

LEMMA BootKeeps == ASSUME IInv, Boot PROVE IInv'
<1>1. NewRow("ADMIN", "ACTIVE", "configured") \in Row
  BY NewRowType DEF Roles, Statuses, Emails
<1>2. \A u \in Users : Exists(u) => Exists(u)'
  BY <1>1, AccountAssumption DEF Boot, Exists, IInv, TypeOK
<1>3. TypeOK'
  BY <1>1, AccountAssumption DEF Boot, IInv, TypeOK
<1>4. \A s \in Slots : requests[s] = Idle /\ requests'[s] = Idle
  BY DEF Boot, IInv
<1>5. \A s \in Slots : Tested(s)'
  BY <1>4, KeepIsNoValue DEF Tested
<1>6. StartsUnlessRenamed'
  <2>1. CASE process' = "failed"
    <3>1. ~Configured /\ Exists(Admin) /\ users' = users
      BY <2>1 DEF Boot
    <3>q. QED
      BY <3>1, AccountAssumption DEF StartsUnlessRenamed, Configured, Exists
  <2>2. CASE process' # "failed"
    BY <2>2 DEF StartsUnlessRenamed
  <2>q. QED
    BY <2>1, <2>2
<1>q. QED
  BY <1>3, <1>4, <1>5, <1>6 DEF IInv

LEMMA StopKeeps == ASSUME IInv, Stop PROVE IInv'
<1>1. TypeOK'
  BY DEF Stop, IInv, TypeOK, Request
<1>2. \A s \in Slots : requests'[s] = Idle
  BY DEF Stop
<1>3. \A s \in Slots : Tested(s)'
  BY <1>2, KeepIsNoValue DEF Tested
<1>q. QED
  BY <1>1, <1>2, <1>3 DEF Stop, IInv, StartsUnlessRenamed

LEMMA RegisterKeeps ==
    ASSUME IInv, NEW u \in Users, NEW email \in Emails, Register(u, email) PROVE IInv'
<1>1. NewRow("RESIDENT", "PENDING", email) \in Row
  BY NewRowType DEF Roles, Statuses
<1>2. \A v \in Users : Exists(v) => Exists(v)'
  BY DEF Register, Exists, IInv, TypeOK
<1>3. TypeOK'
  BY <1>1 DEF Register, IInv, TypeOK
<1>4. \A s \in Slots : Tested(s)'
  BY <1>2, TestedStays DEF Register, IInv
<1>q. QED
  BY <1>3, <1>4 DEF Register, IInv, StartsUnlessRenamed

LEMMA SessionsKeep ==
    ASSUME IInv, NEW s \in Slots,
           \/ \E t \in Token : CheckToken(s, t) \/ Logout(s, t)
           \/ \E t \in Token : WatchCommunity(s, t) \/ WatchUnit(s, t)
           \/ LoadUser(s) \/ Refresh(s) \/ Issue(s)
           \/ \E u \in Users : Login(s, u)
    PROVE  IInv'
<1>0. TypeOK /\ (requests[s] = Idle => requests[s].at = "idle")
  BY RequestType DEF IInv
<1>1. ASSUME NEW t \in Token, CheckToken(s, t) PROVE IInv'
  BY <1>1, GoKeeps DEF CheckToken, Request
<1>2. CASE LoadUser(s)
  <2>1. requests[s].token.user \in Users
    BY <1>0, <1>2, RequestType DEF LoadUser, TokenUser, Token
  <2>2. users[requests[s].token.user] \in Row
    BY <1>0, <1>2, <2>1 DEF LoadUser, TokenUser, Exists, TypeOK
  <2>3. process = "up"
    BY <1>0, <1>2, UnderWay DEF LoadUser, TokenUser
  <2>q. QED
    BY <1>2, <2>1, <2>2, <2>3, GoKeeps DEF LoadUser, Request
<1>3. CASE Refresh(s)
  <2>1. requests[s].token.user \in Users
    BY <1>0, <1>3, RequestType DEF Refresh, TokenUser, Token
  <2>2. process = "up"
    BY <1>0, <1>3, UnderWay DEF Refresh, TokenUser
  <2>q. QED
    BY <1>3, <2>1, <2>2, GoKeeps DEF Refresh, Request
<1>4. ASSUME NEW u \in Users, Login(s, u) PROVE IInv'
  BY <1>4, GoKeeps DEF Login, Request
<1>5. CASE Issue(s)
  <2>1. requests[s].user \in Users
    BY <1>0, <1>5, RequestType DEF Issue
  <2>2. TypeOK'
    BY <1>0, <1>5, <2>1, AccountAssumption DEF Issue, TypeOK, Request
  <2>3. process = "up"
    BY <1>0, <1>5, UnderWay DEF Issue
  <2>q. QED
    BY <1>5, <2>2, <2>3, EndKeeps DEF Issue, Exists
<1>6. ASSUME NEW t \in Token, Logout(s, t) PROVE IInv'
  <2>1. TypeOK'
    BY <1>0, <1>6 DEF Logout, TypeOK, Request
  <2>2. process = "up"
    BY <1>0, <1>6, UnderWay DEF Logout
  <2>q. QED
    BY <1>6, <2>1, <2>2, EndKeeps DEF Logout, Exists
<1>7. ASSUME NEW t \in Token, WatchCommunity(s, t) \/ WatchUnit(s, t) PROVE IInv'
  <2>1. [at |-> "watch", user |-> t.user] \in Request
    BY DEF Request, Token
  <2>q. QED
    BY <1>7, <2>1, GoKeeps DEF WatchCommunity, WatchUnit
<1>q. QED
  BY <1>1, <1>2, <1>3, <1>4, <1>5, <1>6, <1>7

LEMMA EditsKeep ==
    ASSUME IInv, NEW s \in Slots, NEW u \in Users,
           \/ \E p \in Payloads : UpdateUser(s, u, p)
           \/ \E c \in Communities : AddMember(s, u, c) \/ RemoveMember(s, u, c)
    PROVE  IInv'
<1>0. TypeOK
  BY DEF IInv
<1>1. PICK body \in Payload :
        /\ requests[s].at = "handler" /\ Exists(u) /\ Change(s, u, body)
        /\ \A c \in {"role", "status", "building"} :
             body[c] # Keep => requests[s].row.role = "ADMIN"
        /\ (\E c \in ScopeColumns : body[c] # Keep) => ScopeValid(Assigned(Loaded(s, u), body))
  BY <1>0, HandlersTest DEF Prepared
<1>2. /\ requests' \in [Slots -> Request]
      /\ requests'[s].by = requests[s].row.role
      /\ requests'[s].target = u
      /\ requests'[s].seen = Loaded(s, u)
      /\ requests'[s].writes = Written(Loaded(s, u), body)
      /\ \A q \in Slots \ {s} : requests'[q] = requests[q]
      /\ UNCHANGED <<users, pairs, revoked, process, edits>>
  BY <1>0, <1>1, ChangeLeaves
<1>3. process = "up"
  BY <1>0, <1>1, UnderWay, RequestType
<1>4. TypeOK'
  BY <1>0, <1>2 DEF TypeOK
<1>5. Tested(s)'
  <2>1. Loaded(s, u) \in Row
    BY <1>0, <1>1, LoadedType
  <2>2. \A d \in Columns : Written(Loaded(s, u), body)[d] # Keep => body[d] # Keep
    BY <2>1, WrittenType, KeepIsNoValue
  <2>3. \A d \in ScopeColumns :
          Assigned(Loaded(s, u), Written(Loaded(s, u), body))[d] = Assigned(Loaded(s, u), body)[d]
    BY <2>1, WrittenSame DEF Columns
  <2>4. Exists(u)'
    BY <1>1, <1>2 DEF Exists
  <2>q. QED
    BY <1>1, <1>2, <2>2, <2>3, <2>4 DEF Tested, ScopeValid, Columns, ScopeColumns
<1>6. ASSUME NEW q \in Slots \ {s} PROVE Tested(q)'
  BY <1>0, <1>2, TestedStays DEF IInv, Exists
<1>q. QED
  BY <1>2, <1>3, <1>4, <1>5, <1>6 DEF IInv, StartsUnlessRenamed

LEMMA CreateUserKeeps ==
    ASSUME IInv, NEW s \in Slots, NEW u \in Users, NEW account \in NewAccounts,
           NEW email \in Emails, CreateUser(s, u, account, email)
    PROVE  IInv'
<1>1. NewRow(account.role, account.status, email) \in Row
  BY NewRowType, AccountAssumption
<1>2. \A v \in Users : Exists(v) => Exists(v)'
  BY DEF CreateUser, Exists, IInv, TypeOK
<1>3. TypeOK'
  BY <1>1 DEF CreateUser, IInv, TypeOK, Request
<1>4. process = "up"
  BY UnderWay, RequestType DEF CreateUser, IInv
<1>q. QED
  BY <1>2, <1>3, <1>4, EndKeeps DEF CreateUser

\* What a commit does to the row of its target.
LEMMA CommitWrites ==
    ASSUME IInv, NEW s \in Slots, Commit(s)
    PROVE  LET q == requests[s]
           IN  /\ q.at = "commit" /\ q.target \in Users /\ q.writes \in Payload
               /\ users[q.target] \in Row
               /\ users'[q.target] = Assigned(users[q.target], q.writes)
               /\ users'[q.target] \in Row
               /\ \A u \in Users \ {q.target} : users'[u] = users[u]
<1>1. /\ requests[s].at = "commit" /\ requests[s].target \in Users
      /\ requests[s].writes \in Payload /\ Exists(requests[s].target)
  BY RequestType DEF IInv, Commit, Tested
<1>2. users[requests[s].target] \in Row
  BY <1>1 DEF IInv, TypeOK, Exists
<1>3. users' = [users EXCEPT ![requests[s].target] = Assigned(@, requests[s].writes)]
  BY DEF Commit
<1>q. QED
  BY <1>1, <1>2, <1>3, AssignedType DEF IInv, TypeOK

LEMMA CommitKeeps == ASSUME IInv, NEW s \in Slots, Commit(s) PROVE IInv'
<1> DEFINE target == requests[s].target
<1>1. /\ requests[s].at = "commit" /\ target \in Users /\ users'[target] \in Row
      /\ \A u \in Users \ {target} : users'[u] = users[u]
  BY CommitWrites
<1>2. \A v \in Users : Exists(v) => Exists(v)'
  BY <1>1, AccountAssumption DEF Exists
<1>3. TypeOK'
  <2>1. users' \in [Users -> Row \union {Absent}]
    BY <1>1 DEF Commit, IInv, TypeOK
  <2>q. QED
    BY <2>1, AccountAssumption DEF Commit, IInv, TypeOK, Request
<1>4. process = "up"
  BY <1>1, UnderWay, RequestType DEF IInv
<1>q. QED
  BY <1>2, <1>3, <1>4, EndKeeps DEF Commit

LEMMA InvariantStep == IInv /\ [Next]_vars => IInv'
<1> SUFFICES ASSUME IInv, [Next]_vars PROVE IInv'
  OBVIOUS
<1>1. CASE Boot
  BY <1>1, BootKeeps
<1>2. CASE Stop
  BY <1>2, StopKeeps
<1>3. ASSUME NEW u \in Users, NEW email \in Emails, Register(u, email) PROVE IInv'
  BY <1>3, RegisterKeeps
<1>4. ASSUME NEW s \in Slots,
             \/ \E t \in Token : CheckToken(s, t) \/ Logout(s, t)
             \/ \E t \in Token : WatchCommunity(s, t) \/ WatchUnit(s, t)
             \/ LoadUser(s) \/ Refresh(s) \/ Issue(s)
             \/ \E u \in Users : Login(s, u)
      PROVE  IInv'
  BY <1>4, SessionsKeep
<1>5. ASSUME NEW s \in Slots, NEW u \in Users,
             \/ \E p \in Payloads : UpdateUser(s, u, p)
             \/ \E c \in Communities : AddMember(s, u, c) \/ RemoveMember(s, u, c)
      PROVE  IInv'
  BY <1>5, EditsKeep
<1>6. ASSUME NEW s \in Slots, NEW u \in Users, NEW account \in NewAccounts, NEW email \in Emails,
             CreateUser(s, u, account, email)
      PROVE  IInv'
  BY <1>6, CreateUserKeeps
<1>7. ASSUME NEW s \in Slots, Commit(s) PROVE IInv'
  BY <1>7, CommitKeeps
<1>8. ASSUME NEW s \in Slots, Answer(s) PROVE IInv'
  BY <1>8, GoKeeps, KeepIsNoValue DEF Answer, Request
<1>9. CASE UNCHANGED vars
  BY <1>9 DEF vars, IInv, TypeOK, Tested, Exists, StartsUnlessRenamed
<1>q. QED
  BY <1>1, <1>2, <1>3, <1>4, <1>5, <1>6, <1>7, <1>8, <1>9 DEF Next, Handle

-----------------------------------------------------------------------------
(* Theorems.                                                               *)

\* The inductive invariant holds in every reachable state.
THEOREM AccountsInductive == Spec => []IInv
BY InvariantInitially, InvariantStep, PTL DEF Spec

\* Type correctness: rows, tokens and requests are what they should be, for any
\* number of users and threads.
THEOREM AccountsTypeCorrect == Spec => []TypeOK
<1>1. IInv => TypeOK
  BY DEF IInv
<1>q. QED
  BY <1>1, AccountsInductive, PTL

\* The process fails to start only after admin-001 lost the configured address.
THEOREM StartsUnlessRenamedHolds == Spec => []StartsUnlessRenamed
<1>1. IInv => StartsUnlessRenamed
  BY DEF IInv
<1>q. QED
  BY <1>1, AccountsInductive, PTL

\* How the row of a user can change: it is inserted without a scope, or committed.
LEMMA RowChanges ==
    ASSUME IInv, [Next]_vars, NEW u \in Users
    PROVE  \/ users'[u] = users[u]
           \/ ~Exists(u) /\ users'[u].community = None
           \/ \E s \in Slots : Commit(s) /\ requests[s].target = u
<1> DEFINE Goal == \/ users'[u] = users[u]
                   \/ ~Exists(u) /\ users'[u].community = None
                   \/ \E s \in Slots : Commit(s) /\ requests[s].target = u
<1>0. \A r \in Roles, st \in Statuses, e \in Emails : NewRow(r, st, e).community = None
  BY DEF NewRow
<1>1. CASE Boot
  BY <1>0, <1>1 DEF Boot, NewRow, IInv, TypeOK, Exists
<1>2. ASSUME NEW v \in Users, NEW email \in Emails, Register(v, email) PROVE Goal
  BY <1>0, <1>2 DEF Register, NewRow, IInv, TypeOK, Exists
<1>3. ASSUME NEW s \in Slots, NEW v \in Users, NEW account \in NewAccounts, NEW email \in Emails,
             CreateUser(s, v, account, email)
      PROVE  Goal
  BY <1>0, <1>3 DEF CreateUser, NewRow, IInv, TypeOK, Exists
<1>4. ASSUME NEW s \in Slots, Commit(s) PROVE Goal
  BY <1>4, CommitWrites
<1>5. CASE UNCHANGED users
  BY <1>5
<1>6. ASSUME NEW s \in Slots, Handle(s) PROVE Goal
  <2>1. ASSUME NEW t \in Token, Logout(s, t) PROVE Goal
    BY <1>5, <2>1 DEF Logout
  <2>2. ASSUME NEW v \in Users, NEW p \in Payloads, UpdateUser(s, v, p) PROVE Goal
    BY <1>5, <2>2 DEF UpdateUser, Change, Go
  <2>3. ASSUME NEW v \in Users, NEW c \in Communities, AddMember(s, v, c) \/ RemoveMember(s, v, c)
        PROVE  Goal
    <3>1. \E p : Change(s, v, p)
      BY <2>3 DEF AddMember, RemoveMember
    <3>q. QED
      BY <1>5, <3>1 DEF Change, Go
  <2>q. QED
    BY <1>3, <1>6, <2>1, <2>2, <2>3 DEF Handle
<1>7. ASSUME NEW s \in Slots,
             \/ \E t \in Token : CheckToken(s, t)
             \/ \E t \in Token : WatchCommunity(s, t) \/ WatchUnit(s, t)
             \/ LoadUser(s) \/ Refresh(s) \/ Issue(s) \/ Answer(s)
             \/ \E v \in Users : Login(s, v)
      PROVE  Goal
  BY <1>5, <1>7 DEF CheckToken, WatchCommunity, WatchUnit, LoadUser, Refresh, Issue, Answer, Login, Go
<1>8. CASE Stop \/ UNCHANGED vars
  BY <1>5, <1>8 DEF Stop, vars
<1>q. QED
  BY <1>1, <1>2, <1>4, <1>6, <1>7, <1>8 DEF Next

\* Two scopes at once only through a test made on a row that has changed since.
THEOREM OneScopeUnlessStaleHolds == Spec => OneScopeUnlessStale
<1> DEFINE Stale(u, s) ==
             /\ requests[s].at = "commit" /\ requests[s].target = u
             /\ \E c \in ScopeColumns : requests[s].seen[c] # users[u][c]
<1>1. ASSUME IInv, [Next]_vars, NEW u \in Users, BothScopes(u)', ~BothScopes(u)
      PROVE  \E s \in Slots : Stale(u, s)
  <2>1. PICK s \in Slots : Commit(s) /\ requests[s].target = u
    BY <1>1, RowChanges DEF BothScopes, Exists
  <2> DEFINE q == requests[s]
  <2>2. /\ q.at = "commit" /\ q.writes \in Payload /\ q.seen \in Row
        /\ users[u] \in Row /\ users'[u] = Assigned(users[u], q.writes)
    BY <1>1, <2>1, CommitWrites, RequestType DEF IInv
  <2>3. SUFFICES ASSUME \A c \in ScopeColumns : q.seen[c] = users[u][c] PROVE FALSE
    BY <2>1, <2>2
  <2>4. \A c \in ScopeColumns : Assigned(q.seen, q.writes)[c] = users'[u][c]
    BY <2>2, <2>3, AssignedType DEF Columns
  <2>5. \A c \in ScopeColumns : q.writes[c] = Keep
    BY <1>1, <2>1, <2>2, <2>4 DEF IInv, Tested, ScopeValid, BothScopes, ScopeColumns
  <2>6. \A c \in ScopeColumns : users'[u][c] = users[u][c]
    BY <2>2, <2>5, AssignedType DEF Columns
  <2>7. Exists(u)
    BY <2>2, AccountAssumption DEF Exists
  <2>q. QED
    BY <1>1, <2>6, <2>7 DEF BothScopes, ScopeColumns
<1>2. IInv /\ [Next]_vars =>
        [\A u \in Users : BothScopes(u)' /\ ~BothScopes(u) =>
           \E s \in Slots : Stale(u, s)]_vars
  BY <1>1
<1>q. QED
  BY <1>2, AccountsInductive, PTL DEF Spec, OneScopeUnlessStale

\* No commit undoes another: columns change only to what was asked for, by whom may.
THEOREM OnlyAskedColumnsChangeHolds == Spec => OnlyAskedColumnsChange
<1> DEFINE Asked(u, c) == \E s \in Slots :
             /\ requests[s].at = "commit" /\ requests[s].target = u
             /\ requests[s].writes[c] = users[u]'[c]
             /\ c \in {"role", "status", "building"} => requests[s].by = "ADMIN"
<1>1. ASSUME IInv, [Next]_vars, NEW u \in Users, NEW c \in Columns,
             Exists(u), users[u][c] # users[u]'[c]
      PROVE  Asked(u, c)
  <2>1. PICK s \in Slots : Commit(s) /\ requests[s].target = u
    BY <1>1, RowChanges
  <2> DEFINE q == requests[s]
  <2>2. /\ q.at = "commit" /\ q.writes \in Payload
        /\ users[u] \in Row /\ users'[u] = Assigned(users[u], q.writes)
    BY <1>1, <2>1, CommitWrites
  <2>3. q.writes[c] # Keep /\ q.writes[c] = users'[u][c]
    BY <1>1, <2>2, AssignedType
  <2>q. QED
    BY <1>1, <2>1, <2>2, <2>3 DEF IInv, Tested
<1>2. IInv /\ [Next]_vars =>
        [\A u \in Users : \A c \in Columns :
           (Exists(u) /\ users[u][c] # users[u]'[c]) => Asked(u, c)]_vars
  BY <1>1
<1>q. QED
  BY <1>2, AccountsInductive, PTL DEF Spec, OnlyAskedColumnsChange

\* How the request of a thread can change.
Moved(s) ==
    \/ requests'[s] = requests[s]
    \/ requests'[s] = Idle
    \/ \E t \in Token : CheckToken(s, t)
    \/ \E t \in Token : WatchCommunity(s, t) \/ WatchUnit(s, t)
    \/ LoadUser(s) \/ Refresh(s)
    \/ \E u \in Users : Login(s, u)
    \/ \E u \in Users :
         \/ \E p \in Payloads : UpdateUser(s, u, p)
         \/ \E c \in Communities : AddMember(s, u, c) \/ RemoveMember(s, u, c)

LEMMA RequestChanges ==
    ASSUME IInv, [Next]_vars, NEW s \in Slots
    PROVE  Moved(s)
<1>0. requests \in [Slots -> Request]
  BY DEF IInv, TypeOK
<1>1. CASE Boot \/ Stop \/ UNCHANGED vars
  BY <1>1 DEF Boot, Stop, vars, Moved
<1>2. ASSUME NEW u \in Users, NEW email \in Emails, Register(u, email) PROVE Moved(s)
  BY <1>2 DEF Register, Moved
<1>3. ASSUME NEW q \in Slots,
             Handle(q) \/ Commit(q) \/ Answer(q) \/ Issue(q) \/ LoadUser(q) \/ Refresh(q)
               \/ (\E t \in Token : CheckToken(q, t) \/ WatchCommunity(q, t) \/ WatchUnit(q, t))
               \/ (\E u \in Users : Login(q, u))
      PROVE  Moved(s)
  <2>1. CASE q = s
    <3>1. CASE Handle(s)
      <4>1. ASSUME NEW t \in Token, Logout(s, t) PROVE Moved(s)
        BY <1>0, <4>1 DEF Logout, Moved
      <4>2. ASSUME NEW u \in Users, NEW account \in NewAccounts, NEW email \in Emails,
                   CreateUser(s, u, account, email)
            PROVE  Moved(s)
        BY <1>0, <4>2 DEF CreateUser, Moved
      <4>q. QED
        BY <3>1, <4>1, <4>2 DEF Handle, Moved
    <3>2. CASE Commit(s) \/ Answer(s) \/ Issue(s)
      BY <1>0, <3>2 DEF Commit, Answer, Issue, Go, Moved
    <3>q. QED
      BY <1>3, <2>1, <3>1, <3>2 DEF Moved
  <2>2. CASE q # s
    <3>1. ASSUME NEW t \in Token,
                 Logout(q, t) \/ CheckToken(q, t) \/ WatchCommunity(q, t) \/ WatchUnit(q, t)
          PROVE  requests'[s] = requests[s]
      BY <1>0, <2>2, <3>1 DEF Logout, CheckToken, WatchCommunity, WatchUnit, Go
    <3>2. ASSUME NEW u \in Users, NEW p, Change(q, u, p) PROVE requests'[s] = requests[s]
      BY <1>0, <2>2, <3>2 DEF Change, Go
    <3>3. ASSUME NEW u \in Users, NEW account \in NewAccounts, NEW email \in Emails,
                 CreateUser(q, u, account, email)
          PROVE  requests'[s] = requests[s]
      BY <1>0, <2>2, <3>3 DEF CreateUser
    <3>4. ASSUME Handle(q) PROVE requests'[s] = requests[s]
      <4>1. ASSUME NEW u \in Users, NEW p \in Payloads, UpdateUser(q, u, p)
            PROVE  requests'[s] = requests[s]
        BY <3>2, <4>1 DEF UpdateUser
      <4>2. ASSUME NEW u \in Users, NEW c \in Communities, AddMember(q, u, c) \/ RemoveMember(q, u, c)
            PROVE  requests'[s] = requests[s]
        <5>1. \E p : Change(q, u, p)
          BY <4>2 DEF AddMember, RemoveMember
        <5>q. QED
          BY <3>2, <5>1
      <4>q. QED
        BY <3>1, <3>3, <3>4, <4>1, <4>2 DEF Handle
    <3>5. ASSUME Commit(q) \/ Answer(q) \/ Issue(q) \/ LoadUser(q) \/ Refresh(q)
          PROVE  requests'[s] = requests[s]
      BY <1>0, <2>2, <3>5 DEF Commit, Answer, Issue, LoadUser, Refresh, Go
    <3>6. ASSUME NEW u \in Users, Login(q, u) PROVE requests'[s] = requests[s]
      BY <1>0, <2>2, <3>6 DEF Login, Go
    <3>q. QED
      BY <1>3, <3>1, <3>4, <3>5, <3>6 DEF Moved
  <2>q. QED
    BY <2>1, <2>2
<1>q. QED
  BY <1>1, <1>2, <1>3 DEF Next

\* Pairs are issued by requests that have passed their checks.
LEMMA PairChanges ==
    ASSUME IInv, [Next]_vars, NEW u \in Users, pairs'[u] # pairs[u]
    PROVE  \E s \in Slots : requests[s].at = "issue" /\ requests[s].user = u
<1>1. ASSUME NEW s \in Slots, Issue(s) PROVE requests[s].at = "issue" /\ requests[s].user = u
  BY <1>1 DEF Issue, IInv, TypeOK
<1>2. ASSUME NEW s \in Slots, Handle(s) PROVE UNCHANGED pairs
  <2>1. ASSUME NEW v \in Users, NEW p, Change(s, v, p) PROVE UNCHANGED pairs
    BY <2>1 DEF Change, Go
  <2>2. ASSUME NEW v \in Users, NEW p \in Payloads, UpdateUser(s, v, p) PROVE UNCHANGED pairs
    BY <2>1, <2>2 DEF UpdateUser
  <2>3. ASSUME NEW v \in Users, NEW c \in Communities, AddMember(s, v, c) \/ RemoveMember(s, v, c)
        PROVE  UNCHANGED pairs
    <3>1. \E p : Change(s, v, p)
      BY <2>3 DEF AddMember, RemoveMember
    <3>q. QED
      BY <2>1, <3>1
  <2>4. ASSUME NEW t \in Token, Logout(s, t) PROVE UNCHANGED pairs
    BY <2>4 DEF Logout
  <2>5. ASSUME NEW v \in Users, NEW account \in NewAccounts, NEW email \in Emails,
               CreateUser(s, v, account, email)
        PROVE  UNCHANGED pairs
    BY <2>5 DEF CreateUser
  <2>q. QED
    BY <1>2, <2>2, <2>3, <2>4, <2>5 DEF Handle
<1>3. ASSUME NEW s \in Slots,
             \/ \E t \in Token : CheckToken(s, t)
             \/ \E t \in Token : WatchCommunity(s, t) \/ WatchUnit(s, t)
             \/ LoadUser(s) \/ Refresh(s) \/ Commit(s) \/ Answer(s)
             \/ \E v \in Users : Login(s, v)
      PROVE  UNCHANGED pairs
  BY <1>3 DEF CheckToken, WatchCommunity, WatchUnit, LoadUser, Refresh, Commit, Answer, Login, Go
<1>4. CASE Boot \/ Stop \/ UNCHANGED vars \/ \E v \in Users, email \in Emails : Register(v, email)
  BY <1>4 DEF Boot, Stop, Register, vars
<1>q. QED
  BY <1>1, <1>2, <1>3, <1>4 DEF Next

\* No revocation is taken back.
LEMMA RevokedGrows ==
    ASSUME [Next]_vars
    PROVE  revoked \subseteq revoked'
<1>1. ASSUME NEW s \in Slots, Handle(s) PROVE revoked \subseteq revoked'
  <2>1. ASSUME NEW v \in Users, NEW p, Change(s, v, p) PROVE UNCHANGED revoked
    BY <2>1 DEF Change, Go
  <2>2. ASSUME NEW v \in Users, NEW p \in Payloads, UpdateUser(s, v, p) PROVE UNCHANGED revoked
    BY <2>1, <2>2 DEF UpdateUser
  <2>3. ASSUME NEW v \in Users, NEW c \in Communities, AddMember(s, v, c) \/ RemoveMember(s, v, c)
        PROVE  UNCHANGED revoked
    <3>1. \E p : Change(s, v, p)
      BY <2>3 DEF AddMember, RemoveMember
    <3>q. QED
      BY <2>1, <3>1
  <2>4. ASSUME NEW t \in Token, Logout(s, t) PROVE revoked \subseteq revoked'
    BY <2>4 DEF Logout
  <2>5. ASSUME NEW v \in Users, NEW account \in NewAccounts, NEW email \in Emails,
               CreateUser(s, v, account, email)
        PROVE  UNCHANGED revoked
    BY <2>5 DEF CreateUser
  <2>q. QED
    BY <1>1, <2>2, <2>3, <2>4, <2>5 DEF Handle
<1>2. ASSUME NEW s \in Slots,
             \/ \E t \in Token : CheckToken(s, t)
             \/ \E t \in Token : WatchCommunity(s, t) \/ WatchUnit(s, t)
             \/ LoadUser(s) \/ Refresh(s) \/ Issue(s) \/ Commit(s) \/ Answer(s)
             \/ \E v \in Users : Login(s, v)
      PROVE  UNCHANGED revoked
  BY <1>2
     DEF CheckToken, WatchCommunity, WatchUnit, LoadUser, Refresh, Issue, Commit, Answer, Login, Go
<1>3. CASE Boot \/ Stop \/ UNCHANGED vars \/ \E v \in Users, email \in Emails : Register(v, email)
  BY <1>3 DEF Boot, Stop, Register, vars
<1>q. QED
  BY <1>1, <1>2, <1>3 DEF Next

\* A deactivated user stays out of the HTTP routes, and so does a revoked token.
THEOREM OutStaysOutHolds == Spec => OutStaysOut
<1>1. ASSUME IInv, [Next]_vars, NEW u \in Users, ShutOut(u),
             users[u]'.status \in {"INACTIVE", "DELETED"}
      PROVE  ShutOut(u)'
  <2>1. ASSUME NEW s \in Slots
        PROVE  ~ActsFor(s, u)'
    <3>1. CASE requests'[s] = requests[s] \/ requests'[s] = Idle
      BY <1>1, <3>1, KeepIsNoValue DEF ShutOut, ActsFor
    <3>2. CASE \E t \in Token : CheckToken(s, t)
      BY <1>1, <3>2 DEF CheckToken, Go, ActsFor, IInv, TypeOK
    <3>3. CASE LoadUser(s) \/ Refresh(s)
      BY <1>1, <3>3 DEF LoadUser, Refresh, TokenUser, CanAuthenticate, Go, ActsFor, ShutOut, IInv, TypeOK
    <3>4. CASE \E v \in Users : Login(s, v)
      BY <1>1, <3>4 DEF Login, CanAuthenticate, Go, ActsFor, ShutOut, IInv, TypeOK
    <3>5. ASSUME NEW v \in Users,
                 \/ \E p \in Payloads : UpdateUser(s, v, p)
                 \/ \E c \in Communities : AddMember(s, v, c) \/ RemoveMember(s, v, c)
          PROVE  ~ActsFor(s, u)'
      BY <1>1, <3>5, HandlersTest, ChangeLeaves DEF Prepared, ActsFor, ShutOut, IInv
    \* A WebSocket does nothing for its user that ActsFor counts.
    <3>6. CASE \E t \in Token : WatchCommunity(s, t) \/ WatchUnit(s, t)
      BY <1>1, <3>6 DEF WatchCommunity, WatchUnit, Go, ActsFor, IInv, TypeOK
    <3>q. QED
      BY <1>1, <3>1, <3>2, <3>3, <3>4, <3>5, <3>6, RequestChanges DEF Moved
  <2>2. Exists(u)'
    <3>1. CASE users'[u] = users[u]
      BY <1>1, <3>1 DEF ShutOut, Exists
    <3>2. ASSUME NEW s \in Slots, Commit(s), requests[s].target = u PROVE Exists(u)'
      BY <1>1, <3>2, CommitWrites, AccountAssumption DEF Exists
    <3>q. QED
      BY <1>1, <3>1, <3>2, RowChanges DEF ShutOut
  <2>q. QED
    BY <1>1, <2>1, <2>2 DEF ShutOut
<1>2. ASSUME IInv, [Next]_vars, NEW u \in Users, ShutOut(u)
      PROVE  pairs'[u] = pairs[u]
  BY <1>2, PairChanges DEF ShutOut, ActsFor
<1>3. ASSUME IInv, [Next]_vars, NEW t \in Token, LoggedOut(t)
      PROVE  LoggedOut(t)'
  <2>1. ASSUME NEW s \in Slots, requests'[s].at = "user", requests'[s].token = t
        PROVE  FALSE
    <3>1. CASE requests'[s] = requests[s] \/ requests'[s] = Idle
      BY <1>3, <2>1, <3>1, KeepIsNoValue DEF LoggedOut
    <3>2. CASE \E q \in Token : CheckToken(s, q)
      BY <1>3, <2>1, <3>2 DEF CheckToken, Go, LoggedOut, IInv, TypeOK
    <3>3. CASE LoadUser(s) \/ Refresh(s) \/ \E v \in Users : Login(s, v)
      BY <1>3, <2>1, <3>3 DEF LoadUser, Refresh, Login, Go, IInv, TypeOK
    <3>4. ASSUME NEW v \in Users,
                 \/ \E p \in Payloads : UpdateUser(s, v, p)
                 \/ \E c \in Communities : AddMember(s, v, c) \/ RemoveMember(s, v, c)
          PROVE  FALSE
      BY <1>3, <2>1, <3>4, HandlersTest, ChangeLeaves DEF Prepared, IInv
    <3>5. CASE \E q \in Token : WatchCommunity(s, q) \/ WatchUnit(s, q)
      BY <1>3, <2>1, <3>5 DEF WatchCommunity, WatchUnit, Go, IInv, TypeOK
    <3>q. QED
      BY <1>3, <3>1, <3>2, <3>3, <3>4, <3>5, RequestChanges DEF Moved
  <2>q. QED
    BY <1>3, <2>1, RevokedGrows DEF LoggedOut
<1>4. IInv /\ [Next]_vars =>
        [/\ \A u \in Users : ShutOut(u) =>
              /\ pairs'[u] = pairs[u]
              /\ users[u]'.status \in {"INACTIVE", "DELETED"} => ShutOut(u)'
         /\ \A t \in Token : LoggedOut(t) => LoggedOut(t)']_vars
  BY <1>1, <1>2, <1>3
<1>q. QED
  BY <1>4, AccountsInductive, PTL DEF Spec, OutStaysOut
=============================================================================
