------------------------------ MODULE Accounts ------------------------------
(***************************************************************************)
(* Users, their businesses and their Firebase accounts.                    *)
(*                                                                         *)
(* A user is two records under one uid: a row of PostgreSQL, which decides *)
(* who may do what, and an account of Firebase, which lets a person sign   *)
(* in and carries a copy of the role.  No transaction covers both: each    *)
(* call to Firebase is a step of its own that may fail, and may have taken *)
(* effect although it failed.                                              *)
(*                                                                         *)
(* Row level security shows a statement the rows of the business that the  *)
(* variable app.business_id of its transaction names.  Connections come    *)
(* from a pool that every request shares.                                  *)
(***************************************************************************)
EXTENDS Integers

CONSTANTS
    Requests,      \* concurrent requests and tool calls
    Connections,   \* of the pool
    Uids, Emails,
    Founder,       \* the uid of the admin of the first business
    FounderEmail,
    Updates,       \* the bodies of a PUT or PATCH: functions on some columns
    MaxCrashes,    \* bound on the restarts of the process
    None           \* no row, no account, no business, no connection

Roles == {"admin", "sales_rep", "viewer"}
Activity == {"active", "inactive"}
Columns == {"role", "activity"}

Row == [email : Emails, role : Roles, activity : Activity, business : Uids]
\* set_custom_user_claims takes whatever it is given.
Claim(c) == {"unset", "null"} \cup IF c = "role" THEN Roles ELSE Activity
Account == [email : Emails, role : Claim("role"), activity : Claim("activity")]

ASSUME AccountsAssumption ==
    /\ Founder \in Uids /\ FounderEmail \in Emails
    /\ None \notin Uids \cup Connections \cup Row \cup Account
    /\ \A u \in Updates :
          /\ DOMAIN u \subseteq Columns
          /\ \A c \in DOMAIN u : u[c] \in {"null"} \cup IF c = "role" THEN Roles ELSE Activity
    /\ MaxCrashes \in Nat

VARIABLES
    rows,        \* users: the row of each uid, or None
    businesses,  \* the committed businesses, each named by its founder
    accounts,    \* the account of each uid in Firebase, or None
    req,         \* the operation of each request
    pc,          \* its next statement or call
    conn,        \* the connection its transaction runs on, or None
    setting,     \* app.business_id on each connection, or None
    crashes,
    answered,    \* history: the uids whose creation was answered with a 201
    doubtful,    \* history: a failure left one of its records unknown
    crossed      \* history: an update failed half way, or met another one

stores == <<rows, businesses, accounts>>
history == <<answered, doubtful, crossed>>
vars == <<stores, req, pc, conn, setting, crashes, history>>

----------------------------------------------------------------------------
(* Types. *)

NoReq == [kind |-> "none"]
Creation == [kind : {"signup", "seller"}, uid : Uids, business : Uids \cup {None},
             email : Emails, role : Roles]
Update == [kind : {"update"}, business : Uids, target : Uids, body : Updates,
           loaded : Row]
Panel == [kind : {"panel"}, business : Uids]

TypeOK ==
    /\ rows \in [Uids -> Row \cup {None}]
    /\ businesses \subseteq Uids
    /\ accounts \in [Uids -> Account \cup {None}]
    /\ req \in [Requests -> {NoReq} \cup Creation \cup Update \cup Panel]
    /\ pc \in [Requests -> {"idle", "email", "account", "claims", "link", "commit",
                            "refresh", "answer", "undo", "work"}]
    /\ conn \in [Requests -> Connections \cup {None}]
    /\ setting \in [Connections -> Uids \cup {None}]
    /\ crashes \in 0..MaxCrashes
    /\ answered \subseteq Uids /\ doubtful \subseteq Uids /\ crossed \subseteq Uids

----------------------------------------------------------------------------
(* Sessions, connections and the variable of the policies. *)

\* after_begin: the variable is set in every transaction of a session that
\* was bound to a business.
AfterBegin(k, b) == setting' = IF b = None THEN setting ELSE [setting EXCEPT ![k] = b]

Open(r, b) ==
    \E k \in Connections :
        /\ \A t \in Requests : conn[t] # k
        /\ conn' = [conn EXCEPT ![r] = k]
        /\ AfterBegin(k, b)

\* Mutant of Reset: set_config(..., false) outlives the transaction.
Kept(k) == setting[k]
\* The variable is local to the transaction: its end clears it.
Reset(k) == None

Close(r) ==
    /\ conn' = [conn EXCEPT ![r] = None]
    /\ setting' = [k \in Connections |-> IF k = conn[r] THEN Reset(k) ELSE setting[k]]

\* The policy tenant_isolation: no variable, no rows.
Sees(k) == {setting[k]} \ {None}

\* An answer, or an exception that get_db ends with a rollback.
End(r) ==
    /\ Close(r)
    /\ req' = [req EXCEPT ![r] = NoReq]
    /\ pc' = [pc EXCEPT ![r] = "idle"]

Goto(r, l) == pc' = [pc EXCEPT ![r] = l]

----------------------------------------------------------------------------
(* Authentication. *)

\* The token names a uid; its row must exist and be active.  The role comes
\* from the row, never from the claims.
Member(u) == rows[u] # None
Authenticated(u) == Member(u) /\ rows[u].activity = "active"
IsAdmin(u) == Authenticated(u) /\ rows[u].role = "admin"

\* get_current_user binds the session in the transaction that read the row.
BeginPanel(r) ==
    /\ pc[r] = "idle"
    /\ \E u \in Uids :
          /\ Authenticated(u)
          /\ req' = [req EXCEPT ![r] = [kind |-> "panel", business |-> rows[u].business]]
          /\ Open(r, rows[u].business)
    /\ Goto(r, "work")
    /\ UNCHANGED <<stores, crashes, history>>

\* agent_session: a run keeps the business its request was given and asks
\* nobody again.
BeginTool(r) ==
    /\ pc[r] = "idle"
    /\ \E b \in businesses :
          /\ req' = [req EXCEPT ![r] = [kind |-> "panel", business |-> b]]
          /\ Open(r, b)
    /\ Goto(r, "work")
    /\ UNCHANGED <<stores, crashes, history>>

\* A commit: what follows runs in another transaction, on any connection.
Work(r) ==
    /\ pc[r] = "work"
    /\ Close(r)
    /\ Goto(r, "refresh")
    /\ UNCHANGED <<stores, req, crashes, history>>

----------------------------------------------------------------------------
(* signup_business and create_seller. *)

\* The uids nobody has, not even a request or an account left behind.
Fresh == {u \in Uids : /\ rows[u] = None /\ accounts[u] = None /\ u \notin doubtful
                       /\ \A r \in Requests :
                             req[r].kind \in {"signup", "seller"} => req[r].uid # u}

BeginSignup(r) ==
    /\ pc[r] = "idle"
    /\ \E u \in Fresh, m \in Emails :
          req' = [req EXCEPT ![r] = [kind |-> "signup", uid |-> u, business |-> None,
                                     email |-> m, role |-> "admin"]]
    /\ Open(r, None)
    /\ Goto(r, "email")
    /\ UNCHANGED <<stores, crashes, history>>

BeginSeller(r) ==
    /\ pc[r] = "idle"
    /\ \E a \in Uids, u \in Fresh, m \in Emails :
          /\ IsAdmin(a)
          /\ req' = [req EXCEPT ![r] = [kind |-> "seller", uid |-> u,
                         business |-> rows[a].business, email |-> m, role |-> "viewer"]]
          /\ Open(r, rows[a].business)
    /\ Goto(r, "email")
    /\ UNCHANGED <<stores, crashes, history>>

EmailTaken(m) == \E u \in Uids : rows[u] # None /\ rows[u].email = m

\* An unlocked read.  A signup then inserts its business, not committed yet.
CheckEmail(r) ==
    /\ pc[r] = "email"
    /\ ~EmailTaken(req[r].email)
    /\ Goto(r, "account")
    /\ UNCHANGED <<stores, req, conn, setting, crashes, history>>

RefuseEmail(r) ==
    /\ pc[r] = "email"
    /\ EmailTaken(req[r].email)
    /\ End(r)
    /\ UNCHANGED <<stores, crashes, history>>

InFirebase(m) == \E u \in Uids : accounts[u] # None /\ accounts[u].email = m
NewAccount(m) == [email |-> m, role |-> "unset", activity |-> "unset"]

CreateAccount(r) ==
    /\ pc[r] = "account"
    /\ ~InFirebase(req[r].email)
    /\ accounts' = [accounts EXCEPT ![req[r].uid] = NewAccount(req[r].email)]
    /\ Goto(r, "claims")
    /\ UNCHANGED <<rows, businesses, req, conn, setting, crashes, history>>

\* 409 when Firebase has the address; 400 for any other failure, one that
\* comes after the account was created included.  Neither is compensated.
AccountFails(r) ==
    /\ pc[r] = "account"
    /\ \/ UNCHANGED <<accounts, doubtful>>
       \/ /\ ~InFirebase(req[r].email)
          /\ accounts' = [accounts EXCEPT ![req[r].uid] = NewAccount(req[r].email)]
          /\ doubtful' = doubtful \cup {req[r].uid}
    /\ End(r)
    /\ UNCHANGED <<rows, businesses, crashes, answered, crossed>>

Claimed(u, role, activity) ==
    accounts' = [accounts EXCEPT ![u] = [@ EXCEPT !.role = role, !.activity = activity]]

SetFirstClaims(r) ==
    /\ pc[r] = "claims"
    /\ req[r].kind # "update"
    /\ Claimed(req[r].uid, req[r].role, "active")
    /\ Goto(r, IF req[r].kind = "seller" THEN "link" ELSE "commit")
    /\ UNCHANGED <<rows, businesses, req, conn, setting, crashes, history>>

\* The password link of a seller.
MakeLink(r) ==
    /\ pc[r] = "link"
    /\ Goto(r, "commit")
    /\ UNCHANGED <<stores, req, conn, setting, crashes, history>>

\* The row of the user, and that of its business for a signup, in one commit.
InsertUser(r) ==
    LET q == req[r]
        b == IF q.kind = "signup" THEN q.uid ELSE q.business
    IN  /\ rows' = [rows EXCEPT ![q.uid] = [email |-> q.email, role |-> q.role,
                                            activity |-> "active", business |-> b]]
        /\ businesses' = businesses \cup {b}

\* users.email is unique in the whole database.
CommitUser(r) ==
    /\ pc[r] = "commit" /\ req[r].kind # "update"
    /\ ~EmailTaken(req[r].email)
    /\ InsertUser(r)
    /\ Close(r)
    /\ Goto(r, "refresh")
    /\ UNCHANGED <<accounts, req, crashes, history>>

\* The transaction is lost, and nobody knows whether before or after its commit.
CommitUserLost(r) ==
    /\ pc[r] = "commit" /\ req[r].kind # "update"
    /\ ~EmailTaken(req[r].email)
    /\ InsertUser(r)
    /\ Close(r)
    /\ Goto(r, "undo")
    /\ doubtful' = doubtful \cup {req[r].uid}
    /\ UNCHANGED <<accounts, req, crashes, answered, crossed>>

\* Anything raised once the account exists: claims, link, the duplicate
\* address, the database.
CreationFails(r) ==
    /\ pc[r] \in {"claims", "link", "commit"} /\ req[r].kind # "update"
    /\ Close(r)
    /\ Goto(r, "undo")
    /\ UNCHANGED <<stores, req, crashes, history>>

\* Mutant of Compensated: the account of a failed creation stays.
LeftBehind(r) == accounts
Compensated(r) == [accounts EXCEPT ![req[r].uid] = None]

Undo(r) ==
    /\ pc[r] = "undo"
    /\ accounts' = Compensated(r)
    /\ End(r)
    /\ UNCHANGED <<rows, businesses, crashes, history>>

\* delete_user raises: its exception replaces the first one.
UndoFails(r) ==
    /\ pc[r] = "undo"
    /\ accounts' \in {accounts, Compensated(r)}
    /\ doubtful' = doubtful \cup {req[r].uid}
    /\ End(r)
    /\ UNCHANGED <<rows, businesses, crashes, answered, crossed>>

----------------------------------------------------------------------------
(* update and update_role. *)

\* The row the admin asks for, 404 if it is of another business.  An admin
\* that asks for his own gets the one get_current_user loaded, in the same
\* transaction: here, one read.
BeginUpdate(r) ==
    /\ pc[r] = "idle"
    /\ \E a, u \in Uids, d \in Updates :
          /\ IsAdmin(a)
          /\ Member(u) /\ rows[u].business = rows[a].business
          /\ req' = [req EXCEPT ![r] = [kind |-> "update", business |-> rows[a].business,
                                        target |-> u, body |-> d, loaded |-> rows[u]]]
          /\ Open(r, rows[a].business)
          /\ crossed' = IF \E t \in Requests : req[t].kind = "update" /\ req[t].target = u
                          THEN crossed \cup {u} ELSE crossed
    /\ Goto(r, "claims")
    /\ UNCHANGED <<stores, crashes, answered, doubtful>>

\* The user in the session, after the setattr of each field of the body.
InSession(r, c) ==
    IF c \in DOMAIN req[r].body THEN req[r].body[c] ELSE req[r].loaded[c]

\* Mutant of Mirrors: the claims follow the role only.
RoleOnly(r) == "role" \in DOMAIN req[r].body
Mirrors(r) == DOMAIN req[r].body # {}

\* Firebase first, the database after.
SetClaims(r) ==
    /\ pc[r] = "claims" /\ req[r].kind = "update"
    /\ IF Mirrors(r)
         THEN /\ accounts[req[r].target] # None
              /\ Claimed(req[r].target, InSession(r, "role"), InSession(r, "activity"))
         ELSE UNCHANGED accounts
    /\ Goto(r, "commit")
    /\ UNCHANGED <<rows, businesses, req, conn, setting, crashes, history>>

ClaimsFail(r) ==
    /\ pc[r] = "claims" /\ req[r].kind = "update"
    /\ \/ UNCHANGED <<accounts, crossed>>
       \/ /\ accounts[req[r].target] # None
          /\ Claimed(req[r].target, InSession(r, "role"), InSession(r, "activity"))
          /\ crossed' = crossed \cup {req[r].target}
    /\ End(r)
    /\ UNCHANGED <<rows, businesses, crashes, answered, doubtful>>

\* Mutant of Dirty: the UPDATE writes every column the session holds.
WholeRow(r) == Columns
\* SQLAlchemy writes the columns whose value is not the one it loaded.
Dirty(r) == {c \in DOMAIN req[r].body : req[r].body[c] # req[r].loaded[c]}

UpdateRow(r) ==
    LET u == req[r].target
        Column(c) == IF c \in Dirty(r) THEN InSession(r, c) ELSE rows[u][c]
    IN  rows' = [rows EXCEPT ![u] = [rows[u] EXCEPT !.role = Column("role"),
                                                    !.activity = Column("activity")]]

\* Mutant of Storable: columns without NOT NULL.
AnyBody(r) == TRUE
\* Neither column takes a null.
Storable(r) == \A c \in DOMAIN req[r].body : req[r].body[c] # "null"

CommitUpdate(r) ==
    /\ pc[r] = "commit" /\ req[r].kind = "update"
    /\ Storable(r)
    /\ UpdateRow(r)
    /\ Close(r)
    /\ Goto(r, "refresh")
    /\ UNCHANGED <<businesses, accounts, req, crashes, history>>

\* A null, or a database that fails before the commit or after it.
UpdateFails(r) ==
    /\ pc[r] = "commit" /\ req[r].kind = "update"
    /\ \/ UNCHANGED rows
       \/ Storable(r) /\ UpdateRow(r)
    /\ crossed' = crossed \cup {req[r].target}
    /\ End(r)
    /\ UNCHANGED <<businesses, accounts, crashes, answered, doubtful>>

----------------------------------------------------------------------------
(* After the commit. *)

\* refresh, or the next statement of a panel operation: a new transaction.
Refresh(r) ==
    /\ pc[r] = "refresh"
    /\ Open(r, req[r].business)
    /\ Goto(r, "answer")
    /\ UNCHANGED <<stores, req, crashes, history>>

\* refresh is inside the try of a creation: its failure is compensated too,
\* and the row is there already.
RefreshFails(r) ==
    /\ pc[r] = "refresh"
    /\ IF req[r].kind \in {"signup", "seller"}
         THEN /\ Goto(r, "undo")
              /\ doubtful' = doubtful \cup {req[r].uid}
              /\ UNCHANGED <<req, conn, setting>>
         ELSE End(r) /\ UNCHANGED doubtful
    /\ UNCHANGED <<stores, crashes, answered, crossed>>

Answer(r) ==
    /\ pc[r] = "answer"
    /\ End(r)
    /\ answered' = IF req[r].kind \in {"signup", "seller"}
                     THEN answered \cup {req[r].uid} ELSE answered
    /\ UNCHANGED <<stores, crashes, doubtful, crossed>>

\* The process dies with everything it had in memory.
Crash ==
    /\ crashes < MaxCrashes
    /\ crashes' = crashes + 1
    /\ doubtful' = doubtful \cup
          {req[r].uid : r \in {t \in Requests : req[t].kind \in {"signup", "seller"}}}
    /\ crossed' = crossed \cup
          {req[r].target : r \in {t \in Requests : req[t].kind = "update"}}
    /\ req' = [r \in Requests |-> NoReq]
    /\ pc' = [r \in Requests |-> "idle"]
    /\ conn' = [r \in Requests |-> None]
    /\ setting' = [k \in Connections |-> None]
    /\ UNCHANGED <<stores, answered>>

----------------------------------------------------------------------------

Init ==
    /\ rows = [u \in Uids |->
          IF u = Founder THEN [email |-> FounderEmail, role |-> "admin",
                               activity |-> "active", business |-> Founder] ELSE None]
    /\ businesses = {Founder}
    /\ accounts = [u \in Uids |->
          IF u = Founder THEN [email |-> FounderEmail, role |-> "admin",
                               activity |-> "active"] ELSE None]
    /\ req = [r \in Requests |-> NoReq]
    /\ pc = [r \in Requests |-> "idle"]
    /\ conn = [r \in Requests |-> None]
    /\ setting = [k \in Connections |-> None]
    /\ crashes = 0
    /\ answered = {} /\ doubtful = {} /\ crossed = {}

Creating(r) ==
    \/ BeginSignup(r) \/ BeginSeller(r) \/ CheckEmail(r) \/ RefuseEmail(r)
    \/ CreateAccount(r) \/ AccountFails(r) \/ SetFirstClaims(r) \/ MakeLink(r)
    \/ CommitUser(r) \/ CommitUserLost(r) \/ CreationFails(r) \/ Undo(r) \/ UndoFails(r)

Updating(r) ==
    \/ BeginUpdate(r) \/ SetClaims(r) \/ ClaimsFail(r) \/ CommitUpdate(r) \/ UpdateFails(r)

Next ==
    \/ \E r \in Requests :
          \/ BeginPanel(r) \/ BeginTool(r) \/ Work(r)
          \/ Creating(r) \/ Updating(r)
          \/ Refresh(r) \/ RefreshFails(r) \/ Answer(r)
    \/ Crash

Spec == Init /\ [][Next]_vars

----------------------------------------------------------------------------
(* Properties. *)

InFlight(u) == \E r \in Requests : req[r].kind \in {"signup", "seller"} /\ req[r].uid = u

\* The two stores have the same users although no transaction covers them.
\* Whatever fails, in whatever step, and whoever else asks for the same
\* address: a uid nobody is creating has its row and its account or neither,
\* a creation that was answered has both, and a business has its founder.
\* Except where the answer of a store was lost, the compensation failed or
\* the process died.
StoresAgree ==
    /\ \A u \in Uids \ doubtful :
          /\ ~InFlight(u) => (rows[u] = None <=> accounts[u] = None)
          /\ u \in answered => rows[u] # None
          /\ rows[u] # None => accounts[u] # None /\ accounts[u].email = rows[u].email
    /\ \A u \in Uids : u \in businesses <=> rows[u] # None /\ rows[u].business = u

\* The claims in the token say what the row says, once no update of the user
\* is under way and unless two met or one failed half way.
ClaimsFollowTheRow ==
    \A u \in Uids \ (doubtful \cup crossed) :
        (rows[u] # None /\ ~\E r \in Requests : req[r].kind = "update" /\ req[r].target = u)
            => \A c \in Columns : accounts[u][c] = rows[u][c]

\* Two admins who change the same user at once do not undo each other: a
\* column changes only by a request that named it, to the value it named.
\* So a user who was locked out stays out until somebody says otherwise.
OnlyNamedColumnsChange ==
    [][\A u \in Uids, c \in Columns :
          rows[u] # None /\ rows'[u][c] # rows[u][c] =>
              \E r \in Requests : /\ req[r].kind = "update" /\ req[r].target = u
                                  /\ c \in DOMAIN req[r].body
                                  /\ req[r].body[c] = rows'[u][c]]_vars

\* Every statement of a request sees its own business and no other, in its
\* second transaction as in the first, on whatever connection the pool gives
\* it and whoever used that connection before; a signup sees none.
BoundToItsBusiness ==
    \A r \in Requests :
        conn[r] # None => Sees(conn[r]) = {req[r].business} \ {None}
=============================================================================
