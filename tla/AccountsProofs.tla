--------------------------- MODULE AccountsProofs ---------------------------
(***************************************************************************)
(* The theorems of Accounts, for any requests, connections, users and      *)
(* bodies of an update.                                                    *)
(***************************************************************************)
EXTENDS Accounts, TLAPS

Creates(r) == req[r].kind \in {"signup", "seller"}
Changes(r) == req[r].kind = "update"

\* Each kind of request runs its own statements.
KindsOK ==
    \A r \in Requests :
        /\ req[r].kind = "none" <=> pc[r] = "idle"
        /\ pc[r] = "work" => req[r].kind = "panel"
        /\ pc[r] \in {"email", "account", "link", "undo"} => Creates(r)
        /\ pc[r] \in {"claims", "commit"} => Creates(r) \/ Changes(r)

\* A connection has one owner and its business, or is free and clean.
ConnectionsOK ==
    /\ \A r \in Requests : conn[r] = None <=> pc[r] \in {"idle", "refresh", "undo"}
    /\ \A r, t \in Requests : conn[r] = conn[t] /\ conn[r] # None => r = t
    /\ \A r \in Requests : conn[r] # None => setting[conn[r]] = req[r].business
    /\ \A k \in Connections : (\A r \in Requests : conn[r] # k) => setting[k] = None

\* No two creations have one uid, and each finds of it what it has done.
DistinctUids ==
    \A r, t \in Requests : Creates(r) /\ Creates(t) /\ req[r].uid = req[t].uid => r = t

CreationOK(r) ==
    LET u == req[r].uid IN
    /\ u \notin answered
    /\ req[r].kind = "signup" => req[r].business = None
    /\ req[r].kind = "seller" => req[r].business \in businesses
    /\ pc[r] \in {"email", "account"} =>
          rows[u] = None /\ accounts[u] = None /\ u \notin doubtful
    /\ pc[r] \in {"claims", "link", "commit"} =>
          /\ rows[u] = None /\ accounts[u] # None /\ u \notin doubtful
          /\ accounts[u].email = req[r].email
    /\ pc[r] \in {"link", "commit"} =>
          accounts[u].role = req[r].role /\ accounts[u].activity = "active"
    /\ pc[r] = "undo" /\ u \notin doubtful => rows[u] = None
    /\ pc[r] \in {"refresh", "answer"} =>
          /\ rows[u] # None /\ accounts[u] # None /\ u \notin doubtful
          /\ accounts[u].email = rows[u].email
CreationsOK == \A r \in Requests : Creates(r) => CreationOK(r)

\* An update that is alone with its user works from the row as it is, and
\* has left in the claims what it is about to write.
UpdateOK(r) ==
    LET u == req[r].target IN
    u \notin doubtful \cup crossed =>
        /\ \A t \in Requests : Changes(t) /\ req[t].target = u => t = r
        /\ pc[r] \in {"claims", "commit"} =>
              \A c \in Columns : rows[u][c] = req[r].loaded[c]
        /\ pc[r] \in {"claims", "refresh", "answer"} =>
              \A c \in Columns : accounts[u][c] = rows[u][c]
        /\ pc[r] = "commit" => \A c \in Columns : accounts[u][c] = InSession(r, c)
UpdatesOK ==
    \A r \in Requests : Changes(r) => rows[req[r].target] # None /\ UpdateOK(r)

BusinessesOK == \A u \in Uids : rows[u] # None => rows[u].business \in businesses

IInv ==
    /\ TypeOK
    /\ KindsOK
    /\ ConnectionsOK
    /\ DistinctUids
    /\ CreationsOK
    /\ UpdatesOK
    /\ BusinessesOK
    /\ StoresAgree
    /\ ClaimsFollowTheRow

\* The steps of one request, and those that it takes whatever its kind.
Panels(r) == BeginPanel(r) \/ BeginTool(r) \/ Work(r)
Finishes(r) == Refresh(r) \/ RefreshFails(r) \/ Answer(r)
Move(r) == Panels(r) \/ Creating(r) \/ Updating(r) \/ Finishes(r)

----------------------------------------------------------------------------
(* Types.                                                                  *)

\* The fields of each kind of request.
LEMMA Fields ==
    ASSUME TypeOK, NEW r \in Requests
    PROVE  /\ req[r].kind \in {"none", "panel", "signup", "seller", "update"}
           /\ Creates(r) => /\ req[r] \in Creation
                            /\ req[r].uid \in Uids /\ req[r].business \in Uids \cup {None}
                            /\ req[r].email \in Emails /\ req[r].role \in Roles
           /\ Changes(r) => /\ req[r] \in Update
                            /\ req[r].business \in Uids /\ req[r].target \in Uids
                            /\ req[r].body \in Updates /\ req[r].loaded \in Row
           /\ req[r].kind = "panel" => req[r].business \in Uids
BY DEF TypeOK, NoReq, Creation, Update, Panel, Creates, Changes

\* The rest of what a step of a request may do to its own variables.
LEMMA OpenTypes ==
    ASSUME TypeOK, NEW r \in Requests, NEW b \in Uids \cup {None}, Open(r, b)
    PROVE  /\ conn' \in [Requests -> Connections \cup {None}]
           /\ setting' \in [Connections -> Uids \cup {None}]
BY DEF TypeOK, Open, AfterBegin

LEMMA CloseTypes ==
    ASSUME TypeOK, NEW r \in Requests, Close(r)
    PROVE  /\ conn' \in [Requests -> Connections \cup {None}]
           /\ setting' \in [Connections -> Uids \cup {None}]
BY DEF TypeOK, Close, Reset

LEMMA EndTypes ==
    ASSUME TypeOK, NEW r \in Requests, End(r)
    PROVE  /\ conn' \in [Requests -> Connections \cup {None}]
           /\ setting' \in [Connections -> Uids \cup {None}]
           /\ req' \in [Requests -> {NoReq} \cup Creation \cup Update \cup Panel]
           /\ pc' \in [Requests -> {"idle", "email", "account", "claims", "link", "commit",
                                    "refresh", "answer", "undo", "work"}]
BY CloseTypes DEF TypeOK, End

LEMMA PanelTypes ==
    ASSUME IInv, NEW r \in Requests, Panels(r)
    PROVE  TypeOK'
<1>1. CASE BeginPanel(r)
  <2>1. PICK u \in Uids :
           /\ Authenticated(u)
           /\ req' = [req EXCEPT ![r] = [kind |-> "panel", business |-> rows[u].business]]
           /\ Open(r, rows[u].business)
    BY <1>1 DEF BeginPanel
  <2>2. rows[u].business \in Uids
    BY <2>1 DEF Authenticated, Member, IInv, TypeOK, Row
  <2>3. [kind |-> "panel", business |-> rows[u].business] \in Panel
    BY <2>2 DEF Panel
  <2>. QED
    BY <1>1, <2>1, <2>2, <2>3, OpenTypes DEF BeginPanel, Goto, stores, history, IInv, TypeOK
<1>2. CASE BeginTool(r)
  <2>1. PICK b \in businesses :
           /\ req' = [req EXCEPT ![r] = [kind |-> "panel", business |-> b]]
           /\ Open(r, b)
    BY <1>2 DEF BeginTool
  <2>2. b \in Uids
    BY DEF IInv, TypeOK
  <2>3. [kind |-> "panel", business |-> b] \in Panel
    BY <2>2 DEF Panel
  <2>. QED
    BY <1>2, <2>1, <2>2, <2>3, OpenTypes DEF BeginTool, Goto, stores, history, IInv, TypeOK
<1>3. CASE Work(r)
  BY <1>3, CloseTypes DEF Work, Goto, stores, history, IInv, TypeOK
<1>. QED
  BY <1>1, <1>2, <1>3 DEF Panels

LEMMA FinishTypes ==
    ASSUME IInv, NEW r \in Requests, Finishes(r)
    PROVE  TypeOK'
<1>1. Creates(r) => req[r].uid \in Uids
  BY Fields DEF IInv
<1>2. CASE Refresh(r)
  <2>1. req[r].business \in Uids \cup {None}
    <3>1. req[r].kind # "none"
      BY <1>2 DEF Refresh, IInv, KindsOK
    <3>. QED
      BY <3>1, Fields DEF IInv, Creates, Changes
  <2>. QED
    BY <1>2, <2>1, OpenTypes DEF Refresh, Goto, stores, history, IInv, TypeOK
<1>3. CASE RefreshFails(r)
  <2>1. CASE Creates(r)
    BY <1>1, <1>3, <2>1 DEF RefreshFails, Goto, Creates, stores, IInv, TypeOK
  <2>2. CASE ~Creates(r)
    BY <1>3, <2>2, EndTypes DEF RefreshFails, Creates, stores, IInv, TypeOK
  <2>. QED
    BY <2>1, <2>2
<1>4. CASE Answer(r)
  BY <1>1, <1>4, EndTypes DEF Answer, Creates, stores, IInv, TypeOK
<1>. QED
  BY <1>2, <1>3, <1>4 DEF Finishes

\* What the claims of an account become is an account again.
LEMMA ClaimedTypes ==
    ASSUME TypeOK, NEW u \in Uids, accounts[u] # None,
           NEW x \in Claim("role"), NEW y \in Claim("activity"), Claimed(u, x, y)
    PROVE  /\ accounts' \in [Uids -> Account \cup {None}]
           /\ accounts'[u] \in Account /\ accounts'[u] # None
           /\ accounts'[u].email = accounts[u].email
           /\ accounts'[u].role = x /\ accounts'[u].activity = y
           /\ \A v \in Uids \ {u} : accounts'[v] = accounts[v]
<1>1. accounts[u] \in Account
  BY DEF TypeOK
<1> DEFINE new == [accounts[u] EXCEPT !.role = x, !.activity = y]
<1>2. /\ new \in Account /\ new.email = accounts[u].email
      /\ new.role = x /\ new.activity = y
  BY <1>1 DEF Account
<1>3. accounts' = [accounts EXCEPT ![u] = new]
  BY DEF Claimed
<1> HIDE DEF new
<1>. QED
  BY <1>2, <1>3, AccountsAssumption DEF TypeOK

LEMMA NewAccountType ==
    ASSUME NEW m \in Emails
    PROVE  NewAccount(m) \in Account /\ NewAccount(m) # None /\ NewAccount(m).email = m
<1>1. NewAccount(m) \in Account
  BY DEF NewAccount, Account, Claim
<1>. QED
  BY <1>1, AccountsAssumption DEF NewAccount

\* The row a creation commits.
LEMMA InsertTypes ==
    ASSUME TypeOK, NEW r \in Requests, Creates(r), CreationOK(r), InsertUser(r)
    PROVE  /\ rows' \in [Uids -> Row \cup {None}] /\ businesses' \subseteq Uids
           /\ rows'[req[r].uid] # None
           /\ rows'[req[r].uid].email = req[r].email
           /\ rows'[req[r].uid].role = req[r].role
           /\ rows'[req[r].uid].activity = "active"
           /\ rows'[req[r].uid].business = IF req[r].kind = "signup" THEN req[r].uid
                                           ELSE req[r].business
           /\ \A v \in Uids \ {req[r].uid} : rows'[v] = rows[v]
           /\ businesses' = businesses \cup {rows'[req[r].uid].business}
<1> DEFINE b == IF req[r].kind = "signup" THEN req[r].uid ELSE req[r].business
           new == [email |-> req[r].email, role |-> req[r].role, activity |-> "active",
                   business |-> b]
<1>1. /\ req[r].uid \in Uids /\ b \in Uids /\ req[r].email \in Emails /\ req[r].role \in Roles
  BY Fields DEF CreationOK, Creates, TypeOK
<1>2. new \in Row /\ new # None
  <2>1. new \in Row
    BY <1>1 DEF Row, Activity
  <2>. QED
    BY <2>1, AccountsAssumption
<1>3. rows' = [rows EXCEPT ![req[r].uid] = new] /\ businesses' = businesses \cup {b}
  BY DEF InsertUser
<1>. QED
  BY <1>1, <1>2, <1>3 DEF TypeOK

LEMMA CreatingTypes ==
    ASSUME IInv, NEW r \in Requests, Creating(r)
    PROVE  TypeOK'
<1> USE DEF Goto, stores, history
<1>1. Creates(r) => /\ CreationOK(r)
                    /\ req[r].uid \in Uids /\ req[r].business \in Uids \cup {None}
                    /\ req[r].email \in Emails /\ req[r].role \in Roles
  BY Fields DEF IInv, CreationsOK
<1>2. pc[r] \in {"email", "account", "link", "undo"} => Creates(r)
  BY DEF IInv, KindsOK
<1>3. pc[r] \in {"claims", "commit"} /\ req[r].kind # "update" => Creates(r)
  BY DEF IInv, KindsOK, Changes
<1>4. TypeOK
  BY DEF IInv
<1>5. CASE BeginSignup(r)
  <2>1. PICK u \in Fresh, m \in Emails :
           req' = [req EXCEPT ![r] = [kind |-> "signup", uid |-> u, business |-> None,
                                      email |-> m, role |-> "admin"]]
    BY <1>5 DEF BeginSignup
  <2>2. [kind |-> "signup", uid |-> u, business |-> None, email |-> m, role |-> "admin"]
           \in Creation
    BY DEF Fresh, Creation, Roles
  <2>. QED
    BY <1>4, <1>5, <2>1, <2>2, OpenTypes DEF BeginSignup, TypeOK
<1>6. CASE BeginSeller(r)
  <2>1. PICK a \in Uids, u \in Fresh, m \in Emails :
           /\ IsAdmin(a)
           /\ req' = [req EXCEPT ![r] = [kind |-> "seller", uid |-> u,
                          business |-> rows[a].business, email |-> m, role |-> "viewer"]]
           /\ Open(r, rows[a].business)
    BY <1>6 DEF BeginSeller
  <2>2. rows[a].business \in Uids
    BY <1>4, <2>1 DEF IsAdmin, Authenticated, Member, TypeOK, Row
  <2>3. [kind |-> "seller", uid |-> u, business |-> rows[a].business, email |-> m,
         role |-> "viewer"] \in Creation
    BY <2>2 DEF Fresh, Creation, Roles
  <2>. QED
    BY <1>4, <1>6, <2>1, <2>2, <2>3, OpenTypes DEF BeginSeller, TypeOK
<1>7. CASE CheckEmail(r)
  BY <1>4, <1>7 DEF CheckEmail, TypeOK
<1>8. CASE RefuseEmail(r)
  BY <1>4, <1>8, EndTypes DEF RefuseEmail, TypeOK
<1>9. CASE CreateAccount(r)
  BY <1>1, <1>2, <1>4, <1>9, NewAccountType DEF CreateAccount, TypeOK
<1>10. CASE AccountFails(r)
  <2>1. accounts' \in [Uids -> Account \cup {None}] /\ doubtful' \subseteq Uids
    BY <1>1, <1>2, <1>4, <1>10, NewAccountType DEF AccountFails, TypeOK
  <2>. QED
    BY <1>4, <1>10, <2>1, EndTypes DEF AccountFails, TypeOK
<1>11. CASE SetFirstClaims(r)
  <2>1. Creates(r) /\ accounts[req[r].uid] # None
    BY <1>1, <1>3, <1>11 DEF SetFirstClaims, CreationOK
  <2>2. req[r].role \in Claim("role") /\ "active" \in Claim("activity")
    BY <1>1, <2>1 DEF Claim, Activity
  <2>3. accounts' \in [Uids -> Account \cup {None}]
    BY <1>1, <1>4, <1>11, <2>1, <2>2, ClaimedTypes DEF SetFirstClaims
  <2>. QED
    BY <1>4, <1>11, <2>3 DEF SetFirstClaims, TypeOK
<1>12. CASE MakeLink(r)
  BY <1>4, <1>12 DEF MakeLink, TypeOK
<1>13. CASE CommitUser(r)
  <2>1. Creates(r)
    BY <1>3, <1>13 DEF CommitUser
  <2>. QED
    BY <1>1, <1>4, <1>13, <2>1, InsertTypes, CloseTypes DEF CommitUser, TypeOK
<1>14. CASE CommitUserLost(r)
  <2>1. Creates(r)
    BY <1>3, <1>14 DEF CommitUserLost
  <2>. QED
    BY <1>1, <1>4, <1>14, <2>1, InsertTypes, CloseTypes DEF CommitUserLost, TypeOK
<1>15. CASE CreationFails(r)
  BY <1>4, <1>15, CloseTypes DEF CreationFails, TypeOK
<1>16. CASE Undo(r)
  BY <1>4, <1>16, EndTypes DEF Undo, Compensated, TypeOK
<1>17. CASE UndoFails(r)
  BY <1>1, <1>2, <1>4, <1>17, EndTypes DEF UndoFails, Compensated, TypeOK
<1>. QED
  BY <1>5, <1>6, <1>7, <1>8, <1>9, <1>10, <1>11, <1>12, <1>13, <1>14, <1>15, <1>16, <1>17
     DEF Creating

\* A body sets the claims to something Firebase takes, and a stored one the
\* columns to something they take.
LEMMA SessionTypes ==
    ASSUME TypeOK, NEW r \in Requests, Changes(r)
    PROVE  /\ InSession(r, "role") \in Claim("role")
           /\ InSession(r, "activity") \in Claim("activity")
           /\ Storable(r) => InSession(r, "role") \in Roles /\ InSession(r, "activity") \in Activity
<1>1. req[r].body \in Updates /\ req[r].loaded \in Row
  BY Fields
<1>2. req[r].loaded["role"] \in Roles /\ req[r].loaded["activity"] \in Activity
  BY <1>1 DEF Row
<1>3. \A c \in DOMAIN req[r].body :
         req[r].body[c] \in {"null"} \cup IF c = "role" THEN Roles ELSE Activity
  BY <1>1, AccountsAssumption
<1>. QED
  BY <1>2, <1>3 DEF InSession, Claim, Storable

\* The row an update commits keeps its place, and takes from the session the
\* columns whose value changed.
LEMMA UpdateTypes ==
    ASSUME TypeOK, NEW r \in Requests, Changes(r), rows[req[r].target] # None,
           Storable(r), UpdateRow(r)
    PROVE  /\ rows' \in [Uids -> Row \cup {None}]
           /\ \A v \in Uids \ {req[r].target} : rows'[v] = rows[v]
           /\ rows'[req[r].target] # None
           /\ rows'[req[r].target].email = rows[req[r].target].email
           /\ rows'[req[r].target].business = rows[req[r].target].business
           /\ rows'[req[r].target].role =
                 IF "role" \in Dirty(r) THEN InSession(r, "role")
                 ELSE rows[req[r].target]["role"]
           /\ rows'[req[r].target].activity =
                 IF "activity" \in Dirty(r) THEN InSession(r, "activity")
                 ELSE rows[req[r].target]["activity"]
<1> DEFINE u == req[r].target
           x == IF "role" \in Dirty(r) THEN InSession(r, "role") ELSE rows[u]["role"]
           y == IF "activity" \in Dirty(r) THEN InSession(r, "activity") ELSE rows[u]["activity"]
           new == [rows[u] EXCEPT !.role = x, !.activity = y]
<1>1. u \in Uids /\ rows[u] \in Row
  BY Fields DEF TypeOK
<1>2. x \in Roles /\ y \in Activity
  BY <1>1, SessionTypes DEF Row
<1>3. rows' = [rows EXCEPT ![u] = new]
  BY DEF UpdateRow
<1> HIDE DEF x, y
<1>4. /\ new \in Row /\ new.email = rows[u].email /\ new.business = rows[u].business
      /\ new.role = x /\ new.activity = y
  BY <1>1, <1>2 DEF Row
<1> HIDE DEF new
<1>5. /\ rows' \in [Uids -> Row \cup {None}]
      /\ \A v \in Uids \ {u} : rows'[v] = rows[v]
      /\ rows'[u] = new /\ new # None
  BY <1>1, <1>3, <1>4, AccountsAssumption DEF TypeOK
<1>. QED
  BY <1>4, <1>5 DEF x, y

LEMMA UpdatingTypes ==
    ASSUME IInv, NEW r \in Requests, Updating(r)
    PROVE  TypeOK'
<1> USE DEF Goto, stores, history
<1>1. /\ Changes(r) => /\ rows[req[r].target] # None /\ req[r].target \in Uids
                       /\ InSession(r, "role") \in Claim("role")
                       /\ InSession(r, "activity") \in Claim("activity")
      /\ TypeOK
  BY Fields, SessionTypes DEF IInv, UpdatesOK
<1>2. CASE BeginUpdate(r)
  <2>1. PICK a \in Uids, u \in Uids, d \in Updates :
           /\ IsAdmin(a) /\ Member(u)
           /\ req' = [req EXCEPT ![r] = [kind |-> "update", business |-> rows[a].business,
                                         target |-> u, body |-> d, loaded |-> rows[u]]]
           /\ Open(r, rows[a].business)
           /\ crossed' = IF \E t \in Requests : req[t].kind = "update" /\ req[t].target = u
                           THEN crossed \cup {u} ELSE crossed
    BY <1>2 DEF BeginUpdate
  <2>2. rows[a].business \in Uids /\ rows[u] \in Row
    BY <1>1, <2>1 DEF IsAdmin, Authenticated, Member, TypeOK, Row
  <2>3. [kind |-> "update", business |-> rows[a].business, target |-> u, body |-> d,
         loaded |-> rows[u]] \in Update
    BY <2>2 DEF Update
  <2>4. crossed' \subseteq Uids
    BY <1>1, <2>1 DEF TypeOK
  <2>. QED
    BY <1>1, <1>2, <2>1, <2>2, <2>3, <2>4, OpenTypes DEF BeginUpdate, TypeOK
<1>3. CASE SetClaims(r)
  <2>1. accounts' \in [Uids -> Account \cup {None}]
    BY <1>1, <1>3, ClaimedTypes DEF SetClaims, Changes, TypeOK
  <2>. QED
    BY <1>1, <1>3, <2>1 DEF SetClaims, TypeOK
<1>4. CASE ClaimsFail(r)
  <2>1. accounts' \in [Uids -> Account \cup {None}] /\ crossed' \subseteq Uids
    BY <1>1, <1>4, ClaimedTypes DEF ClaimsFail, Changes, TypeOK
  <2>. QED
    BY <1>1, <1>4, <2>1, EndTypes DEF ClaimsFail, TypeOK
<1>5. CASE CommitUpdate(r)
  <2>1. rows' \in [Uids -> Row \cup {None}]
    BY <1>1, <1>5, UpdateTypes DEF CommitUpdate, Changes
  <2>. QED
    BY <1>1, <1>5, <2>1, CloseTypes DEF CommitUpdate, TypeOK
<1>6. CASE UpdateFails(r)
  <2>1. rows' \in [Uids -> Row \cup {None}] /\ crossed' \subseteq Uids
    BY <1>1, <1>6, UpdateTypes DEF UpdateFails, Changes, TypeOK
  <2>. QED
    BY <1>1, <1>6, <2>1, EndTypes DEF UpdateFails, TypeOK
<1>. QED
  BY <1>2, <1>3, <1>4, <1>5, <1>6 DEF Updating

LEMMA CrashTypes ==
    ASSUME IInv, Crash
    PROVE  TypeOK'
<1>1. /\ \A r \in Requests : Creates(r) => req[r].uid \in Uids
      /\ \A r \in Requests : Changes(r) => req[r].target \in Uids
  BY Fields DEF IInv
<1>2. doubtful' \subseteq Uids /\ crossed' \subseteq Uids
  BY <1>1 DEF Crash, Creates, Changes, IInv, TypeOK
<1>3. crashes' \in 0..MaxCrashes
  BY AccountsAssumption DEF Crash, IInv, TypeOK
<1>. QED
  BY <1>2, <1>3 DEF Crash, stores, IInv, TypeOK

----------------------------------------------------------------------------
(* Connections.                                                            *)

\* A step of a request moves no other.
LEMMA OthersStay ==
    ASSUME TypeOK, NEW r \in Requests, Move(r)
    PROVE  \A s \in Requests \ {r} : req'[s] = req[s] /\ pc'[s] = pc[s]
<1> USE DEF TypeOK, Goto, End
<1>1. CASE Panels(r)
  BY <1>1 DEF Panels, BeginPanel, BeginTool, Work
<1>2. CASE Creating(r)
  BY <1>2 DEF Creating, BeginSignup, BeginSeller, CheckEmail, RefuseEmail, CreateAccount,
     AccountFails, SetFirstClaims, MakeLink, CommitUser, CommitUserLost, CreationFails, Undo,
     UndoFails
<1>3. CASE Updating(r)
  BY <1>3 DEF Updating, BeginUpdate, SetClaims, ClaimsFail, CommitUpdate, UpdateFails
<1>4. CASE Finishes(r)
  BY <1>4 DEF Finishes, Refresh, RefreshFails, Answer
<1>. QED
  BY <1>1, <1>2, <1>3, <1>4 DEF Move

LEMMA Opens ==
    ASSUME TypeOK, ConnectionsOK, NEW r \in Requests, NEW b \in Uids \cup {None}, Open(r, b),
           conn[r] = None, req'[r].business = b, pc'[r] \notin {"idle", "refresh", "undo"},
           \A s \in Requests \ {r} : req'[s] = req[s] /\ pc'[s] = pc[s]
    PROVE  ConnectionsOK'
<1>1. PICK k \in Connections :
         /\ \A t \in Requests : conn[t] # k
         /\ conn' = [conn EXCEPT ![r] = k]
         /\ setting' = IF b = None THEN setting ELSE [setting EXCEPT ![k] = b]
  BY DEF Open, AfterBegin
<1>2. k # None /\ setting[k] = None
  BY <1>1, AccountsAssumption DEF ConnectionsOK
<1>3. conn'[r] = k /\ \A s \in Requests \ {r} : conn'[s] = conn[s] /\ conn[s] # k
  BY <1>1 DEF TypeOK
<1>4. setting'[k] = b /\ \A j \in Connections \ {k} : setting'[j] = setting[j]
  BY <1>1, <1>2 DEF TypeOK
<1>5. \A s \in Requests : conn[s] # None => conn[s] \in Connections
  BY DEF TypeOK
<1>6. \A s, t \in Requests : conn'[s] = conn'[t] /\ conn'[s] # None => s = t
  BY <1>3 DEF ConnectionsOK
<1>7. \A s \in Requests : conn'[s] # None => setting'[conn'[s]] = req'[s].business
  BY <1>3, <1>4, <1>5 DEF ConnectionsOK
<1>8. \A s \in Requests : conn'[s] = None <=> pc'[s] \in {"idle", "refresh", "undo"}
  BY <1>2, <1>3 DEF ConnectionsOK
<1>9. ASSUME NEW j \in Connections, \A s \in Requests : conn'[s] # j
      PROVE  setting'[j] = None
  <2>1. j # k /\ \A s \in Requests : conn[s] # j
    BY <1>2, <1>3, <1>9, AccountsAssumption
  <2>. QED
    BY <1>4, <2>1 DEF ConnectionsOK
<1>. QED
  BY <1>6, <1>7, <1>8, <1>9 DEF ConnectionsOK

LEMMA Closes ==
    ASSUME TypeOK, ConnectionsOK, NEW r \in Requests, Close(r),
           pc'[r] \in {"idle", "refresh", "undo"},
           \A s \in Requests \ {r} : req'[s] = req[s] /\ pc'[s] = pc[s]
    PROVE  ConnectionsOK'
<1>1. conn'[r] = None /\ \A s \in Requests \ {r} : conn'[s] = conn[s]
  BY DEF Close, TypeOK
<1>2. /\ conn[r] # None => setting'[conn[r]] = None
      /\ \A k \in Connections : k # conn[r] => setting'[k] = setting[k]
  BY DEF Close, Reset, TypeOK
<1>3. \A s \in Requests : conn[s] # None => conn[s] \in Connections
  BY DEF TypeOK
<1>. QED
  BY <1>1, <1>2, <1>3 DEF ConnectionsOK

LEMMA Stays ==
    ASSUME TypeOK, ConnectionsOK, NEW r \in Requests, UNCHANGED <<req, conn, setting>>,
           pc[r] \in {"idle", "refresh", "undo"} <=> pc'[r] \in {"idle", "refresh", "undo"},
           \A s \in Requests \ {r} : pc'[s] = pc[s]
    PROVE  ConnectionsOK'
BY DEF ConnectionsOK

LEMMA ConnectionsKept ==
    ASSUME IInv, NEW r \in Requests, Move(r)
    PROVE  KindsOK' /\ ConnectionsOK'
<1> USE DEF Goto, End
<1>1. /\ TypeOK /\ ConnectionsOK /\ KindsOK
      /\ pc \in [Requests -> {"idle", "email", "account", "claims", "link", "commit",
                              "refresh", "answer", "undo", "work"}]
      /\ req \in [Requests -> {NoReq} \cup Creation \cup Update \cup Panel]
  BY DEF IInv, TypeOK
<1>2. \A s \in Requests \ {r} : req'[s] = req[s] /\ pc'[s] = pc[s]
  BY <1>1, OthersStay
<1>3. pc[r] \in {"idle", "refresh"} => conn[r] = None
  BY <1>1 DEF ConnectionsOK
<1>4. \A u \in Uids : rows[u] # None => rows[u].business \in Uids
  BY <1>1 DEF TypeOK, Row
<1>5. KindsOK'
  <2>1. KindsOK' <=> /\ req'[r].kind = "none" <=> pc'[r] = "idle"
                     /\ pc'[r] = "work" => req'[r].kind = "panel"
                     /\ pc'[r] \in {"email", "account", "link", "undo"} => Creates(r)'
                     /\ pc'[r] \in {"claims", "commit"} => Creates(r)' \/ Changes(r)'
    BY <1>1, <1>2 DEF KindsOK, Creates, Changes
  <2>2. CASE Panels(r)
    BY <1>1, <2>1, <2>2 DEF Panels, BeginPanel, BeginTool, Work, KindsOK, NoReq
  <2>3. CASE Creating(r)
    BY <1>1, <2>1, <2>3 DEF Creating, BeginSignup, BeginSeller, CheckEmail, RefuseEmail,
       CreateAccount, AccountFails, SetFirstClaims, MakeLink, CommitUser, CommitUserLost,
       CreationFails, Undo, UndoFails, KindsOK, NoReq, Creates, Changes
  <2>4. CASE Updating(r)
    BY <1>1, <2>1, <2>4 DEF Updating, BeginUpdate, SetClaims, ClaimsFail, CommitUpdate,
       UpdateFails, KindsOK, NoReq, Creates, Changes
  <2>5. CASE Finishes(r)
    BY <1>1, <2>1, <2>5 DEF Finishes, Refresh, RefreshFails, Answer, KindsOK, NoReq,
       Creates, Changes
  <2>. QED
    BY <2>2, <2>3, <2>4, <2>5 DEF Move
<1>6. CASE Work(r) \/ RefuseEmail(r) \/ AccountFails(r) \/ CommitUser(r) \/ CommitUserLost(r)
           \/ CreationFails(r) \/ Undo(r) \/ UndoFails(r) \/ ClaimsFail(r) \/ CommitUpdate(r)
           \/ UpdateFails(r) \/ Answer(r) \/ (RefreshFails(r) /\ ~Creates(r))
  <2>1. Close(r) /\ pc'[r] \in {"idle", "refresh", "undo"}
    BY <1>1, <1>6 DEF Work, RefuseEmail, AccountFails, CommitUser, CommitUserLost,
       CreationFails, Undo, UndoFails, ClaimsFail, CommitUpdate, UpdateFails, Answer,
       RefreshFails, Creates
  <2>. QED
    BY <1>1, <1>2, <1>5, <2>1, Closes
<1>7. CASE CheckEmail(r) \/ CreateAccount(r) \/ SetFirstClaims(r) \/ MakeLink(r)
           \/ SetClaims(r) \/ (RefreshFails(r) /\ Creates(r))
  <2>1. /\ UNCHANGED <<req, conn, setting>>
        /\ pc[r] \in {"idle", "refresh", "undo"} <=> pc'[r] \in {"idle", "refresh", "undo"}
    BY <1>1, <1>7 DEF CheckEmail, CreateAccount, SetFirstClaims, MakeLink, SetClaims,
       RefreshFails, Creates
  <2>. QED
    BY <1>1, <1>2, <1>5, <2>1, Stays
<1>8. CASE BeginPanel(r) \/ BeginTool(r) \/ BeginSignup(r) \/ BeginSeller(r)
           \/ BeginUpdate(r) \/ Refresh(r)
  <2>1. PICK b \in Uids \cup {None} :
           Open(r, b) /\ req'[r].business = b /\ pc'[r] \notin {"idle", "refresh", "undo"}
    <3>1. CASE BeginPanel(r)
      BY <1>1, <1>4, <3>1 DEF BeginPanel, Authenticated, Member
    <3>2. CASE BeginTool(r)
      BY <1>1, <3>2 DEF BeginTool, TypeOK
    <3>3. CASE BeginSignup(r)
      BY <1>1, <3>3 DEF BeginSignup
    <3>4. CASE BeginSeller(r)
      BY <1>1, <1>4, <3>4 DEF BeginSeller, IsAdmin, Authenticated, Member
    <3>5. CASE BeginUpdate(r)
      BY <1>1, <1>4, <3>5 DEF BeginUpdate, IsAdmin, Authenticated, Member
    <3>6. CASE Refresh(r)
      <4>1. req[r].kind # "none"
        BY <1>1, <3>6 DEF Refresh, KindsOK
      <4>2. req[r].business \in Uids \cup {None}
        BY <1>1, <4>1, Fields DEF Creates, Changes
      <4>. QED
        BY <1>1, <3>6, <4>2 DEF Refresh
    <3>. QED
      BY <1>8, <3>1, <3>2, <3>3, <3>4, <3>5, <3>6
  <2>2. conn[r] = None
    BY <1>3, <1>8 DEF BeginPanel, BeginTool, BeginSignup, BeginSeller, BeginUpdate, Refresh
  <2>. QED
    BY <1>1, <1>2, <1>5, <2>1, <2>2, Opens
<1>. QED
  BY <1>6, <1>7, <1>8 DEF Move, Panels, Creating, Updating, Finishes

LEMMA ConnectionsAfterCrash ==
    ASSUME IInv, Crash
    PROVE  KindsOK' /\ ConnectionsOK'
BY DEF Crash, KindsOK, ConnectionsOK, NoReq

----------------------------------------------------------------------------
(* What a step may do to the two stores.                                   *)

\* A step of a request touches the records of its own uid or target only.
LEMMA OwnRecords ==
    ASSUME IInv, NEW r \in Requests, Move(r), NEW u \in Uids,
           ~(Creates(r) /\ req[r].uid = u), ~(Changes(r) /\ req[r].target = u)
    PROVE  /\ rows'[u] = rows[u] /\ accounts'[u] = accounts[u]
           /\ u \in doubtful' <=> u \in doubtful
           /\ u \in answered' <=> u \in answered
<1> USE DEF stores, history
<1>1. /\ TypeOK
      /\ pc[r] \in {"email", "account", "link", "undo"} => Creates(r)
      /\ pc[r] \in {"claims", "commit"} => Creates(r) \/ Changes(r)
      /\ Creates(r) => CreationOK(r) /\ req[r].uid \in Uids /\ req[r].uid # u
      /\ Changes(r) => rows[req[r].target] # None /\ req[r].target \in Uids /\ req[r].target # u
  BY Fields DEF IInv, KindsOK, CreationsOK, UpdatesOK
<1>2. CASE Panels(r) \/ Finishes(r)
  BY <1>1, <1>2 DEF Panels, BeginPanel, BeginTool, Work, Finishes, Refresh, RefreshFails,
     Answer, Creates
<1>3. CASE BeginSignup(r) \/ BeginSeller(r) \/ CheckEmail(r) \/ RefuseEmail(r) \/ MakeLink(r)
           \/ CreationFails(r) \/ BeginUpdate(r)
  BY <1>3 DEF BeginSignup, BeginSeller, CheckEmail, RefuseEmail, MakeLink, CreationFails,
     BeginUpdate
<1>4. CASE CreateAccount(r) \/ AccountFails(r) \/ Undo(r) \/ UndoFails(r)
  BY <1>1, <1>4 DEF CreateAccount, AccountFails, Undo, UndoFails, Compensated, TypeOK
<1>5. CASE SetFirstClaims(r)
  BY <1>1, <1>5 DEF SetFirstClaims, Claimed, Changes, TypeOK
<1>6. CASE CommitUser(r) \/ CommitUserLost(r)
  <2>1. Creates(r) /\ InsertUser(r) /\ UNCHANGED <<accounts, answered>>
    BY <1>1, <1>6 DEF CommitUser, CommitUserLost, Changes
  <2>2. rows'[u] = rows[u]
    BY <1>1, <2>1, InsertTypes
  <2>. QED
    BY <1>1, <1>6, <2>1, <2>2 DEF CommitUser, CommitUserLost
<1>7. CASE SetClaims(r) \/ ClaimsFail(r)
  BY <1>1, <1>7 DEF SetClaims, ClaimsFail, Claimed, Changes, TypeOK
<1>8. CASE CommitUpdate(r) \/ UpdateFails(r)
  BY <1>1, <1>8 DEF CommitUpdate, UpdateFails, UpdateRow, Changes, TypeOK
<1>. QED
  BY <1>2, <1>3, <1>4, <1>5, <1>6, <1>7, <1>8 DEF Move, Creating, Updating

\* A request that updates never makes a record or takes one away.
LEMMA TargetStays ==
    ASSUME IInv, NEW r \in Requests, Move(r), Changes(r), NEW u, u = req[r].target
    PROVE  /\ rows[u] # None /\ rows'[u] # None
           /\ rows'[u].email = rows[u].email /\ rows'[u].business = rows[u].business
           /\ accounts'[u] = None <=> accounts[u] = None
           /\ accounts[u] # None => accounts'[u].email = accounts[u].email
           /\ UNCHANGED <<doubtful, answered, businesses>>
<1> USE DEF stores, history
<1>1. /\ TypeOK /\ rows[u] # None /\ u \in Uids
      /\ InSession(r, "role") \in Claim("role")
      /\ InSession(r, "activity") \in Claim("activity")
      /\ pc[r] \notin {"idle", "work", "email", "account", "link", "undo"}
  BY Fields, SessionTypes DEF IInv, KindsOK, UpdatesOK, Creates, Changes
<1>2. CASE Finishes(r)
  BY <1>1, <1>2 DEF Finishes, Refresh, RefreshFails, Answer, Changes
<1>3. CASE SetClaims(r) \/ ClaimsFail(r)
  BY <1>1, <1>3, ClaimedTypes DEF SetClaims, ClaimsFail
<1>4. CASE CommitUpdate(r) \/ UpdateFails(r)
  BY <1>1, <1>4, UpdateTypes DEF CommitUpdate, UpdateFails
<1>5. CASE ~(Finishes(r) \/ SetClaims(r) \/ ClaimsFail(r) \/ CommitUpdate(r) \/ UpdateFails(r))
  BY <1>1, <1>5 DEF Move, Panels, BeginPanel, BeginTool, Work, Creating, BeginSignup,
     BeginSeller, CheckEmail, RefuseEmail, CreateAccount, AccountFails, SetFirstClaims,
     MakeLink, CommitUser, CommitUserLost, CreationFails, Undo, UndoFails, Updating,
     BeginUpdate, Changes
<1>. QED
  BY <1>2, <1>3, <1>4, <1>5

\* A creation commits its row or none.
LEMMA UidStays ==
    ASSUME IInv, NEW r \in Requests, Move(r), Creates(r), NEW u, u = req[r].uid
    PROVE  /\ \/ rows' = rows /\ businesses' = businesses
              \/ /\ rows[u] = None /\ rows'[u] # None
                 /\ rows'[u].email = req[r].email
                 /\ rows'[u].business = IF req[r].kind = "signup" THEN u ELSE req[r].business
                 /\ businesses' = businesses \cup {rows'[u].business}
                 /\ InsertUser(r)
           /\ doubtful \subseteq doubtful' /\ answered \subseteq answered'
           /\ u \in answered' => u \in answered \/ pc[r] = "answer"
<1> USE DEF stores, history
<1>1. /\ TypeOK /\ u \in Uids /\ CreationOK(r) /\ ~Changes(r)
      /\ pc[r] \notin {"idle", "work"}
  BY Fields DEF IInv, KindsOK, CreationsOK, Creates, Changes
<1>2. CASE Finishes(r)
  BY <1>1, <1>2 DEF Finishes, Refresh, RefreshFails, Answer
<1>3. CASE CommitUser(r) \/ CommitUserLost(r)
  <2>1. InsertUser(r) /\ answered' = answered /\ doubtful \subseteq doubtful' /\ pc[r] = "commit"
    BY <1>1, <1>3 DEF CommitUser, CommitUserLost
  <2>2. /\ rows'[u] # None /\ rows'[u].email = req[r].email
        /\ rows'[u].business = IF req[r].kind = "signup" THEN u ELSE req[r].business
        /\ businesses' = businesses \cup {rows'[u].business}
    BY <1>1, <2>1, InsertTypes
  <2>. QED
    BY <1>1, <2>1, <2>2 DEF CreationOK
<1>4. CASE ~(Finishes(r) \/ CommitUser(r) \/ CommitUserLost(r))
  BY <1>1, <1>4 DEF Move, Panels, BeginPanel, BeginTool, Work, Creating, BeginSignup,
     BeginSeller, CheckEmail, RefuseEmail, CreateAccount, AccountFails, SetFirstClaims,
     MakeLink, CreationFails, Undo, UndoFails, Updating, BeginUpdate, SetClaims, ClaimsFail,
     CommitUpdate, UpdateFails, Changes
<1>. QED
  BY <1>2, <1>3, <1>4

----------------------------------------------------------------------------
(* Creations.                                                              *)

\* Nobody else disturbs a creation.
LEMMA OtherCreations ==
    ASSUME IInv, NEW r \in Requests, Move(r), NEW s \in Requests, s # r, Creates(s)
    PROVE  Creates(s)' /\ CreationOK(s)'
<1> DEFINE u == req[s].uid
<1>1. req'[s] = req[s] /\ pc'[s] = pc[s] /\ u \in Uids
  BY OthersStay, Fields DEF IInv
<1>2. /\ CreationOK(s) /\ businesses \subseteq businesses'
      /\ ~(Creates(r) /\ req[r].uid = u)
  <2>1. businesses \subseteq businesses'
    BY DEF Move, Panels, BeginPanel, BeginTool, Work, Creating, BeginSignup,
       BeginSeller, CheckEmail, RefuseEmail, CreateAccount, AccountFails, SetFirstClaims,
       MakeLink, CommitUser, CommitUserLost, InsertUser, CreationFails, Undo, UndoFails,
       Updating, BeginUpdate, SetClaims, ClaimsFail, CommitUpdate, UpdateFails, Finishes,
       Refresh, RefreshFails, Answer, stores
  <2>. QED
    BY <2>1 DEF IInv, CreationsOK, DistinctUids
<1>3. CASE ~(Changes(r) /\ req[r].target = u)
  <2>1. /\ rows'[u] = rows[u] /\ accounts'[u] = accounts[u]
        /\ u \in doubtful' <=> u \in doubtful
        /\ u \in answered' <=> u \in answered
    BY <1>1, <1>2, <1>3, OwnRecords
  <2>. QED
    BY <1>1, <1>2, <2>1 DEF CreationOK, Creates
<1>4. CASE Changes(r) /\ req[r].target = u
  <2>1. /\ rows[u] # None /\ rows'[u] # None
        /\ rows'[u].email = rows[u].email
        /\ accounts'[u] = None <=> accounts[u] = None
        /\ accounts[u] # None => accounts'[u].email = accounts[u].email
        /\ UNCHANGED <<doubtful, answered, businesses>>
    BY <1>4, TargetStays
  <2>. QED
    BY <1>1, <1>2, <2>1 DEF CreationOK, Creates
<1>. QED
  BY <1>3, <1>4

\* A creation begins with a uid that is nobody's, and knows what it has done.
LEMMA OwnCreation ==
    ASSUME IInv, NEW r \in Requests, Move(r), Creates(r)'
    PROVE  /\ CreationOK(r)'
           /\ \A s \in Requests \ {r} : Creates(s) => req[s].uid # req'[r].uid
<1> USE DEF Goto, End, stores, history
<1>1. /\ TypeOK
      /\ Creates(r) => /\ CreationOK(r) /\ ~Changes(r) /\ req[r].uid \in Uids
                       /\ \A s \in Requests \ {r} : Creates(s) => req[s].uid # req[r].uid
      /\ pc[r] \in {"email", "account", "link", "undo"} => Creates(r)
      /\ pc[r] \in {"claims", "commit"} => Creates(r) \/ Changes(r)
      /\ pc[r] = "idle" => req[r].kind = "none"
      /\ pc[r] = "work" => req[r].kind = "panel"
  BY Fields DEF IInv, CreationsOK, DistinctUids, KindsOK, Creates, Changes
<1>2. /\ pc \in [Requests -> {"idle", "email", "account", "claims", "link", "commit",
                              "refresh", "answer", "undo", "work"}]
      /\ req \in [Requests -> {NoReq} \cup Creation \cup Update \cup Panel]
      /\ rows \in [Uids -> Row \cup {None}]
      /\ accounts \in [Uids -> Account \cup {None}]
  BY <1>1 DEF TypeOK
<1>3. CASE BeginSignup(r) \/ BeginSeller(r)
  <2>1. PICK u \in Fresh, m \in Emails, q \in {"signup", "seller"}, b \in Uids \cup {None},
                role \in Roles :
           /\ req' = [req EXCEPT ![r] = [kind |-> q, uid |-> u, business |-> b,
                                         email |-> m, role |-> role]]
           /\ q = "signup" => b = None
           /\ q = "seller" => b \in businesses
    <3>1. CASE BeginSignup(r)
      BY <3>1 DEF BeginSignup, Roles
    <3>2. CASE BeginSeller(r)
      BY <3>2 DEF BeginSeller, IsAdmin, Authenticated, Member, IInv, BusinessesOK, TypeOK, Roles
    <3>. QED
      BY <1>3, <3>1, <3>2
  <2>2. /\ u \in Uids /\ rows[u] = None /\ accounts[u] = None /\ u \notin doubtful
        /\ \A s \in Requests : Creates(s) => req[s].uid # u
    BY DEF Fresh, Creates
  <2>3. u \notin answered
    BY <2>2 DEF IInv, StoresAgree
  <2>4. pc'[r] = "email" /\ UNCHANGED <<rows, accounts, doubtful, answered, businesses>>
    BY <1>2, <1>3 DEF BeginSignup, BeginSeller
  <2>5. /\ req'[r].uid = u /\ req'[r].kind = q /\ req'[r].business = b
    BY <1>2, <2>1
  <2>. QED
    BY <2>1, <2>2, <2>3, <2>4, <2>5 DEF CreationOK
<1>4. CASE ~(BeginSignup(r) \/ BeginSeller(r))
  <2>1. Creates(r) /\ req'[r] = req[r]
    BY <1>1, <1>2, <1>4 DEF Move, Panels, BeginPanel, BeginTool, Work, Creating,
       CheckEmail, RefuseEmail, CreateAccount, AccountFails, SetFirstClaims, MakeLink,
       CommitUser, CommitUserLost, CreationFails, Undo, UndoFails, Updating, BeginUpdate,
       SetClaims, ClaimsFail, CommitUpdate, UpdateFails, Finishes, Refresh, RefreshFails,
       Answer, Creates, Changes, NoReq
  <2> DEFINE u == req[r].uid
  <2>2. CASE CheckEmail(r) \/ MakeLink(r) \/ CreationFails(r) \/ Refresh(r)
    BY <1>1, <1>2, <2>1, <2>2 DEF CheckEmail, MakeLink, CreationFails, Refresh, CreationOK
  <2>3. CASE CreateAccount(r)
    BY <1>1, <1>2, <2>1, <2>3, NewAccountType, Fields DEF CreateAccount, CreationOK
  <2>4. CASE SetFirstClaims(r)
    <3>1. /\ req[r].role \in Claim("role") /\ "active" \in Claim("activity")
          /\ accounts[u] # None
      BY <1>1, <2>1, <2>4, Fields DEF Claim, Activity, SetFirstClaims, CreationOK
    <3>2. /\ accounts'[u] # None /\ accounts'[u].email = accounts[u].email
          /\ accounts'[u].role = req[r].role /\ accounts'[u].activity = "active"
      BY <1>1, <2>1, <2>4, <3>1, ClaimedTypes DEF SetFirstClaims
    <3>. QED
      BY <1>1, <1>2, <2>1, <2>4, <3>2 DEF SetFirstClaims, CreationOK
  <2>5. CASE CommitUser(r)
    <3>1. rows'[u] # None /\ rows'[u].email = req[r].email
      BY <1>1, <2>1, <2>5, InsertTypes DEF CommitUser
    <3>2. businesses \subseteq businesses' /\ pc'[r] = "refresh" /\ pc[r] = "commit"
      BY <1>2, <2>5 DEF CommitUser, InsertUser
    <3>. QED
      BY <1>1, <2>1, <2>5, <3>1, <3>2 DEF CommitUser, CreationOK
  <2>6. CASE CommitUserLost(r)
    <3>1. /\ businesses \subseteq businesses' /\ pc'[r] = "undo" /\ u \in doubtful'
          /\ answered' = answered
      BY <1>2, <2>6 DEF CommitUserLost, InsertUser
    <3>. QED
      BY <1>1, <2>1, <3>1 DEF CreationOK
  <2>7. CASE RefreshFails(r)
    BY <1>1, <1>2, <2>1, <2>7 DEF RefreshFails, CreationOK, Creates
  <2>8. CASE RefuseEmail(r) \/ AccountFails(r) \/ Undo(r) \/ UndoFails(r) \/ Answer(r)
             \/ Panels(r) \/ Updating(r)
    BY <1>1, <1>2, <2>1, <2>8 DEF RefuseEmail, AccountFails, Undo, UndoFails, Answer,
       Panels, BeginPanel, BeginTool, Work, Updating, BeginUpdate, SetClaims, ClaimsFail,
       CommitUpdate, UpdateFails, NoReq, Creates, Changes
  <2>. QED
    BY <1>4, <2>2, <2>3, <2>4, <2>5, <2>6, <2>7, <2>8 DEF Move, Creating, Finishes
<1>. QED
  BY <1>3, <1>4

LEMMA CreationsKept ==
    ASSUME IInv, NEW r \in Requests, Move(r)
    PROVE  CreationsOK' /\ DistinctUids'
<1>1. \A s \in Requests \ {r} : req'[s] = req[s]
  BY OthersStay DEF IInv
<1>2. \A s \in Requests \ {r} : Creates(s)' => CreationOK(s)'
  BY <1>1, OtherCreations DEF Creates
<1>3. DistinctUids'
  BY <1>1, OwnCreation DEF IInv, DistinctUids, Creates
<1>. QED
  BY <1>2, <1>3, OwnCreation DEF CreationsOK

----------------------------------------------------------------------------
(* Updates and claims.                                                     *)

LEMMA HistoryGrows ==
    ASSUME NEW r \in Requests, Move(r)
    PROVE  doubtful \subseteq doubtful' /\ crossed \subseteq crossed'
BY DEF Move, Panels, BeginPanel, BeginTool, Work, Creating, BeginSignup, BeginSeller,
   CheckEmail, RefuseEmail, CreateAccount, AccountFails, SetFirstClaims, MakeLink, CommitUser,
   CommitUserLost, CreationFails, Undo, UndoFails, Updating, BeginUpdate, SetClaims,
   ClaimsFail, CommitUpdate, UpdateFails, Finishes, Refresh, RefreshFails, Answer, history

\* No step takes a row away.
LEMMA RowsStay ==
    ASSUME IInv, NEW r \in Requests, Move(r), NEW u \in Uids, rows[u] # None
    PROVE  /\ rows'[u] # None /\ rows'[u].email = rows[u].email
           /\ rows'[u].business = rows[u].business
<1>1. CASE Changes(r) /\ req[r].target = u
  BY <1>1, TargetStays
<1>2. CASE Creates(r) /\ req[r].uid = u
  BY <1>2, UidStays
<1>3. CASE ~(Creates(r) /\ req[r].uid = u) /\ ~(Changes(r) /\ req[r].target = u)
  BY <1>3, OwnRecords
<1>. QED
  BY <1>1, <1>2, <1>3

\* Only an update of a user that has a row touches its records, unless the
\* outcome of its creation was lost.
LEMMA RecordsKept ==
    ASSUME IInv, NEW r \in Requests, Move(r), NEW u \in Uids, rows[u] # None,
           u \notin doubtful', ~(Changes(r) /\ req[r].target = u)
    PROVE  rows'[u] = rows[u] /\ accounts'[u] = accounts[u]
<1>1. CASE Creates(r) /\ req[r].uid = u
  <2>1. /\ pc[r] \in {"refresh", "answer"} /\ u \notin doubtful
        /\ pc[r] # "claims"
    <3>1. u \notin doubtful
      BY HistoryGrows
    <3>2. /\ CreationOK(r) /\ pc[r] \notin {"idle", "work"}
          /\ pc[r] \in {"idle", "email", "account", "claims", "link", "commit", "refresh",
                        "answer", "undo", "work"}
      BY <1>1 DEF IInv, TypeOK, CreationsOK, KindsOK, Creates
    <3>. QED
      BY <1>1, <3>1, <3>2 DEF CreationOK
  <2>2. Finishes(r)
    BY <1>1, <2>1 DEF Move, Panels, BeginPanel, BeginTool, Work, Creating, BeginSignup,
       BeginSeller, CheckEmail, RefuseEmail, CreateAccount, AccountFails, SetFirstClaims,
       MakeLink, CommitUser, CommitUserLost, CreationFails, Undo, UndoFails, Updating,
       BeginUpdate, SetClaims, ClaimsFail, CommitUpdate, UpdateFails
  <2>. QED
    BY <2>2 DEF Finishes, Refresh, RefreshFails, Answer, stores
<1>2. CASE ~(Creates(r) /\ req[r].uid = u)
  BY <1>2, OwnRecords
<1>. QED
  BY <1>1, <1>2

\* An update that nobody crosses is not disturbed.
LEMMA OtherUpdates ==
    ASSUME IInv, NEW r \in Requests, Move(r), NEW s \in Requests, s # r, Changes(s)
    PROVE  rows'[req[s].target] # None /\ UpdateOK(s)'
<1> DEFINE u == req[s].target
<1>1. /\ \A t \in Requests \ {r} : req'[t] = req[t] /\ pc'[t] = pc[t]
      /\ u \in Uids /\ rows[u] # None /\ rows'[u] # None
  BY OthersStay, Fields, RowsStay DEF IInv, UpdatesOK
<1>2. SUFFICES ASSUME u \notin doubtful' \cup crossed' PROVE UpdateOK(s)'
  BY <1>1 DEF UpdateOK
<1>3. u \notin doubtful \cup crossed /\ UpdateOK(s)
  BY <1>2, HistoryGrows DEF IInv, UpdatesOK
<1>4. ~(Changes(r) /\ req[r].target = u)
  BY <1>3 DEF UpdateOK
<1>5. ~(Changes(r)' /\ req'[r].target = u)
  <2>1. CASE BeginUpdate(r)
    BY <1>1, <1>2, <2>1 DEF BeginUpdate, Changes, IInv, TypeOK
  <2>2. CASE ~BeginUpdate(r)
    BY <1>4, <2>2 DEF Move, Panels, BeginPanel, BeginTool, Work, Creating, BeginSignup,
       BeginSeller, CheckEmail, RefuseEmail, CreateAccount, AccountFails, SetFirstClaims,
       MakeLink, CommitUser, CommitUserLost, CreationFails, Undo, UndoFails, Updating,
       SetClaims, ClaimsFail, CommitUpdate, UpdateFails, Finishes, Refresh, RefreshFails,
       Answer, End, NoReq, Changes, IInv, TypeOK
  <2>. QED
    BY <2>1, <2>2
<1>6. rows'[u] = rows[u] /\ accounts'[u] = accounts[u]
  BY <1>1, <1>2, <1>4, RecordsKept
<1>. QED
  BY <1>1, <1>3, <1>5, <1>6 DEF UpdateOK, InSession, Changes

\* What an update writes is what it has in the session, in both stores.
LEMMA OwnUpdate ==
    ASSUME IInv, NEW r \in Requests, Move(r), Changes(r)'
    PROVE  rows'[req'[r].target] # None /\ UpdateOK(r)'
<1> USE DEF Goto, stores, history
<1>1. /\ TypeOK
      /\ pc \in [Requests -> {"idle", "email", "account", "claims", "link", "commit",
                              "refresh", "answer", "undo", "work"}]
      /\ req \in [Requests -> {NoReq} \cup Creation \cup Update \cup Panel]
      /\ \A s \in Requests \ {r} : req'[s] = req[s]
  BY OthersStay DEF IInv, TypeOK
<1>2. CASE BeginUpdate(r)
  <2>1. PICK a \in Uids, u \in Uids, d \in Updates :
           /\ Member(u)
           /\ req' = [req EXCEPT ![r] = [kind |-> "update", business |-> rows[a].business,
                                         target |-> u, body |-> d, loaded |-> rows[u]]]
           /\ crossed' = IF \E t \in Requests : req[t].kind = "update" /\ req[t].target = u
                           THEN crossed \cup {u} ELSE crossed
    BY <1>2 DEF BeginUpdate
  <2>2. /\ req'[r].target = u /\ req'[r].loaded = rows[u] /\ pc'[r] = "claims"
        /\ rows' = rows /\ accounts' = accounts /\ doubtful' = doubtful
    BY <1>1, <1>2, <2>1 DEF BeginUpdate
  <2>3. ASSUME u \notin doubtful' \cup crossed'
        PROVE  /\ \A t \in Requests : ~(Changes(t) /\ req[t].target = u)
               /\ \A c \in Columns : accounts[u][c] = rows[u][c]
    BY <2>1, <2>2, <2>3 DEF IInv, ClaimsFollowTheRow, Changes, Member
  <2>. QED
    BY <1>1, <2>1, <2>2, <2>3 DEF UpdateOK, Changes, Member
<1>3. CASE ~BeginUpdate(r)
  <2>1. Changes(r) /\ req'[r] = req[r] /\ pc[r] \notin {"idle", "work", "email", "account", "link", "undo"}
    BY <1>1, <1>3 DEF Move, Panels, BeginPanel, BeginTool, Work, Creating, BeginSignup,
       BeginSeller, CheckEmail, RefuseEmail, CreateAccount, AccountFails, SetFirstClaims,
       MakeLink, CommitUser, CommitUserLost, CreationFails, Undo, UndoFails, Updating,
       SetClaims, ClaimsFail, CommitUpdate, UpdateFails, Finishes, Refresh, RefreshFails,
       Answer, End, NoReq, Changes, Creates, IInv, KindsOK
  <2> DEFINE u == req[r].target
  <2>2. rows'[u] # None /\ u \in Uids /\ rows[u] # None
    BY <2>1, TargetStays, Fields DEF IInv
  <2>3. SUFFICES ASSUME u \notin doubtful' \cup crossed' PROVE UpdateOK(r)'
    BY <2>1, <2>2 DEF UpdateOK
  <2>4. u \notin doubtful \cup crossed /\ UpdateOK(r)
    BY <2>1, <2>3, HistoryGrows DEF IInv, UpdatesOK
  <2>5. \A t \in Requests : Changes(t)' /\ req'[t].target = u => t = r
    BY <1>1, <2>1, <2>4 DEF UpdateOK, Changes
  <2>6. CASE SetClaims(r)
    <3>1. /\ rows' = rows /\ pc[r] = "claims" /\ pc'[r] = "commit"
          /\ InSession(r, "role") \in Claim("role")
          /\ InSession(r, "activity") \in Claim("activity")
      BY <1>1, <2>1, <2>6, SessionTypes DEF SetClaims
    <3>2. \A c \in Columns : accounts'[u][c] = InSession(r, c)
      <4>1. CASE Mirrors(r)
        <5>1. /\ accounts'[u] \in Account
              /\ accounts'[u].role = InSession(r, "role")
              /\ accounts'[u].activity = InSession(r, "activity")
          BY <1>1, <2>2, <2>6, <3>1, <4>1, ClaimedTypes DEF SetClaims
        <5>. QED
          BY <5>1 DEF Account, Columns
      <4>2. CASE ~Mirrors(r)
        BY <2>4, <2>6, <3>1, <4>2 DEF SetClaims, Mirrors, UpdateOK, InSession
      <4>. QED
        BY <4>1, <4>2
    <3>. QED
      BY <2>1, <2>4, <2>5, <3>1, <3>2 DEF UpdateOK, InSession
  <2>7. CASE CommitUpdate(r)
    <3>1. /\ accounts' = accounts /\ pc[r] = "commit" /\ pc'[r] = "refresh"
          /\ Storable(r) /\ UpdateRow(r)
      BY <1>1, <2>7 DEF CommitUpdate
    <3>2. /\ rows'[u] \in Row
          /\ rows'[u].role =
                IF "role" \in Dirty(r) THEN InSession(r, "role") ELSE rows[u]["role"]
          /\ rows'[u].activity =
                IF "activity" \in Dirty(r) THEN InSession(r, "activity") ELSE rows[u]["activity"]
      BY <1>1, <2>1, <2>2, <3>1, UpdateTypes
    <3>3. \A c \in Columns : rows'[u][c] = IF c \in Dirty(r) THEN InSession(r, c) ELSE rows[u][c]
      BY <3>2 DEF Row, Columns
    <3>4. \A c \in Columns : rows'[u][c] = InSession(r, c)
      BY <2>4, <3>1, <3>3 DEF UpdateOK, Dirty, InSession
    <3>. QED
      BY <2>1, <2>4, <2>5, <3>1, <3>4 DEF UpdateOK
  <2>8. CASE Refresh(r)
    BY <1>1, <2>1, <2>4, <2>5, <2>8 DEF Refresh, UpdateOK
  <2>9. CASE ClaimsFail(r) \/ UpdateFails(r) \/ RefreshFails(r) \/ Answer(r) \/ Panels(r)
             \/ Creating(r)
    BY <1>1, <2>1, <2>9 DEF ClaimsFail, UpdateFails, RefreshFails, Answer, End, NoReq, Panels,
       BeginPanel, BeginTool, Work, Creating, BeginSignup, BeginSeller, CheckEmail,
       RefuseEmail, CreateAccount, AccountFails, SetFirstClaims, MakeLink, CommitUser,
       CommitUserLost, CreationFails, Undo, UndoFails, Changes, Creates
  <2>. QED
    BY <1>3, <2>6, <2>7, <2>8, <2>9 DEF Move, Updating, Finishes
<1>. QED
  BY <1>2, <1>3

LEMMA UpdatesKept ==
    ASSUME IInv, NEW r \in Requests, Move(r)
    PROVE  UpdatesOK'
<1>1. \A s \in Requests \ {r} : req'[s] = req[s]
  BY OthersStay DEF IInv
<1>. QED
  BY <1>1, OtherUpdates, OwnUpdate DEF UpdatesOK, Changes

----------------------------------------------------------------------------
(* The two stores.                                                         *)

\* A step writes no row, or changes some, or inserts the one of its uid.
LEMMA RowsAndBusinesses ==
    ASSUME IInv, NEW r \in Requests, Move(r)
    PROVE  /\ BusinessesOK'
           /\ \A u \in Uids : u \in businesses' <=> rows'[u] # None /\ rows'[u].business = u
<1>1. /\ TypeOK /\ BusinessesOK
      /\ \A u \in Uids : u \in businesses <=> rows[u] # None /\ rows[u].business = u
  BY DEF IInv, StoresAgree
<1>2. CASE Creates(r) /\ rows' # rows
  <2> DEFINE v == req[r].uid
  <2>1. /\ rows[v] = None /\ rows'[v] # None
        /\ rows'[v].business = IF req[r].kind = "signup" THEN v ELSE req[r].business
        /\ businesses' = businesses \cup {rows'[v].business}
    BY <1>2, UidStays
  <2>2. v \in Uids /\ (req[r].kind = "seller" => req[r].business \in businesses)
    BY <1>2, Fields DEF IInv, CreationsOK, CreationOK
  <2>3. \A u \in Uids \ {v} : rows'[u] = rows[u]
    <3>1. ~Changes(r)
      BY <1>2 DEF Creates, Changes
    <3>. QED
      BY <3>1, OwnRecords
  <2>. QED
    BY <1>1, <1>2, <2>1, <2>2, <2>3 DEF BusinessesOK, Creates
<1>3. CASE Creates(r) /\ rows' = rows
  <2>1. \/ businesses' = businesses
        \/ rows[req[r].uid] = None /\ rows'[req[r].uid] # None
    BY <1>3, UidStays
  <2>. QED
    BY <1>1, <1>3, <2>1 DEF BusinessesOK
<1>4. CASE ~Creates(r)
  <2>1. businesses' = businesses
    BY <1>4 DEF Move, Panels, BeginPanel, BeginTool, Work, Creating, BeginSignup, BeginSeller,
       CheckEmail, RefuseEmail, CreateAccount, AccountFails, SetFirstClaims, MakeLink,
       CommitUser, CommitUserLost, CreationFails, Undo, UndoFails, Updating, BeginUpdate,
       SetClaims, ClaimsFail, CommitUpdate, UpdateFails, Finishes, Refresh, RefreshFails,
       Answer, stores, IInv, KindsOK, Changes
  <2>2. \A u \in Uids : /\ rows'[u] = None <=> rows[u] = None
                        /\ rows[u] # None => rows'[u].business = rows[u].business
    BY <1>4, TargetStays, OwnRecords, RowsStay
  <2>. QED
    BY <1>1, <2>1, <2>2 DEF BusinessesOK
<1>. QED
  BY <1>2, <1>3, <1>4

\* A creation that ends takes both records with it, leaves both, or leaves a
\* doubt.
LEMMA CreationEnds ==
    ASSUME IInv, NEW r \in Requests, Move(r), Creates(r), ~Creates(r)', NEW u, u = req[r].uid,
           u \notin doubtful'
    PROVE  rows'[u] = None <=> accounts'[u] = None
<1> USE DEF stores, history
<1>1. /\ TypeOK /\ u \in Uids /\ CreationOK(r) /\ ~Changes(r) /\ u \notin doubtful
      /\ pc[r] \notin {"idle", "work"}
  BY HistoryGrows, Fields DEF IInv, KindsOK, CreationsOK, Creates, Changes
<1>2. CASE RefuseEmail(r) \/ AccountFails(r)
  BY <1>1, <1>2 DEF RefuseEmail, AccountFails, CreationOK
<1>3. CASE Undo(r) \/ UndoFails(r)
  BY <1>1, <1>3 DEF Undo, UndoFails, Compensated, CreationOK, TypeOK
<1>4. CASE Answer(r)
  BY <1>1, <1>4 DEF Answer, CreationOK
<1>5. CASE ~(RefuseEmail(r) \/ AccountFails(r) \/ Undo(r) \/ UndoFails(r) \/ Answer(r))
  <2>1. req'[r] = req[r]
    BY <1>1, <1>5 DEF Move, Panels, BeginPanel, BeginTool, Work, Creating, BeginSignup,
       BeginSeller, CheckEmail, CreateAccount, SetFirstClaims, MakeLink, CommitUser,
       CommitUserLost, CreationFails, Updating, BeginUpdate, SetClaims, ClaimsFail,
       CommitUpdate, UpdateFails, Finishes, Refresh, RefreshFails, Creates, Changes
  <2>. QED
    BY <2>1 DEF Creates
<1>. QED
  BY <1>2, <1>3, <1>4, <1>5

LEMMA StoresKept ==
    ASSUME IInv, NEW r \in Requests, Move(r)
    PROVE  StoresAgree'
<1>1. SUFFICES ASSUME NEW u \in Uids, u \notin doubtful'
               PROVE  /\ ~InFlight(u)' => (rows'[u] = None <=> accounts'[u] = None)
                      /\ u \in answered' => rows'[u] # None
                      /\ rows'[u] # None => /\ accounts'[u] # None
                                            /\ accounts'[u].email = rows'[u].email
  BY RowsAndBusinesses DEF StoresAgree
<1>2. /\ u \notin doubtful
      /\ \A s \in Requests \ {r} : req'[s] = req[s]
      /\ ~InFlight(u) => (rows[u] = None <=> accounts[u] = None)
      /\ u \in answered => rows[u] # None
      /\ rows[u] # None => accounts[u] # None /\ accounts[u].email = rows[u].email
  BY <1>1, HistoryGrows, OthersStay DEF IInv, StoresAgree
<1>3. CASE Creates(r) /\ req[r].uid = u
  <2>1. CreationOK(r) /\ ~Changes(r)
    BY <1>3 DEF IInv, CreationsOK, Creates, Changes
  <2>2. ~InFlight(u)' => (rows'[u] = None <=> accounts'[u] = None)
    <3>1. CASE Creates(r)'
      <4>1. req'[r] = req[r]
        BY <1>3, <2>1, <3>1, OwnCreation DEF Move, Panels, BeginPanel, BeginTool, Work,
           Creating, BeginSignup, BeginSeller, CheckEmail, RefuseEmail, CreateAccount,
           AccountFails, SetFirstClaims, MakeLink, CommitUser, CommitUserLost, CreationFails,
           Undo, UndoFails, Updating, BeginUpdate, SetClaims, ClaimsFail, CommitUpdate,
           UpdateFails, Finishes, Refresh, RefreshFails, Answer, End, NoReq, Creates, Changes,
           IInv, KindsOK, TypeOK
      <4>. QED
        BY <1>3, <3>1, <4>1 DEF InFlight, Creates
    <3>2. CASE ~Creates(r)'
      BY <1>1, <1>3, <3>2, CreationEnds
    <3>. QED
      BY <3>1, <3>2
  <2>3. u \in answered' => rows'[u] # None
    BY <1>2, <1>3, <2>1, UidStays, RowsStay DEF CreationOK
  <2>4. rows[u] # None => rows'[u] = rows[u] /\ accounts'[u] = accounts[u]
    BY <1>1, <2>1, RecordsKept
  <2>5. ASSUME rows[u] = None, rows'[u] # None
        PROVE  accounts'[u] # None /\ accounts'[u].email = rows'[u].email
    <3>1. InsertUser(r) /\ rows'[u].email = req[r].email /\ rows' # rows
      BY <1>3, <2>5, UidStays
    <3>2. pc[r] = "commit" /\ accounts' = accounts
      BY <2>1, <3>1 DEF Move, Panels, BeginPanel, BeginTool, Work, Creating, BeginSignup,
         BeginSeller, CheckEmail, RefuseEmail, CreateAccount, AccountFails, SetFirstClaims,
         MakeLink, CommitUser, CommitUserLost, CreationFails, Undo, UndoFails, Updating,
         BeginUpdate, SetClaims, ClaimsFail, CommitUpdate, UpdateFails, Finishes, Refresh,
         RefreshFails, Answer, stores, Changes
    <3>. QED
      BY <1>3, <2>1, <3>1, <3>2 DEF CreationOK
  <2>. QED
    BY <1>2, <2>2, <2>3, <2>4, <2>5
<1>4. CASE ~(Creates(r) /\ req[r].uid = u)
  <2>1. ~InFlight(u)' => ~InFlight(u)
    BY <1>2, <1>4 DEF InFlight, Creates
  <2>2. CASE Changes(r) /\ req[r].target = u
    BY <1>2, <2>1, <2>2, TargetStays
  <2>3. CASE ~(Changes(r) /\ req[r].target = u)
    BY <1>2, <1>4, <2>1, <2>3, OwnRecords
  <2>. QED
    BY <2>2, <2>3
<1>. QED
  BY <1>3, <1>4

\* The last update of a user leaves the claims as the row, and a creation
\* commits the row its claims tell.
LEMMA ClaimsKept ==
    ASSUME IInv, NEW r \in Requests, Move(r)
    PROVE  ClaimsFollowTheRow'
<1> USE DEF stores, history
<1>1. SUFFICES ASSUME NEW u \in Uids, u \notin doubtful' \cup crossed', rows'[u] # None,
                      ~\E s \in Requests : Changes(s)' /\ req'[s].target = u
               PROVE  \A c \in Columns : accounts'[u][c] = rows'[u][c]
  BY DEF ClaimsFollowTheRow, Changes
<1>2. /\ u \notin doubtful \cup crossed /\ TypeOK
      /\ \A s \in Requests \ {r} : req'[s] = req[s]
  BY <1>1, HistoryGrows, OthersStay DEF IInv
<1>3. CASE rows[u] = None
  <2>1. /\ Creates(r) /\ req[r].uid = u /\ InsertUser(r) /\ rows' # rows
    BY <1>1, <1>3, OwnRecords, TargetStays, UidStays
  <2>2. pc[r] = "commit" /\ accounts' = accounts
    BY <2>1 DEF Move, Panels, BeginPanel, BeginTool, Work, Creating, BeginSignup,
       BeginSeller, CheckEmail, RefuseEmail, CreateAccount, AccountFails, SetFirstClaims,
       MakeLink, CommitUser, CommitUserLost, CreationFails, Undo, UndoFails, Updating,
       BeginUpdate, SetClaims, ClaimsFail, CommitUpdate, UpdateFails, Finishes, Refresh,
       RefreshFails, Answer, Creates
  <2>3. CreationOK(r)
    BY <2>1 DEF IInv, CreationsOK
  <2>4. rows'[u] \in Row /\ rows'[u].role = req[r].role /\ rows'[u].activity = "active"
    BY <1>1, <1>2, <2>1, <2>3, InsertTypes
  <2>5. /\ accounts'[u] \in Account
        /\ accounts'[u].role = req[r].role /\ accounts'[u].activity = "active"
    BY <1>2, <2>1, <2>2, <2>3 DEF CreationOK, TypeOK
  <2>. QED
    BY <2>4, <2>5 DEF Row, Account, Columns
<1>4. CASE rows[u] # None /\ Changes(r) /\ req[r].target = u
  <2>1. UpdateOK(r) /\ ~(Changes(r)' /\ req'[r].target = u)
        /\ pc[r] \notin {"idle", "work", "email", "account", "link", "undo"}
    BY <1>1, <1>4 DEF IInv, UpdatesOK, KindsOK, Changes, Creates
  <2>2. (RefreshFails(r) \/ Answer(r) \/ ClaimsFail(r)) /\ UNCHANGED <<rows, accounts>>
    BY <1>1, <1>4, <2>1 DEF Move, Panels, BeginPanel, BeginTool, Work, Creating, BeginSignup,
       BeginSeller, CheckEmail, RefuseEmail, CreateAccount, AccountFails, SetFirstClaims,
       MakeLink, CommitUser, CommitUserLost, CreationFails, Undo, UndoFails, Updating,
       BeginUpdate, SetClaims, ClaimsFail, CommitUpdate, UpdateFails, Finishes, Refresh,
       RefreshFails, Answer, Changes
  <2>3. pc[r] \in {"claims", "refresh", "answer"}
    BY <2>2 DEF RefreshFails, Answer, ClaimsFail
  <2>. QED
    BY <1>2, <1>4, <2>1, <2>2, <2>3 DEF UpdateOK
<1>5. CASE rows[u] # None /\ ~(Changes(r) /\ req[r].target = u)
  <2>1. rows'[u] = rows[u] /\ accounts'[u] = accounts[u]
    BY <1>1, <1>5, RecordsKept
  <2>2. ~\E s \in Requests : req[s].kind = "update" /\ req[s].target = u
    BY <1>1, <1>2, <1>5 DEF Changes
  <2>. QED
    BY <1>2, <1>5, <2>1, <2>2 DEF IInv, ClaimsFollowTheRow
<1>. QED
  BY <1>3, <1>4, <1>5

----------------------------------------------------------------------------
(* The theorems.                                                           *)

LEMMA InvStart == Init => IInv
<1> SUFFICES ASSUME Init PROVE IInv
  OBVIOUS
<1> DEFINE row == [email |-> FounderEmail, role |-> "admin", activity |-> "active",
                   business |-> Founder]
           account == [email |-> FounderEmail, role |-> "admin", activity |-> "active"]
<1>1. row \in Row /\ account \in Account
  BY AccountsAssumption DEF Row, Account, Claim, Roles, Activity
<1>2. /\ row # None /\ account # None
      /\ \A c \in Columns : account[c] = row[c]
      /\ account.email = row.email /\ row.business = Founder
  BY <1>1, AccountsAssumption DEF Columns
<1>3. /\ rows = [u \in Uids |-> IF u = Founder THEN row ELSE None]
      /\ accounts = [u \in Uids |-> IF u = Founder THEN account ELSE None]
  BY DEF Init
<1> HIDE DEF row, account
<1>4. TypeOK
  BY <1>1, <1>3, AccountsAssumption DEF Init, TypeOK
<1>5. KindsOK /\ ConnectionsOK /\ DistinctUids /\ CreationsOK /\ UpdatesOK
  BY DEF Init, KindsOK, ConnectionsOK, DistinctUids, CreationsOK, UpdatesOK, Creates, Changes,
     NoReq
<1>6. BusinessesOK /\ StoresAgree /\ ClaimsFollowTheRow
  BY <1>2, <1>3, AccountsAssumption DEF Init, BusinessesOK, StoresAgree, ClaimsFollowTheRow
<1>. QED
  BY <1>4, <1>5, <1>6 DEF IInv

\* What was under way when the process died is doubtful or crossed.
LEMMA CrashStep ==
    ASSUME IInv, Crash
    PROVE  IInv'
<1>1. /\ rows' = rows /\ accounts' = accounts /\ businesses' = businesses
      /\ answered' = answered
      /\ doubtful' = doubtful \cup
            {req[r].uid : r \in {t \in Requests : req[t].kind \in {"signup", "seller"}}}
      /\ crossed' = crossed \cup
            {req[r].target : r \in {t \in Requests : req[t].kind = "update"}}
      /\ \A r \in Requests : req'[r] = NoReq
  BY DEF Crash, stores
<1>2. \A r \in Requests : ~Creates(r)' /\ ~Changes(r)'
  BY <1>1 DEF Creates, Changes, NoReq
<1>3. DistinctUids' /\ CreationsOK' /\ UpdatesOK'
  BY <1>2 DEF DistinctUids, CreationsOK, UpdatesOK
<1>4. BusinessesOK' /\ StoresAgree'
  BY <1>1 DEF IInv, BusinessesOK, StoresAgree, InFlight
<1>5. ClaimsFollowTheRow'
  BY <1>1 DEF IInv, ClaimsFollowTheRow
<1>. QED
  BY <1>3, <1>4, <1>5, CrashTypes, ConnectionsAfterCrash DEF IInv

\* Every step of a request and of the process keeps the invariant.
LEMMA InvStep == IInv /\ [Next]_vars => IInv'
<1> SUFFICES ASSUME IInv, [Next]_vars PROVE IInv'
  OBVIOUS
<1>1. ASSUME NEW r \in Requests, Move(r) PROVE IInv'
  <2>1. TypeOK'
    BY <1>1, PanelTypes, CreatingTypes, UpdatingTypes, FinishTypes DEF Move
  <2>. QED
    BY <1>1, <2>1, ConnectionsKept, CreationsKept, UpdatesKept, RowsAndBusinesses, StoresKept,
       ClaimsKept DEF IInv
<1>2. CASE Crash
  BY <1>2, CrashStep
<1>3. CASE UNCHANGED vars
  BY <1>3 DEF vars, stores, history, IInv, TypeOK, KindsOK, ConnectionsOK, DistinctUids,
     CreationsOK, CreationOK, UpdatesOK, UpdateOK, BusinessesOK, StoresAgree,
     ClaimsFollowTheRow, Creates, Changes, InSession, InFlight
<1>. QED
  BY <1>1, <1>2, <1>3 DEF Next, Move, Panels, Finishes

\* The inductive invariant holds in every state.
THEOREM InvHolds == Spec => []IInv
<1>. QED
  BY InvStart, InvStep, PTL DEF Spec

\* Rows, accounts, claims and connections keep their types, whatever fails:
\* no request writes the claims of an account that does not exist.
THEOREM TypeCorrect == Spec => []TypeOK
<1>1. IInv => TypeOK
  BY DEF IInv
<1>. QED
  BY <1>1, InvHolds, PTL

\* signup_business and create_seller leave a uid in both stores or in none,
\* up to the failures whose outcome nobody knows.
THEOREM StoresAgreeAlways == Spec => []StoresAgree
<1>1. IInv => StoresAgree
  BY DEF IInv
<1>. QED
  BY <1>1, InvHolds, PTL

\* update writes Firebase before the row: once it has ended, and unless it
\* failed half way or met another one, the claims are those of the row.
THEOREM ClaimsFollow == Spec => []ClaimsFollowTheRow
<1>1. IInv => ClaimsFollowTheRow
  BY DEF IInv
<1>. QED
  BY <1>1, InvHolds, PTL

\* Every transaction of a request is bound by after_begin to its business, on
\* any connection of the pool and after any other request.
THEOREM TenantsAreApart == Spec => []BoundToItsBusiness
<1>1. IInv => BoundToItsBusiness
  <2> SUFFICES ASSUME IInv, NEW r \in Requests, conn[r] # None
               PROVE  Sees(conn[r]) = {req[r].business} \ {None}
    BY DEF BoundToItsBusiness
  <2>1. setting[conn[r]] = req[r].business
    BY DEF IInv, ConnectionsOK
  <2>. QED
    BY <2>1 DEF Sees
<1>. QED
  BY <1>1, InvHolds, PTL

\* The UPDATE of a user names the columns whose value changed in the session,
\* so a request that did not name a column never writes it.
THEOREM NamedColumnsOnly == Spec => OnlyNamedColumnsChange
<1> DEFINE Named == \A u \in Uids, c \in Columns :
          rows[u] # None /\ rows'[u][c] # rows[u][c] =>
              \E r \in Requests : /\ req[r].kind = "update" /\ req[r].target = u
                                  /\ c \in DOMAIN req[r].body
                                  /\ req[r].body[c] = rows'[u][c]
<1>1. IInv /\ [Next]_vars => [Named]_vars
  <2> SUFFICES ASSUME IInv, Next, NEW u \in Uids, NEW c \in Columns, rows[u] # None,
                      rows'[u][c] # rows[u][c]
               PROVE  \E r \in Requests : /\ req[r].kind = "update" /\ req[r].target = u
                                          /\ c \in DOMAIN req[r].body
                                          /\ req[r].body[c] = rows'[u][c]
    OBVIOUS
  <2>1. PICK r \in Requests : Move(r)
    BY DEF Next, Move, Panels, Finishes, Crash, stores
  <2>2. Changes(r) /\ req[r].target = u
    BY <2>1, OwnRecords, UidStays
  <2>3. Storable(r) /\ UpdateRow(r)
    BY <2>1, <2>2 DEF Move, Panels, BeginPanel, BeginTool, Work, Creating, BeginSignup,
       BeginSeller, CheckEmail, RefuseEmail, CreateAccount, AccountFails, SetFirstClaims,
       MakeLink, CommitUser, CommitUserLost, CreationFails, Undo, UndoFails, Updating,
       BeginUpdate, SetClaims, ClaimsFail, CommitUpdate, UpdateFails, Finishes, Refresh,
       RefreshFails, Answer, stores, Changes, Creates, IInv, KindsOK
  <2>4. /\ rows'[u] \in Row
        /\ rows'[u].role = IF "role" \in Dirty(r) THEN InSession(r, "role")
                           ELSE rows[u]["role"]
        /\ rows'[u].activity = IF "activity" \in Dirty(r) THEN InSession(r, "activity")
                               ELSE rows[u]["activity"]
    BY <2>2, <2>3, UpdateTypes DEF IInv
  <2>5. c \in Dirty(r) /\ rows'[u][c] = InSession(r, c)
    BY <2>4 DEF Row, Columns
  <2>. QED
    BY <2>2, <2>5 DEF Dirty, InSession, Changes
<1>. QED
  BY <1>1, InvHolds, PTL DEF Spec, OnlyNamedColumnsChange
=============================================================================
