--------------------------- MODULE AccountsProofs ---------------------------
(***************************************************************************)
(* What holds of Accounts for any number of concurrent requests.  The      *)
(* induction carries, next to the properties, what a request in progress   *)
(* may still rely on after its reads: an application keeps its address,    *)
(* an approved account stays one, an active account stays active.          *)
(***************************************************************************)
EXTENDS Accounts, FiniteSetTheorems, TLAPS

InProgressValid(request) ==
  /\ request.op \in {"setup", "approve", "reject", "setup_password", "login"}
       => request.e \in Emails
  /\ request.op \in {"approve", "reject"} =>
       /\ request.a \in Applications
       /\ application[request.a].status # "absent"
       /\ application[request.a].email = request.e
  /\ request.op = "setup_password" => user[request.e].role = "user"
  /\ request.op = "login" =>
       /\ request.ip \in Ips
       /\ request.pc = "verified" =>
            user[request.e].status = "active" /\ user[request.e].password

RequestsValid == \A t \in Threads : InProgressValid(requests[t])

\* A row has an address from its INSERT on.
ApplicationsFiled ==
  \A a \in Applications :
    IF application[a].status = "absent" THEN application[a] = NoApplication
    ELSE application[a].email \in Emails

TokensOfUsers == \A e \in Emails : token[e] # "none" <=> user[e].role = "user"

UsersComplete ==
  \A e \in Emails :
    /\ user[e].role = "none" <=> user[e] = NoUser
    /\ user[e].role = "admin" => user[e] = Admin

IndInv ==
  /\ TypeOK
  /\ OneApprovalPerAccount
  /\ PasswordComesWithToken
  /\ SessionsOfActiveAccounts
  /\ SetupMatchesAdmin
  /\ DecisionsRecorded
  /\ RequestsValid
  /\ ApplicationsFiled
  /\ TokensOfUsers
  /\ UsersComplete

-----------------------------------------------------------------------------

\* A request that ends leaves a well-formed thread.
LEMMA IdleIsValid == Idle \in Request /\ InProgressValid(Idle)
  BY DEF Idle, Request, InProgressValid

\* A request that reads leaves the tables as they are.
LEMMA ReadingKeeps ==
  ASSUME IndInv, NEW t \in Threads, NEW request \in Request,
         InProgressValid(request), Become(t, request), UNCHANGED tables
  PROVE  IndInv'
<1>1. TypeOK'
  BY DEF IndInv, TypeOK, Become, tables
<1>2. RequestsValid'
  <2>. SUFFICES ASSUME NEW s \in Threads PROVE InProgressValid(requests[s])'
    BY DEF RequestsValid
  <2>1. requests'[s] = IF s = t THEN request ELSE requests[s]
    BY DEF IndInv, TypeOK, Become
  <2>2. InProgressValid(requests'[s])
    BY <2>1 DEF IndInv, RequestsValid
  <2>3. QED
    BY <2>2 DEF InProgressValid, tables
<1>3. /\ OneApprovalPerAccount'
      /\ PasswordComesWithToken'
      /\ SessionsOfActiveAccounts'
      /\ SetupMatchesAdmin'
      /\ DecisionsRecorded'
      /\ ApplicationsFiled'
      /\ TokensOfUsers'
      /\ UsersComplete'
  BY DEF IndInv, tables, OneApprovalPerAccount, Approved, PasswordComesWithToken,
         SessionsOfActiveAccounts, SetupMatchesAdmin, Admins, DecisionsRecorded,
         ApplicationsFiled, TokensOfUsers, UsersComplete
<1>4. QED
  BY <1>1, <1>2, <1>3 DEF IndInv

\* What other requests have read and rely on.
RowsStand ==
  /\ \A a \in Applications : application[a].status # "absent" =>
       application'[a].status # "absent" /\ application'[a].email = application[a].email
  /\ \A e \in Emails :
       /\ user[e].role = "user" => user'[e].role = "user"
       /\ user[e].status = "active" /\ user[e].password =>
            user'[e].status = "active" /\ user'[e].password

\* A commit that leaves that in place leaves the requests in progress valid.
LEMMA RequestsStayValid ==
  ASSUME IndInv, RowsStand,
         \/ requests' = requests
         \/ \E t \in Threads : End(t)
  PROVE  RequestsValid'
<1>. SUFFICES ASSUME NEW s \in Threads PROVE InProgressValid(requests[s])'
  BY DEF RequestsValid
<1>1. requests'[s] \in {requests[s], Idle}
  BY DEF IndInv, TypeOK, End, Become
<1>2. CASE requests'[s] = Idle
  BY <1>2 DEF InProgressValid, Idle
<1>3. CASE requests'[s] = requests[s]
  <2>1. InProgressValid(requests[s]) /\ requests[s] \in Request
    BY DEF IndInv, RequestsValid, TypeOK
  <2>. DEFINE r == requests[s]
  <2>2. CASE r.op \in {"approve", "reject"}
    BY <1>3, <2>1, <2>2 DEF InProgressValid, RowsStand
  <2>3. CASE r.op \notin {"approve", "reject"}
    BY <1>3, <2>1, <2>3 DEF InProgressValid, RowsStand
  <2>4. QED
    BY <2>2, <2>3
<1>4. QED
  BY <1>1, <1>2, <1>3

\* The rows that setup and approvals insert.
LEMMA NewUsers ==
  /\ Admin \in User /\ PendingUser \in User /\ NoUser \in User
  /\ Admin.role = "admin" /\ Admin.status = "active" /\ Admin.password
  /\ PendingUser.role = "user" /\ PendingUser.status = "pending_password"
  /\ ~PendingUser.password
  /\ NoUser.role = "none" /\ ~NoUser.password
  /\ Admin.passwordsSet = 0 /\ PendingUser.passwordsSet = 0 /\ NoUser.passwordsSet = 0
<1>. USE DEF NoUser
<1>1. Admin \in User /\ PendingUser \in User /\ NoUser \in User
  BY DEF Admin, PendingUser, User
<1>2. /\ Admin.role = "admin" /\ Admin.status = "active" /\ Admin.password
      /\ Admin.passwordsSet = 0
  BY DEF Admin
<1>3. /\ PendingUser.role = "user" /\ PendingUser.status = "pending_password"
      /\ ~PendingUser.password /\ PendingUser.passwordsSet = 0
  BY DEF PendingUser
<1>4. NoUser.role = "none" /\ ~NoUser.password /\ NoUser.passwordsSet = 0
  OBVIOUS
<1>5. QED
  BY <1>1, <1>2, <1>3, <1>4

\* The commit of setup writes the only administrator.
LEMMA SetupCommits ==
  ASSUME IndInv, NEW t \in Threads, CommitsSetup(t)
  PROVE  IndInv'
<1>. DEFINE e == requests[t].e
<1>1. /\ e \in Emails /\ user[e] = NoUser /\ user \in [Emails -> User]
      /\ user' = [user EXCEPT ![e] = Admin]
      /\ setupCompleted' = TRUE
      /\ UNCHANGED <<application, token, signedIn, failures>>
      /\ End(t)
  BY DEF IndInv, TypeOK, RequestsValid, InProgressValid, CommitsSetup, At, MayInsert
<1>2. TypeOK'
  BY <1>1, IdleIsValid, NewUsers DEF IndInv, TypeOK, End, Become
<1>3. RowsStand
  BY <1>1, NewUsers DEF RowsStand
<1>4. RequestsValid'
  BY <1>1, <1>3, RequestsStayValid
<1>5. OneApprovalPerAccount' /\ PasswordComesWithToken' /\ TokensOfUsers'
  BY <1>1, NewUsers DEF IndInv, OneApprovalPerAccount, Approved, PasswordComesWithToken,
                        TokensOfUsers
<1>6. SessionsOfActiveAccounts' /\ SetupMatchesAdmin' /\ UsersComplete'
  BY <1>1, NewUsers DEF IndInv, SessionsOfActiveAccounts, SetupMatchesAdmin, Admins,
                        UsersComplete
<1>7. DecisionsRecorded' /\ ApplicationsFiled'
  BY <1>1 DEF IndInv, DecisionsRecorded, ApplicationsFiled
<1>8. QED
  BY <1>2, <1>4, <1>5, <1>6, <1>7 DEF IndInv

\* The rows that decisions write.
LEMMA DecidedRows ==
  ASSUME NEW row \in Application
  PROVE  /\ ApprovedApplication(row) \in Application
         /\ ApprovedApplication(row).email = row.email
         /\ ApprovedApplication(row).status = "account_setup_pending"
         /\ ApprovedApplication(row).approvals = row.approvals + 1
         /\ ApprovedApplication(row).rejections = row.rejections
         /\ RejectedApplication(row) \in Application
         /\ RejectedApplication(row).email = row.email
         /\ RejectedApplication(row).status = "rejected"
         /\ RejectedApplication(row).approvals = row.approvals
         /\ RejectedApplication(row).rejections = row.rejections + 1
<1>. row.approvals \in Nat /\ row.rejections \in Nat
  BY DEF Application
<1>1. /\ ApprovedApplication(row).email = row.email
      /\ ApprovedApplication(row).status = "account_setup_pending"
      /\ ApprovedApplication(row).approvals = row.approvals + 1
      /\ ApprovedApplication(row).rejections = row.rejections
  BY DEF ApprovedApplication, Application
<1>2. ApprovedApplication(row) \in Application
  <2>. DEFINE n == row.approvals + 1
  <2>1. n \in Nat
    OBVIOUS
  <2>2. ApprovedApplication(row) = [row EXCEPT !.status = "account_setup_pending", !.approvals = n]
    BY DEF ApprovedApplication
  <2>. HIDE DEF n
  <2>3. QED
    BY <2>1, <2>2 DEF Application, ApplicationStatus
<1>3. /\ RejectedApplication(row).email = row.email
      /\ RejectedApplication(row).status = "rejected"
      /\ RejectedApplication(row).approvals = row.approvals
      /\ RejectedApplication(row).rejections = row.rejections + 1
  BY DEF RejectedApplication, Application
<1>4. RejectedApplication(row) \in Application
  <2>. DEFINE n == row.rejections + 1
  <2>1. n \in Nat
    OBVIOUS
  <2>2. RejectedApplication(row) = [row EXCEPT !.status = "rejected", !.rejections = n]
    BY DEF RejectedApplication
  <2>. HIDE DEF n
  <2>3. QED
    BY <2>1, <2>2 DEF Application, ApplicationStatus
<1>5. QED
  BY <1>1, <1>2, <1>3, <1>4

\* The commit of an approval inserts the user its application names.
LEMMA ApprovalCommits ==
  ASSUME IndInv, NEW t \in Threads, CommitsApproval(t)
  PROVE  IndInv'
<1>. DEFINE e == requests[t].e
            a == requests[t].a
            row == ApprovedApplication(application[a])
<1>1. /\ e \in Emails /\ user[e] = NoUser /\ user \in [Emails -> User]
      /\ user' = [user EXCEPT ![e] = PendingUser]
      /\ token \in [Emails -> {"none", "open", "expired", "used"}]
      /\ token' = [token EXCEPT ![e] = "open"]
      /\ UNCHANGED <<setupCompleted, signedIn, failures>>
      /\ End(t)
  BY DEF IndInv, TypeOK, RequestsValid, InProgressValid, CommitsApproval, At, MayInsert
<1>2. /\ a \in Applications /\ application[a] \in Application
      /\ application[a].status # "absent" /\ application[a].email = e
      /\ application \in [Applications -> Application]
  BY DEF IndInv, TypeOK, RequestsValid, InProgressValid, CommitsApproval, At
<1>3. application' = [application EXCEPT ![a] = row]
  BY <1>2 DEF CommitsApproval
<1>4. /\ row \in Application /\ row.email = e /\ row.status = "account_setup_pending"
      /\ row.approvals = application[a].approvals + 1
      /\ row.rejections = application[a].rejections
  BY <1>2, DecidedRows
<1>5. \A b \in Applications : application[b].email = e => application[b].approvals = 0
  <2>1. ~ \E b \in Applications : Approved(b) /\ application[b].email = e
    BY <1>1, NewUsers DEF IndInv, OneApprovalPerAccount
  <2>2. \A b \in Applications : application[b].approvals \in Nat
    BY <1>2 DEF Application
  <2>3. QED
    BY <2>1, <2>2 DEF Approved
<1>6. TypeOK'
  <2>1. user' \in [Emails -> User] /\ token' \in [Emails -> {"none", "open", "expired", "used"}]
    BY <1>1, NewUsers
  <2>2. application' \in [Applications -> Application]
    BY <1>2, <1>3, <1>4
  <2>3. QED
    BY <1>1, <2>1, <2>2, IdleIsValid DEF IndInv, TypeOK, End, Become
<1>7. RowsStand
  <2>1. \A b \in Applications : application[b].status # "absent" =>
          application'[b].status # "absent" /\ application'[b].email = application[b].email
    BY <1>2, <1>3, <1>4
  <2>2. QED
    BY <1>1, <2>1, NewUsers DEF RowsStand
<1>8. RequestsValid'
  BY <1>1, <1>7, RequestsStayValid
<1>9. OneApprovalPerAccount'
  <2>1. \A b \in Applications :
          /\ application'[b].email = application[b].email
          /\ application'[b].approvals = IF b = a THEN 1 ELSE application[b].approvals
    BY <1>2, <1>3, <1>4, <1>5
  <2>2. \A f \in Emails : user'[f].role = IF f = e THEN "user" ELSE user[f].role
    BY <1>1, NewUsers
  <2>3. \A b \in Applications : application'[b].approvals <= 1
    BY <2>1 DEF IndInv, OneApprovalPerAccount
  <2>4. ASSUME NEW b \in Applications, NEW c \in Applications,
               application'[b].approvals > 0, application'[c].approvals > 0,
               application'[b].email = application'[c].email
        PROVE  b = c
    BY <1>2, <1>5, <2>1, <2>4 DEF IndInv, OneApprovalPerAccount, Approved
  <2>5. ASSUME NEW f \in Emails
        PROVE  user'[f].role = "user" <=>
                 \E b \in Applications :
                   application'[b].approvals > 0 /\ application'[b].email = f
    <3>1. CASE f = e
      BY <1>2, <2>1, <2>2, <3>1
    <3>2. CASE f # e
      BY <1>2, <2>1, <2>2, <3>2 DEF IndInv, OneApprovalPerAccount, Approved
    <3>3. QED
      BY <3>1, <3>2
  <2>6. QED
    BY <2>3, <2>4, <2>5 DEF OneApprovalPerAccount, Approved
<1>10. /\ PasswordComesWithToken' /\ TokensOfUsers' /\ SessionsOfActiveAccounts'
       /\ UsersComplete'
  BY <1>1, NewUsers DEF IndInv, PasswordComesWithToken, TokensOfUsers,
                        SessionsOfActiveAccounts, UsersComplete
<1>11. SetupMatchesAdmin'
  BY <1>1, NewUsers DEF IndInv, SetupMatchesAdmin, Admins
<1>12. DecisionsRecorded'
  <2>. SUFFICES ASSUME NEW b \in Applications
                PROVE  LET r == application'[b] IN
                       /\ r.status = "account_setup_pending" => r.approvals > 0
                       /\ r.status = "rejected" => r.rejections > 0
                       /\ r.status \in {"absent", "submitted"} =>
                            r.approvals + r.rejections = 0
    BY DEF DecisionsRecorded
  <2>1. CASE b = a
    BY <1>2, <1>3, <1>4, <2>1 DEF Application
  <2>2. CASE b # a
    BY <1>2, <1>3, <2>2 DEF IndInv, DecisionsRecorded
  <2>3. QED
    BY <2>1, <2>2
<1>13. ApplicationsFiled'
  BY <1>1, <1>2, <1>3, <1>4 DEF IndInv, ApplicationsFiled
<1>14. QED
  BY <1>6, <1>8, <1>9, <1>10, <1>11, <1>12, <1>13 DEF IndInv

\* The commit of a rejection writes one application, and no user.
LEMMA RejectionCommits ==
  ASSUME IndInv, NEW t \in Threads, CommitsRejection(t)
  PROVE  IndInv'
<1>. DEFINE a == requests[t].a
            row == RejectedApplication(application[a])
<1>1. /\ a \in Applications /\ application[a] \in Application
      /\ application[a].status # "absent"
      /\ application \in [Applications -> Application]
      /\ UNCHANGED <<user, setupCompleted, token, signedIn, failures>>
      /\ End(t)
  BY DEF IndInv, TypeOK, RequestsValid, InProgressValid, CommitsRejection, At
<1>2. application' = [application EXCEPT ![a] = row]
  BY <1>1 DEF CommitsRejection
<1>3. /\ row \in Application /\ row.email = application[a].email /\ row.status = "rejected"
      /\ row.approvals = application[a].approvals
      /\ row.rejections = application[a].rejections + 1
  BY <1>1, DecidedRows
<1>4. \A b \in Applications :
        /\ application'[b].email = application[b].email
        /\ application'[b].approvals = application[b].approvals
        /\ application[b].status # "absent" => application'[b].status # "absent"
  BY <1>1, <1>2, <1>3
<1>5. TypeOK'
  BY <1>1, <1>2, <1>3, IdleIsValid DEF IndInv, TypeOK, End, Become
<1>6. RequestsValid'
  <2>1. RowsStand
    BY <1>1, <1>4 DEF RowsStand
  <2>2. QED
    BY <1>1, <2>1, RequestsStayValid
<1>7. OneApprovalPerAccount'
  BY <1>1, <1>4 DEF IndInv, OneApprovalPerAccount, Approved
<1>8. /\ PasswordComesWithToken' /\ TokensOfUsers' /\ SessionsOfActiveAccounts'
      /\ UsersComplete' /\ SetupMatchesAdmin'
  BY <1>1 DEF IndInv, PasswordComesWithToken, TokensOfUsers, SessionsOfActiveAccounts,
              UsersComplete, SetupMatchesAdmin, Admins
<1>9. DecisionsRecorded'
  <2>. SUFFICES ASSUME NEW b \in Applications
                PROVE  LET r == application'[b] IN
                       /\ r.status = "account_setup_pending" => r.approvals > 0
                       /\ r.status = "rejected" => r.rejections > 0
                       /\ r.status \in {"absent", "submitted"} =>
                            r.approvals + r.rejections = 0
    BY DEF DecisionsRecorded
  <2>1. CASE b = a
    BY <1>1, <1>2, <1>3, <2>1 DEF Application
  <2>2. CASE b # a
    BY <1>1, <1>2, <2>2 DEF IndInv, DecisionsRecorded
  <2>3. QED
    BY <2>1, <2>2
<1>10. ApplicationsFiled'
  BY <1>1, <1>2, <1>3 DEF IndInv, ApplicationsFiled
<1>11. QED
  BY <1>5, <1>6, <1>7, <1>8, <1>9, <1>10 DEF IndInv

\* A new application is pending: nothing has been decided about it.
LEMMA SubmitKeeps ==
  ASSUME IndInv, NEW a \in Applications, NEW e \in Emails, Submit(a, e)
  PROVE  IndInv'
<1>. DEFINE row == SubmittedApplication(e)
<1>1. /\ application[a] = NoApplication
      /\ application \in [Applications -> Application]
      /\ application' = [application EXCEPT ![a] = row]
      /\ UNCHANGED <<user, setupCompleted, token, signedIn, failures, requests>>
  BY DEF IndInv, TypeOK, Submit
<1>2. /\ row \in Application /\ row.email = e /\ row.status = "submitted"
      /\ row.approvals = 0 /\ row.rejections = 0
  BY DEF SubmittedApplication, NoApplication, Application, ApplicationStatus
<1>3. TypeOK'
  BY <1>1, <1>2 DEF IndInv, TypeOK
<1>4. RequestsValid'
  <2>1. RowsStand
    BY <1>1, <1>2 DEF RowsStand, NoApplication
  <2>2. QED
    BY <1>1, <2>1, RequestsStayValid
<1>5. OneApprovalPerAccount'
  <2>1. /\ application[a].approvals = 0 /\ application'[a].approvals = 0
        /\ \A b \in Applications : b # a => application'[b] = application[b]
    BY <1>1, <1>2 DEF NoApplication
  <2>2. QED
    BY <1>1, <2>1 DEF IndInv, OneApprovalPerAccount, Approved
<1>6. /\ PasswordComesWithToken' /\ TokensOfUsers' /\ SessionsOfActiveAccounts'
      /\ UsersComplete' /\ SetupMatchesAdmin'
  BY <1>1 DEF IndInv, PasswordComesWithToken, TokensOfUsers, SessionsOfActiveAccounts,
              UsersComplete, SetupMatchesAdmin, Admins
<1>7. DecisionsRecorded' /\ ApplicationsFiled'
  BY <1>1, <1>2 DEF IndInv, DecisionsRecorded, ApplicationsFiled
<1>8. QED
  BY <1>3, <1>4, <1>5, <1>6, <1>7 DEF IndInv

\* A password that is set activates the user, and gives no role.
LEMMA ActiveRow ==
  ASSUME NEW row \in User
  PROVE  /\ ActiveUser(row) \in User
         /\ ActiveUser(row).role = row.role
         /\ ActiveUser(row).status = "active"
         /\ ActiveUser(row).password
         /\ ActiveUser(row).passwordsSet = row.passwordsSet + 1
<1>. DEFINE n == row.passwordsSet + 1
<1>1. n \in Nat
  BY DEF User
<1>2. ActiveUser(row) =
        [row EXCEPT !.password = TRUE, !.status = "active", !.passwordsSet = n]
  BY DEF ActiveUser
<1>. HIDE DEF n
<1>3. /\ ActiveUser(row) \in User
      /\ ActiveUser(row).role = row.role
      /\ ActiveUser(row).status = "active"
      /\ ActiveUser(row).password
      /\ ActiveUser(row).passwordsSet = n
  BY <1>1, <1>2 DEF User
<1>4. QED
  BY <1>3 DEF n

\* The commit of set_password uses up its token.
LEMMA PasswordCommits ==
  ASSUME IndInv, NEW t \in Threads, CommitsPassword(t)
  PROVE  IndInv'
<1>. DEFINE e == requests[t].e
            row == ActiveUser(user[e])
<1>1. /\ e \in Emails /\ user \in [Emails -> User]
      /\ user[e].role = "user"
      /\ token \in [Emails -> {"none", "open", "expired", "used"}]
      /\ token' = [token EXCEPT ![e] = "used"]
      /\ UNCHANGED <<setupCompleted, application, signedIn, failures>>
      /\ End(t)
  BY DEF IndInv, TypeOK, RequestsValid, InProgressValid, CommitsPassword, At
<1>2. /\ row \in User /\ row.role = "user" /\ row.status = "active" /\ row.password
      /\ user' = [user EXCEPT ![e] = row]
  BY <1>1, ActiveRow DEF CommitsPassword
<1>3. \A f \in Emails :
        /\ user'[f].role = user[f].role
        /\ f # e => user'[f] = user[f] /\ token'[f] = token[f]
  BY <1>1, <1>2
<1>4. TypeOK'
  <2>1. user' \in [Emails -> User] /\ token' \in [Emails -> {"none", "open", "expired", "used"}]
    BY <1>1, <1>2
  <2>2. QED
    BY <1>1, <2>1, IdleIsValid DEF IndInv, TypeOK, End, Become
<1>5. RequestsValid'
  <2>1. RowsStand
    BY <1>1, <1>2, <1>3 DEF RowsStand
  <2>2. QED
    BY <1>1, <2>1, RequestsStayValid
<1>6. OneApprovalPerAccount'
  BY <1>1, <1>3 DEF IndInv, OneApprovalPerAccount, Approved
<1>7. PasswordComesWithToken' /\ TokensOfUsers' /\ SessionsOfActiveAccounts'
  BY <1>1, <1>2, <1>3
     DEF IndInv, PasswordComesWithToken, TokensOfUsers, SessionsOfActiveAccounts
<1>8. UsersComplete'
  <2>. SUFFICES ASSUME NEW f \in Emails
                PROVE  /\ user'[f].role = "none" <=> user'[f] = NoUser
                       /\ user'[f].role = "admin" => user'[f] = Admin
    BY DEF UsersComplete
  <2>1. CASE f = e
    <3>1. user'[f].role = "user"
      BY <1>1, <1>3, <2>1
    <3>2. NoUser.role = "none"
      BY DEF NoUser
    <3>3. QED
      BY <3>1, <3>2
  <2>2. CASE f # e
    BY <1>3, <2>2 DEF IndInv, UsersComplete
  <2>3. QED
    BY <2>1, <2>2
<1>9. SetupMatchesAdmin'
  BY <1>1, <1>3 DEF IndInv, SetupMatchesAdmin, Admins
<1>10. DecisionsRecorded' /\ ApplicationsFiled'
  BY <1>1 DEF IndInv, DecisionsRecorded, ApplicationsFiled
<1>11. QED
  BY <1>4, <1>5, <1>6, <1>7, <1>8, <1>9, <1>10 DEF IndInv

\* Sessions, tokens that expire and failed logins.
LEMMA LoginsKeep ==
  ASSUME IndInv,
         UNCHANGED <<user, setupCompleted, application>>,
         token' = token \/ \E e \in Emails : TokenExpires(e),
         signedIn' \subseteq signedIn \/ \E t \in Threads : CommitsSession(t),
         requests' = requests \/ \E t \in Threads : End(t),
         failures' \in [LoginAttempts -> Failure]
  PROVE  IndInv'
<1>1. token' \in [Emails -> {"none", "open", "expired", "used"}]
  BY DEF IndInv, TypeOK, TokenExpires
<1>2. \A e \in Emails : (token'[e] = "none" <=> token[e] = "none")
                        /\ (token'[e] = "used" <=> token[e] = "used")
  BY DEF IndInv, TypeOK, TokenExpires
<1>3. signedIn' \subseteq Emails /\ SessionsOfActiveAccounts'
  <2>1. CASE signedIn' \subseteq signedIn
    BY <2>1 DEF IndInv, TypeOK, SessionsOfActiveAccounts
  <2>2. ASSUME NEW t \in Threads, CommitsSession(t)
        PROVE  signedIn' \subseteq Emails /\ SessionsOfActiveAccounts'
    <3>1. /\ requests[t].e \in Emails
          /\ user[requests[t].e].status = "active" /\ user[requests[t].e].password
          /\ signedIn' = signedIn \cup {requests[t].e}
      BY <2>2 DEF IndInv, RequestsValid, InProgressValid, CommitsSession, At
    <3>2. QED
      BY <3>1 DEF IndInv, TypeOK, SessionsOfActiveAccounts
  <2>3. QED
    BY <2>1, <2>2
<1>4. requests' \in [Threads -> Request]
  BY IdleIsValid DEF IndInv, TypeOK, End, Become
<1>5. RequestsValid'
  <2>1. RowsStand
    BY DEF RowsStand
  <2>2. QED
    BY <2>1, RequestsStayValid
<1>6. PasswordComesWithToken' /\ TokensOfUsers'
  BY <1>2 DEF IndInv, PasswordComesWithToken, TokensOfUsers
<1>7. OneApprovalPerAccount' /\ UsersComplete' /\ SetupMatchesAdmin'
  BY DEF IndInv, OneApprovalPerAccount, Approved, UsersComplete, SetupMatchesAdmin, Admins
<1>8. DecisionsRecorded' /\ ApplicationsFiled'
  BY DEF IndInv, DecisionsRecorded, ApplicationsFiled
<1>9. TypeOK'
  BY <1>1, <1>3, <1>4 DEF IndInv, TypeOK
<1>10. QED
  BY <1>3, <1>5, <1>6, <1>7, <1>8, <1>9 DEF IndInv

\* A request that starts, goes on to its next read, or ends without a trace.
LEMMA ReadsKeep ==
  ASSUME IndInv, NEW t \in Threads, UNCHANGED tables,
         \/ Collides(t) \/ Lost(t)
         \/ \E e \in Emails : SetupCountsAdmins(t, e) \/ ReadsToken(t, e)
         \/ SetupReadsSetting(t)
         \/ \E a \in Applications, op \in {"approve", "reject"} : ReadsApplication(t, op, a)
         \/ ApprovalReadsUser(t)
         \/ \E e \in Emails, ip \in Ips : LoginCounts(t, e, ip)
         \/ LoginVerifies(t)
  PROVE  IndInv'
<1>1. CASE End(t)
  BY <1>1, IdleIsValid, ReadingKeeps DEF End
<1>2. requests[t] \in Request /\ InProgressValid(requests[t])
  BY DEF IndInv, TypeOK, RequestsValid
<1>3. ASSUME NEW pc \in {"available", "user_read", "verified", "refused"},
             MovesTo(t, pc),
             pc = "verified" => /\ requests[t].op = "login"
                                /\ MayVerify(user[requests[t].e])
      PROVE  IndInv'
  <2>. DEFINE request == [requests[t] EXCEPT !.pc = pc]
  <2>1. /\ request \in Request /\ request.pc = pc
        /\ request.op = requests[t].op /\ request.e = requests[t].e
        /\ request.a = requests[t].a /\ request.ip = requests[t].ip
    BY <1>2 DEF Request
  <2>2. InProgressValid(request)
    BY <1>2, <1>3, <2>1 DEF InProgressValid, MayVerify
  <2>3. Become(t, request)
    BY <1>3 DEF MovesTo
  <2>. HIDE DEF request
  <2>4. QED
    BY <2>1, <2>2, <2>3, ReadingKeeps
<1>4. ASSUME NEW e \in Emails, SetupCountsAdmins(t, e) \/ ReadsToken(t, e)
      PROVE  IndInv'
  <2>1. CASE SetupCountsAdmins(t, e)
    <3>. DEFINE request == [Idle EXCEPT !.op = "setup", !.pc = "admins_counted", !.e = e]
    <3>1. request \in Request /\ InProgressValid(request)
      BY DEF Idle, Request, InProgressValid
    <3>2. QED
      BY <2>1, <3>1, ReadingKeeps DEF SetupCountsAdmins, Start
  <2>2. CASE ReadsToken(t, e)
    <3>. DEFINE request == [Idle EXCEPT !.op = "setup_password", !.pc = "token_read", !.e = e]
    <3>1. user[e].role = "user"
      BY <2>2 DEF IndInv, TokensOfUsers, ReadsToken
    <3>2. request \in Request /\ InProgressValid(request)
      BY <3>1 DEF Idle, Request, InProgressValid
    <3>3. QED
      BY <2>2, <3>2, ReadingKeeps DEF ReadsToken, Start
  <2>3. QED
    BY <1>4, <2>1, <2>2
<1>5. ASSUME NEW a \in Applications, NEW op \in {"approve", "reject"},
             ReadsApplication(t, op, a)
      PROVE  IndInv'
  <2>. DEFINE request == [Idle EXCEPT !.op = op, !.pc = "application_read", !.a = a,
                                      !.e = application[a].email]
  <2>1. application[a].status = "submitted" /\ application[a].email \in Emails
    BY <1>5 DEF IndInv, ApplicationsFiled, ReadsApplication
  <2>2. request \in Request /\ InProgressValid(request)
    BY <2>1 DEF Idle, Request, InProgressValid
  <2>3. QED
    BY <1>5, <2>2, ReadingKeeps DEF ReadsApplication, Start
<1>6. ASSUME NEW e \in Emails, NEW ip \in Ips, LoginCounts(t, e, ip)
      PROVE  IndInv'
  <2>1. PICK pc \in {"limited", "counted"} :
          Become(t, [Idle EXCEPT !.op = "login", !.e = e, !.ip = ip, !.pc = pc])
    BY <1>6 DEF LoginCounts, Start
  <2>. DEFINE request == [Idle EXCEPT !.op = "login", !.e = e, !.ip = ip, !.pc = pc]
  <2>2. request \in Request /\ InProgressValid(request)
    BY DEF Idle, Request, InProgressValid
  <2>3. QED
    BY <2>1, <2>2, ReadingKeeps
<1>7. CASE SetupReadsSetting(t)
  BY <1>1, <1>3, <1>7 DEF SetupReadsSetting
<1>8. CASE ApprovalReadsUser(t)
  BY <1>1, <1>3, <1>8 DEF ApprovalReadsUser
<1>9. CASE LoginVerifies(t)
  BY <1>3, <1>9 DEF LoginVerifies, At
<1>10. CASE Collides(t) \/ Lost(t)
  BY <1>1, <1>10 DEF Collides, Lost
<1>11. QED
  BY <1>4, <1>5, <1>6, <1>7, <1>8, <1>9, <1>10

-----------------------------------------------------------------------------

\* The tables are empty at the start.
LEMMA InitEstablishes == Init => IndInv
<1>. SUFFICES ASSUME Init PROVE IndInv
  OBVIOUS
<1>1. TypeOK
  <2>1. /\ NoUser \in User /\ NoApplication \in Application /\ Idle \in Request
        /\ NoFailure \in Failure
    BY IdleIsValid DEF NoUser, User, NoApplication, Application, ApplicationStatus,
                       NoFailure, Failure
  <2>2. QED
    BY <2>1 DEF Init, TypeOK
<1>2. RequestsValid
  BY IdleIsValid DEF Init, RequestsValid
<1>3. /\ OneApprovalPerAccount /\ PasswordComesWithToken /\ SessionsOfActiveAccounts
      /\ TokensOfUsers /\ UsersComplete /\ SetupMatchesAdmin
  BY DEF Init, NoUser, NoApplication, Admin, Approved, OneApprovalPerAccount,
         PasswordComesWithToken, SessionsOfActiveAccounts, TokensOfUsers, UsersComplete,
         SetupMatchesAdmin, Admins
<1>4. DecisionsRecorded /\ ApplicationsFiled
  BY DEF Init, NoApplication, DecisionsRecorded, ApplicationsFiled
<1>5. QED
  BY <1>1, <1>2, <1>3, <1>4 DEF IndInv

\* Each request, the clock and the worker keep the invariant.
LEMMA StepPreserves == IndInv /\ [Next]_vars => IndInv'
<1>. SUFFICES ASSUME IndInv, [Next]_vars PROVE IndInv'
  OBVIOUS
<1>. USE DEF IndInv
<1>1. ASSUME NEW t \in Threads, RequestStep(t) PROVE IndInv'
  <2>1. CASE CommitsSetup(t) \/ CommitsApproval(t) \/ CommitsRejection(t) \/ CommitsPassword(t)
    BY <2>1, SetupCommits, ApprovalCommits, RejectionCommits, PasswordCommits
  <2>2. CASE CommitsSession(t)
    <3>1. End(t) /\ UNCHANGED <<user, setupCompleted, application, token, failures>>
      BY <2>2 DEF CommitsSession
    <3>2. QED
      BY <2>2, <3>1, LoginsKeep DEF TypeOK
  <2>3. ASSUME NEW kind \in FailureKind, CommitsFailure(t, kind) PROVE IndInv'
    <3>. DEFINE row == [e |-> requests[t].e, ip |-> requests[t].ip, kind |-> kind]
    <3>1. row \in Failure
      BY <2>3 DEF RequestsValid, InProgressValid, CommitsFailure, At, Failure
    <3>2. /\ \E i \in LoginAttempts : failures' = [failures EXCEPT ![i] = row]
          /\ End(t)
          /\ UNCHANGED <<user, setupCompleted, application, token, signedIn>>
      BY <2>3 DEF CommitsFailure
    <3>. HIDE DEF row
    <3>3. failures' \in [LoginAttempts -> Failure]
      BY <3>1, <3>2 DEF TypeOK
    <3>4. QED
      BY <3>2, <3>3, LoginsKeep
  <2>4. CASE \/ Collides(t) \/ Lost(t)
             \/ \E e \in Emails : SetupCountsAdmins(t, e) \/ ReadsToken(t, e)
             \/ SetupReadsSetting(t)
             \/ \E a \in Applications, op \in {"approve", "reject"} : ReadsApplication(t, op, a)
             \/ ApprovalReadsUser(t)
             \/ \E e \in Emails, ip \in Ips : LoginCounts(t, e, ip)
             \/ LoginVerifies(t)
    <3>1. UNCHANGED tables
      BY <2>4 DEF Collides, Lost, SetupCountsAdmins, ReadsToken, SetupReadsSetting,
                  ReadsApplication, ApprovalReadsUser, LoginCounts, LoginVerifies
    <3>2. QED
      BY <2>4, <3>1, ReadsKeep
  <2>5. QED
    BY <1>1, <2>1, <2>2, <2>3, <2>4 DEF RequestStep
<1>2. ASSUME NEW a \in Applications, NEW e \in Emails, Submit(a, e) PROVE IndInv'
  BY <1>2, SubmitKeeps
<1>3. ASSUME NEW e \in Emails, SessionEnds(e) \/ TokenExpires(e) PROVE IndInv'
  BY <1>3, LoginsKeep DEF SessionEnds, TokenExpires, TypeOK
<1>4. ASSUME NEW i \in LoginAttempts, FailureLeavesWindow(i) PROVE IndInv'
  <2>1. /\ failures' = [failures EXCEPT ![i] = NoFailure]
        /\ UNCHANGED <<user, setupCompleted, application, token, signedIn, requests>>
        /\ failures \in [LoginAttempts -> Failure]
    BY <1>4 DEF FailureLeavesWindow, TypeOK
  <2>2. failures' \in [LoginAttempts -> Failure]
    BY <2>1 DEF NoFailure, Failure
  <2>3. QED
    BY <2>1, <2>2, LoginsKeep
<1>5. CASE UNCHANGED vars
  <2>1. /\ UNCHANGED <<user, setupCompleted, application, token, signedIn, failures, requests>>
        /\ failures \in [LoginAttempts -> Failure]
    BY <1>5 DEF vars, tables, TypeOK
  <2>2. QED
    BY <2>1, LoginsKeep
<1>6. QED
  BY <1>1, <1>2, <1>3, <1>4, <1>5 DEF Next

\* The tables and the requests in progress agree in every state the service
\* reaches: the invariant from which the properties follow.
THEOREM Invariance == Spec => []IndInv
  BY InitEstablishes, StepPreserves, PTL DEF Spec

-----------------------------------------------------------------------------

\* The rows of setup, applications, tokens, sessions and login attempts, and
\* what requests remember of them, stay in their types.
THEOREM AccountsTyped == Spec => []TypeOK
  BY Invariance, PTL DEF IndInv

\* However many approvals race for an application or an address, one of them
\* at most is recorded, and the account exists exactly then: a consequence of
\* UNIQUE(email) alone, since approve reads the application and the account
\* before it holds the lock.
THEOREM OneApproval == Spec => []OneApprovalPerAccount
  BY Invariance, PTL DEF IndInv

\* An approved account becomes active by the use of its token, however many
\* requests use it at once; no other request gives it a password.
THEOREM TokenGivesPassword == Spec => []PasswordComesWithToken
  BY Invariance, PTL DEF IndInv

\* No request, however late after what it read, signs in an account that is
\* not active or has no password.
THEOREM OnlyActiveSignIn == Spec => []SessionsOfActiveAccounts
  BY Invariance, PTL DEF IndInv

\* The setting and the administrator are committed together, and neither is
\* ever taken back: setup is open exactly as long as there is nobody.
THEOREM SetupIsMarked == Spec => []SetupMatchesAdmin
  BY Invariance, PTL DEF IndInv

\* Whatever decisions overlap, the status of an application is that of one
\* that was recorded.
THEOREM StatusHasDecision == Spec => []DecisionsRecorded
  BY Invariance, PTL DEF IndInv

-----------------------------------------------------------------------------
(***************************************************************************)
(* The limit of logins.  A failure that is not recorded yet belongs to a   *)
(* thread that has counted: the invariant counts both.  An address and a   *)
(* client are treated alike, as subjects that failures and requests are    *)
(* about.                                                                  *)
(***************************************************************************)

Subjects == ({"e"} \X Emails) \cup ({"ip"} \X Ips)

About(row, s) == IF s[1] = "e" THEN row.e = s[2] ELSE row.ip = s[2]

CheckedAbout(s) == {i \in CheckedFailures : About(failures[i], s)}

\* Has counted, and may record a failure that was checked.
MayStillFail(request) ==
  request.op = "login" /\ request.pc \in {"counted", "refused", "verified"}

GuessingAbout(s) == {t \in Threads : MayStillFail(requests[t]) /\ About(requests[t], s)}

MostGuesses == LoginLimit + Cardinality(Threads) - 1

GuessesCounted ==
  \A s \in Subjects : Cardinality(CheckedAbout(s)) + Cardinality(GuessingAbout(s)) <= MostGuesses

\* What a step may do to the failures and the threads of one subject: let
\* some of them go, turn a thread into a failure, or let a thread in that has
\* found the limit not reached.
GuessesMove(s) ==
  \/ CheckedAbout(s)' \subseteq CheckedAbout(s) /\ GuessingAbout(s)' \subseteq GuessingAbout(s)
  \/ \E i \in LoginAttempts, t \in GuessingAbout(s) :
       /\ CheckedAbout(s)' = CheckedAbout(s) \cup {i}
       /\ GuessingAbout(s)' = GuessingAbout(s) \ {t}
  \/ CheckedAbout(s)' = CheckedAbout(s) /\ Cardinality(CheckedAbout(s)) < LoginLimit

\* The numbers behind the three moves.
LEMMA MovesStayBounded ==
  ASSUME NEW C \in SUBSET LoginAttempts, NEW D \in SUBSET LoginAttempts,
         NEW G \in SUBSET Threads, NEW H \in SUBSET Threads,
         Cardinality(C) + Cardinality(G) <= MostGuesses,
         \/ D \subseteq C /\ H \subseteq G
         \/ \E i \in LoginAttempts, t \in G : D = C \cup {i} /\ H = G \ {t}
         \/ D = C /\ Cardinality(C) < LoginLimit
  PROVE  Cardinality(D) + Cardinality(H) <= MostGuesses
<1>1. /\ IsFiniteSet(C) /\ IsFiniteSet(D) /\ IsFiniteSet(G) /\ IsFiniteSet(H)
      /\ IsFiniteSet(Threads)
  BY FiniteAssumption, FS_Subset
<1>2. /\ Cardinality(C) \in Nat /\ Cardinality(D) \in Nat
      /\ Cardinality(G) \in Nat /\ Cardinality(H) \in Nat
      /\ Cardinality(Threads) \in Nat /\ LoginLimit \in Nat
  BY <1>1, FS_CardinalityType, LimitAssumption
<1>3. CASE D \subseteq C /\ H \subseteq G
  <2>1. Cardinality(D) <= Cardinality(C) /\ Cardinality(H) <= Cardinality(G)
    BY <1>1, <1>3, FS_Subset
  <2>2. MostGuesses \in Int
    BY <1>2 DEF MostGuesses
  <2>3. QED
    BY <1>2, <2>1, <2>2
<1>4. ASSUME NEW i \in LoginAttempts, NEW t \in G, D = C \cup {i}, H = G \ {t}
      PROVE  Cardinality(D) + Cardinality(H) <= MostGuesses
  <2>1. Cardinality(D) = Cardinality(C) \/ Cardinality(D) = Cardinality(C) + 1
    BY <1>1, <1>4, FS_AddElement
  <2>2. Cardinality(H) = Cardinality(G) - 1
    BY <1>1, <1>4, FS_RemoveElement
  <2>3. MostGuesses \in Int
    BY <1>2 DEF MostGuesses
  <2>4. QED
    BY <1>2, <2>1, <2>2, <2>3
<1>5. CASE D = C /\ Cardinality(C) < LoginLimit
  <2>1. Cardinality(H) <= Cardinality(Threads)
    BY <1>1, FS_Subset
  <2>2. QED
    BY <1>2, <1>5, <2>1 DEF MostGuesses
<1>6. QED
  BY <1>3, <1>4, <1>5

\* A thread that ends, or goes on with its request, is not counted anew.
LEMMA GuessersStay ==
  ASSUME IndInv, NEW s \in Subjects, NEW t \in Threads, NEW request,
         Become(t, request),
         MayStillFail(request) =>
           MayStillFail(requests[t]) /\ request.e = requests[t].e /\ request.ip = requests[t].ip
  PROVE  GuessingAbout(s)' \subseteq GuessingAbout(s)
<1>1. requests' = [requests EXCEPT ![t] = request]
  BY DEF Become
<1>2. requests \in [Threads -> Request]
  BY DEF IndInv, TypeOK
<1>3. \A u \in Threads : requests'[u] = IF u = t THEN request ELSE requests[u]
  BY <1>1, <1>2
<1>4. MayStillFail(request) /\ About(request, s)
        => MayStillFail(requests[t]) /\ About(requests[t], s)
  BY DEF About
<1>5. \A u \in Threads : MayStillFail(requests'[u]) /\ About(requests'[u], s)
                         => MayStillFail(requests[u]) /\ About(requests[u], s)
  BY <1>3, <1>4
<1>6. QED
  BY <1>5 DEF GuessingAbout

\* Nothing that leaves failures and requests alone moves anything.
LEMMA NothingMoves ==
  ASSUME UNCHANGED <<failures, requests>>, NEW s \in Subjects
  PROVE  GuessesMove(s)
  BY DEF GuessesMove, CheckedAbout, CheckedFailures, GuessingAbout

\* Steps of a request that leave the failures alone, but for a login's first.
LEMMA RequestsMove ==
  ASSUME IndInv, NEW t \in Threads, NEW request, Become(t, request), failures' = failures,
         MayStillFail(request) =>
           MayStillFail(requests[t]) /\ request.e = requests[t].e /\ request.ip = requests[t].ip,
         NEW s \in Subjects
  PROVE  GuessesMove(s)
<1>1. CheckedAbout(s)' = CheckedAbout(s)
  BY DEF CheckedAbout, CheckedFailures
<1>2. GuessingAbout(s)' \subseteq GuessingAbout(s)
  BY GuessersStay
<1>3. QED
  BY <1>1, <1>2 DEF GuessesMove

\* A login that found the limit not reached found it so for its own address
\* and client; of others it is not counted.
LEMMA LoginMoves ==
  ASSUME IndInv, NEW t \in Threads, NEW e \in Emails, NEW ip \in Ips, LoginCounts(t, e, ip),
         NEW s \in Subjects
  PROVE  GuessesMove(s)
<1>. DEFINE row(pc) == [Idle EXCEPT !.op = "login", !.e = e, !.ip = ip, !.pc = pc]
            pc0 == IF CountFailures(e, ip) >= LoginLimit THEN "limited" ELSE "counted"
            request == row(pc0)
<1>1. /\ request.pc = pc0 /\ request.e = e /\ request.ip = ip
      /\ Become(t, request) /\ failures' = failures
  BY DEF LoginCounts, Start, Idle, tables
<1>2. CheckedAbout(s)' = CheckedAbout(s)
  BY <1>1 DEF CheckedAbout, CheckedFailures
<1>. HIDE DEF request
<1>3. CASE CountFailures(e, ip) >= LoginLimit
  <2>1. ~MayStillFail(request)
    BY <1>1, <1>3 DEF MayStillFail
  <2>2. QED
    BY <1>1, <2>1, RequestsMove
<1>4. CASE ~About(request, s)
  <2>1. requests \in [Threads -> Request]
    BY DEF IndInv, TypeOK
  <2>2. \A u \in Threads : requests'[u] = IF u = t THEN request ELSE requests[u]
    BY <1>1, <2>1 DEF Become
  <2>3. \A u \in Threads : About(requests'[u], s) => u # t /\ requests'[u] = requests[u]
    BY <1>4, <2>2
  <2>4. GuessingAbout(s)' \subseteq GuessingAbout(s)
    BY <2>3 DEF GuessingAbout
  <2>5. QED
    BY <1>2, <2>4 DEF GuessesMove
<1>5. CASE ~(CountFailures(e, ip) >= LoginLimit) /\ About(request, s)
  <2>. DEFINE M == {i \in LoginAttempts : Matches(failures[i], e, ip)}
  <2>1. CheckedAbout(s) \subseteq M /\ M \subseteq LoginAttempts
    BY <1>1, <1>5 DEF CheckedAbout, CheckedFailures, Matches, About
  <2>2. IsFiniteSet(M) /\ Cardinality(M) \in Nat
    BY <2>1, FiniteAssumption, FS_Subset, FS_CardinalityType
  <2>3. /\ Cardinality(CheckedAbout(s)) <= Cardinality(M)
        /\ Cardinality(CheckedAbout(s)) \in Nat
    BY <2>1, <2>2, FS_Subset, FS_CardinalityType
  <2>4. ~(Cardinality(M) >= LoginLimit)
    BY <1>5 DEF CountFailures
  <2>. HIDE DEF M
  <2>5. Cardinality(CheckedAbout(s)) < LoginLimit
    BY <2>2, <2>3, <2>4, LimitAssumption
  <2>6. QED
    BY <1>2, <2>5 DEF GuessesMove
<1>6. QED
  BY <1>3, <1>4, <1>5

\* A recorded failure: its thread leaves the same subjects the row joins.
LEMMA FailureMoves ==
  ASSUME IndInv, NEW t \in Threads, NEW kind \in FailureKind, CommitsFailure(t, kind),
         NEW s \in Subjects
  PROVE  GuessesMove(s)
<1>1. failures \in [LoginAttempts -> Failure] /\ requests \in [Threads -> Request]
  BY DEF IndInv, TypeOK
<1>. DEFINE row == [e |-> requests[t].e, ip |-> requests[t].ip, kind |-> kind]
<1>2. /\ row.kind = kind
      /\ About(row, s) <=> About(requests[t], s)
  BY DEF About
<1>3. /\ End(t)
      /\ At(t, "login", IF kind = "checked" THEN "refused" ELSE "limited")
  BY DEF CommitsFailure
<1>4. PICK i \in LoginAttempts :
        failures[i] = NoFailure /\ failures' = [failures EXCEPT ![i] = row]
  BY DEF CommitsFailure
<1>. HIDE DEF row
<1>5. \A j \in LoginAttempts : failures'[j] = IF j = i THEN row ELSE failures[j]
  BY <1>1, <1>4
<1>6. i \notin CheckedAbout(s)
  BY <1>4 DEF CheckedAbout, CheckedFailures, NoFailure
<1>7. CASE kind = "checked" /\ About(row, s)
  <2>1. CheckedAbout(s)' = CheckedAbout(s) \cup {i}
    BY <1>2, <1>5, <1>7 DEF CheckedAbout, CheckedFailures
  <2>2. t \in GuessingAbout(s)
    BY <1>2, <1>3, <1>7 DEF GuessingAbout, MayStillFail, At
  <2>3. \A u \in Threads : requests'[u] = IF u = t THEN Idle ELSE requests[u]
    BY <1>1, <1>3 DEF End, Become
  <2>4. ~MayStillFail(Idle)
    BY DEF MayStillFail, Idle
  <2>5. GuessingAbout(s)' = GuessingAbout(s) \ {t}
    BY <2>3, <2>4 DEF GuessingAbout
  <2>6. QED
    BY <2>1, <2>2, <2>5 DEF GuessesMove
<1>8. CASE ~(kind = "checked" /\ About(row, s))
  <2>1. CheckedAbout(s)' \subseteq CheckedAbout(s)
    BY <1>2, <1>5, <1>8 DEF CheckedAbout, CheckedFailures
  <2>2. Become(t, Idle) /\ ~MayStillFail(Idle)
    BY <1>3 DEF End, MayStillFail, Idle
  <2>3. GuessingAbout(s)' \subseteq GuessingAbout(s)
    BY <2>2, GuessersStay
  <2>4. QED
    BY <2>1, <2>3 DEF GuessesMove
<1>9. QED
  BY <1>7, <1>8

\* Whatever a step does, it moves the guesses at a subject as GuessesMove says.
LEMMA EveryStepMoves ==
  ASSUME IndInv, [Next]_vars, NEW s \in Subjects
  PROVE  GuessesMove(s)
<1>1. ASSUME NEW t \in Threads, RequestStep(t) PROVE GuessesMove(s)
  <2>1. ~MayStillFail(Idle)
    BY DEF MayStillFail, Idle
  <2>2. CASE \/ Collides(t) \/ CommitsSetup(t) \/ CommitsApproval(t) \/ CommitsRejection(t)
             \/ CommitsPassword(t) \/ CommitsSession(t) \/ Lost(t)
    <3>1. Become(t, Idle) /\ failures' = failures
      BY <2>2 DEF Collides, CommitsSetup, CommitsApproval, CommitsRejection,
                  CommitsPassword, CommitsSession, Lost, End, tables
    <3>2. QED
      BY <2>1, <3>1, RequestsMove
  <2>3. CASE \/ \E e \in Emails : SetupCountsAdmins(t, e) \/ ReadsToken(t, e)
             \/ \E a \in Applications, op \in {"approve", "reject"} : ReadsApplication(t, op, a)
    <3>1. ASSUME NEW request, request.op # "login", Become(t, request), UNCHANGED tables
          PROVE  GuessesMove(s)
      BY <3>1, RequestsMove DEF MayStillFail, tables
    <3>2. ASSUME NEW e \in Emails, SetupCountsAdmins(t, e) PROVE GuessesMove(s)
      <4>. DEFINE request == [Idle EXCEPT !.op = "setup", !.pc = "admins_counted", !.e = e]
      <4>1. request.op # "login"
        BY DEF Idle
      <4>2. QED
        BY <3>1, <3>2, <4>1 DEF SetupCountsAdmins, Start
    <3>3. ASSUME NEW e \in Emails, ReadsToken(t, e) PROVE GuessesMove(s)
      <4>. DEFINE request == [Idle EXCEPT !.op = "setup_password", !.pc = "token_read", !.e = e]
      <4>1. request.op # "login"
        BY DEF Idle
      <4>2. QED
        BY <3>1, <3>3, <4>1 DEF ReadsToken, Start
    <3>4. ASSUME NEW a \in Applications, NEW op \in {"approve", "reject"},
                 ReadsApplication(t, op, a)
          PROVE  GuessesMove(s)
      <4>. DEFINE request == [Idle EXCEPT !.op = op, !.pc = "application_read", !.a = a,
                                          !.e = application[a].email]
      <4>1. request.op # "login"
        BY DEF Idle
      <4>2. QED
        BY <3>1, <3>4, <4>1 DEF ReadsApplication, Start
    <3>5. QED
      BY <2>3, <3>2, <3>3, <3>4
  <2>4. CASE SetupReadsSetting(t) \/ ApprovalReadsUser(t)
    <3>1. requests[t] \in Request
      BY DEF IndInv, TypeOK
    <3>2. PICK request : /\ Become(t, request) /\ failures' = failures
                         /\ request.op # "login"
      BY <2>4, <3>1 DEF SetupReadsSetting, ApprovalReadsUser, MovesTo, End, At, Idle, tables,
                        Request
    <3>3. ~MayStillFail(request)
      BY <3>2 DEF MayStillFail
    <3>4. QED
      BY <3>2, <3>3, RequestsMove
  <2>5. CASE LoginVerifies(t)
    <3>1. requests[t] \in Request /\ MayStillFail(requests[t])
      BY <2>5 DEF IndInv, TypeOK, LoginVerifies, At, MayStillFail
    <3>2. PICK pc \in {"verified", "refused"} : MovesTo(t, pc)
      BY <2>5 DEF LoginVerifies
    <3>. DEFINE request == [requests[t] EXCEPT !.pc = pc]
    <3>3. request.e = requests[t].e /\ request.ip = requests[t].ip
      BY <3>1 DEF Request
    <3>4. Become(t, request) /\ failures' = failures
      BY <2>5, <3>2 DEF MovesTo, LoginVerifies, tables
    <3>5. QED
      BY <3>1, <3>3, <3>4, RequestsMove
  <2>6. ASSUME NEW e \in Emails, NEW ip \in Ips, LoginCounts(t, e, ip) PROVE GuessesMove(s)
    BY <2>6, LoginMoves
  <2>7. ASSUME NEW kind \in FailureKind, CommitsFailure(t, kind) PROVE GuessesMove(s)
    BY <2>7, FailureMoves
  <2>8. QED
    BY <1>1, <2>2, <2>3, <2>4, <2>5, <2>6, <2>7 DEF RequestStep
<1>2. CASE \/ \E a \in Applications, e \in Emails : Submit(a, e)
           \/ \E e \in Emails : SessionEnds(e) \/ TokenExpires(e)
           \/ UNCHANGED vars
  BY <1>2, NothingMoves DEF Submit, SessionEnds, TokenExpires, vars, tables
<1>3. ASSUME NEW i \in LoginAttempts, FailureLeavesWindow(i) PROVE GuessesMove(s)
  <2>1. /\ failures \in [LoginAttempts -> Failure]
        /\ failures' = [failures EXCEPT ![i] = NoFailure] /\ requests' = requests
    BY <1>3 DEF IndInv, TypeOK, FailureLeavesWindow
  <2>2. \A j \in LoginAttempts : failures'[j] = IF j = i THEN NoFailure ELSE failures[j]
    BY <2>1
  <2>3. CheckedAbout(s)' \subseteq CheckedAbout(s)
    BY <2>2 DEF CheckedAbout, CheckedFailures, NoFailure
  <2>4. GuessingAbout(s)' \subseteq GuessingAbout(s)
    BY <2>1 DEF GuessingAbout
  <2>5. QED
    BY <2>3, <2>4 DEF GuessesMove
<1>4. QED
  BY <1>1, <1>2, <1>3 DEF Next

\* No login has been tried at the start.
LEMMA NobodyHasGuessed == Init => GuessesCounted
<1>. SUFFICES ASSUME Init, NEW s \in Subjects
     PROVE  Cardinality(CheckedAbout(s)) + Cardinality(GuessingAbout(s)) <= MostGuesses
  BY DEF GuessesCounted
<1>1. CheckedAbout(s) = {} /\ GuessingAbout(s) = {}
  BY DEF Init, CheckedAbout, CheckedFailures, NoFailure, GuessingAbout, MayStillFail, Idle
<1>2. Cardinality({}) = 0 /\ Cardinality(Threads) \in Nat
  BY FS_EmptySet, FS_CardinalityType, FiniteAssumption
<1>3. QED
  BY <1>1, <1>2, LimitAssumption DEF MostGuesses

\* A guess that fails moves from the threads that may still fail to the rows
\* of login_attempts, which lock the subject at the limit.
LEMMA GuessesStayCounted ==
  ASSUME IndInv, GuessesCounted, [Next]_vars
  PROVE  GuessesCounted'
<1>. SUFFICES ASSUME NEW s \in Subjects
     PROVE  Cardinality(CheckedAbout(s)') + Cardinality(GuessingAbout(s)') <= MostGuesses
  BY DEF GuessesCounted, MostGuesses
<1>1. GuessesMove(s)
  BY EveryStepMoves
<1>2. /\ CheckedAbout(s) \subseteq LoginAttempts /\ CheckedAbout(s)' \subseteq LoginAttempts
      /\ GuessingAbout(s) \subseteq Threads /\ GuessingAbout(s)' \subseteq Threads
  BY DEF CheckedAbout, CheckedFailures, GuessingAbout
<1>3. Cardinality(CheckedAbout(s)) + Cardinality(GuessingAbout(s)) <= MostGuesses
  BY DEF GuessesCounted
<1>. DEFINE C == CheckedAbout(s)  D == CheckedAbout(s)'
            G == GuessingAbout(s)  H == GuessingAbout(s)'
<1>4. \/ D \subseteq C /\ H \subseteq G
      \/ \E i \in LoginAttempts, t \in G : D = C \cup {i} /\ H = G \ {t}
      \/ D = C /\ Cardinality(C) < LoginLimit
  BY <1>1 DEF GuessesMove
<1>. HIDE DEF C, D, G, H
<1>5. Cardinality(D) + Cardinality(H) <= MostGuesses
  BY <1>2, <1>3, <1>4, MovesStayBounded DEF C, D, G, H
<1>6. QED
  BY <1>5 DEF D, H

\* The recorded guesses and those still checked are together within the bound.
LEMMA CountedIsBounded == IndInv /\ GuessesCounted => GuessesBounded
<1>. SUFFICES ASSUME IndInv, GuessesCounted PROVE GuessesBounded
  OBVIOUS
<1>1. ASSUME NEW s \in Subjects PROVE Cardinality(CheckedAbout(s)) <= MostGuesses
  <2>1. CheckedAbout(s) \subseteq LoginAttempts /\ GuessingAbout(s) \subseteq Threads
    BY DEF CheckedAbout, CheckedFailures, GuessingAbout
  <2>2. IsFiniteSet(CheckedAbout(s)) /\ IsFiniteSet(GuessingAbout(s))
    BY <2>1, FiniteAssumption, FS_Subset
  <2>3. /\ Cardinality(CheckedAbout(s)) \in Nat /\ Cardinality(GuessingAbout(s)) \in Nat
        /\ Cardinality(Threads) \in Nat
    BY <2>2, FiniteAssumption, FS_CardinalityType
  <2>4. QED
    BY <2>3, LimitAssumption DEF GuessesCounted, MostGuesses
<1>2. ASSUME NEW e \in Emails
      PROVE  Cardinality({i \in CheckedFailures : failures[i].e = e}) <= MostGuesses
  <2>1. <<"e", e>> \in Subjects
    BY DEF Subjects
  <2>2. CheckedAbout(<<"e", e>>) = {i \in CheckedFailures : failures[i].e = e}
    BY DEF CheckedAbout, About
  <2>3. QED
    BY <1>1, <2>1, <2>2
<1>3. ASSUME NEW ip \in Ips
      PROVE  Cardinality({i \in CheckedFailures : failures[i].ip = ip}) <= MostGuesses
  <2>1. <<"ip", ip>> \in Subjects
    BY DEF Subjects
  <2>2. CheckedAbout(<<"ip", ip>>) = {i \in CheckedFailures : failures[i].ip = ip}
    BY DEF CheckedAbout, About
  <2>3. QED
    BY <1>1, <2>1, <2>2
<1>4. QED
  BY <1>2, <1>3 DEF GuessesBounded, MostGuesses

\* Inside the window, however many logins overlap, an address and a client
\* have at most as many checked failures as the limit allows and one for each
\* thread but the first: a thread counts before it checks, and its own
\* failure is recorded before it can count again.
THEOREM GuessesStayBounded == Spec => []GuessesBounded
<1>1. Init => IndInv /\ GuessesCounted
  BY InitEstablishes, NobodyHasGuessed
<1>2. (IndInv /\ GuessesCounted) /\ [Next]_vars => (IndInv /\ GuessesCounted)'
  BY StepPreserves, GuessesStayCounted
<1>3. QED
  BY <1>1, <1>2, CountedIsBounded, PTL DEF Spec

-----------------------------------------------------------------------------
(***************************************************************************)
(* The uses of one token.  A request that has read the token unused will   *)
(* still use it: the invariant counts it with the uses.  From the first    *)
(* use on the token is read as used, so nobody joins those that count.     *)
(***************************************************************************)

\* The requests that set a password with the token of this account.
Setting(e) == {t \in Threads : requests[t].op = "setup_password" /\ requests[t].e = e}

UsesCounted ==
  \A e \in Emails :
    /\ token[e] # "used" => user[e].passwordsSet = 0
    /\ user[e].passwordsSet + Cardinality(Setting(e)) <= Cardinality(Threads)

\* What a step may do to the uses of one token: let requests go, turn one into
\* a use, or let one in while the token is not used.
UsesMove(e) ==
  \/ /\ user'[e].passwordsSet = user[e].passwordsSet
     /\ Setting(e)' \subseteq Setting(e)
     /\ token'[e] = "used" <=> token[e] = "used"
  \/ \E t \in Setting(e) :
       /\ user'[e].passwordsSet = user[e].passwordsSet + 1
       /\ Setting(e)' = Setting(e) \ {t}
       /\ token'[e] = "used"
  \/ /\ user'[e].passwordsSet = user[e].passwordsSet
     /\ token[e] # "used" /\ token'[e] # "used"

\* The numbers behind the three moves.
LEMMA UsesStayWithin ==
  ASSUME NEW m \in Nat, NEW n \in Nat, NEW used \in BOOLEAN, NEW wasUsed \in BOOLEAN,
         NEW G \in SUBSET Threads, NEW H \in SUBSET Threads,
         ~wasUsed => m = 0,
         m + Cardinality(G) <= Cardinality(Threads),
         \/ n = m /\ H \subseteq G /\ (used <=> wasUsed)
         \/ \E t \in G : n = m + 1 /\ H = G \ {t} /\ used
         \/ n = m /\ ~wasUsed /\ ~used
  PROVE  /\ ~used => n = 0
         /\ n + Cardinality(H) <= Cardinality(Threads)
<1>1. IsFiniteSet(G) /\ IsFiniteSet(H) /\ IsFiniteSet(Threads)
  BY FiniteAssumption, FS_Subset
<1>2. /\ Cardinality(G) \in Nat /\ Cardinality(H) \in Nat /\ Cardinality(Threads) \in Nat
      /\ Cardinality(H) <= Cardinality(Threads)
  BY <1>1, FS_CardinalityType, FS_Subset
<1>3. CASE n = m /\ H \subseteq G /\ (used <=> wasUsed)
  <2>1. Cardinality(H) <= Cardinality(G)
    BY <1>1, <1>3, FS_Subset
  <2>2. QED
    BY <1>2, <1>3, <2>1
<1>4. ASSUME NEW t \in G, n = m + 1, H = G \ {t}, used
      PROVE  /\ ~used => n = 0
             /\ n + Cardinality(H) <= Cardinality(Threads)
  <2>1. Cardinality(H) = Cardinality(G) - 1
    BY <1>1, <1>4, FS_RemoveElement
  <2>2. QED
    BY <1>2, <1>4, <2>1
<1>5. CASE n = m /\ ~wasUsed /\ ~used
  BY <1>2, <1>5
<1>6. QED
  BY <1>3, <1>4, <1>5

\* A step that leaves the tables alone moves no use, unless it lets a request
\* in that has read the token open.
LEMMA ReadsMoveNoUse ==
  ASSUME IndInv, NEW t \in Threads, NEW request, Become(t, request),
         UNCHANGED <<user, token>>, NEW e \in Emails,
         \/ request.op # "setup_password"
         \/ request.op = requests[t].op /\ request.e = requests[t].e
         \/ token[request.e] # "used"
  PROVE  UsesMove(e)
<1>1. requests \in [Threads -> Request]
  BY DEF IndInv, TypeOK
<1>2. \A u \in Threads : requests'[u] = IF u = t THEN request ELSE requests[u]
  BY <1>1 DEF Become
<1>3. CASE request.op = "setup_password" /\ request.e = e /\ t \notin Setting(e)
  <2>1. token[e] # "used"
    BY <1>3 DEF Setting
  <2>2. QED
    BY <2>1 DEF UsesMove
<1>4. CASE ~(request.op = "setup_password" /\ request.e = e /\ t \notin Setting(e))
  <2>1. Setting(e)' \subseteq Setting(e)
    BY <1>2, <1>4 DEF Setting
  <2>2. QED
    BY <2>1 DEF UsesMove
<1>5. QED
  BY <1>3, <1>4

\* A request that ends with its commit, or without one, and sets no password.
LEMMA EndsMoveNoUse ==
  ASSUME IndInv, NEW e \in Emails,
         requests' = requests \/ \E t \in Threads : End(t),
         user'[e].passwordsSet = user[e].passwordsSet,
         token'[e] = "used" <=> token[e] = "used"
  PROVE  UsesMove(e)
<1>1. requests \in [Threads -> Request]
  BY DEF IndInv, TypeOK
<1>2. \A u \in Threads : requests'[u] \in {requests[u], Idle}
  BY <1>1 DEF End, Become
<1>3. Idle.op # "setup_password"
  BY DEF Idle
<1>4. Setting(e)' \subseteq Setting(e)
  BY <1>2, <1>3 DEF Setting
<1>5. QED
  BY <1>4 DEF UsesMove

\* A password that is set is a use, and its request is done.
LEMMA PasswordMovesUse ==
  ASSUME IndInv, NEW t \in Threads, CommitsPassword(t), NEW e \in Emails
  PROVE  UsesMove(e)
<1>. DEFINE f == requests[t].e
<1>1. /\ f \in Emails /\ requests[t].op = "setup_password"
      /\ user \in [Emails -> User] /\ requests \in [Threads -> Request]
      /\ token \in [Emails -> {"none", "open", "expired", "used"}]
  BY DEF IndInv, TypeOK, RequestsValid, InProgressValid, CommitsPassword, At
<1>2. /\ user' = [user EXCEPT ![f] = ActiveUser(user[f])]
      /\ token' = [token EXCEPT ![f] = "used"]
      /\ requests' = [requests EXCEPT ![t] = Idle]
  BY <1>1 DEF CommitsPassword, End, Become
<1>3. CASE e = f
  <2>1. user'[e].passwordsSet = user[e].passwordsSet + 1
    BY <1>1, <1>2, <1>3, ActiveRow
  <2>2. token'[e] = "used"
    BY <1>1, <1>2, <1>3
  <2>3. t \in Setting(e)
    BY <1>1, <1>3 DEF Setting
  <2>4. Idle.op # "setup_password"
    BY DEF Idle
  <2>5. \A u \in Threads : requests'[u] = IF u = t THEN Idle ELSE requests[u]
    BY <1>1, <1>2
  <2>6. Setting(e)' = Setting(e) \ {t}
    BY <2>4, <2>5 DEF Setting
  <2>7. QED
    BY <2>1, <2>2, <2>3, <2>6 DEF UsesMove
<1>4. CASE e # f
  <2>1. user'[e] = user[e] /\ token'[e] = token[e] /\ End(t)
    BY <1>1, <1>2, <1>4 DEF End, Become
  <2>2. QED
    BY <2>1, EndsMoveNoUse
<1>5. QED
  BY <1>3, <1>4

\* The rows that setup and approvals insert have a token that is not used.
LEMMA InsertsMoveNoUse ==
  ASSUME IndInv, NEW t \in Threads, CommitsSetup(t) \/ CommitsApproval(t), NEW e \in Emails
  PROVE  UsesMove(e)
<1>. DEFINE f == requests[t].e
<1>1. /\ f \in Emails /\ user[f] = NoUser
      /\ user \in [Emails -> User]
      /\ token \in [Emails -> {"none", "open", "expired", "used"}]
      /\ End(t)
  BY DEF IndInv, TypeOK, RequestsValid, InProgressValid, CommitsSetup, CommitsApproval, At,
         MayInsert
<1>2. PICK row \in {Admin, PendingUser} : user' = [user EXCEPT ![f] = row]
  BY DEF CommitsSetup, CommitsApproval
<1>3. user'[e].passwordsSet = user[e].passwordsSet
  BY <1>1, <1>2, NewUsers
<1>4. token[f] = "none"
  BY <1>1, NewUsers DEF IndInv, TokensOfUsers, TypeOK
<1>5. token' = token \/ token' = [token EXCEPT ![f] = "open"]
  BY DEF CommitsSetup, CommitsApproval
<1>6. token'[e] = "used" <=> token[e] = "used"
  BY <1>1, <1>4, <1>5
<1>7. QED
  BY <1>1, <1>3, <1>6, EndsMoveNoUse

\* Whatever a step does, it moves the uses of a token as UsesMove says.
LEMMA EveryStepMovesUses ==
  ASSUME IndInv, [Next]_vars, NEW e \in Emails
  PROVE  UsesMove(e)
<1>1. ASSUME NEW t \in Threads, RequestStep(t) PROVE UsesMove(e)
  <2>1. CASE CommitsSetup(t) \/ CommitsApproval(t) \/ CommitsPassword(t)
    BY <2>1, InsertsMoveNoUse, PasswordMovesUse
  <2>2. CASE \/ Collides(t) \/ CommitsRejection(t) \/ CommitsSession(t) \/ Lost(t)
             \/ \E kind \in FailureKind : CommitsFailure(t, kind)
    <3>1. End(t) /\ UNCHANGED <<user, token>>
      BY <2>2 DEF Collides, CommitsRejection, CommitsSession, CommitsFailure, Lost, tables
    <3>2. QED
      BY <3>1, EndsMoveNoUse
  <2>3. ASSUME NEW f \in Emails, ReadsToken(t, f) PROVE UsesMove(e)
    <3>. DEFINE request == [Idle EXCEPT !.op = "setup_password", !.pc = "token_read", !.e = f]
    <3>1. request.e = f /\ token[f] # "used"
      BY <2>3 DEF Idle, ReadsToken
    <3>2. Become(t, request) /\ UNCHANGED <<user, token>>
      BY <2>3 DEF ReadsToken, Start, tables
    <3>. HIDE DEF request
    <3>3. QED
      BY <3>1, <3>2, ReadsMoveNoUse
  <2>4. ASSUME NEW request, request.op # "setup_password", Become(t, request),
               UNCHANGED <<user, token>>
        PROVE  UsesMove(e)
    BY <2>4, ReadsMoveNoUse
  <2>5. ASSUME NEW f \in Emails, SetupCountsAdmins(t, f) PROVE UsesMove(e)
    <3>. DEFINE request == [Idle EXCEPT !.op = "setup", !.pc = "admins_counted", !.e = f]
    <3>1. request.op # "setup_password"
      BY DEF Idle
    <3>2. QED
      BY <2>4, <2>5, <3>1 DEF SetupCountsAdmins, Start, tables
  <2>6. ASSUME NEW a \in Applications, NEW op \in {"approve", "reject"},
               ReadsApplication(t, op, a)
        PROVE  UsesMove(e)
    <3>. DEFINE request == [Idle EXCEPT !.op = op, !.pc = "application_read", !.a = a,
                                        !.e = application[a].email]
    <3>1. request.op # "setup_password"
      BY DEF Idle
    <3>2. QED
      BY <2>4, <2>6, <3>1 DEF ReadsApplication, Start, tables
  <2>7. ASSUME NEW f \in Emails, NEW ip \in Ips, LoginCounts(t, f, ip) PROVE UsesMove(e)
    <3>1. PICK pc \in {"limited", "counted"} :
            Become(t, [Idle EXCEPT !.op = "login", !.e = f, !.ip = ip, !.pc = pc])
      BY <2>7 DEF LoginCounts, Start
    <3>. DEFINE request == [Idle EXCEPT !.op = "login", !.e = f, !.ip = ip, !.pc = pc]
    <3>2. request.op # "setup_password"
      BY DEF Idle
    <3>3. UNCHANGED <<user, token>>
      BY <2>7 DEF LoginCounts, tables
    <3>4. QED
      BY <2>4, <3>1, <3>2, <3>3
  <2>8. CASE SetupReadsSetting(t) \/ ApprovalReadsUser(t) \/ LoginVerifies(t)
    <3>1. requests[t] \in Request
      BY DEF IndInv, TypeOK
    <3>2. /\ requests[t].op # "setup_password" /\ UNCHANGED <<user, token>>
          /\ End(t) \/ \E pc \in {"available", "user_read", "verified", "refused"} :
                         MovesTo(t, pc)
      BY <2>8 DEF SetupReadsSetting, ApprovalReadsUser, LoginVerifies, At, tables
    <3>3. CASE End(t)
      BY <3>2, <3>3, EndsMoveNoUse
    <3>4. ASSUME NEW pc \in {"available", "user_read", "verified", "refused"}, MovesTo(t, pc)
          PROVE  UsesMove(e)
      <4>. DEFINE request == [requests[t] EXCEPT !.pc = pc]
      <4>1. request.op # "setup_password"
        BY <3>1, <3>2 DEF Request
      <4>2. QED
        BY <2>4, <3>2, <3>4, <4>1 DEF MovesTo
    <3>5. QED
      BY <3>2, <3>3, <3>4
  <2>9. QED
    BY <1>1, <2>1, <2>2, <2>3, <2>5, <2>6, <2>7, <2>8 DEF RequestStep
<1>2. CASE \/ \E a \in Applications, f \in Emails : Submit(a, f)
           \/ \E f \in Emails : SessionEnds(f)
           \/ \E i \in LoginAttempts : FailureLeavesWindow(i)
           \/ UNCHANGED vars
  <2>1. UNCHANGED <<user, token, requests>>
    BY <1>2 DEF Submit, SessionEnds, FailureLeavesWindow, vars, tables
  <2>2. QED
    BY <2>1, EndsMoveNoUse
<1>3. ASSUME NEW f \in Emails, TokenExpires(f) PROVE UsesMove(e)
  <2>1. /\ UNCHANGED <<user, requests>> /\ token[f] = "open"
        /\ token \in [Emails -> {"none", "open", "expired", "used"}]
        /\ token' = [token EXCEPT ![f] = "expired"]
    BY <1>3 DEF IndInv, TypeOK, TokenExpires
  <2>2. token'[e] = "used" <=> token[e] = "used"
    BY <2>1
  <2>3. QED
    BY <2>1, <2>2, EndsMoveNoUse
<1>4. QED
  BY <1>1, <1>2, <1>3 DEF Next

\* No token has been used at the start.
LEMMA NoTokenUsed == Init => UsesCounted
<1>. SUFFICES ASSUME Init, NEW e \in Emails
     PROVE  /\ user[e].passwordsSet = 0
            /\ user[e].passwordsSet + Cardinality(Setting(e)) <= Cardinality(Threads)
  BY DEF UsesCounted
<1>1. Setting(e) = {} /\ user[e].passwordsSet = 0
  BY NewUsers DEF Init, Setting, Idle
<1>2. Cardinality({}) = 0 /\ Cardinality(Threads) \in Nat
  BY FS_EmptySet, FS_CardinalityType, FiniteAssumption
<1>3. QED
  BY <1>1, <1>2

\* A use moves from the requests that have read the token to the account.
LEMMA UsesStayCounted ==
  ASSUME IndInv, IndInv', UsesCounted, [Next]_vars
  PROVE  UsesCounted'
<1>. SUFFICES ASSUME NEW e \in Emails
     PROVE  /\ token'[e] # "used" => user'[e].passwordsSet = 0
            /\ user'[e].passwordsSet + Cardinality(Setting(e)') <= Cardinality(Threads)
  BY DEF UsesCounted
<1>1. UsesMove(e)
  BY EveryStepMovesUses
<1>2. Setting(e) \subseteq Threads /\ Setting(e)' \subseteq Threads
  BY DEF Setting
<1>3. user[e].passwordsSet \in Nat /\ user'[e].passwordsSet \in Nat
  BY DEF IndInv, TypeOK, User
<1>4. /\ token[e] # "used" => user[e].passwordsSet = 0
      /\ user[e].passwordsSet + Cardinality(Setting(e)) <= Cardinality(Threads)
  BY DEF UsesCounted
<1>. DEFINE m == user[e].passwordsSet  n == user'[e].passwordsSet
            G == Setting(e)  H == Setting(e)'
            wasUsed == token[e] = "used"  used == token'[e] = "used"
<1>5. \/ n = m /\ H \subseteq G /\ (used <=> wasUsed)
      \/ \E t \in G : n = m + 1 /\ H = G \ {t} /\ used
      \/ n = m /\ ~wasUsed /\ ~used
  BY <1>1 DEF UsesMove
<1>6. /\ m \in Nat /\ n \in Nat /\ G \in SUBSET Threads /\ H \in SUBSET Threads
      /\ wasUsed \in BOOLEAN /\ used \in BOOLEAN
      /\ ~wasUsed => m = 0
      /\ m + Cardinality(G) <= Cardinality(Threads)
  BY <1>2, <1>3, <1>4
<1>. HIDE DEF m, n, G, H, wasUsed, used
<1>7. (~used => n = 0) /\ n + Cardinality(H) <= Cardinality(Threads)
  BY <1>5, <1>6, UsesStayWithin
<1>8. QED
  BY <1>7 DEF n, H, used

\* What has been used and what still will be are together within the bound.
LEMMA UsesCountedIsBounded == IndInv /\ UsesCounted => TokenUsesBounded
<1>. SUFFICES ASSUME IndInv, UsesCounted, NEW e \in Emails
     PROVE  user[e].passwordsSet <= Cardinality(Threads)
  BY DEF TokenUsesBounded
<1>1. IsFiniteSet(Setting(e))
  BY FiniteAssumption, FS_Subset DEF Setting
<1>2. Cardinality(Setting(e)) \in Nat /\ Cardinality(Threads) \in Nat
  BY <1>1, FiniteAssumption, FS_CardinalityType
<1>3. user[e].passwordsSet \in Nat
  BY DEF IndInv, TypeOK, User
<1>4. user[e].passwordsSet + Cardinality(Setting(e)) <= Cardinality(Threads)
  BY DEF UsesCounted
<1>5. QED
  BY <1>2, <1>3, <1>4

\* A token sets a password at most once for each thread: the requests that
\* read it unused are in progress at its first use, and used_at turns every
\* later one away.
THEOREM TokenUsesStayBounded == Spec => []TokenUsesBounded
<1>1. Init => IndInv /\ UsesCounted
  BY InitEstablishes, NoTokenUsed
<1>2. (IndInv /\ UsesCounted) /\ [Next]_vars => (IndInv /\ UsesCounted)'
  BY StepPreserves, UsesStayCounted
<1>3. QED
  BY <1>1, <1>2, UsesCountedIsBounded, PTL DEF Spec
=============================================================================
