------------------------------ MODULE Accounts ------------------------------
(***************************************************************************)
(* How an account comes to be and is signed in to: SetupModule,            *)
(* ApplicationModule and AuthModule behind the API.  Requests run in       *)
(* threads as in DeviceRequests: what a handler reads it reads without a   *)
(* lock, and from its first INSERT or UPDATE to its commit it is alone.    *)
(* Here every such transaction is one step, since nothing reads its        *)
(* uncommitted rows.  A request that is refused commits no change, unless  *)
(* said otherwise.                                                         *)
(*                                                                         *)
(* Refusals that depend on the request alone (malformed e-mail, device     *)
(* counts, weak passwords, access groups that are missing, disabled or not *)
(* the actor's to grant) are left out.  Whether a password is the right    *)
(* one is a choice.  Only administrators decide: no code makes approvers.  *)
(***************************************************************************)
EXTENDS Naturals, FiniteSets

CONSTANTS
  Emails,         \* addresses, in the normal form strip().lower() gives them
  Applications,   \* identifiers of application rows
  LoginAttempts,  \* identifiers of rows of login_attempts
  Ips,            \* addresses requests come from
  Threads,        \* the requests that can be in progress at once
  LoginLimit,     \* login_rate_limit_attempts
  Operations,     \* bound: the requests that this instance interleaves
  None

ASSUME NoneAssumption == None \notin Emails \cup Applications \cup Ips

ASSUME LimitAssumption == LoginLimit \in Nat \ {0}

\* The server has a pool of threads; LoginAttempts is a bound as well.
ASSUME FiniteAssumption == IsFiniteSet(Threads) /\ IsFiniteSet(LoginAttempts)

VARIABLES
  user,           \* table users, by e-mail (UNIQUE)
  setupCompleted, \* system_settings.setup_completed
  application,    \* table applications, each with its approval_records
  token,          \* password_tokens: the one token of each approved account
  signedIn,       \* the accounts with a session neither revoked nor expired
  failures,       \* table login_attempts: the failed rows inside the window
  requests        \* what each thread is doing

tables == <<user, setupCompleted, application, token, signedIn, failures>>
vars == <<tables, requests>>

\* The statuses the code writes; approved, active, cancelled, disabled and
\* expired are declared, and written by nothing.
ApplicationStatus == {"absent", "submitted", "account_setup_pending", "rejected"}

\* StateMachineModule._allowed[ApplicationStatus].
AllowedApplicationTransitions ==
  ({"submitted"} \X {"approved", "account_setup_pending", "rejected", "cancelled"})
  \cup ({"approved"} \X {"account_setup_pending"})
  \cup ({"account_setup_pending"} \X {"active", "disabled", "expired"})
  \cup ({"active"} \X {"disabled", "expired"})

\* passwordsSet is history: how many requests have set a password with the
\* token of the account.
User ==
  [role : {"none", "admin", "user"}, status : {"none", "pending_password", "active"},
   password : BOOLEAN, passwordsSet : Nat]

\* approvals and rejections count the approval_records of either action.
Application ==
  [email : Emails \cup {None}, status : ApplicationStatus, approvals : Nat, rejections : Nat]

\* checked: a wrong password, or an account that cannot sign in;
\* limited: turned away unchecked.
FailureKind == {"checked", "limited"}

Failure ==
  [e : Emails \cup {None}, ip : Ips \cup {None}, kind : FailureKind \cup {"none"}]

Request ==
  [op : {"none", "setup", "approve", "reject", "setup_password", "login"},
   pc : {"idle", "admins_counted", "available", "application_read", "user_read",
         "token_read", "counted", "limited", "refused", "verified"},
   a : Applications \cup {None}, e : Emails \cup {None}, ip : Ips \cup {None}]

TypeOK ==
  /\ user \in [Emails -> User]
  /\ setupCompleted \in BOOLEAN
  /\ application \in [Applications -> Application]
  /\ token \in [Emails -> {"none", "open", "expired", "used"}]
  /\ signedIn \subseteq Emails
  /\ failures \in [LoginAttempts -> Failure]
  /\ requests \in [Threads -> Request]

NoUser == [role |-> "none", status |-> "none", password |-> FALSE, passwordsSet |-> 0]

Admin == [NoUser EXCEPT !.role = "admin", !.status = "active", !.password = TRUE]

PendingUser == [NoUser EXCEPT !.role = "user", !.status = "pending_password"]

NoApplication == [email |-> None, status |-> "absent", approvals |-> 0, rejections |-> 0]

NoFailure == [e |-> None, ip |-> None, kind |-> "none"]

Idle == [op |-> "none", pc |-> "idle", a |-> None, e |-> None, ip |-> None]

Init ==
  /\ user = [e \in Emails |-> NoUser]
  /\ setupCompleted = FALSE
  /\ application = [a \in Applications |-> NoApplication]
  /\ token = [e \in Emails |-> "none"]
  /\ signedIn = {}
  /\ failures = [i \in LoginAttempts |-> NoFailure]
  /\ requests = [t \in Threads |-> Idle]

-----------------------------------------------------------------------------

At(t, op, pc) == requests[t].op = op /\ requests[t].pc = pc

Become(t, request) == requests' = [requests EXCEPT ![t] = request]

Start(t, request) ==
  /\ requests[t] = Idle
  /\ request.op \in Operations
  /\ Become(t, request)

MovesTo(t, pc) == Become(t, [requests[t] EXCEPT !.pc = pc])

End(t) == Become(t, Idle)

\* Mutant: no UNIQUE constraint.
MayInsertAny(e) == TRUE

\* UNIQUE(email), which the database checks at the INSERT.
MayInsert(e) == user[e] = NoUser

\* The INSERT fails: the answer is an error and the transaction is undone.
Collides(t) ==
  /\ At(t, "setup", "available") \/ At(t, "approve", "user_read")
  /\ ~MayInsert(requests[t].e)
  /\ End(t)
  /\ UNCHANGED tables

-----------------------------------------------------------------------------
(***************************************************************************)
(* SetupModule.complete_setup: it counts administrators, then reads the    *)
(* setting, then inserts the first administrator.                          *)
(***************************************************************************)

Admins == {e \in Emails : user[e].role = "admin"}

SetupCountsAdmins(t, e) ==
  /\ Admins = {}
  /\ Start(t, [Idle EXCEPT !.op = "setup", !.pc = "admins_counted", !.e = e])
  /\ UNCHANGED tables

SetupReadsSetting(t) ==
  /\ At(t, "setup", "admins_counted")
  /\ IF setupCompleted THEN End(t) ELSE MovesTo(t, "available")
  /\ UNCHANGED tables

\* Mutant: the setting is not stored.
CommitsAdminOnly(t) ==
  /\ At(t, "setup", "available")
  /\ MayInsert(requests[t].e)
  /\ user' = [user EXCEPT ![requests[t].e] = Admin]
  /\ End(t)
  /\ UNCHANGED <<setupCompleted, application, token, signedIn, failures>>

CommitsSetup(t) ==
  /\ At(t, "setup", "available")
  /\ MayInsert(requests[t].e)
  /\ user' = [user EXCEPT ![requests[t].e] = Admin]
  /\ setupCompleted' = TRUE
  /\ End(t)
  /\ UNCHANGED <<application, token, signedIn, failures>>

-----------------------------------------------------------------------------
(***************************************************************************)
(* ApplicationModule.                                                      *)
(***************************************************************************)

SubmittedApplication(e) == [NoApplication EXCEPT !.email = e, !.status = "submitted"]

\* submit: an INSERT, whoever has applied or has an account already.
Submit(a, e) ==
  /\ "submit" \in Operations
  /\ application[a] = NoApplication
  /\ application' = [application EXCEPT ![a] = SubmittedApplication(e)]
  /\ UNCHANGED <<user, setupCompleted, token, signedIn, failures, requests>>

\* The session of the actor, then _get_submitted_application.
ReadsApplication(t, op, a) ==
  /\ signedIn \cap Admins # {}
  /\ application[a].status = "submitted"
  /\ Start(t, [Idle EXCEPT !.op = op, !.pc = "application_read", !.a = a,
                           !.e = application[a].email])
  /\ UNCHANGED tables

\* approve refuses an address that has an account.
ApprovalReadsUser(t) ==
  /\ At(t, "approve", "application_read")
  /\ IF user[requests[t].e] = NoUser THEN MovesTo(t, "user_read") ELSE End(t)
  /\ UNCHANGED tables

\* Mutant: the status in between is left in the row.
ApplicationInBetween(row) == [row EXCEPT !.status = "approved", !.approvals = @ + 1]

\* Decisions write the status whatever has become of the row since it was
\* read, and add a record.
ApprovedApplication(row) ==
  [row EXCEPT !.status = "account_setup_pending", !.approvals = @ + 1]

\* Mutant: no approval record.
UnrecordedRejection(row) == [row EXCEPT !.status = "rejected"]

RejectedApplication(row) == [row EXCEPT !.status = "rejected", !.rejections = @ + 1]

\* The mail with the link is sent under the lock; its failure changes nothing.
CommitsApproval(t) ==
  LET e == requests[t].e IN
  /\ At(t, "approve", "user_read")
  /\ MayInsert(e)
  /\ user' = [user EXCEPT ![e] = PendingUser]
  /\ application' = [application EXCEPT ![requests[t].a] = ApprovedApplication(@)]
  /\ token' = [token EXCEPT ![e] = "open"]
  /\ End(t)
  /\ UNCHANGED <<setupCompleted, signedIn, failures>>

CommitsRejection(t) ==
  /\ At(t, "reject", "application_read")
  /\ application' = [application EXCEPT ![requests[t].a] = RejectedApplication(@)]
  /\ End(t)
  /\ UNCHANGED <<user, setupCompleted, token, signedIn, failures>>

-----------------------------------------------------------------------------
(***************************************************************************)
(* AuthModule.setup_password, behind two end points.  The user it loads    *)
(* next can only be pending or active, and is not deleted by anything.     *)
(***************************************************************************)

ReadsToken(t, e) ==
  /\ token[e] = "open"
  /\ Start(t, [Idle EXCEPT !.op = "setup_password", !.pc = "token_read", !.e = e])
  /\ UNCHANGED tables

ActiveUser(row) ==
  [row EXCEPT !.password = TRUE, !.status = "active", !.passwordsSet = @ + 1]

\* Mutant: used_at is not set.
CommitsPasswordOnly(t) ==
  /\ At(t, "setup_password", "token_read")
  /\ user' = [user EXCEPT ![requests[t].e] = ActiveUser(@)]
  /\ End(t)
  /\ UNCHANGED <<setupCompleted, application, token, signedIn, failures>>

CommitsPassword(t) ==
  /\ At(t, "setup_password", "token_read")
  /\ user' = [user EXCEPT ![requests[t].e] = ActiveUser(@)]
  /\ token' = [token EXCEPT ![requests[t].e] = "used"]
  /\ End(t)
  /\ UNCHANGED <<setupCompleted, application, signedIn, failures>>

-----------------------------------------------------------------------------
(***************************************************************************)
(* AuthModule.login: failures are counted, the user is loaded and the      *)
(* password verified, then the session or the failure is inserted.         *)
(***************************************************************************)

\* Mutant: only the client's failures count.
MatchesIp(row, e, ip) == row.ip = ip

\* The failures of _is_rate_limited: of the address or of the client.
Matches(row, e, ip) == row.e = e \/ row.ip = ip

CountFailures(e, ip) ==
  Cardinality({i \in LoginAttempts : Matches(failures[i], e, ip)})

\* Bound: a login starts only if there will be an identifier for its failure.
FailureRoom ==
  Cardinality({i \in LoginAttempts : failures[i] # NoFailure})
    + Cardinality({t \in Threads : requests[t].op = "login"}) < Cardinality(LoginAttempts)

LoginCounts(t, e, ip) ==
  /\ FailureRoom
  /\ Start(t, [Idle EXCEPT !.op = "login", !.e = e, !.ip = ip,
                 !.pc = IF CountFailures(e, ip) >= LoginLimit
                        THEN "limited" ELSE "counted"])
  /\ UNCHANGED tables

\* Mutant: the status is not looked at, nor the missing hash.
MayVerifyAny(row) == row # NoUser

\* An active account whose hash some password matches.
MayVerify(row) == row.status = "active" /\ row.password

LoginVerifies(t) ==
  /\ At(t, "login", "counted")
  /\ \/ MayVerify(user[requests[t].e]) /\ MovesTo(t, "verified")
     \/ MovesTo(t, "refused")
  /\ UNCHANGED tables

\* A refused login commits its row all the same; it counts for the next one.
CommitsFailure(t, kind) ==
  /\ At(t, "login", IF kind = "checked" THEN "refused" ELSE "limited")
  /\ \E i \in LoginAttempts :
       /\ failures[i] = NoFailure
       /\ failures' = [failures EXCEPT
            ![i] = [e |-> requests[t].e, ip |-> requests[t].ip, kind |-> kind]]
  /\ End(t)
  /\ UNCHANGED <<user, setupCompleted, application, token, signedIn>>

CommitsSession(t) ==
  /\ At(t, "login", "verified")
  /\ signedIn' = signedIn \cup {requests[t].e}
  /\ End(t)
  /\ UNCHANGED <<user, setupCompleted, application, token, failures>>

\* logout of the last session of an account, or the last one's expiry.
SessionEnds(e) ==
  /\ e \in signedIn
  /\ signedIn' = signedIn \ {e}
  /\ UNCHANGED <<user, setupCompleted, application, token, failures, requests>>

-----------------------------------------------------------------------------

TokenExpires(e) ==
  /\ token[e] = "open"
  /\ token' = [token EXCEPT ![e] = "expired"]
  /\ UNCHANGED <<user, setupCompleted, application, signedIn, failures, requests>>

\* A failed login gets older than login_rate_limit_window_minutes.
FailureLeavesWindow(i) ==
  /\ failures[i] # NoFailure
  /\ failures' = [failures EXCEPT ![i] = NoFailure]
  /\ UNCHANGED <<user, setupCompleted, application, token, signedIn, requests>>

\* "database is locked", or the process ends.
Lost(t) ==
  /\ requests[t] # Idle
  /\ End(t)
  /\ UNCHANGED tables

RequestStep(t) ==
  \/ Collides(t)
  \/ \E e \in Emails : SetupCountsAdmins(t, e) \/ ReadsToken(t, e)
  \/ SetupReadsSetting(t) \/ CommitsSetup(t)
  \/ \E a \in Applications, op \in {"approve", "reject"} : ReadsApplication(t, op, a)
  \/ ApprovalReadsUser(t) \/ CommitsApproval(t) \/ CommitsRejection(t)
  \/ CommitsPassword(t)
  \/ \E e \in Emails, ip \in Ips : LoginCounts(t, e, ip)
  \/ LoginVerifies(t) \/ CommitsSession(t)
  \/ \E kind \in FailureKind : CommitsFailure(t, kind)
  \/ Lost(t)

Next ==
  \/ \E t \in Threads : RequestStep(t)
  \/ \E a \in Applications, e \in Emails : Submit(a, e)
  \/ \E e \in Emails : SessionEnds(e) \/ TokenExpires(e)
  \/ \E i \in LoginAttempts : FailureLeavesWindow(i)

Spec == Init /\ [][Next]_vars

-----------------------------------------------------------------------------
(***************************************************************************)
(* Properties.                                                             *)
(***************************************************************************)

Approved(a) == application[a].approvals > 0

\* However approvals race, for one application or for several of one address,
\* at most one of them is recorded, and then the address has its account.
OneApprovalPerAccount ==
  /\ \A a \in Applications : application[a].approvals <= 1
  /\ \A a, b \in Applications :
       Approved(a) /\ Approved(b) /\ application[a].email = application[b].email => a = b
  /\ \A e \in Emails :
       user[e].role = "user" <=> \E a \in Applications : Approved(a) /\ application[a].email = e

\* An approved account has a token; it is active, and has a password, from
\* the use of that token on and not before.
PasswordComesWithToken ==
  \A e \in Emails : user[e].role = "user" =>
    /\ token[e] # "none"
    /\ user[e].password <=> token[e] = "used"
    /\ user[e].status = "active" <=> token[e] = "used"

\* The "one-time" token is no lock: every request that has read it unused sets
\* the password.  But only those that were in progress at its first use do, so
\* it is never used more often than there are threads.
TokenUsesBounded == \A e \in Emails : user[e].passwordsSet <= Cardinality(Threads)

\* pending_password users cannot sign in: behind every session there is an
\* active account that has a password.
SessionsOfActiveAccounts ==
  \A e \in signedIn : user[e].status = "active" /\ user[e].password

\* There is an administrator if and only if setup is marked as completed.
SetupMatchesAdmin == setupCompleted <=> Admins # {}

\* An application's status is that of a recorded decision on it; submitted
\* means that there is none.
DecisionsRecorded ==
  \A a \in Applications :
    LET row == application[a] IN
    /\ row.status = "account_setup_pending" => row.approvals > 0
    /\ row.status = "rejected" => row.rejections > 0
    /\ row.status \in {"absent", "submitted"} => row.approvals + row.rejections = 0

CheckedFailures == {i \in LoginAttempts : failures[i].kind = "checked"}

\* The failed passwords inside a window, of one address or of one client:
\* every thread beyond the first may add one to the limit, and no more.
GuessesBounded ==
  LET Most == LoginLimit + Cardinality(Threads) - 1
  IN /\ \A e \in Emails : Cardinality({i \in CheckedFailures : failures[i].e = e}) <= Most
     /\ \A ip \in Ips : Cardinality({i \in CheckedFailures : failures[i].ip = ip}) <= Most

\* What docs/security-model.md says of every status change: the state
\* machine's table has the transition.
DecisionStep ==
  \A a \in Applications :
    LET before == application[a].status
        after == application'[a].status
    IN before \notin {"absent", after} => <<before, after>> \in AllowedApplicationTransitions

\* No decision on an application goes against the table: what was rejected is
\* not approved, and the other way round.
DecisionsFollowTable == [][DecisionStep]_vars
=============================================================================
