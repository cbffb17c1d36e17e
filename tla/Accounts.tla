------------------------------ MODULE Accounts ------------------------------
(***************************************************************************)
(* Invitations, accounts, their sessions, passwords and recovery codes,    *)
(* and the monthly AI quota: auth.py, auth_limits.py and the commands of   *)
(* manage_users.py.                                                        *)
(*                                                                         *)
(* A request is first authenticated against a live session; the user row   *)
(* it loaded then is what it goes on with.  Operations that need the       *)
(* password spend a unit of a request budget, committed on its own, and    *)
(* then hold the user row FOR UPDATE until their commit.  Everything that  *)
(* writes the user row, or inserts a row that refers to it, waits for that *)
(* lock.                                                                   *)
(*                                                                         *)
(* The purge of an account (account_deletion.py) is here with what it does *)
(* to these tables: its two transactions, each under the row lock.  The    *)
(* data and files of the account are in AccountFiles.                      *)
(***************************************************************************)
EXTENDS Integers, Sequences, FiniteSetsExt

CONSTANTS
  Users,      \* accounts, by id: one registered under the name of a purged one is another
  Followed,   \* bound: the accounts that do more than register
  Invites,
  Requests,   \* requests the server handles at the same time
  NoUser,
  NoInvite,
  Budget,     \* by kind, the attempts one window allows
  MaxUses,    \* registrations one invitation is good for
  Limits,     \* monthly limits the operator sets
  MaxWindows, \* bound on the times the attempts of one budget are set back
  MaxChanges  \* bound on passwords, recovery codes and sessions together

ASSUME AccountsAssumption ==
  /\ Followed \subseteq Users
  /\ NoUser \notin Users /\ NoInvite \notin Invites
  /\ Budget \in [{"login", "reset", "password"} -> Nat \ {0}] /\ MaxUses \in Nat \ {0}
  /\ Limits \subseteq Nat /\ MaxChanges \in Nat /\ MaxWindows \in Nat \ {0}

VARIABLES
  users,     \* the users table
  invites,   \* the registration_invites table
  sessions,  \* the user_sessions table, in the order of creation
  spent,     \* auth_rate_limits: by kind, the window and the attempts in it
  requests,  \* the requests under way, with the row locks they hold
  usage,     \* job_count of the current month
  closing,   \* the accounts between the two transactions of their purge
  history    \* what happened, for the properties: it steers nothing

vars == <<users, invites, sessions, spent, requests, usage, closing, history>>

Kinds == {"login", "reset", "password"}
\* password and issued number the passwords and the recovery codes an account has had;
\* code is 0 where recovery_code_hash is NULL.  The row is gone when the status is purged.
UserRows == [status: {"absent", "active", "inactive", "purged"}, password: Nat, issued: Nat,
             code: Nat, leaving: BOOLEAN, limit: Nat]
InviteRows == [uses: 0..MaxUses, state: {"absent", "open", "closed"}]
\* window numbers the times the attempts were set back to one; 0 is no row.
BudgetRows == [window: 0..MaxWindows, attempts: Nat]
SessionRows == [user: Users, password: Nat, live: BOOLEAN]
\* loaded is the uses_count of the invitation, or the password a login was accepted with;
\* a request keeps of what it loaded only what it still uses.
RequestRows == [stage: {"idle", "read", "charged", "locked"}, kind: Kinds \cup {"register", "none"},
                user: Users \cup {NoUser}, invite: Invites \cup {NoInvite}, session: Nat,
                leaving: BOOLEAN, limit: Nat, window: 0..MaxWindows, loaded: Nat]
\* checks counts the comparisons by the window they were charged in; invite is what the
\* account came in through, which the table forgets with the row.
HistoryRows == [checks: [Kinds -> [1..MaxWindows -> Nat]], resets: Nat, granted: Nat,
                invite: Invites \cup {NoInvite}]

TypeOK ==
  /\ users \in [Users -> UserRows]
  /\ invites \in [Invites -> InviteRows]
  /\ sessions \in Seq(SessionRows)
  /\ spent \in [Users -> [Kinds -> BudgetRows]]
  /\ requests \in [Requests -> RequestRows]
  /\ usage \in [Users -> Nat]
  /\ closing \subseteq Users
  /\ history \in [Users -> HistoryRows]
  /\ \A u \in Users : users[u].status = "absent" => users[u].password = 0

NoRow == [status |-> "absent", password |-> 0, issued |-> 0, code |-> 0,
          leaving |-> FALSE, limit |-> 0]
Idle == [stage |-> "idle", kind |-> "none", user |-> NoUser, invite |-> NoInvite, session |-> 0,
         leaving |-> FALSE, limit |-> 0, window |-> 0, loaded |-> 0]

Init ==
  /\ users = [u \in Users |-> NoRow]
  /\ invites = [i \in Invites |-> [uses |-> 0, state |-> "absent"]]
  /\ sessions = <<>>
  /\ spent = [u \in Users |-> [k \in Kinds |-> [window |-> 0, attempts |-> 0]]]
  /\ requests = [r \in Requests |-> Idle]
  /\ usage = [u \in Users |-> 0]
  /\ closing = {}
  /\ history = [u \in Users |-> [checks |-> [k \in Kinds |-> [w \in 1..MaxWindows |-> 0]],
                                 resets |-> 0, granted |-> 0, invite |-> NoInvite]]

Changes == Len(sessions) + MapThenSumSet(LAMBDA u : users[u].password + users[u].issued, Users)
Present(u) == users[u].status \notin {"absent", "purged"}
Holds(r, u) == requests[r].stage = "locked" /\ requests[r].kind \in Kinds /\ requests[r].user = u
\* Nobody holds the row of u FOR UPDATE.
Free(u) == \A r \in Requests : ~Holds(r, u)
HoldsInvite(r, i) == requests[r].stage = "locked" /\ requests[r].invite = i
InviteFree(i) == \A r \in Requests : ~HoldsInvite(r, i)
Finish(r) == requests' = [requests EXCEPT ![r] = Idle]
-----------------------------------------------------------------------------
(* Invitations and registration.                                           *)

\* The command line creates an account, without a recovery code, while none is active.
CreateAdmin(u) ==
  /\ \A v \in Users : users[v].status # "active"
  /\ users[u].status = "absent" /\ Changes < MaxChanges
  /\ users' = [users EXCEPT ![u] = [NoRow EXCEPT !.status = "active", !.password = 1]]
  /\ UNCHANGED <<invites, sessions, spent, requests, usage, closing, history>>

CreateInvite(i) ==
  /\ invites[i].state = "absent"
  /\ invites' = [invites EXCEPT ![i].state = "open"]
  /\ UNCHANGED <<users, sessions, spent, requests, usage, closing, history>>

\* The command line takes the row before it writes it.
RevokeInvite(i) ==
  /\ invites[i].state = "open" /\ InviteFree(i)
  /\ invites' = [invites EXCEPT ![i].state = "closed"]
  /\ UNCHANGED <<users, sessions, spent, requests, usage, closing, history>>

\* Mutant: the invitation is read without a lock.
InviteReadAnyTime(r, i) == requests[r].stage = "idle"

InviteReadable(r, i) == requests[r].stage = "idle" /\ InviteFree(i)

StartRegistration(r, u, i) ==
  /\ InviteReadable(r, i)
  /\ invites[i].state = "open" /\ invites[i].uses < MaxUses
  /\ requests' = [requests EXCEPT ![r] = [Idle EXCEPT !.stage = "locked", !.kind = "register",
                                            !.user = u, !.invite = i, !.loaded = invites[i].uses]]
  /\ UNCHANGED <<users, invites, sessions, spent, usage, closing, history>>

UsesAfter(r) == requests[r].loaded + 1

Register(r) ==
  LET u == requests[r].user  i == requests[r].invite IN
  /\ requests[r].stage = "locked" /\ requests[r].kind = "register"
  /\ users[u].status = "absent" /\ Changes < MaxChanges
  /\ users' = [users EXCEPT ![u] = [NoRow EXCEPT !.status = "active", !.password = 1,
                                                   !.issued = 1, !.code = 1]]
  /\ invites' = [invites EXCEPT ![i].uses = UsesAfter(r)]
  /\ history' = [history EXCEPT ![u].invite = i]
  /\ Finish(r)
  /\ UNCHANGED <<sessions, spent, usage, closing>>

\* The name is taken: found by the query, or by the unique index at the flush.  Or an
\* error: the transaction is rolled back either way.
RefuseRegistration(r) ==
  /\ requests[r].stage = "locked" /\ requests[r].kind = "register"
  /\ Finish(r)
  /\ UNCHANGED <<users, invites, sessions, spent, usage, closing, history>>
-----------------------------------------------------------------------------
(* Authentication and the request budgets.                                 *)

Authenticate(r, s) ==
  LET u == sessions[s].user IN
  /\ requests[r].stage = "idle"
  /\ sessions[s].live /\ users[u].status = "active"
  /\ requests' = [requests EXCEPT ![r] = [Idle EXCEPT !.stage = "read", !.user = u, !.session = s,
                                            !.leaving = users[u].leaving, !.limit = users[u].limit]]
  /\ UNCHANGED <<users, invites, sessions, spent, usage, closing, history>>

\* The upsert: a row of another window, or none, is set to one attempt.
Counted(row, fresh) ==
  IF fresh THEN [window |-> row.window + 1, attempts |-> 1] ELSE [row EXCEPT !.attempts = @ + 1]

\* Mutant: the attempt is added by the transaction that fails with the request.
ForgetsAttempt(u, k, fresh) ==
  IF fresh THEN [spent EXCEPT ![u][k] = [window |-> @.window + 1, attempts |-> 0]] ELSE spent

\* Committed before any password is looked at.
SpendsAttempt(u, k, fresh) == [spent EXCEPT ![u][k] = Counted(@, fresh)]

\* consume_auth_budget.  The clock is read before the upsert, so a request that is late at
\* a boundary sets the row back to its own window, and the next one sets it again: fresh
\* may be true at any time.  An attempt over the budget ends the request; that it is
\* counted too changes nothing any more.
Charge(r, u, k, row) ==
  \E fresh \in BOOLEAN :
    LET counted == Counted(spent[u][k], fresh) IN
    /\ fresh => spent[u][k].window < MaxWindows
    /\ ~fresh => spent[u][k].window > 0
    /\ counted.attempts <= Budget[k]
    /\ spent' = SpendsAttempt(u, k, fresh)
    /\ requests' = [requests EXCEPT ![r] = [row EXCEPT !.stage = "charged", !.kind = k,
                                                       !.window = counted.window]]
    /\ UNCHANGED <<users, invites, sessions, usage, closing, history>>

\* An unknown name has a budget too, and touches no account.
ChargeSignIn(r, u, k) ==
  /\ requests[r].stage = "idle" /\ Present(u)
  /\ Charge(r, u, k, [Idle EXCEPT !.user = u])

ChargePassword(r) ==
  /\ requests[r].stage = "read"
  /\ Charge(r, requests[r].user, "password", [requests[r] EXCEPT !.limit = 0])

\* One look at a credential under the row lock: the password for a login and for
\* check_current_password, the recovery code for a reset.
Checks(r, k, given, current) ==
  LET u == requests[r].user IN
  /\ requests[r].stage = "charged" /\ requests[r].kind = k
  /\ users[u].status = "active"
  /\ history' = [history EXCEPT ![u].checks[k][requests[r].window] = @ + 1]
  /\ requests' = [requests EXCEPT ![r] = IF given = current
                                         THEN [@ EXCEPT !.stage = "locked", !.window = 0,
                                                        !.loaded = IF k = "login" THEN given ELSE 0]
                                         ELSE Idle]
  /\ UNCHANGED <<users, invites, sessions, spent, usage, closing>>

\* Mutant: login reads the user row without FOR UPDATE.
ReadsUnlocked(u) == TRUE

LoginReads(u) == Free(u)

CheckLogin(r, given) ==
  /\ LoginReads(requests[r].user)
  /\ Checks(r, "login", given, users[requests[r].user].password)

CheckPassword(r, given) ==
  /\ Free(requests[r].user)
  /\ Checks(r, "password", given, users[requests[r].user].password)

\* Mutant: reset reads the user row without FOR UPDATE.
ResetReadsUnlocked(u) == TRUE

ResetReads(u) == Free(u)

\* A row without a code is compared with a hash that no code has.
CheckCode(r, given) ==
  /\ ResetReads(requests[r].user)
  /\ Checks(r, "reset", given, users[requests[r].user].code)

\* The account is gone or disabled when the lock is granted.
Unauthorized(r) ==
  /\ requests[r].stage = "charged" /\ users[requests[r].user].status # "active"
  /\ Finish(r)
  /\ UNCHANGED <<users, invites, sessions, spent, usage, closing, history>>
-----------------------------------------------------------------------------
(* What the holder of the user row commits.                                *)

HoldsFor(r, k) == Holds(r, requests[r].user) /\ requests[r].kind = k

OpenSession(r) ==
  LET u == requests[r].user IN
  /\ HoldsFor(r, "login") /\ Changes < MaxChanges
  /\ sessions' = Append(sessions, [user |-> u, password |-> requests[r].loaded, live |-> TRUE])
  /\ Finish(r)
  /\ UNCHANGED <<users, invites, spent, usage, closing, history>>

\* revoke_sessions.
RevokedAll(u) == [i \in DOMAIN sessions |->
  IF sessions[i].user = u THEN [sessions[i] EXCEPT !.live = FALSE] ELSE sessions[i]]

\* s is the session of the request.
RevokedOthers(u, s) == [i \in DOMAIN sessions |->
  IF sessions[i].user = u /\ i # s THEN [sessions[i] EXCEPT !.live = FALSE] ELSE sessions[i]]

ChangePassword(r) ==
  LET u == requests[r].user IN
  /\ HoldsFor(r, "password") /\ Changes < MaxChanges
  /\ users' = [users EXCEPT ![u].password = @ + 1]
  /\ sessions' = RevokedAll(u)
  /\ Finish(r)
  /\ UNCHANGED <<invites, spent, usage, closing, history>>

RotateRecoveryCode(r) ==
  LET u == requests[r].user IN
  /\ HoldsFor(r, "password") /\ Changes < MaxChanges
  /\ users' = [users EXCEPT ![u].issued = @ + 1, ![u].code = users[u].issued + 1]
  /\ Finish(r)
  /\ UNCHANGED <<invites, sessions, spent, usage, closing, history>>

ResetPassword(r) ==
  LET u == requests[r].user IN
  /\ HoldsFor(r, "reset") /\ Changes < MaxChanges
  /\ users' = [users EXCEPT ![u].password = @ + 1, ![u].code = 0]
  /\ sessions' = RevokedAll(u)
  /\ history' = [history EXCEPT ![u].resets = @ + 1]
  /\ Finish(r)
  /\ UNCHANGED <<invites, spent, usage, closing>>

\* The request that found no deletion when it was authenticated.
RequestDeletion(r) ==
  LET u == requests[r].user IN
  /\ HoldsFor(r, "password") /\ ~requests[r].leaving
  /\ users' = [users EXCEPT ![u].leaving = TRUE]
  /\ sessions' = RevokedOthers(u, requests[r].session)
  /\ Finish(r)
  /\ UNCHANGED <<invites, spent, usage, closing, history>>

\* A new password of blanks only, or an error: the transaction is rolled back.
Abandon(r) ==
  /\ requests[r].stage \in {"read", "locked"} /\ requests[r].kind # "register"
  /\ Finish(r)
  /\ UNCHANGED <<users, invites, sessions, spent, usage, closing, history>>
-----------------------------------------------------------------------------
(* Requests that need no password, the command line, and time.             *)

\* What these write, or a row that refers to the account, needs the row to be there.
Authenticated(r) ==
  /\ requests[r].stage = "read"
  /\ Present(requests[r].user) /\ Free(requests[r].user)

CancelDeletion(r) ==
  /\ Authenticated(r) /\ requests[r].leaving
  /\ users' = [users EXCEPT ![requests[r].user].leaving = FALSE]
  /\ Finish(r)
  /\ UNCHANGED <<invites, sessions, spent, usage, closing, history>>

RevokeOtherSessions(r) ==
  /\ Authenticated(r)
  /\ sessions' = RevokedOthers(requests[r].user, requests[r].session)
  /\ Finish(r)
  /\ UNCHANGED <<users, invites, spent, usage, closing, history>>

Logout(r) ==
  /\ requests[r].stage = "read"
  /\ sessions' = [sessions EXCEPT ![requests[r].session].live = FALSE]
  /\ Finish(r)
  /\ UNCHANGED <<users, invites, spent, usage, closing, history>>

\* Mutant: the monthly row is raised without its WHERE.
AlwaysRoom(r) == requests[r].limit > 0

\* The limit is the one the request loaded, the count the one in the table.
Room(r) == usage[requests[r].user] < requests[r].limit

ReserveAIUsage(r) ==
  /\ Authenticated(r) /\ ~requests[r].leaving /\ Room(r)
  /\ usage' = [usage EXCEPT ![requests[r].user] = @ + 1]
  /\ Finish(r)
  /\ UNCHANGED <<users, invites, sessions, spent, closing, history>>

SetAIQuota(u, limit) ==
  /\ Present(u) /\ Free(u) /\ limit # users[u].limit
  /\ users' = [users EXCEPT ![u].limit = limit]
  /\ history' = [history EXCEPT ![u].granted = Max({@, limit})]
  /\ UNCHANGED <<invites, sessions, spent, requests, usage, closing>>

Deactivate(u) ==
  /\ users[u].status = "active" /\ Free(u)
  /\ users' = [users EXCEPT ![u].status = "inactive", ![u].limit = 0]
  /\ sessions' = RevokedAll(u)
  /\ UNCHANGED <<invites, spent, requests, usage, closing, history>>

Activate(u) ==
  /\ users[u].status = "inactive" /\ Free(u) /\ ~users[u].leaving
  /\ users' = [users EXCEPT ![u].status = "active"]
  /\ UNCHANGED <<invites, sessions, spent, requests, usage, closing, history>>

\* The first transaction of the purge, when deletion_scheduled_for has passed.
PurgeCloses(u) ==
  /\ Present(u) /\ users[u].leaving /\ Free(u)
  /\ users' = [users EXCEPT ![u].status = "inactive", ![u].limit = 0]
  /\ sessions' = RevokedAll(u)
  /\ closing' = closing \cup {u}
  /\ UNCHANGED <<invites, spent, requests, usage, history>>

\* The second: sessions and usage go with the row, the invitation and the budgets stay.
PurgeDeletes(u) ==
  /\ u \in closing /\ Present(u) /\ users[u].leaving /\ Free(u)
  /\ users' = [users EXCEPT ![u].status = "purged", ![u].code = 0]
  /\ sessions' = RevokedAll(u)
  /\ usage' = [usage EXCEPT ![u] = 0]
  /\ closing' = closing \ {u}
  /\ UNCHANGED <<invites, spent, requests, history>>

\* It is refused by a foreign key or the store, or finds the deletion canceled.
PurgeStops(u) ==
  /\ u \in closing
  /\ closing' = closing \ {u}
  /\ UNCHANGED <<users, invites, sessions, spent, requests, usage, history>>

\* expires_at of a session or of an invitation has passed.
SessionExpires(s) ==
  /\ sessions[s].live
  /\ sessions' = [sessions EXCEPT ![s].live = FALSE]
  /\ UNCHANGED <<users, invites, spent, requests, usage, closing, history>>

InviteExpires(i) ==
  /\ invites[i].state = "open"
  /\ invites' = [invites EXCEPT ![i].state = "closed"]
  /\ UNCHANGED <<users, sessions, spent, requests, usage, closing, history>>

RequestStep(r) ==
  \/ \E u \in Users, i \in Invites : StartRegistration(r, u, i)
  \/ Register(r) \/ RefuseRegistration(r)
  \/ \E s \in DOMAIN sessions : Authenticate(r, s)
  \/ \E u \in Followed, k \in {"login", "reset"} : ChargeSignIn(r, u, k)
  \/ ChargePassword(r)
  \/ \E given \in 1..MaxChanges : CheckLogin(r, given) \/ CheckPassword(r, given) \/ CheckCode(r, given)
  \/ Unauthorized(r)
  \/ OpenSession(r) \/ ChangePassword(r) \/ RotateRecoveryCode(r) \/ ResetPassword(r)
  \/ RequestDeletion(r) \/ Abandon(r)
  \/ CancelDeletion(r) \/ RevokeOtherSessions(r) \/ Logout(r) \/ ReserveAIUsage(r)

Next ==
  \/ \E r \in Requests : RequestStep(r)
  \/ \E i \in Invites : CreateInvite(i) \/ RevokeInvite(i) \/ InviteExpires(i)
  \/ \E u \in Followed : \/ CreateAdmin(u) \/ Deactivate(u) \/ Activate(u)
                        \/ \E limit \in Limits : SetAIQuota(u, limit)
                        \/ PurgeCloses(u) \/ PurgeDeletes(u) \/ PurgeStops(u)
  \/ \E s \in DOMAIN sessions : SessionExpires(s)

Spec == Init /\ [][Next]_vars
-----------------------------------------------------------------------------
(* A session that can still be used belongs to an active account and was   *)
(* opened with the password the account has now: login looks at the        *)
(* password and inserts the session under the lock that a change of the    *)
(* password, a reset and a deactivation hold while they revoke             *)
(* (auth.py:180, 410-438).                                                 *)
LiveSessionsAreCurrent ==
  \A s \in DOMAIN sessions : sessions[s].live =>
    /\ users[sessions[s].user].status = "active"
    /\ sessions[s].password = users[sessions[s].user].password

\* The accounts registered through an invitation, those that are purged since among them.
Came(i) == {u \in Users : history[u].invite = i}

(* An invitation counts the registrations that came in through it, never   *)
(* more than it allows: none is lost or counted twice when two overlap, a  *)
(* name that turns out to be taken does not use it up, and the purge of an *)
(* account gives no use back (auth.py:305-367, account_deletion.py:141).   *)
InviteCountsRegistrations ==
  \A i \in Invites :
    /\ invites[i].uses = Cardinality(Came(i))
    /\ invites[i].uses <= MaxUses

(* What is registered agrees with the invitations it came through.         *)
RegistrationsAgree == TypeOK /\ InviteCountsRegistrations

(* Every recovery code that was ever handed out is worth one reset at      *)
(* most, and rotating the code ends the one before: resets and the code    *)
(* still valid never exceed the codes issued (auth.py:472-499).            *)
RecoveryCodesSpentOnce ==
  \A u \in Users :
    history[u].resets + (IF users[u].code = 0 THEN 0 ELSE 1) <= users[u].issued

(* However the requests overlap and fail, no more passwords or codes of an *)
(* account are ever compared on the attempts of one window than its budget *)
(* allows, because the attempt is committed before the comparison          *)
(* (auth_limits.py:32-33).  A comparison may fall into the next window: it *)
(* belongs to the window that its attempt was counted in, and a window     *)
(* ends when the row is set back.                                          *)
ChecksWithinBudget ==
  \A u \in Users : \A k \in Kinds : \A w \in 1..MaxWindows : history[u].checks[k][w] <= Budget[k]

(* The tasks admitted in a month stay within the largest limit the         *)
(* operator granted, although each request compares with the limit it      *)
(* loaded before (auth.py:690-706).                                        *)
UsageWithinGrant == \A u \in Users : usage[u] <= history[u].granted
=============================================================================
