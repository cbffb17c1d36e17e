--------------------------- MODULE AccountsProofs ---------------------------
(***************************************************************************)
(* What holds of invitations, accounts, sessions, recovery codes, request  *)
(* budgets and the monthly quota for any number of accounts, invitations   *)
(* and requests at the same time.                                          *)
(***************************************************************************)
EXTENDS Accounts, SequenceTheorems, FiniteSetTheorems, TLAPS

\* A row of users with what happened to it: codes are spent once, and both its limit and
\* its use of the month stay within what was granted.
UserSound(u) ==
  /\ users[u].status = "absent" => users[u] = NoRow /\ history[u].invite = NoInvite
  /\ history[u].resets + (IF users[u].code = 0 THEN 0 ELSE 1) <= users[u].issued
  /\ users[u].limit <= history[u].granted
  /\ usage[u] <= history[u].granted

UsersSound == \A u \in Users : UserSound(u)

\* What a request has loaded and still relies on is true while it holds its lock.
RequestSound(q) ==
  /\ q.stage = "idle" => q = Idle
  /\ q.stage # "idle" => q.user \in Users /\ q.limit <= history[q.user].granted
  /\ q.stage = "read" => q.kind = "none" /\ q.session \in DOMAIN sessions
  /\ q.stage = "charged" => q.kind \in Kinds /\ q.window \in 1 .. MaxWindows
  /\ q.stage = "locked" => q.kind \in Kinds \cup {"register"}
  /\ q.stage # "idle" /\ q.kind # "register" =>
       q.invite = NoInvite /\ users[q.user].status # "absent"
  /\ q.kind = "register" =>
       /\ q.stage = "locked" /\ q.invite \in Invites
       /\ q.loaded = invites[q.invite].uses /\ q.loaded < MaxUses
  /\ q.stage = "locked" /\ q.kind = "login" =>
       q.loaded = users[q.user].password /\ users[q.user].status = "active"
  /\ q.stage = "locked" /\ q.kind = "reset" => users[q.user].code # 0

RequestsSound == \A r \in Requests : RequestSound(requests[r])

\* One request at most holds the row of an account, and one that of an invitation.
LocksExclusive ==
  /\ \A r, s \in Requests : \A u \in Users : Holds(r, u) /\ Holds(s, u) => r = s
  /\ \A r, s \in Requests : \A i \in Invites : HoldsInvite(r, i) /\ HoldsInvite(s, i) => r = s

\* The requests that have paid, in window w, for a look at a credential of u and not had it yet.
Paid(u, k, w) ==
  {r \in Requests : /\ requests[r].stage = "charged" /\ requests[r].kind = k
                    /\ requests[r].user = u /\ requests[r].window = w}

\* What was paid in a window: all that it allows at most when it is over, nothing before.
Allowed(u, k, w) ==
  IF w < spent[u][k].window THEN Budget[k]
  ELSE IF w = spent[u][k].window THEN spent[u][k].attempts ELSE 0

\* Every look was paid for before, and every payment is within the budget of its window.
AttemptsPaid ==
  \A u \in Users : \A k \in Kinds :
    /\ spent[u][k].attempts <= Budget[k]
    /\ \A w \in 1 .. MaxWindows :
         /\ IsFiniteSet(Paid(u, k, w))
         /\ history[u].checks[k][w] + Cardinality(Paid(u, k, w)) <= Allowed(u, k, w)

\* The accounts that came in through an invitation are as many as it counts.
InvitesCounted ==
  \A i \in Invites :
    /\ IsFiniteSet(Came(i))
    /\ invites[i].uses = Cardinality(Came(i))

\* The invariant that the theorems rest on.
IInv ==
  /\ TypeOK /\ UsersSound /\ RequestsSound /\ LocksExclusive
  /\ LiveSessionsAreCurrent /\ AttemptsPaid /\ InvitesCounted
-----------------------------------------------------------------------------
(* What a step keeps, by what it writes.                                   *)

\* No window is one of the numbers of windows.
LEMMA NoWindow == 0 \in 0 .. MaxWindows /\ 1 .. MaxWindows \subseteq 0 .. MaxWindows
BY AccountsAssumption DEF AccountsAssumption

\* A request that is over.
LEMMA IdleRequest ==
  /\ Idle \in RequestRows
  /\ Idle.stage = "idle" /\ Idle.kind = "none" /\ Idle.invite = NoInvite
BY NoWindow DEF Idle, RequestRows

\* A request that is over relies on nothing and holds nothing.
LEMMA IdleSound == RequestSound(Idle)
BY IdleRequest DEF RequestSound, Kinds

\* The requests either go on as they are or are over.
RequestsEnd == \A s \in Requests : requests'[s] = requests[s] \/ requests'[s] = Idle

LEMMA FinishEnds ==
  ASSUME TypeOK, NEW r \in Requests, Finish(r)
  PROVE  /\ RequestsEnd /\ requests' \in [Requests -> RequestRows]
         /\ requests'[r] = Idle
         /\ \A s \in Requests \ {r} : requests'[s] = requests[s]
BY IdleRequest DEF TypeOK, Finish, RequestsEnd

\* The requests that go on keep what they rely on, if nobody wrote a row that they hold.
LEMMA RequestsStay ==
  ASSUME AccountsAssumption, IInv, TypeOK', RequestsEnd,
         Len(sessions) <= Len(sessions'),
         \A u \in Users : history[u].granted <= history'[u].granted,
         \A u \in Users : users'[u].status = "absent" => users[u].status = "absent",
         \A s \in Requests : \A u \in Users : Holds(s, u) /\ requests'[s] = requests[s] =>
           /\ users'[u].password = users[u].password
           /\ users'[u].status = users[u].status
           /\ users'[u].code = users[u].code,
         \A s \in Requests : \A i \in Invites : HoldsInvite(s, i) /\ requests'[s] = requests[s] =>
           invites'[i].uses = invites[i].uses
  PROVE  RequestsSound' /\ LocksExclusive'
<1>1. ASSUME NEW s \in Requests PROVE RequestSound(requests[s])'
  <2>1. CASE requests'[s] = Idle
    BY <2>1, IdleRequest DEF RequestSound, Kinds
  <2>2. CASE requests'[s] = requests[s]
    <3> DEFINE q == requests[s]
    <3>1. RequestSound(q) /\ q \in RequestRows
      BY DEF IInv, RequestsSound, TypeOK
    <3>2. q.stage # "idle" => q.limit <= history'[q.user].granted
      <4>1. \A u \in Users : history[u].granted \in Nat /\ history'[u].granted \in Nat
        BY DEF IInv, TypeOK, HistoryRows
      <4>2. q.limit \in Nat
        BY <3>1 DEF RequestRows
      <4> QED
        BY <3>1, <4>1, <4>2 DEF RequestSound
    <3>3. q.stage = "read" => q.session \in DOMAIN sessions'
      <4>1. /\ DOMAIN sessions = 1 .. Len(sessions) /\ DOMAIN sessions' = 1 .. Len(sessions')
            /\ Len(sessions) \in Nat /\ Len(sessions') \in Nat
        BY DEF IInv, TypeOK
      <4> QED
        BY <3>1, <4>1 DEF RequestSound
    <3>4. q.stage = "locked" /\ q.kind \in Kinds => Holds(s, q.user)
      BY DEF Holds
    <3>5. q.kind = "register" => HoldsInvite(s, q.invite)
      BY <3>1 DEF HoldsInvite, RequestSound
    <3>6. "login" \in Kinds /\ "reset" \in Kinds
      BY DEF Kinds
    <3> QED
      BY <2>2, <3>1, <3>2, <3>3, <3>4, <3>5, <3>6 DEF RequestSound
  <2> QED
    BY <2>1, <2>2 DEF RequestsEnd
<1>2. \A s \in Requests : \A u \in Users : Holds(s, u)' => Holds(s, u)
  BY IdleRequest DEF RequestsEnd, Holds
<1>3. \A s \in Requests : \A i \in Invites : HoldsInvite(s, i)' => HoldsInvite(s, i)
  BY IdleRequest DEF RequestsEnd, HoldsInvite
<1>4. LocksExclusive'
  BY <1>2, <1>3 DEF IInv, LocksExclusive
<1> QED
  BY <1>1, <1>4 DEF RequestsSound

\* The payments of a window are a number within its budget.
LEMMA AllowedType ==
  ASSUME AccountsAssumption, IInv, NEW u \in Users, NEW k \in Kinds, NEW w \in 1 .. MaxWindows
  PROVE  Allowed(u, k, w) \in Nat /\ Allowed(u, k, w) <= Budget[k]
<1>1. /\ spent[u][k].window \in Nat /\ spent[u][k].attempts \in Nat
      /\ spent[u][k].attempts <= Budget[k]
  <2>1. spent[u][k] \in BudgetRows
    BY DEF IInv, TypeOK
  <2> QED
    BY <2>1 DEF BudgetRows, IInv, AttemptsPaid, AccountsAssumption
<1>2. Budget[k] \in Nat /\ w \in Nat
  BY DEF AccountsAssumption, Kinds
<1> QED
  BY <1>1, <1>2 DEF Allowed

\* A request that is over has had what it paid for, or gives it up.
LEMMA PaymentsStay ==
  ASSUME AccountsAssumption, IInv, TypeOK', RequestsEnd, spent' = spent,
         \A u \in Users : history'[u].checks = history[u].checks
  PROVE  AttemptsPaid'
<1> SUFFICES ASSUME NEW u \in Users, NEW k \in Kinds, NEW w \in 1 .. MaxWindows
             PROVE  /\ IsFiniteSet(Paid(u, k, w)')
                    /\ history'[u].checks[k][w] + Cardinality(Paid(u, k, w)') <= Allowed(u, k, w)
  BY DEF IInv, AttemptsPaid, Allowed
<1>1. Paid(u, k, w)' \in SUBSET Paid(u, k, w)
  BY IdleRequest DEF Paid, RequestsEnd
<1>2. /\ IsFiniteSet(Paid(u, k, w))
      /\ history[u].checks[k][w] + Cardinality(Paid(u, k, w)) <= Allowed(u, k, w)
  BY DEF IInv, AttemptsPaid
<1>3. IsFiniteSet(Paid(u, k, w)') /\ Cardinality(Paid(u, k, w)') <= Cardinality(Paid(u, k, w))
  BY <1>1, <1>2, FS_Subset
<1>4. Cardinality(Paid(u, k, w)') \in Nat /\ Cardinality(Paid(u, k, w)) \in Nat
  BY <1>2, <1>3, FS_CardinalityType
<1>5. history[u].checks[k][w] \in Nat
  <2>1. history[u] \in HistoryRows
    BY DEF IInv, TypeOK
  <2> QED
    BY <2>1 DEF HistoryRows
<1>6. Allowed(u, k, w) \in Nat
  BY AllowedType
<1> QED
  BY <1>2, <1>3, <1>4, <1>5, <1>6

\* The invitation an account came in through stays what it was.
LEMMA InvitesStay ==
  ASSUME IInv,
         \A u \in Users : history'[u].invite = history[u].invite,
         \A i \in Invites : invites'[i].uses = invites[i].uses
  PROVE  InvitesCounted'
<1>1. \A i \in Invites : Came(i)' = Came(i)
  BY DEF Came
<1> QED
  BY <1>1 DEF IInv, InvitesCounted

\* A row of users is written: by the request that holds it, which is over then, or while
\* nobody does.
LEMMA UserWrite ==
  ASSUME AccountsAssumption, IInv, TypeOK', NEW u \in Users, NEW row \in UserRows,
         users' = [users EXCEPT ![u] = row],
         row.status # "absent",
         RequestsEnd,
         \A s \in Requests : Holds(s, u) => requests'[s] = Idle,
         Len(sessions') = Len(sessions),
         \A s \in DOMAIN sessions : /\ sessions'[s].user = sessions[s].user
                                    /\ sessions'[s].password = sessions[s].password
                                    /\ sessions'[s].live => sessions[s].live,
         \A s \in DOMAIN sessions : sessions'[s].live /\ sessions[s].user = u =>
           row.status = "active" /\ row.password = users[u].password,
         UserSound(u)',
         \A v \in Users \ {u} : history'[v] = history[v],
         history'[u].checks = history[u].checks, history'[u].invite = history[u].invite,
         history[u].granted <= history'[u].granted,
         \A v \in Users \ {u} : usage'[v] = usage[v],
         UNCHANGED <<invites, spent>>
  PROVE  IInv'
<1> USE DEF IInv
<1>1. /\ users'[u] = row /\ \A v \in Users \ {u} : users'[v] = users[v]
  BY DEF TypeOK
<1>2. \A v \in Users : history[v].granted \in Nat
  BY DEF TypeOK, HistoryRows
<1>3. \A v \in Users : history[v].granted <= history'[v].granted
  BY <1>2
<1>4. UsersSound'
  <2>1. \A v \in Users \ {u} : UserSound(v)'
    BY <1>1 DEF UsersSound, UserSound
  <2> QED
    BY <2>1 DEF UsersSound
<1>5. RequestsSound' /\ LocksExclusive'
  <2>1. Len(sessions) <= Len(sessions')
    BY DEF TypeOK
  <2>2. \A v \in Users : users'[v].status = "absent" => users[v].status = "absent"
    BY <1>1
  <2>3. \A s \in Requests : \A v \in Users : Holds(s, v) /\ requests'[s] = requests[s] =>
          users'[v] = users[v]
    <3>1. \A s \in Requests : Holds(s, u) => requests'[s] # requests[s]
      BY IdleRequest DEF Holds
    <3> QED
      BY <1>1, <3>1
  <2> QED
    BY <1>3, <2>1, <2>2, <2>3, RequestsStay
<1>6. LiveSessionsAreCurrent'
  <2>1. DOMAIN sessions' = DOMAIN sessions
    BY DEF TypeOK
  <2>2. \A s \in DOMAIN sessions : sessions[s].user \in Users
    <3>1. \A s \in DOMAIN sessions : sessions[s] \in SessionRows
      BY DEF TypeOK
    <3> QED
      BY <3>1 DEF SessionRows
  <2> QED
    BY <1>1, <2>1, <2>2 DEF LiveSessionsAreCurrent
<1>7. AttemptsPaid' /\ InvitesCounted'
  <2>1. \A v \in Users : history'[v].checks = history[v].checks /\ history'[v].invite = history[v].invite
    BY <1>1
  <2> QED
    BY <2>1, PaymentsStay, InvitesStay
<1> QED
  BY <1>4, <1>5, <1>6, <1>7

\* Requests end and other tables are written, but no row of users.
LEMMA TableWrite ==
  ASSUME AccountsAssumption, IInv, TypeOK', UNCHANGED <<users, spent, history>>,
         RequestsEnd,
         Len(sessions) <= Len(sessions'),
         LiveSessionsAreCurrent',
         \A i \in Invites : invites'[i].uses = invites[i].uses,
         \A u \in Users : usage'[u] <= history[u].granted
  PROVE  IInv'
<1> USE DEF IInv
<1>1. UsersSound'
  BY DEF UsersSound, UserSound
<1>2. \A u \in Users : history[u].granted \in Nat
  BY DEF TypeOK, HistoryRows
<1>3. RequestsSound' /\ LocksExclusive'
  BY <1>2, RequestsStay
<1>4. AttemptsPaid' /\ InvitesCounted'
  BY PaymentsStay, InvitesStay
<1> QED
  BY <1>1, <1>3, <1>4

\* A request goes on to a stage in which what it relies on is true.
LEMMA RequestMoves ==
  ASSUME AccountsAssumption, IInv, NEW r \in Requests, NEW q \in RequestRows,
         requests' = [requests EXCEPT ![r] = q],
         UNCHANGED <<users, invites, sessions, usage, closing>>,
         spent' \in [Users -> [Kinds -> BudgetRows]], history' \in [Users -> HistoryRows],
         \A u \in Users : /\ history'[u].resets = history[u].resets
                          /\ history'[u].granted = history[u].granted
                          /\ history'[u].invite = history[u].invite,
         RequestSound(q),
         q.stage = "locked" /\ q.kind \in Kinds => Free(q.user),
         q.stage = "locked" /\ q.invite \in Invites => InviteFree(q.invite),
         AttemptsPaid'
  PROVE  IInv'
<1> USE DEF IInv
<1>1. requests'[r] = q /\ \A s \in Requests \ {r} : requests'[s] = requests[s]
  BY DEF TypeOK
<1>2. TypeOK'
  BY DEF TypeOK
<1>3. UsersSound'
  BY DEF UsersSound, UserSound
<1>4. RequestsSound'
  <2>1. \A s \in Requests : RequestSound(requests'[s])
    BY <1>1 DEF RequestsSound
  <2>2. \A s \in Requests : RequestSound(requests'[s]) => RequestSound(requests[s])'
    BY DEF RequestSound
  <2> QED
    BY <2>1, <2>2 DEF RequestsSound
<1>5. LocksExclusive'
  <2>1. \A s \in Requests \ {r} : \A u \in Users : Holds(s, u)' <=> Holds(s, u)
    BY <1>1 DEF Holds
  <2>2. \A s \in Requests \ {r} : \A i \in Invites : HoldsInvite(s, i)' <=> HoldsInvite(s, i)
    BY <1>1 DEF HoldsInvite
  <2>3. \A u \in Users : Holds(r, u)' => \A s \in Requests : ~Holds(s, u)
    BY <1>1 DEF Holds, Free
  <2>4. \A i \in Invites : HoldsInvite(r, i)' => \A s \in Requests : ~HoldsInvite(s, i)
    BY <1>1 DEF HoldsInvite, InviteFree
  <2> QED
    BY <2>1, <2>2, <2>3, <2>4 DEF LocksExclusive
<1>6. LiveSessionsAreCurrent' /\ InvitesCounted'
  BY InvitesStay DEF LiveSessionsAreCurrent
<1> QED
  BY <1>2, <1>3, <1>4, <1>5, <1>6
-----------------------------------------------------------------------------
(* Registration.                                                           *)

\* What the declared types say of one row of each table.
LEMMA RowTypes ==
  ASSUME IInv
  PROVE  /\ \A u \in Users : /\ users[u] \in UserRows /\ history[u] \in HistoryRows
                             /\ usage[u] \in Nat
         /\ \A r \in Requests : requests[r] \in RequestRows /\ RequestSound(requests[r])
         /\ \A s \in DOMAIN sessions : sessions[s] \in SessionRows
         /\ \A i \in Invites : invites[i] \in InviteRows
         /\ Len(sessions) \in Nat /\ DOMAIN sessions = 1 .. Len(sessions)
BY DEF IInv, TypeOK, RequestsSound

\* The states of an invitation count no account.
LEMMA InviteStep ==
  ASSUME AccountsAssumption, IInv, NEW i \in Invites,
         CreateInvite(i) \/ RevokeInvite(i) \/ InviteExpires(i)
  PROVE  IInv'
<1>1. PICK state \in {"absent", "open", "closed"} : invites' = [invites EXCEPT ![i].state = state]
  BY DEF CreateInvite, RevokeInvite, InviteExpires
<1>2. UNCHANGED <<users, sessions, spent, requests, usage, closing, history>>
  BY DEF CreateInvite, RevokeInvite, InviteExpires
<1>3. invites' \in [Invites -> InviteRows] /\ \A j \in Invites : invites'[j].uses = invites[j].uses
  <2>1. invites \in [Invites -> InviteRows]
    BY DEF IInv, TypeOK
  <2>2. LET row == [invites[i] EXCEPT !.state = state]
        IN  row \in InviteRows /\ row.uses = invites[i].uses
    BY <2>1 DEF InviteRows
  <2> QED
    BY <1>1, <2>1, <2>2
<1>4. TypeOK'
  BY <1>2, <1>3 DEF IInv, TypeOK
<1>5. RequestsEnd /\ Len(sessions) <= Len(sessions') /\ LiveSessionsAreCurrent'
  BY <1>2, RowTypes DEF RequestsEnd, IInv, LiveSessionsAreCurrent
<1>6. \A u \in Users : usage'[u] <= history[u].granted
  BY <1>2 DEF IInv, UsersSound, UserSound
<1> QED
  BY <1>2, <1>3, <1>4, <1>5, <1>6, TableWrite

\* A request that takes an invitation reads the uses that it will write back.
LEMMA StartRegistrationStep ==
  ASSUME AccountsAssumption, IInv, NEW r \in Requests, NEW u \in Users, NEW i \in Invites,
         StartRegistration(r, u, i)
  PROVE  IInv'
<1> DEFINE q == [Idle EXCEPT !.stage = "locked", !.kind = "register", !.user = u, !.invite = i,
                             !.loaded = invites[i].uses]
<1>1. /\ requests[r].stage = "idle" /\ InviteFree(i) /\ invites[i].uses < MaxUses
      /\ requests' = [requests EXCEPT ![r] = q]
      /\ UNCHANGED <<users, invites, sessions, spent, usage, closing, history>>
  BY DEF StartRegistration, InviteReadable
<1>2. invites[i].uses \in Nat /\ requests[r] = Idle
  BY <1>1, RowTypes DEF InviteRows, RequestSound, AccountsAssumption
<1>3. /\ q \in RequestRows /\ q.stage = "locked" /\ q.kind = "register" /\ q.user = u
      /\ q.invite = i /\ q.loaded = invites[i].uses /\ q.limit = 0
  BY <1>2, NoWindow DEF Idle, RequestRows
<1>4. 0 <= history[u].granted
  BY RowTypes DEF HistoryRows
<1> HIDE DEF q
<1>5. RequestSound(q)
  BY <1>1, <1>3, <1>4 DEF RequestSound, Kinds
<1>6. AttemptsPaid'
  <2>1. \A v \in Users : \A k \in Kinds : \A w \in 1 .. MaxWindows : Paid(v, k, w)' = Paid(v, k, w)
    <3>1. \A s \in Requests \ {r} : requests'[s] = requests[s]
      BY <1>1 DEF IInv, TypeOK
    <3>2. requests'[r].stage # "charged" /\ requests[r].stage # "charged"
      BY <1>1, <1>3 DEF IInv, TypeOK
    <3> QED
      BY <3>1, <3>2 DEF Paid
  <2> QED
    BY <1>1, <2>1 DEF IInv, AttemptsPaid, Allowed
<1>7. spent' \in [Users -> [Kinds -> BudgetRows]] /\ history' \in [Users -> HistoryRows]
  BY <1>1 DEF IInv, TypeOK
<1>8. "register" \notin Kinds
  BY DEF Kinds
<1> QED
  BY <1>1, <1>3, <1>5, <1>6, <1>7, <1>8, RequestMoves

\* A registration: the invitation counts one use more for the account that comes in.
LEMMA RegisterStep ==
  ASSUME AccountsAssumption, IInv, NEW r \in Requests, Register(r)
  PROVE  IInv'
<1> USE DEF IInv
<1>0. requests[r].stage = "locked" /\ requests[r].kind = "register"
  BY DEF Register
<1>a. PICK u \in Users : u = requests[r].user
  BY <1>0, RowTypes DEF RequestSound
<1>b. PICK i \in Invites : i = requests[r].invite
  BY <1>0, RowTypes DEF RequestSound
<1> DEFINE row == [NoRow EXCEPT !.status = "active", !.password = 1, !.issued = 1, !.code = 1]
           past == [history[u] EXCEPT !.invite = i]
<1>1. /\ requests[r].stage = "locked" /\ requests[r].kind = "register"
      /\ users[u].status = "absent"
      /\ users' = [users EXCEPT ![u] = row]
      /\ invites' = [invites EXCEPT ![i].uses = requests[r].loaded + 1]
      /\ history' = [history EXCEPT ![u] = past]
      /\ Finish(r)
      /\ UNCHANGED <<sessions, spent, usage, closing>>
  BY <1>a, <1>b DEF Register, UsesAfter
<1>2. /\ u \in Users /\ i \in Invites /\ requests[r].loaded = invites[i].uses
      /\ invites[i].uses < MaxUses
  BY <1>0, <1>a, <1>b, RowTypes DEF RequestSound
<1>3. /\ row \in UserRows /\ row.status = "active" /\ row.password = 1
      /\ row.issued = 1 /\ row.code = 1 /\ row.limit = 0
  BY <1>2 DEF NoRow, UserRows
<1>4. users[u] = NoRow /\ UserSound(u)
  BY <1>1, <1>2 DEF UsersSound, UserSound
<1>p. /\ past \in HistoryRows /\ past.invite = i /\ past.checks = history[u].checks
      /\ past.resets = history[u].resets /\ past.granted = history[u].granted
  BY <1>2, RowTypes DEF HistoryRows
<1> HIDE DEF row, past
<1>h. /\ history' \in [Users -> HistoryRows] /\ history'[u] = past
      /\ \A v \in Users \ {u} : history'[v] = history[v]
  BY <1>1, <1>2, <1>p DEF TypeOK
<1>5. users'[u] = row /\ \A v \in Users \ {u} : users'[v] = users[v]
  BY <1>1, <1>2 DEF TypeOK
<1>6. /\ invites' \in [Invites -> InviteRows]
      /\ invites'[i].uses = invites[i].uses + 1
      /\ \A j \in Invites \ {i} : invites'[j] = invites[j]
  <2>1. invites[i].uses + 1 \in 0 .. MaxUses
    BY <1>2, RowTypes DEF InviteRows, AccountsAssumption
  <2>2. LET invite == [invites[i] EXCEPT !.uses = invites[i].uses + 1]
        IN  invite \in InviteRows /\ invite.uses = invites[i].uses + 1
    BY <1>2, <2>1, RowTypes DEF InviteRows
  <2> QED
    BY <1>1, <1>2, <2>2 DEF TypeOK
<1>7. RequestsEnd /\ requests' \in [Requests -> RequestRows] /\ requests'[r] = Idle
  BY <1>1, FinishEnds
<1>8. TypeOK'
  BY <1>1, <1>2, <1>3, <1>5, <1>6, <1>7, <1>h DEF TypeOK
<1>9. UsersSound'
  <2>1. \A v \in Users \ {u} : UserSound(v)'
    BY <1>1, <1>5, <1>h DEF UsersSound, UserSound
  <2>2. UserSound(u)'
    <3>1. history[u].resets + 0 <= 0 /\ history[u].resets \in Nat /\ history[u].granted \in Nat
      BY <1>2, <1>4, RowTypes DEF UserSound, NoRow, HistoryRows
    <3> QED
      BY <1>1, <1>3, <1>4, <1>5, <1>h, <1>p, <3>1 DEF UserSound
  <2> QED
    BY <2>1, <2>2 DEF UsersSound
<1>10. RequestsSound' /\ LocksExclusive'
  <2>1. \A s \in Requests : ~Holds(s, u)
    <3> SUFFICES ASSUME NEW s \in Requests, Holds(s, u) PROVE FALSE
      OBVIOUS
    <3>1. RequestSound(requests[s]) /\ "register" \notin Kinds
      BY RowTypes DEF Kinds
    <3> QED
      BY <1>1, <1>2, <3>1 DEF RequestSound, Holds
  <2>2. \A s \in Requests : HoldsInvite(s, i) => s = r
    BY <1>0, <1>b DEF LocksExclusive, HoldsInvite
  <2>3. requests'[r] # requests[r]
    BY <1>1, <1>7, IdleRequest
  <2>4. /\ \A v \in Users : history[v].granted <= history'[v].granted
        /\ Len(sessions) <= Len(sessions')
    BY <1>1, <1>h, <1>p, RowTypes DEF HistoryRows
  <2>5. \A v \in Users : users'[v].status = "absent" => users[v].status = "absent"
    BY <1>3, <1>5
  <2>6. \A s \in Requests : \A v \in Users : Holds(s, v) => users'[v] = users[v]
    BY <1>5, <2>1
  <2>7. \A s \in Requests : \A j \in Invites : HoldsInvite(s, j) /\ requests'[s] = requests[s] =>
          invites'[j].uses = invites[j].uses
    BY <1>6, <2>2, <2>3
  <2> QED
    BY <1>7, <1>8, <2>4, <2>5, <2>6, <2>7, RequestsStay
<1>11. LiveSessionsAreCurrent'
  <2>1. \A s \in DOMAIN sessions : sessions[s].user \in Users
    BY RowTypes DEF SessionRows
  <2> QED
    BY <1>1, <1>5, <2>1 DEF LiveSessionsAreCurrent
<1>12. AttemptsPaid'
  <2>1. \A v \in Users : history'[v].checks = history[v].checks
    BY <1>h, <1>p
  <2> QED
    BY <1>1, <1>7, <1>8, <2>1, PaymentsStay
<1>13. InvitesCounted'
  <2>1. history[u].invite = NoInvite
    BY <1>1, <1>4 DEF UserSound
  <2>2. u \notin Came(i) /\ Came(i)' = Came(i) \cup {u}
    BY <1>2, <1>h, <1>p, <2>1 DEF Came, AccountsAssumption
  <2>3. \A j \in Invites \ {i} : Came(j)' = Came(j)
    BY <1>h, <1>p, <2>1 DEF Came, AccountsAssumption
  <2>4. IsFiniteSet(Came(i)) /\ invites[i].uses = Cardinality(Came(i))
    BY <1>2 DEF InvitesCounted
  <2>5. IsFiniteSet(Came(i)') /\ Cardinality(Came(i)') = Cardinality(Came(i)) + 1
    BY <2>2, <2>4, FS_AddElement
  <2> QED
    BY <1>6, <2>3, <2>4, <2>5 DEF InvitesCounted
<1> QED
  BY <1>8, <1>9, <1>10, <1>11, <1>12, <1>13
-----------------------------------------------------------------------------
(* Authentication and the request budgets.                                 *)

\* A request that finds a live session reads the row of its account.
LEMMA AuthenticateStep ==
  ASSUME AccountsAssumption, IInv, NEW r \in Requests, NEW s \in DOMAIN sessions,
         Authenticate(r, s)
  PROVE  IInv'
<1>1. PICK u \in Users : u = sessions[s].user
  BY RowTypes DEF SessionRows
<1> DEFINE q == [Idle EXCEPT !.stage = "read", !.user = u, !.session = s,
                             !.leaving = users[u].leaving, !.limit = users[u].limit]
<1>2. /\ requests[r].stage = "idle" /\ users[u].status = "active"
      /\ requests' = [requests EXCEPT ![r] = q]
      /\ UNCHANGED <<users, invites, sessions, spent, usage, closing, history>>
  BY <1>1 DEF Authenticate
<1>3. users[u] \in UserRows /\ users[u].limit <= history[u].granted /\ s \in Nat
  BY RowTypes DEF IInv, UsersSound, UserSound
<1>4. /\ q \in RequestRows /\ q.stage = "read" /\ q.kind = "none" /\ q.user = u
      /\ q.invite = NoInvite /\ q.session = s /\ q.limit = users[u].limit
  BY <1>3, NoWindow DEF Idle, RequestRows, UserRows
<1> HIDE DEF q
<1>5. RequestSound(q)
  BY <1>2, <1>3, <1>4 DEF RequestSound
<1>6. AttemptsPaid'
  <2>1. \A v \in Users : \A k \in Kinds : \A w \in 1 .. MaxWindows : Paid(v, k, w)' = Paid(v, k, w)
    <3>1. \A t \in Requests \ {r} : requests'[t] = requests[t]
      BY <1>2 DEF IInv, TypeOK
    <3>2. requests'[r].stage # "charged" /\ requests[r].stage # "charged"
      BY <1>2, <1>4 DEF IInv, TypeOK
    <3> QED
      BY <3>1, <3>2 DEF Paid
  <2> QED
    BY <1>2, <2>1 DEF IInv, AttemptsPaid, Allowed
<1>7. spent' \in [Users -> [Kinds -> BudgetRows]] /\ history' \in [Users -> HistoryRows]
  BY <1>2 DEF IInv, TypeOK
<1> QED
  BY <1>2, <1>4, <1>5, <1>6, <1>7, RequestMoves

\* A payment: the attempt counts before a credential is looked at, and within the budget.
LEMMA ChargeStep ==
  ASSUME AccountsAssumption, IInv, NEW r \in Requests, NEW u \in Users, NEW k \in Kinds,
         NEW row \in RequestRows,
         Charge(r, u, k, row),
         requests[r].stage # "charged",
         row.user = u, row.invite = NoInvite, row.limit = 0, users[u].status # "absent"
  PROVE  IInv'
<1>0. PICK fresh \in BOOLEAN :
        LET counted == Counted(spent[u][k], fresh) IN
        /\ fresh => spent[u][k].window < MaxWindows
        /\ ~fresh => spent[u][k].window > 0
        /\ counted.attempts <= Budget[k]
        /\ spent' = SpendsAttempt(u, k, fresh)
        /\ requests' = [requests EXCEPT ![r] = [row EXCEPT !.stage = "charged", !.kind = k,
                                                           !.window = counted.window]]
        /\ UNCHANGED <<users, invites, sessions, usage, closing, history>>
  BY DEF Charge
<1> DEFINE before == spent[u][k]
           counted == Counted(before, fresh)
<1>n. PICK now : now = counted.window
  OBVIOUS
<1> DEFINE q == [row EXCEPT !.stage = "charged", !.kind = k, !.window = now]
<1>1. /\ counted.attempts <= Budget[k] /\ requests' = [requests EXCEPT ![r] = q]
      /\ spent' = [spent EXCEPT ![u][k] = counted]
      /\ fresh => before.window < MaxWindows
      /\ ~fresh => before.window > 0
      /\ UNCHANGED <<users, invites, sessions, usage, closing, history>>
  BY <1>0, <1>n DEF SpendsAttempt
<1>s. /\ spent \in [Users -> [Kinds -> BudgetRows]] /\ before \in BudgetRows
      /\ before.window \in 0 .. MaxWindows /\ before.attempts \in Nat
  <2>1. spent \in [Users -> [Kinds -> BudgetRows]]
    BY DEF IInv, TypeOK
  <2> QED
    BY <2>1 DEF BudgetRows
<1>c. /\ counted \in BudgetRows /\ now \in 1 .. MaxWindows /\ counted.attempts \in Nat
      /\ IF fresh THEN now = before.window + 1 /\ counted.attempts = 1
                  ELSE now = before.window /\ counted.attempts = before.attempts + 1
  <2>1. MaxWindows \in Nat /\ fresh \in BOOLEAN
    BY DEF AccountsAssumption
  <2> HIDE DEF before
  <2>2. CASE fresh
    BY <1>1, <1>n, <1>s, <2>1, <2>2 DEF Counted, BudgetRows
  <2>3. CASE ~fresh
    BY <1>1, <1>n, <1>s, <2>1, <2>3 DEF Counted, BudgetRows
  <2> QED
    BY <2>2, <2>3
<1> HIDE DEF before, counted
<1>2. /\ q \in RequestRows /\ q.stage = "charged" /\ q.kind = k /\ q.user = u
      /\ q.invite = NoInvite /\ q.limit = 0 /\ q.window = now
  <2>1. now \in 0 .. MaxWindows
    BY <1>c, NoWindow
  <2> QED
    BY <2>1 DEF RequestRows
<1> HIDE DEF q
<1>3. 0 <= history[u].granted /\ k # "register"
  BY RowTypes DEF HistoryRows, Kinds
<1>4. RequestSound(q)
  BY <1>2, <1>3, <1>c DEF RequestSound
<1>5. history' \in [Users -> HistoryRows]
  BY <1>1 DEF IInv, TypeOK
<1>6. /\ spent' \in [Users -> [Kinds -> BudgetRows]]
      /\ spent'[u][k] = counted
      /\ \A v \in Users : \A j \in Kinds : v # u \/ j # k => spent'[v][j] = spent[v][j]
  <2>1. [spent[u] EXCEPT ![k] = counted] \in [Kinds -> BudgetRows]
    BY <1>s, <1>c
  <2> QED
    BY <1>1, <1>s, <2>1
<1>7. AttemptsPaid'
  <2>1. requests'[r] = q /\ \A s \in Requests \ {r} : requests'[s] = requests[s]
    BY <1>1 DEF IInv, TypeOK
  <2>2. \A v \in Users : \A j \in Kinds : \A w \in 1 .. MaxWindows :
          v # u \/ j # k \/ w # now => Paid(v, j, w)' = Paid(v, j, w)
    BY <1>2, <2>1 DEF Paid
  <2>3. Paid(u, k, now)' = Paid(u, k, now) \cup {r} /\ r \notin Paid(u, k, now)
    BY <1>2, <2>1 DEF Paid
  <2>4. \A w \in 1 .. MaxWindows :
          /\ IsFiniteSet(Paid(u, k, w))
          /\ history[u].checks[k][w] + Cardinality(Paid(u, k, w)) <= Allowed(u, k, w)
    BY DEF IInv, AttemptsPaid
  <2>5. /\ IsFiniteSet(Paid(u, k, now)')
        /\ Cardinality(Paid(u, k, now)') = Cardinality(Paid(u, k, now)) + 1
    BY <1>c, <2>3, <2>4, FS_AddElement
  <2>6. /\ Budget[k] \in Nat /\ MaxWindows \in Nat
        /\ \A w \in 1 .. MaxWindows :
             /\ Cardinality(Paid(u, k, w)) \in Nat /\ history[u].checks[k][w] \in Nat
             /\ Allowed(u, k, w) \in Nat /\ Allowed(u, k, w) <= Budget[k]
    <3>1. Budget[k] \in Nat /\ MaxWindows \in Nat
      BY DEF AccountsAssumption, Kinds
    <3>2. \A w \in 1 .. MaxWindows : history[u].checks[k][w] \in Nat
      BY RowTypes DEF HistoryRows
    <3>3. \A w \in 1 .. MaxWindows : Cardinality(Paid(u, k, w)) \in Nat
      BY <2>4, FS_CardinalityType
    <3>4. \A w \in 1 .. MaxWindows : Allowed(u, k, w) \in Nat /\ Allowed(u, k, w) <= Budget[k]
      BY AllowedType
    <3> QED
      BY <3>1, <3>2, <3>3, <3>4
  <2>7. /\ Allowed(u, k, now) + 1 <= Allowed(u, k, now)'
        /\ \A w \in 1 .. MaxWindows : w # now => Allowed(u, k, w) <= Allowed(u, k, w)'
    <3>1. \A w \in 1 .. MaxWindows :
            Allowed(u, k, w)' = IF w < now THEN Budget[k]
                                ELSE IF w = now THEN counted.attempts ELSE 0
      BY <1>6, <1>n DEF Allowed
    <3>2. \A w \in 1 .. MaxWindows :
            Allowed(u, k, w) = IF w < before.window THEN Budget[k]
                               ELSE IF w = before.window THEN before.attempts ELSE 0
      BY DEF Allowed, before
    <3>3. CASE fresh
      <4>1. Allowed(u, k, now) = 0 /\ Allowed(u, k, now)' = 1
        BY <1>c, <1>s, <3>1, <3>2, <3>3
      <4>2. ASSUME NEW w \in 1 .. MaxWindows, w # now PROVE Allowed(u, k, w) <= Allowed(u, k, w)'
        BY <1>c, <1>s, <2>6, <3>1, <3>2, <3>3, <4>2
      <4> QED
        BY <4>1, <4>2
    <3>4. CASE ~fresh
      <4>1. Allowed(u, k, now) = before.attempts /\ Allowed(u, k, now)' = before.attempts + 1
        BY <1>c, <1>s, <3>1, <3>2, <3>4
      <4>2. ASSUME NEW w \in 1 .. MaxWindows, w # now PROVE Allowed(u, k, w) <= Allowed(u, k, w)'
        BY <1>c, <1>s, <2>6, <3>1, <3>2, <3>4, <4>2
      <4> QED
        BY <1>s, <4>1, <4>2
    <3> QED
      BY <3>3, <3>4
  <2>8. ASSUME NEW w \in 1 .. MaxWindows
        PROVE  /\ IsFiniteSet(Paid(u, k, w)')
               /\ history'[u].checks[k][w] + Cardinality(Paid(u, k, w)') <= Allowed(u, k, w)'
    <3>1. Allowed(u, k, w)' \in Nat
      BY <1>6, <1>c, <2>6 DEF Allowed
    <3>2. CASE w = now
      BY <1>1, <2>4, <2>5, <2>6, <2>7, <3>1, <3>2
    <3>3. CASE w # now
      <4>1. Paid(u, k, w)' = Paid(u, k, w)
        BY <2>2, <3>3
      <4> QED
        BY <1>1, <2>4, <2>6, <2>7, <3>1, <3>3, <4>1
    <3> QED
      BY <3>2, <3>3
  <2>9. \A v \in Users : \A j \in Kinds : v # u \/ j # k =>
          \A w \in 1 .. MaxWindows : Allowed(v, j, w)' = Allowed(v, j, w)
    BY <1>6 DEF Allowed
  <2>10. ASSUME NEW v \in Users, NEW j \in Kinds, v # u \/ j # k
         PROVE  /\ spent'[v][j].attempts <= Budget[j]
                /\ \A w \in 1 .. MaxWindows :
                     /\ IsFiniteSet(Paid(v, j, w)')
                     /\ history'[v].checks[j][w] + Cardinality(Paid(v, j, w)') <= Allowed(v, j, w)'
    BY <1>1, <1>6, <2>2, <2>9, <2>10 DEF IInv, AttemptsPaid
  <2>11. spent'[u][k].attempts <= Budget[k]
    BY <1>1, <1>6
  <2> QED
    BY <2>8, <2>10, <2>11 DEF AttemptsPaid
<1> QED
  BY <1>1, <1>2, <1>4, <1>5, <1>6, <1>7, RequestMoves

\* A look at a credential uses up a payment; it passes on only what matches, under a lock
\* that nobody else holds.
LEMMA LookStep ==
  ASSUME AccountsAssumption, IInv, NEW r \in Requests, NEW k \in Kinds,
         NEW given \in 1 .. MaxChanges, NEW current,
         Checks(r, k, given, current), Free(requests[r].user),
         k = "login" => current = users[requests[r].user].password,
         k = "reset" => current = users[requests[r].user].code
  PROVE  IInv'
<1> DEFINE p == requests[r]
           q == IF given = current
                THEN [p EXCEPT !.stage = "locked", !.window = 0,
                               !.loaded = IF k = "login" THEN given ELSE 0]
                ELSE Idle
<1>1. p \in RequestRows /\ RequestSound(p) /\ p.stage = "charged" /\ p.kind = k
  BY RowTypes DEF Checks
<1>2. PICK u \in Users : u = p.user
  BY <1>1 DEF RequestSound
<1>w. PICK w \in 1 .. MaxWindows : w = p.window
  BY <1>1 DEF RequestSound
<1>3. /\ users[u].status = "active"
      /\ history' = [history EXCEPT ![u].checks[k][w] = @ + 1]
      /\ requests' = [requests EXCEPT ![r] = q]
      /\ UNCHANGED <<users, invites, sessions, spent, usage, closing>>
  BY <1>2, <1>w DEF Checks
<1>4. given \in Nat /\ given # 0
  BY DEF AccountsAssumption
<1>5. p.invite = NoInvite /\ p.limit <= history[u].granted /\ k # "register"
  BY <1>1, <1>2 DEF RequestSound, Kinds
<1>6. q \in RequestRows /\ (q # Idle => /\ q.stage = "locked" /\ q.kind = k /\ q.user = u
                                        /\ q.invite = NoInvite /\ q.limit = p.limit)
  BY <1>1, <1>2, <1>4, <1>5, IdleRequest, NoWindow DEF RequestRows
<1>7. q # Idle => given = current /\ (k = "login" => q.loaded = given)
  BY <1>1 DEF RequestRows
<1> HIDE DEF q
<1>8. RequestSound(q)
  <2>1. CASE q = Idle
    BY <2>1, IdleSound
  <2>2. CASE q # Idle
    BY <1>2, <1>3, <1>4, <1>5, <1>6, <1>7, <2>2 DEF RequestSound
  <2> QED
    BY <2>1, <2>2
<1>9. /\ history' \in [Users -> HistoryRows]
      /\ history'[u].checks[k][w] = history[u].checks[k][w] + 1
      /\ \A v \in Users : /\ history'[v].resets = history[v].resets
                          /\ history'[v].granted = history[v].granted
                          /\ history'[v].invite = history[v].invite
                          /\ \A j \in Kinds : \A x \in 1 .. MaxWindows :
                               v # u \/ j # k \/ x # w =>
                                 history'[v].checks[j][x] = history[v].checks[j][x]
  <2>1. history \in [Users -> HistoryRows] /\ history[u] \in HistoryRows
    BY DEF IInv, TypeOK
  <2> DEFINE looks == [history[u].checks[k] EXCEPT ![w] = @ + 1]
             checks == [history[u].checks EXCEPT ![k] = looks]
             row == [history[u] EXCEPT !.checks = checks]
  <2>5. /\ history[u].checks \in [Kinds -> [1 .. MaxWindows -> Nat]]
        /\ history[u].checks[k] \in [1 .. MaxWindows -> Nat]
        /\ history[u].checks[k][w] + 1 \in Nat
    BY <2>1 DEF HistoryRows
  <2>6. /\ looks \in [1 .. MaxWindows -> Nat] /\ looks[w] = history[u].checks[k][w] + 1
        /\ \A x \in 1 .. MaxWindows : x # w => looks[x] = history[u].checks[k][x]
    BY <2>5
  <2>3. history' = [history EXCEPT ![u] = row]
    BY <1>3, <2>1
  <2> HIDE DEF looks
  <2>2. /\ checks \in [Kinds -> [1 .. MaxWindows -> Nat]] /\ checks[k] = looks
        /\ \A j \in Kinds : j # k => checks[j] = history[u].checks[j]
    BY <2>5, <2>6
  <2> HIDE DEF checks
  <2>4. /\ row \in HistoryRows /\ row.checks = checks
        /\ row.resets = history[u].resets /\ row.granted = history[u].granted
        /\ row.invite = history[u].invite
    BY <2>1, <2>2 DEF HistoryRows
  <2> HIDE DEF row
  <2>7. /\ history' \in [Users -> HistoryRows] /\ history'[u] = row
        /\ \A v \in Users \ {u} : history'[v] = history[v]
    BY <2>1, <2>3, <2>4
  <2> QED
    BY <2>2, <2>4, <2>6, <2>7
<1>10. AttemptsPaid'
  <2>1. requests'[r] = q /\ \A s \in Requests \ {r} : requests'[s] = requests[s]
    BY <1>3 DEF IInv, TypeOK
  <2>2. q.stage # "charged"
    BY <1>6, IdleRequest
  <2>3. \A v \in Users : \A j \in Kinds : \A x \in 1 .. MaxWindows :
          v # u \/ j # k \/ x # w => Paid(v, j, x)' = Paid(v, j, x)
    BY <1>1, <1>2, <1>w, <2>1, <2>2 DEF Paid
  <2>4. Paid(u, k, w)' = Paid(u, k, w) \ {r} /\ r \in Paid(u, k, w)
    BY <1>1, <1>2, <1>w, <2>1, <2>2 DEF Paid
  <2>5. /\ IsFiniteSet(Paid(u, k, w))
        /\ history[u].checks[k][w] + Cardinality(Paid(u, k, w)) <= Allowed(u, k, w)
    BY DEF IInv, AttemptsPaid
  <2>6. /\ IsFiniteSet(Paid(u, k, w)')
        /\ Cardinality(Paid(u, k, w)') = Cardinality(Paid(u, k, w)) - 1
    BY <2>4, <2>5, FS_RemoveElement
  <2>7. Cardinality(Paid(u, k, w)) \in Nat /\ history[u].checks[k][w] \in Nat
    BY <2>5, FS_CardinalityType, RowTypes DEF HistoryRows
  <2>11. history'[u].checks[k][w] = history[u].checks[k][w] + 1
    BY <1>9
  <2>8. history'[u].checks[k][w] + Cardinality(Paid(u, k, w)')
          = history[u].checks[k][w] + Cardinality(Paid(u, k, w))
    BY <2>6, <2>7, <2>11
  <2>9. \A v \in Users : \A j \in Kinds : \A x \in 1 .. MaxWindows :
          Allowed(v, j, x)' = Allowed(v, j, x)
    BY <1>3 DEF Allowed
  <2>10. ASSUME NEW v \in Users, NEW j \in Kinds, NEW x \in 1 .. MaxWindows
         PROVE  /\ IsFiniteSet(Paid(v, j, x)')
                /\ history'[v].checks[j][x] + Cardinality(Paid(v, j, x)') <= Allowed(v, j, x)'
    <3>1. CASE v = u /\ j = k /\ x = w
      BY <2>5, <2>6, <2>8, <2>9, <3>1
    <3>2. CASE v # u \/ j # k \/ x # w
      <4>1. /\ IsFiniteSet(Paid(v, j, x))
            /\ history[v].checks[j][x] + Cardinality(Paid(v, j, x)) <= Allowed(v, j, x)
        BY DEF IInv, AttemptsPaid
      <4> QED
        BY <1>9, <2>3, <2>9, <3>2, <4>1
    <3> QED
      BY <3>1, <3>2
  <2> QED
    BY <1>3, <2>10 DEF IInv, AttemptsPaid
<1>11. /\ q.stage = "locked" /\ q.kind \in Kinds => Free(q.user)
       /\ q.stage = "locked" /\ q.invite \in Invites => InviteFree(q.invite)
  BY <1>2, <1>6, IdleRequest DEF AccountsAssumption
<1>12. spent' \in [Users -> [Kinds -> BudgetRows]]
  BY <1>3 DEF IInv, TypeOK
<1> HIDE DEF p
<1> QED
  BY <1>3, <1>6, <1>8, <1>9, <1>10, <1>11, <1>12, RequestMoves

\* The steps of sign-in, password and recovery before anything is committed.
LEMMA BudgetStep ==
  ASSUME AccountsAssumption, IInv, NEW r \in Requests,
         \/ \E u \in Followed, k \in {"login", "reset"} : ChargeSignIn(r, u, k)
         \/ ChargePassword(r)
         \/ \E given \in 1 .. MaxChanges :
              CheckLogin(r, given) \/ CheckPassword(r, given) \/ CheckCode(r, given)
  PROVE  IInv'
<1>1. ASSUME NEW u \in Followed, NEW k \in {"login", "reset"}, ChargeSignIn(r, u, k) PROVE IInv'
  <2> DEFINE row == [Idle EXCEPT !.user = u]
  <2>1. u \in Users /\ k \in Kinds
    BY DEF AccountsAssumption, Kinds
  <2>2. row \in RequestRows /\ row.user = u /\ row.invite = NoInvite /\ row.limit = 0
    BY <2>1, NoWindow DEF Idle, RequestRows
  <2>3. /\ Charge(r, u, k, row) /\ requests[r].stage # "charged" /\ users[u].status # "absent"
    BY <1>1 DEF ChargeSignIn, Present
  <2> HIDE DEF row
  <2> QED
    BY <2>1, <2>2, <2>3, ChargeStep
<1>2. CASE ChargePassword(r)
  <2> DEFINE u == requests[r].user
             row == [requests[r] EXCEPT !.limit = 0]
  <2>1. /\ requests[r].stage = "read" /\ Charge(r, u, "password", row)
        /\ requests[r] \in RequestRows /\ RequestSound(requests[r])
    BY <1>2, RowTypes DEF ChargePassword
  <2>2. row \in RequestRows /\ row.user = u /\ row.invite = requests[r].invite /\ row.limit = 0
    BY <2>1 DEF RequestRows
  <2>3. u \in Users /\ row.invite = NoInvite /\ users[u].status # "absent" /\ "password" \in Kinds
    BY <2>1, <2>2 DEF RequestSound, Kinds
  <2> HIDE DEF row, u
  <2> QED
    BY <2>1, <2>2, <2>3, ChargeStep
<1>3. ASSUME NEW given \in 1 .. MaxChanges,
             CheckLogin(r, given) \/ CheckPassword(r, given) \/ CheckCode(r, given)
      PROVE  IInv'
  <2>1. "login" \in Kinds /\ "password" \in Kinds /\ "reset" \in Kinds
    BY DEF Kinds
  <2>2. CASE CheckLogin(r, given)
    BY <2>1, <2>2, LookStep DEF CheckLogin, LoginReads
  <2>3. CASE CheckPassword(r, given)
    BY <2>1, <2>3, LookStep DEF CheckPassword
  <2>4. CASE CheckCode(r, given)
    BY <2>1, <2>4, LookStep DEF CheckCode, ResetReads
  <2> QED
    BY <1>3, <2>2, <2>3, <2>4
<1> QED
  BY <1>1, <1>2, <1>3
-----------------------------------------------------------------------------
(* Sessions, and what the holder of a row commits.                         *)

\* Revoking sessions makes none live and names no other account or password.
Revokes(new) ==
  /\ new \in Seq(SessionRows) /\ Len(new) = Len(sessions)
  /\ \A s \in DOMAIN sessions : /\ new[s].user = sessions[s].user
                                /\ new[s].password = sessions[s].password
                                /\ new[s].live => sessions[s].live

\* revoke_sessions, with and without the session of the request, and the end of one
\* session (auth.py:410-438).
LEMMA Revocation ==
  ASSUME IInv, NEW new, NEW S, DOMAIN new = DOMAIN sessions,
         \A s \in DOMAIN sessions :
           new[s] = IF s \in S THEN [sessions[s] EXCEPT !.live = FALSE] ELSE sessions[s],
         new = [s \in DOMAIN new |-> new[s]]
  PROVE  /\ Revokes(new)
         /\ \A s \in DOMAIN sessions : s \in S => ~new[s].live
<1>1. \A s \in DOMAIN sessions :
        LET closed == [sessions[s] EXCEPT !.live = FALSE] IN
        /\ closed \in SessionRows /\ ~closed.live /\ closed.user = sessions[s].user
        /\ closed.password = sessions[s].password
  BY RowTypes DEF SessionRows
<1>2. \A s \in DOMAIN sessions :
        /\ new[s] \in SessionRows
        /\ new[s].user = sessions[s].user /\ new[s].password = sessions[s].password
        /\ new[s].live => sessions[s].live
        /\ s \in S => ~new[s].live
  <2> TAKE s \in DOMAIN sessions
  <2>1. CASE s \in S
    BY <1>1, <2>1
  <2>2. CASE s \notin S
    BY <2>2, RowTypes
  <2> QED
    BY <2>1, <2>2
<1>3. DOMAIN new = 1 .. Len(sessions) /\ Len(sessions) \in Nat
  BY RowTypes
<1>4. new \in Seq(SessionRows) /\ Len(new) = Len(sessions)
  <2>1. new \in [1 .. Len(sessions) -> SessionRows]
    BY <1>2, <1>3
  <2> QED
    BY <1>3, <2>1, SeqDef
<1> QED
  BY <1>2, <1>4 DEF Revokes

LEMMA RevokedSessions ==
  ASSUME IInv, NEW u \in Users, NEW s
  PROVE  /\ Revokes(RevokedAll(u)) /\ Revokes(RevokedOthers(u, s)) /\ Revokes(sessions)
         /\ s \in DOMAIN sessions => Revokes([sessions EXCEPT ![s].live = FALSE])
         /\ \A i \in DOMAIN sessions : sessions[i].user = u => ~RevokedAll(u)[i].live
<1>1. /\ Revokes(RevokedAll(u))
      /\ \A i \in DOMAIN sessions : sessions[i].user = u => ~RevokedAll(u)[i].live
  <2> DEFINE S == {i \in DOMAIN sessions : sessions[i].user = u}
             new == RevokedAll(u)
  <2>1. /\ DOMAIN new = DOMAIN sessions
        /\ \A i \in DOMAIN sessions :
             new[i] = IF i \in S THEN [sessions[i] EXCEPT !.live = FALSE] ELSE sessions[i]
        /\ new = [i \in DOMAIN new |-> new[i]]
    BY DEF RevokedAll
  <2>2. \A i \in DOMAIN sessions : sessions[i].user = u => i \in S
    OBVIOUS
  <2> HIDE DEF S, new
  <2>3. Revokes(new) /\ \A i \in DOMAIN sessions : i \in S => ~new[i].live
    BY <2>1, Revocation
  <2> QED
    BY <2>2, <2>3 DEF new
<1>2. Revokes(RevokedOthers(u, s))
  <2> DEFINE S == {i \in DOMAIN sessions : sessions[i].user = u /\ i # s}
             new == RevokedOthers(u, s)
  <2>1. /\ DOMAIN new = DOMAIN sessions
        /\ \A i \in DOMAIN sessions :
             new[i] = IF i \in S THEN [sessions[i] EXCEPT !.live = FALSE] ELSE sessions[i]
        /\ new = [i \in DOMAIN new |-> new[i]]
    BY DEF RevokedOthers
  <2> HIDE DEF S, new
  <2> QED
    BY <2>1, Revocation DEF new
<1>3. Revokes(sessions)
  BY RowTypes DEF Revokes, IInv, TypeOK
<1>4. ASSUME s \in DOMAIN sessions PROVE Revokes([sessions EXCEPT ![s].live = FALSE])
  <2> DEFINE S == {s}
             new == [sessions EXCEPT ![s].live = FALSE]
  <2>1. /\ DOMAIN new = DOMAIN sessions
        /\ \A i \in DOMAIN sessions :
             new[i] = IF i \in S THEN [sessions[i] EXCEPT !.live = FALSE] ELSE sessions[i]
        /\ new = [i \in DOMAIN new |-> new[i]]
    BY <1>4 DEF IInv, TypeOK
  <2> HIDE DEF S, new
  <2> QED
    BY <2>1, Revocation DEF new
<1> QED
  BY <1>1, <1>2, <1>3, <1>4

\* A row of users is written, and sessions are revoked if they have to be.
LEMMA UserStep ==
  ASSUME AccountsAssumption, IInv, NEW u \in Users, NEW row \in UserRows,
         users' = [users EXCEPT ![u] = row],
         row.status # "absent",
         RequestsEnd, requests' \in [Requests -> RequestRows],
         \A s \in Requests : Holds(s, u) => requests'[s] = Idle,
         Revokes(sessions'),
         \/ \A s \in DOMAIN sessions : sessions[s].user = u => ~sessions'[s].live
         \/ row.status = users[u].status /\ row.password = users[u].password
         \/ users[u].status # "active",
         history' \in [Users -> HistoryRows],
         \A v \in Users \ {u} : history'[v] = history[v],
         history'[u].checks = history[u].checks, history'[u].invite = history[u].invite,
         history[u].granted <= history'[u].granted,
         history'[u].resets + (IF row.code = 0 THEN 0 ELSE 1) <= row.issued,
         row.limit <= history'[u].granted,
         usage' \in [Users -> Nat], usage'[u] <= usage[u],
         \A v \in Users \ {u} : usage'[v] = usage[v],
         closing' \subseteq Users,
         UNCHANGED <<invites, spent>>
  PROVE  IInv'
<1> USE DEF IInv
<1>1. users'[u] = row /\ \A v \in Users \ {u} : users'[v] = users[v]
  BY DEF TypeOK
<1>2. TypeOK'
  BY <1>1 DEF TypeOK, Revokes
<1>3. UserSound(u)'
  <2>1. usage[u] <= history[u].granted /\ usage[u] \in Nat /\ usage'[u] \in Nat
    BY RowTypes DEF UsersSound, UserSound
  <2>2. history[u].granted \in Nat /\ history'[u].granted \in Nat
    BY RowTypes DEF HistoryRows
  <2> QED
    BY <1>1, <2>1, <2>2 DEF UserSound
<1>4. /\ Len(sessions') = Len(sessions)
      /\ \A s \in DOMAIN sessions : /\ sessions'[s].user = sessions[s].user
                                    /\ sessions'[s].password = sessions[s].password
                                    /\ sessions'[s].live => sessions[s].live
  BY DEF Revokes
<1>5. \A s \in DOMAIN sessions : sessions'[s].live /\ sessions[s].user = u =>
        row.status = "active" /\ row.password = users[u].password
  BY <1>4 DEF LiveSessionsAreCurrent
<1> QED
  BY <1>1, <1>2, <1>3, <1>4, <1>5, UserWrite

\* The request that holds a row, or any request while nobody holds it, is over.
LEMMA HolderEnds ==
  ASSUME IInv, NEW r \in Requests, NEW u \in Users, Finish(r), Holds(r, u) \/ Free(u)
  PROVE  /\ RequestsEnd /\ requests' \in [Requests -> RequestRows]
         /\ \A s \in Requests : Holds(s, u) => requests'[s] = Idle
<1>1. RequestsEnd /\ requests' \in [Requests -> RequestRows] /\ requests'[r] = Idle
  BY FinishEnds DEF IInv
<1>2. \A s \in Requests : Holds(s, u) => s = r
  BY DEF IInv, LocksExclusive, Free
<1> QED
  BY <1>1, <1>2

\* What the holder of the row writes (auth.py:446-533).
LEMMA HolderStep ==
  ASSUME AccountsAssumption, IInv, NEW r \in Requests,
         \/ ChangePassword(r) \/ RotateRecoveryCode(r) \/ ResetPassword(r)
         \/ RequestDeletion(r) \/ CancelDeletion(r)
  PROVE  IInv'
<1>1. PICK u \in Users : u = requests[r].user
  <2>1. requests[r].stage # "idle"
    BY DEF ChangePassword, RotateRecoveryCode, ResetPassword, RequestDeletion, CancelDeletion,
           HoldsFor, Holds, Authenticated
  <2> QED
    BY <2>1, RowTypes DEF RequestSound
<1>2. /\ Finish(r) /\ (Holds(r, u) \/ Free(u))
      /\ UNCHANGED <<invites, spent, usage, closing>>
  BY <1>1 DEF ChangePassword, RotateRecoveryCode, ResetPassword, RequestDeletion, CancelDeletion,
              HoldsFor, Authenticated
<1>3. /\ RequestsEnd /\ requests' \in [Requests -> RequestRows]
      /\ \A s \in Requests : Holds(s, u) => requests'[s] = Idle
  BY <1>2, HolderEnds
<1>4. users[u].status # "absent"
  <2>1. requests[r].stage # "idle" /\ requests[r].kind # "register"
    <3>1. requests[r].stage = "read" => requests[r].kind = "none"
      BY RowTypes DEF RequestSound
    <3> QED
      BY <3>1 DEF ChangePassword, RotateRecoveryCode, ResetPassword, RequestDeletion,
             CancelDeletion, HoldsFor, Holds, Authenticated, Kinds
  <2> QED
    BY <1>1, <2>1, RowTypes DEF RequestSound
<1>5. /\ users[u] \in UserRows /\ history[u] \in HistoryRows /\ history \in [Users -> HistoryRows]
      /\ users \in [Users -> UserRows]
      /\ history[u].resets \in Nat /\ history[u].granted \in Nat
      /\ users[u].issued \in Nat /\ users[u].password \in Nat
      /\ users[u].limit <= history[u].granted
      /\ history[u].resets + (IF users[u].code = 0 THEN 0 ELSE 1) <= users[u].issued
  BY RowTypes DEF IInv, TypeOK, UsersSound, UserSound, HistoryRows, UserRows
<1>6. /\ Revokes(RevokedAll(u)) /\ Revokes(RevokedOthers(u, requests[r].session))
      /\ Revokes(sessions)
      /\ \A s \in DOMAIN sessions : sessions[s].user = u => ~RevokedAll(u)[s].live
  BY RevokedSessions
<1>u. /\ usage' \in [Users -> Nat] /\ usage'[u] <= usage[u] /\ closing' \subseteq Users
      /\ \A v \in Users \ {u} : usage'[v] = usage[v]
  BY <1>2, RowTypes DEF IInv, TypeOK
<1>7. ASSUME NEW row \in UserRows, NEW past \in HistoryRows,
             users' = [users EXCEPT ![u] = row], history' = [history EXCEPT ![u] = past],
             row.status = users[u].status,
             row.limit = users[u].limit, Revokes(sessions'),
             \/ \A s \in DOMAIN sessions : sessions[s].user = u => ~sessions'[s].live
             \/ row.password = users[u].password,
             past.checks = history[u].checks, past.granted = history[u].granted,
             past.invite = history[u].invite,
             past.resets + (IF row.code = 0 THEN 0 ELSE 1) <= row.issued
      PROVE  IInv'
  <2>1. /\ history' \in [Users -> HistoryRows] /\ history'[u] = past
        /\ \A v \in Users \ {u} : history'[v] = history[v]
    BY <1>5, <1>7
  <2>2. /\ row.status # "absent" /\ history[u].granted <= history'[u].granted
        /\ row.limit <= history'[u].granted /\ history'[u].checks = history[u].checks
        /\ history'[u].invite = history[u].invite
        /\ history'[u].resets + (IF row.code = 0 THEN 0 ELSE 1) <= row.issued
    BY <1>4, <1>5, <1>7, <2>1
  <2>3. \/ \A s \in DOMAIN sessions : sessions[s].user = u => ~sessions'[s].live
        \/ row.status = users[u].status /\ row.password = users[u].password
    BY <1>7
  <2> QED
    BY <1>2, <1>3, <1>7, <1>u, <2>1, <2>2, <2>3, UserStep
<1>8. /\ history = [history EXCEPT ![u] = history[u]]
      /\ users[u].issued + 1 \in Nat /\ users[u].password + 1 \in Nat /\ users[u].issued + 1 # 0
  BY <1>5
<1>9. CASE ChangePassword(r)
  <2> DEFINE row == [users[u] EXCEPT !.password = users[u].password + 1]
  <2>1. /\ row \in UserRows /\ row.status = users[u].status
        /\ row.code = users[u].code /\ row.issued = users[u].issued /\ row.limit = users[u].limit
    BY <1>5, <1>8 DEF UserRows
  <2>2. users' = [users EXCEPT ![u] = row] /\ sessions' = RevokedAll(u) /\ history' = history
    BY <1>1, <1>5, <1>9 DEF ChangePassword
  <2> HIDE DEF row
  <2> QED
    BY <1>5, <1>6, <1>7, <1>8, <2>1, <2>2
<1>10. CASE RotateRecoveryCode(r)
  <2> DEFINE code == users[u].issued + 1
             row == [users[u] EXCEPT !.issued = code, !.code = code]
  <2>1. users' = [users EXCEPT ![u] = row] /\ sessions' = sessions /\ history' = history
    BY <1>1, <1>5, <1>10 DEF RotateRecoveryCode
  <2>2. users[u] \in UserRows /\ code \in Nat
    BY <1>5, <1>8
  <2> HIDE DEF code
  <2>3. /\ row \in UserRows /\ row.status = users[u].status
        /\ row.password = users[u].password /\ row.limit = users[u].limit /\ row.issued = code
    BY <2>2 DEF UserRows
  <2> HIDE DEF row
  <2>4. history[u].resets + (IF row.code = 0 THEN 0 ELSE 1) <= row.issued
    BY <1>5, <2>3 DEF code
  <2> QED
    BY <1>5, <1>6, <1>7, <1>8, <2>1, <2>3, <2>4
<1>11. CASE ResetPassword(r)
  <2> DEFINE number == users[u].password + 1
             row == [users[u] EXCEPT !.password = number, !.code = 0]
             past == [history[u] EXCEPT !.resets = history[u].resets + 1]
  <2>1. /\ past \in HistoryRows /\ past.resets = history[u].resets + 1
        /\ past.checks = history[u].checks /\ past.granted = history[u].granted
        /\ past.invite = history[u].invite
    <3>1. history[u] \in HistoryRows /\ history[u].resets + 1 \in Nat
      BY <1>5
    <3> QED
      BY <3>1 DEF HistoryRows
  <2>2. /\ users' = [users EXCEPT ![u] = row] /\ sessions' = RevokedAll(u)
        /\ history' = [history EXCEPT ![u] = past]
    BY <1>1, <1>5, <1>11 DEF ResetPassword
  <2>3. users[u].code # 0
    BY <1>1, <1>11, RowTypes DEF ResetPassword, HoldsFor, Holds, RequestSound
  <2>4. users[u] \in UserRows /\ number \in Nat
    BY <1>5, <1>8
  <2> HIDE DEF number, past
  <2>5. /\ row \in UserRows /\ row.status = users[u].status
        /\ row.issued = users[u].issued /\ row.limit = users[u].limit /\ row.code = 0
    BY <2>4 DEF UserRows
  <2> HIDE DEF row
  <2>6. past.resets + (IF row.code = 0 THEN 0 ELSE 1) <= row.issued
    BY <1>5, <2>1, <2>3, <2>5
  <2> QED
    BY <1>6, <1>7, <2>1, <2>2, <2>5, <2>6
<1>12. ASSUME NEW leaving \in BOOLEAN, users' = [users EXCEPT ![u].leaving = leaving],
              Revokes(sessions'), history' = history
       PROVE  IInv'
  <2> DEFINE row == [users[u] EXCEPT !.leaving = leaving]
  <2>1. /\ row \in UserRows /\ row.status = users[u].status
        /\ row.password = users[u].password /\ row.code = users[u].code
        /\ row.issued = users[u].issued /\ row.limit = users[u].limit
    BY <1>5 DEF UserRows
  <2>2. users' = [users EXCEPT ![u] = row]
    BY <1>5, <1>12
  <2> HIDE DEF row
  <2> QED
    BY <1>5, <1>7, <1>8, <1>12, <2>1, <2>2
<1>13. CASE RequestDeletion(r)
  BY <1>1, <1>6, <1>12, <1>13 DEF RequestDeletion
<1>14. CASE CancelDeletion(r)
  BY <1>1, <1>6, <1>12, <1>14 DEF CancelDeletion
<1> QED
  BY <1>9, <1>10, <1>11, <1>13, <1>14
-----------------------------------------------------------------------------
(* The command line (manage_users.py).                                     *)

\* The larger of two limits.
LEMMA LargerLimit ==
  ASSUME NEW a \in Nat, NEW b \in Nat
  PROVE  Max({a, b}) \in Nat /\ a <= Max({a, b}) /\ b <= Max({a, b})
<1>1. \E x \in {a, b} : \A y \in {a, b} : x >= y
  <2>1. CASE a >= b
    BY <2>1
  <2>2. CASE b >= a
    BY <2>2
  <2> QED
    BY <2>1, <2>2
<1>2. Max({a, b}) \in {a, b} /\ \A y \in {a, b} : Max({a, b}) >= y
  BY <1>1 DEF Max
<1> QED
  BY <1>2

\* A request that holds or authenticated for an account found it there.
LEMMA AbsentIsFree ==
  ASSUME IInv, NEW u \in Users, users[u].status = "absent"
  PROVE  Free(u) /\ users[u] = NoRow
<1>1. \A r \in Requests : Holds(r, u) => users[u].status # "absent"
  BY RowTypes DEF Holds, RequestSound, Kinds
<1>2. users[u] = NoRow
  BY DEF IInv, UsersSound, UserSound
<1> QED
  BY <1>1, <1>2 DEF Free

\* The operator, or the purge, writes a row that nobody holds (manage_users.py:38-190,
\* account_deletion.py:63-144).
LEMMA OperatorStep ==
  ASSUME AccountsAssumption, IInv, NEW u \in Followed,
         \/ CreateAdmin(u) \/ Deactivate(u) \/ Activate(u)
         \/ \E limit \in Limits : SetAIQuota(u, limit)
         \/ PurgeCloses(u) \/ PurgeDeletes(u)
  PROVE  IInv'
<1>1. u \in Users
  BY DEF AccountsAssumption
<1>2. /\ users[u] \in UserRows /\ history[u] \in HistoryRows /\ history \in [Users -> HistoryRows]
      /\ users \in [Users -> UserRows] /\ requests \in [Requests -> RequestRows]
      /\ history[u].resets \in Nat /\ history[u].granted \in Nat
      /\ users[u].limit <= history[u].granted
      /\ history[u].resets + (IF users[u].code = 0 THEN 0 ELSE 1) <= users[u].issued
      /\ history = [history EXCEPT ![u] = history[u]]
  BY <1>1, RowTypes DEF IInv, TypeOK, UsersSound, UserSound, HistoryRows
<1>3. requests' = requests /\ Free(u) /\ UNCHANGED <<invites, spent>>
  BY <1>1, AbsentIsFree DEF CreateAdmin, Deactivate, Activate, SetAIQuota, PurgeCloses, PurgeDeletes
<1>u. /\ usage' \in [Users -> Nat] /\ usage'[u] <= usage[u] /\ closing' \subseteq Users
      /\ \A v \in Users \ {u} : usage'[v] = usage[v]
  <2>1. /\ usage \in [Users -> Nat] /\ usage[u] \in Nat /\ closing \subseteq Users
    BY <1>1 DEF IInv, TypeOK
  <2>2. usage' = usage \/ usage' = [usage EXCEPT ![u] = 0]
    BY DEF CreateAdmin, Deactivate, Activate, SetAIQuota, PurgeCloses, PurgeDeletes
  <2>3. closing' \in {closing, closing \cup {u}, closing \ {u}}
    BY DEF CreateAdmin, Deactivate, Activate, SetAIQuota, PurgeCloses, PurgeDeletes
  <2> QED
    BY <1>1, <2>1, <2>2, <2>3
<1>4. /\ RequestsEnd /\ requests' \in [Requests -> RequestRows]
      /\ \A s \in Requests : Holds(s, u) => requests'[s] = Idle
  BY <1>2, <1>3 DEF RequestsEnd, Free
<1>5. /\ Revokes(RevokedAll(u)) /\ Revokes(sessions)
      /\ \A s \in DOMAIN sessions : sessions[s].user = u => ~RevokedAll(u)[s].live
  BY <1>1, RevokedSessions
<1>6. ASSUME NEW row \in UserRows, NEW past \in HistoryRows,
             users' = [users EXCEPT ![u] = row], history' = [history EXCEPT ![u] = past],
             row.status # "absent",
             row.code \in {users[u].code, 0}, users[u].issued <= row.issued, Revokes(sessions'),
             \/ \A s \in DOMAIN sessions : sessions[s].user = u => ~sessions'[s].live
             \/ row.status = users[u].status /\ row.password = users[u].password
             \/ users[u].status # "active",
             past.checks = history[u].checks, past.resets = history[u].resets,
             past.invite = history[u].invite,
             history[u].granted <= past.granted, row.limit <= past.granted
      PROVE  IInv'
  <2>1. /\ history' \in [Users -> HistoryRows] /\ history'[u] = past
        /\ \A v \in Users \ {u} : history'[v] = history[v]
    BY <1>1, <1>2, <1>6
  <2>2. users[u].issued \in Nat /\ row.issued \in Nat
    BY <1>2 DEF UserRows
  <2>3. /\ history[u].granted <= history'[u].granted
        /\ row.limit <= history'[u].granted /\ history'[u].checks = history[u].checks
        /\ history'[u].invite = history[u].invite
        /\ history'[u].resets + (IF row.code = 0 THEN 0 ELSE 1) <= row.issued
    BY <1>2, <1>6, <2>1, <2>2
  <2>4. \/ \A s \in DOMAIN sessions : sessions[s].user = u => ~sessions'[s].live
        \/ row.status = users[u].status /\ row.password = users[u].password
        \/ users[u].status # "active"
    BY <1>6
  <2> QED
    BY <1>1, <1>3, <1>4, <1>6, <1>u, <2>1, <2>3, <2>4, UserStep
<1>7. CASE CreateAdmin(u)
  <2> DEFINE row == [NoRow EXCEPT !.status = "active", !.password = 1]
  <2>1. users[u] = NoRow
    BY <1>1, <1>7, AbsentIsFree DEF CreateAdmin
  <2>2. /\ users' = [users EXCEPT ![u] = row] /\ sessions' = sessions /\ history' = history
        /\ users[u].status # "active"
    BY <1>7 DEF CreateAdmin
  <2>3. /\ row \in UserRows /\ row.status = "active"
        /\ row.code = NoRow.code /\ row.issued = NoRow.issued /\ row.limit = NoRow.limit
        /\ NoRow.issued = 0
    BY DEF NoRow, UserRows
  <2> HIDE DEF row
  <2>4. NoRow.issued <= row.issued /\ history[u].granted <= history[u].granted
    BY <1>2, <2>3
  <2> QED
    BY <1>2, <1>5, <1>6, <2>1, <2>2, <2>3, <2>4
<1>8. ASSUME NEW limit \in Limits, SetAIQuota(u, limit) PROVE IInv'
  <2> DEFINE top == Max({history[u].granted, limit})
             row == [users[u] EXCEPT !.limit = limit]
             past == [history[u] EXCEPT !.granted = top]
  <2>1. top \in Nat /\ history[u].granted <= top /\ limit <= top /\ limit \in Nat
    BY <1>2, LargerLimit DEF AccountsAssumption
  <2>2. /\ users' = [users EXCEPT ![u] = row] /\ history' = [history EXCEPT ![u] = past]
        /\ sessions' = sessions /\ users[u].status # "absent"
    BY <1>1, <1>2, <1>8 DEF SetAIQuota, Present
  <2> HIDE DEF top
  <2>3. /\ past \in HistoryRows /\ past.granted = top
        /\ past.checks = history[u].checks /\ past.resets = history[u].resets
        /\ past.invite = history[u].invite
    BY <1>2, <2>1 DEF HistoryRows
  <2>4. /\ row \in UserRows /\ row.status = users[u].status
        /\ row.password = users[u].password /\ row.code = users[u].code
        /\ row.issued = users[u].issued /\ row.limit = limit
    BY <1>2, <2>1 DEF UserRows
  <2>5. users[u].issued <= users[u].issued
    BY <1>2 DEF UserRows
  <2> HIDE DEF row, past
  <2> QED
    BY <1>5, <1>6, <2>1, <2>2, <2>3, <2>4, <2>5
<1>9. CASE Deactivate(u) \/ PurgeCloses(u)
  <2> DEFINE row == [users[u] EXCEPT !.status = "inactive", !.limit = 0]
  <2>1. /\ users' = [users EXCEPT ![u] = row] /\ history' = history /\ sessions' = RevokedAll(u)
    BY <1>1, <1>2, <1>9 DEF Deactivate, PurgeCloses
  <2>2. /\ row \in UserRows /\ row.status = "inactive"
        /\ row.code = users[u].code /\ row.issued = users[u].issued /\ row.limit = 0
    BY <1>2 DEF UserRows
  <2>3. users[u].issued <= users[u].issued /\ history[u].granted <= history[u].granted
    BY <1>2 DEF UserRows
  <2> HIDE DEF row
  <2>4. row.status # "absent" /\ row.limit <= history[u].granted
    BY <1>2, <2>2
  <2>5. Revokes(sessions') /\ \A s \in DOMAIN sessions : sessions[s].user = u => ~sessions'[s].live
    BY <1>5, <2>1
  <2>6. history' = [history EXCEPT ![u] = history[u]]
    BY <1>2, <2>1
  <2> QED
    BY <1>2, <1>6, <2>1, <2>2, <2>3, <2>4, <2>5, <2>6
<1>10. CASE Activate(u)
  <2> DEFINE row == [users[u] EXCEPT !.status = "active"]
  <2>1. /\ users' = [users EXCEPT ![u] = row] /\ history' = history /\ sessions' = sessions
        /\ users[u].status # "active"
    BY <1>1, <1>2, <1>10 DEF Activate
  <2>2. /\ row \in UserRows /\ row.status = "active"
        /\ row.code = users[u].code /\ row.issued = users[u].issued
        /\ row.limit = users[u].limit
    BY <1>2 DEF UserRows
  <2>3. users[u].issued <= users[u].issued /\ history[u].granted <= history[u].granted
    BY <1>2 DEF UserRows
  <2> HIDE DEF row
  <2> QED
    BY <1>2, <1>5, <1>6, <2>1, <2>2, <2>3
<1>11. CASE PurgeDeletes(u)
  <2> DEFINE row == [users[u] EXCEPT !.status = "purged", !.code = 0]
  <2>1. /\ users' = [users EXCEPT ![u] = row] /\ history' = history /\ sessions' = RevokedAll(u)
    BY <1>1, <1>2, <1>11 DEF PurgeDeletes
  <2>2. /\ row \in UserRows /\ row.status = "purged" /\ row.code = 0
        /\ row.issued = users[u].issued /\ row.limit = users[u].limit
    BY <1>2 DEF UserRows
  <2>3. users[u].issued <= users[u].issued /\ history[u].granted <= history[u].granted
    BY <1>2 DEF UserRows
  <2> HIDE DEF row
  <2>4. row.status # "absent" /\ row.limit <= history[u].granted
    BY <1>2, <2>2
  <2>5. Revokes(sessions') /\ \A s \in DOMAIN sessions : sessions[s].user = u => ~sessions'[s].live
    BY <1>5, <2>1
  <2>6. history' = [history EXCEPT ![u] = history[u]]
    BY <1>2, <2>1
  <2> QED
    BY <1>2, <1>6, <2>1, <2>2, <2>3, <2>4, <2>5, <2>6
<1> QED
  BY <1>7, <1>8, <1>9, <1>10, <1>11
-----------------------------------------------------------------------------
(* Sessions that begin and end, and the month's use.                       *)

\* A request ends, and sessions may be revoked (auth.py:410-438, 566-620).
LEMMA SessionStep ==
  ASSUME AccountsAssumption, IInv, RequestsEnd, requests' \in [Requests -> RequestRows],
         Revokes(sessions'), closing' \subseteq Users,
         UNCHANGED <<users, invites, spent, usage, history>>
  PROVE  IInv'
<1>1. TypeOK'
  BY DEF IInv, TypeOK, Revokes
<1>2. Len(sessions) <= Len(sessions') /\ DOMAIN sessions' = DOMAIN sessions
  BY RowTypes DEF Revokes
<1>3. LiveSessionsAreCurrent'
  BY <1>2 DEF IInv, LiveSessionsAreCurrent, Revokes
<1>4. \A u \in Users : usage'[u] <= history[u].granted
  BY DEF IInv, UsersSound, UserSound
<1> QED
  BY <1>1, <1>2, <1>3, <1>4, TableWrite

\* The requests that end without writing a row of users, and the sessions that end.
LEMMA EndStep ==
  ASSUME AccountsAssumption, IInv,
         \/ \E r \in Requests : \/ RefuseRegistration(r) \/ Unauthorized(r) \/ Abandon(r)
                                \/ RevokeOtherSessions(r) \/ Logout(r)
         \/ \E s \in DOMAIN sessions : SessionExpires(s)
  PROVE  IInv'
<1>1. ASSUME NEW r \in Requests,
             \/ RefuseRegistration(r) \/ Unauthorized(r) \/ Abandon(r)
             \/ RevokeOtherSessions(r) \/ Logout(r)
      PROVE  IInv'
  <2>1. /\ Finish(r) /\ UNCHANGED <<users, invites, spent, usage, closing, history>>
    BY <1>1 DEF RefuseRegistration, Unauthorized, Abandon, RevokeOtherSessions, Logout
  <2>2. RequestsEnd /\ requests' \in [Requests -> RequestRows]
    BY <2>1, FinishEnds DEF IInv
  <2>3. Revokes(sessions')
    <3>1. CASE RefuseRegistration(r) \/ Unauthorized(r) \/ Abandon(r)
      <4>1. sessions' = sessions
        BY <3>1 DEF RefuseRegistration, Unauthorized, Abandon
      <4> QED
        BY <4>1, RowTypes DEF Revokes, IInv, TypeOK
    <3>2. CASE RevokeOtherSessions(r)
      <4>1. /\ requests[r].user \in Users
            /\ sessions' = RevokedOthers(requests[r].user, requests[r].session)
        BY <3>2, RowTypes DEF RevokeOtherSessions, Authenticated, RequestSound
      <4> QED
        BY <4>1, RevokedSessions
    <3>3. CASE Logout(r)
      <4>1. /\ requests[r].session \in DOMAIN sessions /\ requests[r].user \in Users
            /\ sessions' = [sessions EXCEPT ![requests[r].session].live = FALSE]
        BY <3>3, RowTypes DEF Logout, RequestSound
      <4> QED
        BY <4>1, RevokedSessions
    <3> QED
      BY <1>1, <3>1, <3>2, <3>3
  <2>4. closing' \subseteq Users
    BY <2>1 DEF IInv, TypeOK
  <2> QED
    BY <2>1, <2>2, <2>3, <2>4, SessionStep
<1>2. ASSUME NEW s \in DOMAIN sessions, SessionExpires(s) PROVE IInv'
  <2>1. /\ UNCHANGED <<users, invites, spent, requests, usage, closing, history>>
        /\ sessions' = [sessions EXCEPT ![s].live = FALSE]
    BY <1>2 DEF SessionExpires
  <2>2. sessions[s].user \in Users
    BY RowTypes DEF SessionRows
  <2>3. Revokes(sessions')
    BY <2>1, <2>2, RevokedSessions
  <2>4. RequestsEnd /\ requests' \in [Requests -> RequestRows]
    BY <2>1 DEF RequestsEnd, IInv, TypeOK
  <2>5. closing' \subseteq Users
    BY <2>1 DEF IInv, TypeOK
  <2> QED
    BY <2>1, <2>3, <2>4, <2>5, SessionStep
<1> QED
  BY <1>1, <1>2

\* A login that was accepted holds the row, so its password is still the account's
\* (auth.py:180-220).
LEMMA OpenSessionStep ==
  ASSUME AccountsAssumption, IInv, NEW r \in Requests, OpenSession(r)
  PROVE  IInv'
<1> DEFINE u == requests[r].user
           new == [user |-> u, password |-> requests[r].loaded, live |-> TRUE]
<1>1. /\ requests[r] \in RequestRows /\ u \in Users
      /\ requests[r].loaded = users[u].password /\ users[u].status = "active"
  BY RowTypes DEF OpenSession, HoldsFor, Holds, RequestSound
<1>2. /\ Finish(r) /\ UNCHANGED <<users, invites, spent, usage, closing, history>>
      /\ sessions' = Append(sessions, new)
  BY DEF OpenSession
<1>3. RequestsEnd /\ requests' \in [Requests -> RequestRows]
  BY <1>2, FinishEnds DEF IInv
<1>4. new \in SessionRows /\ new.user = u /\ new.password = users[u].password
  BY <1>1 DEF SessionRows, RequestRows
<1> HIDE DEF new
<1>5. /\ sessions' \in Seq(SessionRows) /\ Len(sessions') = Len(sessions) + 1
      /\ DOMAIN sessions' = 1 .. Len(sessions) + 1
      /\ \A s \in DOMAIN sessions : sessions'[s] = sessions[s]
      /\ sessions'[Len(sessions) + 1] = new
  <2>1. sessions \in Seq(SessionRows)
    BY DEF IInv, TypeOK
  <2> QED
    BY <1>2, <1>4, <2>1, AppendProperties
<1>6. TypeOK'
  BY <1>2, <1>3, <1>5 DEF IInv, TypeOK
<1>7. LiveSessionsAreCurrent'
  <2>1. \A s \in DOMAIN sessions' : s \in DOMAIN sessions \/ s = Len(sessions) + 1
    BY <1>5, RowTypes
  <2>2. \A s \in DOMAIN sessions : sessions'[s].live =>
          /\ users'[sessions'[s].user].status = "active"
          /\ sessions'[s].password = users'[sessions'[s].user].password
    BY <1>2, <1>5 DEF IInv, LiveSessionsAreCurrent
  <2>3. LET s == Len(sessions) + 1 IN
          /\ users'[sessions'[s].user].status = "active"
          /\ sessions'[s].password = users'[sessions'[s].user].password
    BY <1>1, <1>2, <1>4, <1>5
  <2> QED
    BY <2>1, <2>2, <2>3 DEF LiveSessionsAreCurrent
<1>8. Len(sessions) <= Len(sessions')
  BY <1>5, RowTypes
<1>9. \A v \in Users : usage'[v] <= history[v].granted
  BY <1>2 DEF IInv, UsersSound, UserSound
<1> QED
  BY <1>2, <1>3, <1>6, <1>7, <1>8, <1>9, TableWrite

\* A task is admitted while the month's use is below the limit the request loaded, which
\* was granted at some time (auth.py:690-706).
LEMMA ReserveStep ==
  ASSUME AccountsAssumption, IInv, NEW r \in Requests, ReserveAIUsage(r)
  PROVE  IInv'
<1> DEFINE u == requests[r].user
<1>1. /\ requests[r] \in RequestRows /\ u \in Users
      /\ requests[r].limit <= history[u].granted
  BY RowTypes DEF ReserveAIUsage, Authenticated, RequestSound
<1>2. /\ Finish(r) /\ UNCHANGED <<users, invites, sessions, spent, closing, history>>
      /\ usage' = [usage EXCEPT ![u] = @ + 1] /\ usage[u] < requests[r].limit
  BY DEF ReserveAIUsage, Room
<1>3. RequestsEnd /\ requests' \in [Requests -> RequestRows]
  BY <1>2, FinishEnds DEF IInv
<1>4. usage \in [Users -> Nat] /\ history[u].granted \in Nat /\ requests[r].limit \in Nat
  BY <1>1, RowTypes DEF IInv, TypeOK, HistoryRows, RequestRows
<1> HIDE DEF u
<1>5. usage' \in [Users -> Nat] /\ usage'[u] <= history[u].granted
  BY <1>1, <1>2, <1>4
<1>6. \A v \in Users : usage'[v] <= history[v].granted
  BY <1>1, <1>2, <1>4, <1>5 DEF IInv, UsersSound, UserSound
<1>7. TypeOK'
  BY <1>2, <1>3, <1>5 DEF IInv, TypeOK
<1>8. LiveSessionsAreCurrent' /\ Len(sessions) <= Len(sessions')
  BY <1>2, RowTypes DEF IInv, LiveSessionsAreCurrent
<1> QED
  BY <1>2, <1>3, <1>6, <1>7, <1>8, TableWrite
-----------------------------------------------------------------------------
(* The invariant, and what follows from it.                                *)

\* It holds before there is an account.
LEMMA InvInit == ASSUME AccountsAssumption, Init PROVE IInv
<1> USE DEF Init
<1>1. TypeOK
  BY DEF TypeOK, NoRow, UserRows, InviteRows, Idle, RequestRows, HistoryRows, SessionRows, Kinds,
         BudgetRows,
         AccountsAssumption
<1>2. UsersSound
  BY DEF UsersSound, UserSound, NoRow
<1>3. RequestsSound /\ LocksExclusive
  BY IdleSound, IdleRequest DEF RequestsSound, RequestSound, LocksExclusive, Holds, HoldsInvite,
     Kinds
<1>4. LiveSessionsAreCurrent
  BY DEF LiveSessionsAreCurrent
<1>5. AttemptsPaid
  <2>1. \A u \in Users : \A k \in Kinds : \A w \in 1 .. MaxWindows : Paid(u, k, w) = {}
    BY IdleRequest DEF Paid
  <2>2. \A k \in Kinds : Budget[k] \in Nat
    BY DEF AccountsAssumption, Kinds
  <2>3. \A u \in Users : \A k \in Kinds :
          /\ spent[u][k].window = 0 /\ spent[u][k].attempts = 0
          /\ \A w \in 1 .. MaxWindows : history[u].checks[k][w] = 0 /\ Allowed(u, k, w) = 0
    BY DEF Allowed, AccountsAssumption
  <2>4. \A u \in Users : \A k \in Kinds : \A w \in 1 .. MaxWindows :
          IsFiniteSet(Paid(u, k, w)) /\ Cardinality(Paid(u, k, w)) = 0
    BY <2>1, FS_EmptySet
  <2> QED
    BY <2>2, <2>3, <2>4 DEF AttemptsPaid
<1>6. InvitesCounted
  <2>1. \A i \in Invites : Came(i) = {}
    BY DEF Came, NoRow, AccountsAssumption
  <2> QED
    BY <2>1, FS_EmptySet DEF InvitesCounted
<1> QED
  BY <1>1, <1>2, <1>3, <1>4, <1>5, <1>6 DEF IInv

\* Every step keeps it.
LEMMA InvStep == ASSUME AccountsAssumption, IInv, [Next]_vars PROVE IInv'
<1>1. ASSUME NEW r \in Requests, RequestStep(r) PROVE IInv'
  <2>1. CASE \E u \in Users, i \in Invites : StartRegistration(r, u, i)
    BY <2>1, StartRegistrationStep
  <2>2. CASE Register(r)
    BY <2>2, RegisterStep
  <2>3. CASE \E s \in DOMAIN sessions : Authenticate(r, s)
    BY <2>3, AuthenticateStep
  <2>4. CASE \/ \E u \in Followed, k \in {"login", "reset"} : ChargeSignIn(r, u, k)
             \/ ChargePassword(r)
             \/ \E given \in 1..MaxChanges : CheckLogin(r, given) \/ CheckPassword(r, given)
                                            \/ CheckCode(r, given)
    BY <2>4, BudgetStep
  <2>5. CASE ChangePassword(r) \/ RotateRecoveryCode(r) \/ ResetPassword(r)
             \/ RequestDeletion(r) \/ CancelDeletion(r)
    BY <2>5, HolderStep
  <2>6. CASE RefuseRegistration(r) \/ Unauthorized(r) \/ Abandon(r)
             \/ RevokeOtherSessions(r) \/ Logout(r)
    BY <2>6, EndStep
  <2>7. CASE OpenSession(r)
    BY <2>7, OpenSessionStep
  <2>8. CASE ReserveAIUsage(r)
    BY <2>8, ReserveStep
  <2> QED
    BY <1>1, <2>1, <2>2, <2>3, <2>4, <2>5, <2>6, <2>7, <2>8 DEF RequestStep
<1>2. CASE \E i \in Invites : CreateInvite(i) \/ RevokeInvite(i) \/ InviteExpires(i)
  BY <1>2, InviteStep
<1>3. CASE \E u \in Followed : \/ CreateAdmin(u) \/ Deactivate(u) \/ Activate(u)
                               \/ \E limit \in Limits : SetAIQuota(u, limit)
                               \/ PurgeCloses(u) \/ PurgeDeletes(u)
  BY <1>3, OperatorStep
<1>4. CASE \E s \in DOMAIN sessions : SessionExpires(s)
  BY <1>4, EndStep
<1>5. CASE UNCHANGED vars \/ \E u \in Followed : PurgeStops(u)
  <2>1. /\ UNCHANGED <<users, invites, sessions, spent, requests, usage, history>>
        /\ closing' = closing \/ \E u \in Followed : closing' = closing \ {u}
    BY <1>5 DEF vars, PurgeStops
  <2>2. /\ RequestsEnd /\ requests' \in [Requests -> RequestRows] /\ Revokes(sessions')
        /\ closing' \subseteq Users
    BY <2>1, RowTypes DEF RequestsEnd, Revokes, IInv, TypeOK
  <2> QED
    BY <2>1, <2>2, SessionStep
<1> QED
  BY <1>1, <1>2, <1>3, <1>4, <1>5 DEF Next

\* The inductive invariant is one of the specification.
LEMMA Invariance == ASSUME AccountsAssumption PROVE Spec => []IInv
<1>1. Init => IInv
  BY InvInit
<1>2. IInv /\ [Next]_vars => IInv'
  BY InvStep
<1> QED
  BY <1>1, <1>2, PTL DEF Spec

(* However registrations through one invitation overlap, fail or meet its   *)
(* revocation, and whatever accounts are purged, it counts exactly the      *)
(* registrations that came in through it and never more than it allows      *)
(* (auth.py:305-367, account_deletion.py:141).                              *)
THEOREM RegistrationsAlwaysAgree == Spec => []RegistrationsAgree
<1>1. IInv => RegistrationsAgree
  <2>1. IInv => \A i \in Invites : invites[i].uses <= MaxUses
    BY DEF IInv, TypeOK, InviteRows, AccountsAssumption
  <2> QED
    BY <2>1 DEF IInv, RegistrationsAgree, InvitesCounted, InviteCountsRegistrations
<1> QED
  BY <1>1, Invariance, AccountsAssumption, PTL

(* No session survives the password it was opened with, nor the             *)
(* deactivation of its account, however many logins, changes and resets of  *)
(* the password are under way (auth.py:180, 410-438).                       *)
THEOREM SessionsAlwaysCurrent == Spec => []LiveSessionsAreCurrent
<1>1. IInv => LiveSessionsAreCurrent
  BY DEF IInv
<1> QED
  BY <1>1, Invariance, AccountsAssumption, PTL

(* A recovery code resets the password once at most, and none but the last  *)
(* one issued can (auth.py:472-499).                                        *)
THEOREM CodesSpentOnce == Spec => []RecoveryCodesSpentOnce
<1>1. IInv => RecoveryCodesSpentOnce
  BY DEF IInv, UsersSound, UserSound, RecoveryCodesSpentOnce
<1> QED
  BY <1>1, Invariance, AccountsAssumption, PTL

(* Any number of requests together compare no more passwords or codes of an *)
(* account on the attempts of one window than its budget allows, for any    *)
(* number of windows and whenever the comparisons come                      *)
(* (auth_limits.py:32-33).                                                  *)
THEOREM ChecksStayWithinBudget == Spec => []ChecksWithinBudget
<1>1. ASSUME AccountsAssumption, IInv, NEW u \in Users, NEW k \in Kinds, NEW w \in 1 .. MaxWindows
      PROVE  history[u].checks[k][w] <= Budget[k]
  <2>1. /\ history[u].checks[k][w] + Cardinality(Paid(u, k, w)) <= Allowed(u, k, w)
        /\ Cardinality(Paid(u, k, w)) \in Nat
    BY <1>1, FS_CardinalityType DEF IInv, AttemptsPaid
  <2>2. Allowed(u, k, w) \in Nat /\ Allowed(u, k, w) <= Budget[k]
    BY <1>1, AllowedType
  <2>3. history[u].checks[k][w] \in Nat /\ Budget[k] \in Nat
    BY <1>1 DEF IInv, TypeOK, HistoryRows, AccountsAssumption, Kinds
  <2> QED
    BY <2>1, <2>2, <2>3
<1>2. AccountsAssumption /\ IInv => ChecksWithinBudget
  BY <1>1 DEF ChecksWithinBudget
<1> QED
  BY <1>2, Invariance, AccountsAssumption, PTL

(* The tasks of a month stay within the largest limit that was granted in   *)
(* it, although a request compares with a limit it read earlier             *)
(* (auth.py:690-706).                                                       *)
THEOREM UsageStaysWithinGrant == Spec => []UsageWithinGrant
<1>1. IInv => UsageWithinGrant
  BY DEF IInv, UsersSound, UserSound, UsageWithinGrant
<1> QED
  BY <1>1, Invariance, AccountsAssumption, PTL
=============================================================================
