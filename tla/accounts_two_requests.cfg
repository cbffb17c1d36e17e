SPECIFICATION Spec
CONSTANTS
  account1 = account1
  account2 = account2
  invite1 = invite1
  request1 = request1
  request2 = request2
  NoUser = NoUser
  NoInvite = NoInvite
  Users = {account1, account2}
  Followed = {account1}
  Invites = {invite1}
  Requests = {request1, request2}
  Budget <- OneAttempt
  MaxUses = 2
  Limits = {0, 1}
  MaxWindows = 2
  MaxChanges = 4
INVARIANT RegistrationsAgree
INVARIANT LiveSessionsAreCurrent
INVARIANT RecoveryCodesSpentOnce
INVARIANT UsageWithinGrant
INVARIANT ChecksWithinBudget
SYMMETRY Symmetry
CHECK_DEADLOCK FALSE
