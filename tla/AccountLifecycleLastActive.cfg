\* Can the last active account be removed?
CONSTANTS
  a1 = a1
  a2 = a2
  a3 = a3
  r1 = r1
  r2 = r2
  r3 = r3
  Nobody = Nobody
  NoLogin = NoLogin
  Accounts <- TwoAccounts
  Requests <- TwoRequests
  Founders <- TwoAccounts
  Invited <- None
SPECIFICATION Spec
INVARIANT ActiveAccountRemains
CHECK_DEADLOCK FALSE
