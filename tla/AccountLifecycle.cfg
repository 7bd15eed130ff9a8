\* A founder, an invited account and a new one; three requests of any kind.
CONSTANTS
  a1 = a1
  a2 = a2
  a3 = a3
  r1 = r1
  r2 = r2
  r3 = r3
  Nobody = Nobody
  NoLogin = NoLogin
  Accounts <- ThreeAccounts
  Requests <- ThreeRequests
  Founders <- Founder
  Invited <- Invitee
SPECIFICATION FairSpec
INVARIANTS
  OneInvitationEach
  RedeemerCanSignIn
  NoOrphanLogin
  TokenIsRedeemable
  EveryAccountMailed
  OnlyOverlapRevives
PROPERTY EveryRequestEnds
CHECK_DEADLOCK FALSE
