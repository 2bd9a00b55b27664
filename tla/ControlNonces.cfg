SPECIFICATION FairSpec
CONSTANTS
  NonceIds = {n1, n2, n3}
  Ttl = 2
  MaxTime = 4
INVARIANTS
  OncePerNonce
  GrantedInTime
  GoodForItsTtl
PROPERTY
  ForgottenAtLast
