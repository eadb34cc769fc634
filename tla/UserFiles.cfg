SPECIFICATION Spec
CONSTANTS
  k1 = k1
  k2 = k2
  Thread = {t1, t2}
  Desk = {desk}
  Key = {k1, k2}
  Value <- TwoValuesOfAField
  Secret = {s1, s2, s3}
  Limit = 2
  Together = FALSE
  None = None
INVARIANTS
  SecretsMatchConnections
  ProfilesAreSound
PROPERTIES
  
  FailedVerificationLeavesNoProfile
