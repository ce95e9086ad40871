\* Four registrations of up to two agents, two identities, one crash.
CONSTANTS
  Ids = {i1, i2}
  Requests = {r1, r2, r3, r4}
  Identities = {t1, t2}
  None = None
  MaxCrashes = 1
SPECIFICATION Spec
SYMMETRY RegistrationSymmetry
CHECK_DEADLOCK FALSE
INVARIANTS
  TypeOK
  TrustedByAdmin
  AnswersAreDurable
  RotationKeepsIdentity
PROPERTIES
  OnlyStaleReadsOverwrite
