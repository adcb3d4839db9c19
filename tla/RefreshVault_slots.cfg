SPECIFICATION FairSpec
CONSTANTS
  None = None
  Auth = {a1}
  Code = {c1}
  FamilyId = {f1}
  Handle = {h1, h2}
  Request = {r1, r2}
  MaxTime = 2
  RefreshTtl = 1
  AuthorizationTtl = 2
  CodeTtl = 1
  MaxEntries = 1
  MaxFamilies = 1
  MaxAuthorizations = 3
  AuthorizationAdmissionLimit = 2
  MaxCodes = 3
  CodeAdmissionLimit = 1
  TokenConcurrency = 1
PROPERTIES
  SlotsComeBack
