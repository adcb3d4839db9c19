SPECIFICATION Spec
CONSTANTS
  None = None
  Auth = {a1, a2}
  Code = {c1, c2}
  FamilyId = {f1, f2}
  Handle = {h1, h2, h3}
  Request = {r1, r2}
  MaxTime = 2
  RefreshTtl = 1
  AuthorizationTtl = 2
  CodeTtl = 1
  MaxEntries = 3
  MaxFamilies = 2
  MaxAuthorizations = 3
  AuthorizationAdmissionLimit = 2
  MaxCodes = 3
  CodeAdmissionLimit = 1
  TokenConcurrency = 2
SYMMETRY Symmetry
INVARIANTS
  TypeOK
  StoreLoadable
  OneLiveCredential
  DeliveredHandleSurvives
  DurableRevocationIsFinal
  AuthorizationExchangedOnce
PROPERTIES
  ExchangedOnce
  ImplementsGrantChain
