SPECIFICATION FairSpec
CONSTANTS
  Tabs = {t1, t2}
  Accounts <- MCAccounts
  UserIds = {1, 2, 3}
  SessionIds = {1, 2}
  Policies <- MCPolicies
  Ttl = 1
  MaxNow = 1
  NoOne = NoOne
  Nothing = Nothing
  Gone = Gone
INVARIANTS
  OneUserPerPerson
  SignedOutStaysOut
PROPERTIES
  AccountKeepsAnAnchor
  SessionsEnd
