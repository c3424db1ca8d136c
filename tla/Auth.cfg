CONSTANTS
  Users = {u, v}
  Named = {u}
  Nobody = nobody
  Apps <- BothApps
  MaxAppearances = 4
  MaxPending = 2
SPECIFICATION FairSpec
INVARIANTS ListensWhileVisible LoginFollowsUser
PROPERTY LoginComesAndLeaves
