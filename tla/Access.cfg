SPECIFICATION AccessSpec
CONSTANTS
  s1 = s1
  s2 = s2
  f1 = f1
  f2 = f2
  a1 = a1
  a2 = a2
  a3 = a3
  Slots = {s1, s2}
  TTL = 2
  Scenes <- SmallScenes
  Fields = {f1, f2}
  Accounts = {a1, a2, a3}
  Questions = 2
  None = None
SYMMETRY Symmetry
INVARIANTS CacheTracksRole GrantedLately OwnerAllowed LoneEditHeals 

