SPECIFICATION FairSpec
CONSTANTS
  Groups = {g1, g2}
  Pods = {p1, p2}
  Ttls = {3}
  TicksPerSecond = 2
  MaxGroups = 0
  MaxMembers = 0
  MaxAge = 5
PROPERTIES
  LapsedMembersGo
