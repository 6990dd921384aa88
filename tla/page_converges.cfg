SPECIFICATION FairSpec
CONSTANTS
  Pages = {p1, p2}
  Others = {}
  Ids = {1}
  Backlog = 2
  Limit = 3
  Room = 2
  MaxChanges = 2
  Faults = {"refresh", "apply", "send", "accept"}
  MaxFaults = 1
  MaxClicks = 1
  p1 = p1
  p2 = p2
  Slots <- MCSlots
  Files <- LongFiles
  Requests = {}
PROPERTIES TogglesEnd 
