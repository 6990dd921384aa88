SPECIFICATION Spec
CONSTANTS
  Pages = {p1}
  Others = {o1}
  Ids = {1}
  Backlog = 1
  Limit = 3
  Room = 3
  MaxChanges = 2
  Faults = {"refresh", "apply", "receive", "send", "accept"}
  MaxFaults = 1
  MaxClicks = 2
  p1 = p1
  o1 = o1
  Slots <- MCSlots
  Files <- TwoFiles
  Requests <- Foreign
INVARIANTS TypeOK NoPollDuringToggle SwitchesAgree
PROPERTIES OnlyWholeTogglesSwitch
