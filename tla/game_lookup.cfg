CONSTANTS
  Pids = {1, 3}
  Apps = {1, 2}
  Modules = {"lib", "hollow", "eboot"}
  Hollow = {"hollow"}
  Eboot = "eboot"
  LastPid = 2
  MaxHandles = 2
  Paths = 2
  MaxEvents = 4
  Faults = {"table", "memory", "kernel"}
  Images <- AllImages
  Platform <- Platforms
  MetaFiles <- AllMeta
SPECIFICATION Spec
INVARIANTS AnswerIsReal  MetadataFromOneFile
