SPECIFICATION FairSpec
CONSTANTS
  WarmUps = {boot}
  Uploads = {up}
  Jobs = {job}
  NoCall = NoCall
  MaxPages = 2
INVARIANTS
  TypeOK
  EngineIsReturned
  PagesAreThere
  OnlyFailuresLeaveFiles
PROPERTIES
  WaitersGoOn
