SPECIFICATION Spec
CONSTANTS
  Delivery = {"first", "second", "third"}
  Scenarios <- MCScenarios
  Attempt = {"first try", "second try"}
INVARIANTS
  TypeOK
  ReceivedIsKept
  FilesAreThere
  NoFileLeftOver
  ConvertedOnce
  AnnouncedUnlessCrashed
PROPERTY EveryDeliveryAnswered
CHECK_DEADLOCK FALSE
