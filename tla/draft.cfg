SPECIFICATION Spec
CONSTANTS
  obs = obs auv = auv work = work Classes = {obs, auv, work} Families = {"light", "free", "heavy"}
  Variants = {"l1", "l2", "f1", "h1"} Units = {"L1", "L2", "M1", "F1", "H1"}
  ClassOf <- MCClassOf FamilyOf <- MCFamilyOf VariantOf <- MCVariantOf
  Tasks = {"inspect", "valve"} Capabilities <- MCCapabilities Required <- MCRequired
  Listed <- MCListed MaxDepth <- MCMaxDepth Onboard <- MCOnboard Supported <- MCSupported
  Common <- MCCommon Payloads = {"p", "q"} None = None Unknown = Unknown
  Inputs <- MCInputs Watched = {"F1"}
INVARIANTS OneLineage PayloadCarried
PROPERTIES AutoIsForced UserChoiceKept SwitchStartsClean
CHECK_DEADLOCK FALSE
VIEW Draft
