CONSTANTS
  Bad = Bad
  C_None = C_None
  LabelSyntax <- MCLabelSyntax
  AliasSyntax <- MCAliasSyntax
  HostSyntax <- MCHostSyntax
  Inventories <- MCInventories
  Names <- MCNames
  Twin <- MCTwin
  BootOf <- MCBootOf
  EL7 <- MCEL7
  EL8 <- MCEL8
  PortSets <- MCPortSets
SPECIFICATION Spec
PROPERTY AbsenceNeverDestroys
