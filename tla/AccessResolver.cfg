SPECIFICATION Spec
CONSTANTS
  User = "frogo"
  Group = {"Arch_full", "Arch_junior", "Wiz_domain"}
  Situations <- MCSituations
  ArchGroupd <- MCArchGroupd
INVARIANTS
  TypeOK
  ResolvesByFirstMatch
  MatchesMud
CHECK_DEADLOCK FALSE
