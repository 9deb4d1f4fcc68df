SPECIFICATION Spec
CONSTANTS
  NoId = NoId
  Absent = Absent
  Unsearchable = Unsearchable
  BadPath = BadPath
  Projects <- MCProjects
INVARIANTS
  CompilerTypeOK
  ImportsAreFollowed
  EveryStatementIsJudged
  UsesAreLexical
  OutcomeIsDeserved
PROPERTY
  CompilationEnds
CHECK_DEADLOCK FALSE
