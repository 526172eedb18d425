SPECIFICATION FairSpec
CONSTANTS
  Pages = {"p1", "p2"}
  Prompts = {"q1", "q2"}
  Typed = {"q1"}
  MaxNavigations = 1
  MaxEvents = 1
INVARIANTS
  OnlyOwnPages
PROPERTIES
  AnsweredInPerson
  GoodAnswersLand
  AnswerSpec
CHECK_DEADLOCK FALSE
