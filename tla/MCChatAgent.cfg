SPECIFICATION Spec
CONSTANTS
  q1 = q1
  q2 = q2
  Nobody = Nobody
  Questions = {q1, q2}
  MaxCalls = 2
  Honest = TRUE
CHECK_DEADLOCK FALSE
INVARIANTS TypeOK QuestionsAccounted  EffectsAreTold
PROPERTIES AskedIsAnswered BroadcastsGoOn
