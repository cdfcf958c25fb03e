SPECIFICATION Spec
CONSTANTS
  Entry = {e1, e2}
  MaxLength = 3
INVARIANTS RecoversConfirmed FileIsLog
