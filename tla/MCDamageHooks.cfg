CONSTANTS
  t1 = t1
  t2 = t2
  a1 = a1
  a2 = a2
  Threads = {t1, t2}
  NoThread = NoThread
  MaxDepth = 2
  Limit = 1
  MaxNumbers = 3
  Actors = {a1}
  Amounts = {2, 9}
  Unit = 4
  FullHealth = 20
  EffectSettings = {TRUE}
  MaxCalls = 3
SPECIFICATION HookSpec
INVARIANTS EffectsKnowTheirFrame FrameNumbersAreLosses
