SPECIFICATION Spec
CONSTANTS
  Triggers = {t1, t2}
  Topics = {x, y}
  Subs = {s1, s2, s3}
  Test = Test
  NoTopic = NoTopic
  Cooldown = 1
  MaxBacklog = 1
  MaxEdits = 1
  MaxFaults = 2
SYMMETRY Symmetric
INVARIANT TypeOK
INVARIANT ListensToEnabled
INVARIANT CooldownKept
\* edits and faults are bounded
CHECK_DEADLOCK FALSE
