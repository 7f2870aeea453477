SPECIFICATION Spec
CONSTANTS
  now = now
  tool = tool
  response = response
  task = task
  own = own
  revision = revision
  t1 = t1
  Messages = {now, response, task, revision}
  Revisions = {revision}
  Barrier <- SmallBarrier
  OwnTask <- SmallOwnTask
  Tasks = {t1}
  NoTask = NoTask
  MaxEvents = 2
INVARIANT TypeOK
INVARIANT KeptUntilAnswered
INVARIANT NoLostWakeup
PROPERTY ImplementsMailbox
\* once the prompts have been served, or the runtime has ended, nothing is left to do
CHECK_DEADLOCK FALSE
