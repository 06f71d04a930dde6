SPECIFICATION FairClientsSpec
CONSTANTS
  Timed = timed
  Slept = slept
  Tasks = {timed, slept}
  Cancelers = {c1}
  Deadlines <- MCDeadlines
  Never = Never
  MaxTime = 2
INVARIANTS RunOrCancelledOnce NeverOversleeps AnswersAreTrue SharedBoxSafe
PROPERTIES ServesClients WithTimeoutSpec EverybodyGoesOn
