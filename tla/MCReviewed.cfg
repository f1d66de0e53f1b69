\* Three attempts of runs of one branch; a second head that changes the bot.
\* The system stops once its runs have ended: no deadlock check.
SPECIFICATION Spec
CONSTANTS
  h1 = h1
  h2 = h2
  HeadSha = {h1, h2}
  InitialHead = h1
  Tampered = {h2}
  Attempt <- Attempts
  MaxMain = 1
  MaxEvents = 3
INVARIANTS
  ReviewedAtOneMoment
  NewestRunSpeaks
  OneRunSucceeds
  VerdictIsGiven
CHECK_DEADLOCK FALSE
