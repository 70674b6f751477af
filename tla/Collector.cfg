\* One threat and a queue of one record: it overflows, and a second missed
\* snapshot ends the threat.  The third failed attempt in a row has no backoff.
\* Both kinds of run are initial states: continuous, and a trial.
SPECIFICATION Spec
CONSTANTS
  Threats = {ka}
  QueueSize = 1
  LastAttempt = 2
CHECK_DEADLOCK FALSE
INVARIANTS
  LinkReleased
  NoThreatLeftLive
  NothingLatched
PROPERTIES
  LinkOnlyWhenGated
  BlockedReleases
  StopHonoured
  ExpiryHonoured
