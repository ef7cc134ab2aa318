SPECIFICATION FairSpec
CONSTANTS
  Tickets = {t1, t2}
  Owner = owner
  admin = admin
  Admins <- OneAdmin
  Statuses = {"running", "error", "idle"}
  BusSize = 1
  QueueSize = 2
  MaxAttempts = 2
  NoView = NoView
  MaxPublished = 2
INVARIANTS AnnouncedOnce InOrder Accounted LastAlertTrue
PROPERTY AlertsEnd
