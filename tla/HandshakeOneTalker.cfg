SPECIFICATION FairSpec
CONSTANTS
  ctl = ctl
  d1 = d1
  d2 = d2
  Party = {ctl, d1, d2}
  N = 3
  Talker <- CtlTalks
  Timeouts = FALSE
  Slow = {}
  IfcPulses = FALSE
  Keyed = {}
INVARIANTS ConfirmedDelivered OneTalkerInv NothingMissed
PROPERTIES ImplementsChannel AllDelivered
