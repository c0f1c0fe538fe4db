SPECIFICATION Spec
CONSTANTS
  ctl = ctl
  d1 = d1
  d2 = d2
  Party = {ctl, d1, d2}
  N = 2
  Talker <- CtlTalks
  Timeouts = TRUE
  Slow = {ctl, d2}
  IfcPulses = TRUE
  Keyed = {}
INVARIANT NeverTwice
