SPECIFICATION TalkerRuns
CONSTANTS
  ctl = ctl
  d1 = d1
  d2 = d2
  Party = {ctl, d1}
  N = 2
  Talker <- DeviceAnswers
  Timeouts = TRUE
  Slow = {ctl, d1}
  IfcPulses = TRUE
  Keyed = {ctl}
INVARIANT OneDriver
PROPERTY WriterReturns
