SPECIFICATION ClockSpec
CONSTANTS
  Starts <- MCStarts
  MaxTicks = 4
INVARIANTS ClockTypeOK NeverBehind StampExact StampBehindOnlyAtMidnight
