\* The interval main asks for, and those at the edges of the two bytes, of the
\* timer's 10 bits and of 16 bits.
CONSTANTS
  B = 2
  Intervals = {0, 1, 50, 127, 128, 129, 896, 897, 1023, 1024, 1025, 65535}
SPECIFICATION FairSpec
INVARIANTS WrittenWhole IntervalSet NeverStuck
PROPERTIES TicksGoOn
