\* Every command line of up to four tokens, and some of six.
CONSTANTS
  CommandLines <- Lines
  Frequencies <- SomeFrequencies
  Sizes <- SomeSizes
  Durations <- SomeDurations
  Integer <- SomeIntegers
  UintMod = 16

SPECIFICATION Spec

INVARIANTS
  TypeOK
  ReadsGrammar
CHECK_DEADLOCK FALSE
