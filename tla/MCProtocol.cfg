\* Integers of three bits: -4..3 signed, 0..7 unsigned.
SPECIFICATION ProtocolSpec
CONSTANTS
    MaxInt = 3
INVARIANTS
    RefusedAsDocumented
    EngineGetsWhatWasAsked
