SPECIFICATION Spec
CONSTANTS
    Instructions <- MCInstructions
    Targets <- MCTargets
INVARIANTS BytesMeanTheInstruction SizeIsLength
