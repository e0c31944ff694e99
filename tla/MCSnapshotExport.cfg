SPECIFICATION Spec
CONSTANTS
    MaxLen = 3
    MaxEvents = 2
INVARIANTS TypeOK ExportedIsSaved LineageComplete SelectionHeld RefusalJustified
