CONSTANTS
    KimiFiles <- MCKimiFiles
    ClaudeFiles <- MCClaudeFiles
    CodexFiles <- MCCodexFiles
    MaxRequests = 2
    MaxWrites = 3
    MaxFaults = 1
    MaxTriggers = 1
SPECIFICATION Spec
INVARIANTS CountedOnce CursorSound TriggerKept

