SPECIFICATION SyncSpec
CONSTANTS
    wave = wave
    txt = txt
    md = md
    Order <- NoteOrder
    Texts = {txt, md}
    Big = {wave}
    Blocks = 2
    Attempts = 2
    Contents = {1, 2}
    MaxId = 16
    MaxFaults = 2
    NModels = 2
    Slots = 1
    MaxTries = 1
    Total = 2
INVARIANTS
    SyncedIsThere
    
    Accounted
    WaitsWhenTold

    
    
CHECK_DEADLOCK FALSE
