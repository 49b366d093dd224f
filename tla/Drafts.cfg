SPECIFICATION Spec
CONSTANTS
    Unknown = Unknown
    d1 = d1
    d2 = d2
    Readings <- MCReadings
    Structures <- MCStructures
    MaxDrafts = 2
    MaxTwins = 2
CHECK_DEADLOCK FALSE
INVARIANTS
    TypeOK
    
    
    
    SuggestionFair
PROPERTIES
    ChoiceKeepsMoney
    VersionsAreFree
