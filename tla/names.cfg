CONSTANTS
    MaxLabel = 4
    Project = "project"
    Alphabet <- Characters
    MaxAlone = 5
    MaxPair = 3
SPECIFICATION Spec
INVARIANTS SanitizedAsDocumented LabelsFailOnlyFor SharedLabelsAlike NamesInTheirZones BasesApart MarkersKnownAgain OthersIgnored 
CHECK_DEADLOCK FALSE
