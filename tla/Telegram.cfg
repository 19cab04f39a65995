SPECIFICATION FairSpec
CONSTANTS
    Shots <- MCShots
    Skews <- MCSkews
    Ambient <- MCAmbient
    MaxMisread = 2
    MaxShots = 2
    MaxAmbient = 1
INVARIANTS TypeOK TakenIsShot CleanIsHeard TakenOnce IrtInv
PROPERTY ReportedIsTaken
CHECK_DEADLOCK FALSE
