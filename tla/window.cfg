SPECIFICATION FairSpec
CONSTANTS
    Share = {s1, s2}
    MaxCalls = 4
    Nothing = Nothing
INVARIANTS
    TypeOK
    WaitsInVainIfReplaced
    RightFiles
    CurrentIsShown
PROPERTIES
    OpenComesBack
    DownloadComesBack
    PollComesBack
CHECK_DEADLOCK FALSE
