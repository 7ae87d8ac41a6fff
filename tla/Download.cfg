\* One download at a time, any number of them, to files of at most three
\* blocks, and two replacements.
SPECIFICATION FairSpec
CONSTANTS
    Content <- FourContents
    Multipart <- InParts
    Junk <- NoFileOrAnOldOne
    num_retries = 1
    MaxChanges = 2
    MaxFile = 3
INVARIANTS TypeOK FileFollowsTracker
PROPERTIES SuccessIsExact DeletedForAReason DownloadsEnd
