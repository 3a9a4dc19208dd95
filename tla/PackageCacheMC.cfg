SPECIFICATION FairSpec
CONSTANTS
    Launchers = {l1, l2}
    Names = {"manifest", "kernel"}
    Download = "download"
    Foreign = "foreign"
    Archives <- MCArchives
    NoArchive = NoArchive
    TempNames = {t1, t2, t3}
    NoProc = NoProc
    NoDir = NoDir
    NoTemp = NoTemp
    MaxStarts = 3
    MaxFaults = 2
    Bundles <- MCBundles
INVARIANTS TypeOK PublishSafe LitterOnlyFromKills
PROPERTIES RefinesCacheEntry GoodBundlePrepares
CHECK_DEADLOCK FALSE
