SPECIFICATION FairSpec
CONSTANTS
    c1 = c1
    c2 = c2
    Manifests <- TheManifests
    HsmSigned <- TheSigned
    Contents <- TheContents
    Garbage = Garbage
    App <- TheApp
    MaxStarts = 20
    MaxCrashes = 2
    MaxKeys = 2
INVARIANT MacsAreOfSignedApps
INVARIANT ArchiveIsComplete
PROPERTY RetriesSucceed
