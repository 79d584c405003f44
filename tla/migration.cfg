\* Two overlapping runs, releases that add, replace, or come late.
SPECIFICATION FairSpec
CONSTANTS
    Runners = {r1, r2}
    Files <- AllFiles
    Shipped <- FirstRelease
INVARIANTS
    TypeOK
    AppliedExactlyOnce
    NoGap
    UpToDate
    ReportTruthful
PROPERTIES
    EveryRunEnds
