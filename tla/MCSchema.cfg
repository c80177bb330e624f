\* First requests on several threads, and a process that is killed twice.
CONSTANTS
    t1 = t1
    t2 = t2
    t3 = t3
    ssh = ssh
    veeam = veeam
    Threads = {t1, t2, t3}
    Names = {ssh, veeam}
    OldDatabases <- MCOldDatabases
    MaxRestarts = 2
SPECIFICATION FairSpec
INVARIANT TypeOK
INVARIANT ServedMeansMigrated
PROPERTY OnlyAdds
PROPERTY OnlyRacesFail
PROPERTY SomebodyGetsThrough
