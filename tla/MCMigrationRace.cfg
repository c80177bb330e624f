\* Two first requests at once.
CONSTANTS
    t1 = t1
    t2 = t2
    t3 = t3
    ssh = ssh
    veeam = veeam
    Threads = {t1, t2}
    Names = {ssh, veeam}
    OldDatabases <- MCOldDatabases
    MaxRestarts = 0
SPECIFICATION Spec
INVARIANT MigrationsRepeatable
