\* Two concurrent scripts on two addresses, kills, late scripts, reboots.
CONSTANTS
    i1 = i1
    i2 = i2
    ok1 = ok1
    t1 = t1
    s1 = s1
    Ips <- MCIps
    Targets <- MCTargets
    Refused <- MCRefused
    Docker = FALSE
    Base <- MCBase
    Established = Established
    Mesh = Mesh
    NoChain = NoChain
    NoScript = NoScript
    Threads <- MCThreads
    Strays <- MCStrays
    Persistent = FALSE
SYMMETRY MCSymmetry
SPECIFICATION TargetSpec
INVARIANTS
    TargetTypeOK
    EstablishedFirst
    JumpsBeforeMesh
    DropNeverLost
PROPERTIES
    ScriptsKeepToTheirClient
