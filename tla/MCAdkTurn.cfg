SPECIFICATION Spec
CONSTANTS
    alice = alice
    bob = bob
    robot = robot
    key1 = key1
    signed = signed
    mail = mail
    sessionUser = sessionUser
    p1 = p1
    p2 = p2
    p3 = p3
    default = default
    None = None
    Nobody = nobody
    Caller = caller
    Tasks = {t1, t2}
    Root = t1
    Users = {alice, bob}
    EndUsers <- MCEndUsers
    Given <- MCGiven
    Agents = {robot}
    Keys = {key1}
    MaxBlocks = 2
    Buckets = {mail}
    Tools <- MCTools
    MaxSpans = 3
    Invocations = {i1, i2}
    SessionUser = sessionUser
    TrustsSession = FALSE
    Opaque = {o1, o2, o3}
    Readers = {r1, r2}
    MaxQueue = 1
    Idle = idle
    Peps = {p1, p2, p3}
    Files = {default}
    FileOf <- MCFileOf
    MaxKeys = 3
    MaxCrashes = 2
    NoKey = noKey
    Torn = torn
    NoFile = noFile
    Threads = {b1, b2}
    Sources = {s1, s2}
    MaxPollers = 3
    Free = free
    MaxFiles = 2
    Dependencies <- MCDependencies
    Projects <- MCProjects
    Programs <- MCAdkPrograms
INVARIANTS
    ToolsShareTheTurn
CHECK_DEADLOCK FALSE
