SPECIFICATION RateFairSpec
CONSTANTS
    Requests = {r1, r2}
    Buckets = {global, minute, hour, server}
    KeyOf <- MCKeyOf
    Window <- MCWindow
    Limit <- MCLimit
    ClientChecks <- MCClient
    ServerChecks <- MCServer
    ResetScopes <- MCResets
    MaxWait = 1
    MaxQueue = 2
    NoBucket = NoBucket
    global = global
    minute = minute
    hour = hour
    server = server
INVARIANTS CountedEverywhere WithinLimit NobodyForgotten
PROPERTIES AllAnswered
