SPECIFICATION Spec
CONSTANTS
    Threads = {1, 2, 3}
    NoHandle = 0
    ObjSize = 400
    MaxUpdate = 50
    Wide = 200
    MaxPieces = 2
    CellSize = 4
    Radix = 3
    Jobs <- MCJobs
INVARIANTS
    DigestOfItsBytes
    PathsAgree
    DigestsAreFips
    AlgSafe
    KeysAreFips197
    CipherIsItsMode
