SPECIFICATION FairSpec
CONSTANTS
    Requests = {r1, r2}
    Configs = {c1, c2}
    Zero = Zero
    Broken = Broken
    Caps = {n1}
    NoCap = NoCap
    Slots = {d1, d2}
    MaySave = {TRUE, FALSE}
INVARIANT TypeOK
INVARIANT OneUserOfStore
INVARIANT RunsCurrentSettings
INVARIANT NoOrphanedSocket
PROPERTY RequestsAnswered
