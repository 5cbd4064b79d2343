SPECIFICATION FairSpec
CONSTANTS
    up1 = up1
    up2 = up2
    down = down
    Runner = {up1, up2, down}
    Direction <- MCDirection
    Request = {r1, r2}
INVARIANTS
    TypeOK
    SchemaIsWhole
    OneEventPerKey
    SuccessMeansMigrated
    NoDeadlock
PROPERTIES
    RefinesSchema
    EveryRunEnds
