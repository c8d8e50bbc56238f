\* One key that moves and three that do not, with room for holes.
SPECIFICATION Spec
CONSTANTS
    a = a
    p = p
    q = q
    r = r
    Movable = {a}
    Fixed = {p, q, r}
    HashOfFixed <- MCHash
    v = v
    Values = {v}
    Accessors = {r}
    MaxAddr = 2
    MaxSlots = 8
    Starts <- MCStarts
INVARIANTS
    FoundByHash
PROPERTIES
    ImplementsPropList
CHECK_DEADLOCK FALSE
