\* Two calls at once, three loops each, lists of up to five items.
SPECIFICATION BoundedSpec
CONSTANTS
    Pools = {p1, p2}
    Workers = {k1, k2, k3}
    MaxItems = 5
    MaxRestarts = 1
    p1 = p1
    p2 = p2
    k1 = k1
    k2 = k2
    k3 = k3
PROPERTIES
    PoolIsBag
