\* A good server, and a browser that announced a size one block too small.
SPECIFICATION Spec
CONSTANTS
    Size = 4
    Announced = {3}
    Servers <- GoodServer
    Count = 2
    MinSplit = 2
    Boosts = 2
    MaxList = 3
    MaxTrouble = 2
CHECK_DEADLOCK FALSE
INVARIANT
    DoneIsWhole
