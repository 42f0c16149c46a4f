SPECIFICATION Spec
CONSTANTS
    Addrs = {a1, a2}
    MaxRx = 1
    MaxDps = 3
    MaxDatagrams = 4
    MaxCloses = 2
INVARIANT
    OneDatapathPerAddress
CHECK_DEADLOCK FALSE
