SPECIFICATION Spec
CONSTANTS
    Instance = {a, b}
    Socket = {s1, s2}
    Client = {c1}
    NoInstance = NoInstance
    NoSocket = NoSocket
    MaxFaults = 1
INVARIANTS LocalIsTheClaimed
