SPECIFICATION Spec
CONSTANTS
    d1 = d1
    d2 = d2
    ka = ka
    kb = kb
    Daemon <- MCTwo
    Key <- MCKey
INVARIANTS
    LoadedKeysAreWhole
