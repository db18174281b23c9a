SPECIFICATION Spec
CONSTANTS
    Task = {t1, t2}
    Main = t1
    Identity = {i1, i2}
    Master = {m1, m2}
    None = None
    Torn = Torn
    MaxEpoch = 2
    MaxMishaps = 2
SYMMETRY Symmetry
INVARIANTS TypeOK FileCurrent RestartKeepsShare BaselineHonest
