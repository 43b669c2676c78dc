\* Two orders, three jobs of which two run, two failures or restarts.
SPECIFICATION FairSpec
CONSTANTS
    Orders = {o1, o2}
    Jobs = {j1, j2, j3}
    MaxJobs = 2
    MaxMishaps = 2
    o1 = o1
    o2 = o2
    j1 = j1
    j2 = j2
    j3 = j3
INVARIANT TypeOK
PROPERTY GaugeStaysTrue
PROPERTY GaugeSettles
