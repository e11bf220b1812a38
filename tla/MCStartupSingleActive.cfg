\* Two administrators activate different models at once.
CONSTANTS
    app = app
    w1 = w1
    a1 = a1
    a2 = a2
    Starters = {app}
    App = app
    NumUsers = 2
    SeedAmount = 1
    NumModels = 3
    Local = {2, 3}
    Default = 2
    SeedActive = {2}
    Admins = {a1, a2}
    MaxCrashes = 1

SPECIFICATION Spec
INVARIANTS
    SingleActive
