\* The application and a worker, two administrators and a crash.
CONSTANTS
    app = app
    w1 = w1
    a1 = a1
    a2 = a2
    Starters = {app, w1}
    App = app
    NumUsers = 2
    SeedAmount = 1
    NumModels = 3
    Local = {2, 3}
    Default = 2
    SeedActive = {2}
    Admins = {a1, a2}
    MaxCrashes = 1

SPECIFICATION FairSpec
INVARIANTS
    TypeOK
    UpIsSeeded
    MarkerMeansCredit
    SingleUnlessCrossed
PROPERTIES
    ChoiceSurvivesStart
    SomeoneComesUp
    RestartComesUp
