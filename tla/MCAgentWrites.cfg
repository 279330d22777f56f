SPECIFICATION Spec
CONSTANTS
    t1 = t1
    t2 = t2
    w1 = w1
    w2 = w2
    w3 = w3
    f1 = f1
    f2 = f2
    Tasks <- MCTasks
    Calls <- MCCalls
    Workers <- MCWorkers
    Figures <- MCFigures
    NoFigures = noFigures
    NoTask = noTask
    NoWorker = noWorker
    MaxFaults = 1
SYMMETRY MCSymmetry
INVARIANTS
    TypeOK
    MarkedIffWritten
    OneWriteUnlessOverlapped
    AnswersAreTrue
    NoOrphanDraft
