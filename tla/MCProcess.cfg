SPECIFICATION PartSpec
CONSTANTS
    Docs <- Candidates
    First <- One
    Writers = {w1, w2}
    Editor = Editor
    MaxEdits = 2
    MaxBoots = 1
    MaxFaults = 1
    Requests = {q1}
    Tasks = {t1}
    MaxContexts = 3
    MaxFlips = 1
INVARIANT VerdictIsOfTheContextInForce
PROPERTIES PutsReplaceWhatTheyName EditsArrive SignalEndsTheProcess MovingReadinessBecomesTrue
CHECK_DEADLOCK FALSE
