SPECIFICATION Spec
CONSTANTS
    Hosts = {h1, h2}
    Turns = {t1, t2}
    Bodies = {b1}
    Responses = {r1, r2, r3}
    Stateful = {r2}
    Incomplete = {r3}
    Systems = {none, s1}
    NoSystem = none
    MaxVersion = 3
    MaxAttempts = 2
SYMMETRY Symmetry
INVARIANTS RecordedOnce RetryRecognised
PROPERTIES BoundToCommittedPrefix
CHECK_DEADLOCK FALSE
