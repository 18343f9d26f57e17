SPECIFICATION Spec
CONSTANTS
    Sends = {s1, s2, s3}
    Creates = {k1}
    Phones = {p1, p2}
    Codes = {c1, c2}
    NoCode = NoCode
    CodeTTL = 2
    MaxTime = 3
    MaxFaults = 1
SYMMETRY Interchangeable
INVARIANTS
    ConfirmedByCode
    AnsweredCodeLive
PROPERTIES
    ReplacedCodeRefused
\* Every request is answered and the clock stops.
CHECK_DEADLOCK FALSE
