\* Two calls that may overlap, two lists, of which one changes and is too long
\* at first; two faults anywhere, with fairness.
CONSTANTS
    a = a
    b = b
    Callers = {t1, t2}
    Urls = {a, b}
    Oversized <- TooLong
    Changing = {a}
    NoUrl = NoUrl
    MaxVersion = 2
    MaxFaults = 2
SPECIFICATION ListFairSpec
INVARIANTS StampedIsCompiled TagNotAhead
PROPERTY EventuallyFresh
