SPECIFICATION Spec
CONSTANTS
    e1 = e1  fm = fm  fn = fn  v1 = v1  v2 = v2
    w1 = w1  w2 = w2  a1 = a1
    None = None
    Events = {e1}
    Files = {fm, fn}
    Releases = {v1, v2}
    Workers = {w1, w2}
    Admins = {a1}
    ReleaseOf <- MCReleaseOf
    Maps = {fm}
    Fits <- MCFits
SYMMETRY WorkerSymmetry
CHECK_DEADLOCK FALSE
INVARIANTS TypeOK SingleProcessor ProcessingIsHeld MarkAgrees ResultsAreFresh
