SPECIFICATION Spec
CONSTANTS
    la = la
    la2 = la2
    lb = lb
    nokey = nokey
    bad = bad
    status = status
    A = A
    B = B
    s1 = s1
    s2 = s2
    Sessions = {s1, s2}
    Lines <- MCLines
    Text <- MCText
    LineLen <- MCLineLen
    Protocol = "carbon"
    StatusLine = status
    EnableValidation = TRUE
    Backends = {A, B}
    Ring <- MCRing
    Hash <- MCHash
    Limit = 2
    Flaky = {B}
    Typed = {la, la2, lb, nokey, status}
    MaxWritten = 3
    Datagrams <- MCDatagrams
    MaxDatagrams = 1
    Chars = {"x", ":", "1", "|", "c", "m", "s", "@", " "}
    MaxText = 5
    Prefix <- MCPrefix
SYMMETRY SessionSymmetry
CHECK_DEADLOCK FALSE
INVARIANTS
    TypeOK
    StreamIntact
    NoLineHeldBack
    RoutedInOrder
    ValidatorsExact
    ValidHasKey
