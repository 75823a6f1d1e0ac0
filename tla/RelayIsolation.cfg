SPECIFICATION Spec
CONSTANTS
    la = la
    la2 = la2
    lb = lb
    nokey = nokey
    bad = bad
    status = status
    A = A
    B = B
    s1 = s1
    s2 = s2
    Sessions = {s1}
    Lines <- MCLines
    Text <- MCText
    LineLen <- MCLineLen
    Protocol = "carbon"
    StatusLine = status
    EnableValidation = FALSE
    Backends = {A, B}
    Ring <- MCRing
    Hash <- MCHash
    Limit = 2
    Flaky = {}
    Typed = {la, la2, lb, nokey, status}
    MaxWritten = 3
    Datagrams <- MCDatagrams
    MaxDatagrams = 3
    Chars = {"x", ":", "1", "|", "c", "m", "s", "@", " "}
    MaxText = 0
    Prefix <- MCPrefix
CHECK_DEADLOCK FALSE
PROPERTIES
    BackendsIndependent
