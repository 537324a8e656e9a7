SPECIFICATION Spec
CONSTANTS
    f1 = f1
    f2 = f2
    t1 = t1
    t2 = t2
    Threads = {t1, t2}
    Fields = {f1, f2}
    LocalStamps = {1, 3, 4}
    RemoteDocs <- MCRemoteDocs
    MaxRequests = 3
    MaxIoErrors = 1
SYMMETRY Symmetry
INVARIANTS RowIsAttested  DigestIsFresh
