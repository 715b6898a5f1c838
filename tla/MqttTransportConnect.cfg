SPECIFICATION Spec
CONSTANTS
    Sockets = {s1, s2, s3}
    NoSocket = NoSocket
    MaxAddresses = 3
    MaxBytes = 4
    BufferLengths = {1, 2, 3}
INVARIANT ReportsConnected
