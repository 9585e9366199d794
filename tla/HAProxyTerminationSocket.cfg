\* Termination of FetchMetrics over the Socket transport, the peer free to stall.
CONSTANTS
    NaN = NaN
    Eof = Eof
    RdErr = RdErr
    NotANumber <- MCNotANumber
    EOF <- MCEOF
    ReadError <- MCReadError
    Rows <- MCRows
    Bodies <- MCBodies
    MaxRows <- MCMaxRows
    SocketModes = {TRUE}
    URIModes = {TRUE}

SPECIFICATION Spec
PROPERTY Termination
CHECK_DEADLOCK FALSE
