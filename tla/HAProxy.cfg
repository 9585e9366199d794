\* Both transports, valid and invalid URIs: the safety properties, the
\* refinement of the plugin contract, and termination over HTTP.
CONSTANTS
    NaN = NaN
    Eof = Eof
    RdErr = RdErr
    NotANumber <- MCNotANumber
    EOF <- MCEOF
    ReadError <- MCReadError
    Rows <- MCRows
    Bodies <- MCBodies
    MaxRows <- MCMaxRows
    SocketModes = {FALSE, TRUE}
    URIModes = {FALSE, TRUE}

SPECIFICATION Spec
INVARIANT TypeOK
INVARIANT ParseVerdict
INVARIANT ResultIsBackendTotal
PROPERTY ImplementsContract
PROPERTY TerminationOverTCP
CHECK_DEADLOCK FALSE
