SPECIFICATION Spec
CONSTANTS
    PemLists <- Rotation
    Roots = {""}
    MaxFailures = 1
    ConfigFiles <- Files
    Streaming = {1, 3}
INVARIANT LocatedIsStowed
INVARIANT MismatchedBounded
INVARIANT LaterNeedEarlier
INVARIANT GatewayResolves
PROPERTY ExitExplained
 
