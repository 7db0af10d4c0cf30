\* Two nodes sharing a bucket, two keys in different halves of a depth-3
\* tree, two writes (enough for both nodes to write while the other
\* misses the broadcast) and one lost connection.
CONSTANTS
    n1 = n1
    n2 = n2
    k1 = k1
    k2 = k2
    Node = {n1, n2}
    Key = {k1, k2}
    LeafOf <- MCLeafOf
    Depth = 3
    Policy <- MCSharedPolicy
    CloudPeer = n2
    MaxWrites = 2
    MaxDisconnects = 1
    NoMsg = NoMsg
    NoCursor = NoCursor
SPECIFICATION Spec
PROPERTY SessionTerminates
PROPERTY Converges
