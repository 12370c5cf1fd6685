----------------------------- MODULE MCGrpcPool -----------------------------
EXTENDS GrpcPool

CONSTANTS a, b, c

\* at most two connections, at most two streams on each, and the default
MCOptions == {[max_connections |-> 2, min_streams |-> 1, max_streams |-> 0],
              [max_connections |-> 0, min_streams |-> 0, max_streams |-> 2],
              [max_connections |-> 0, min_streams |-> 0, max_streams |-> 0]}
=============================================================================
