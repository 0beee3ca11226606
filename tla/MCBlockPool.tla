----------------------------- MODULE MCBlockPool -----------------------------
EXTENDS BlockPool

\* Eight blocks on eight dies, two dies to a chip enable of a bus; and every
\* shape that fits on four blocks or fewer, among some that do not fit.
MCGeometries ==
  [bus : {2}, chip : {2}, die : {2}, byte : {8}, dma : {1}, ce : {2}]
    \cup [bus : {1, 2}, chip : {1, 2}, die : {1, 2}, byte : {4, 6}, dma : {1, 2, 3}, ce : {1, 2}]
    \cup [bus : {1}, chip : {1}, die : {2}, byte : {16}, dma : {1}, ce : {1, 2}]
=============================================================================
