\* Five splits of a four-node cluster, three slot orders, and tables with a
\* late report.
CONSTANTS
  NodeIds = {1, 2, 3, 4}
  Rings <- RingIds
  MaxClients = 4
  SizeMod = 65536
SPECIFICATION Spec
INVARIANTS
  SelectMatchesReference
  NoFlapping
  AckedShareOnePartition
\* A table that is not stable is never decided on.
CHECK_DEADLOCK FALSE
