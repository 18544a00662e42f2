\* Bytes and timeouts while the port is set up, some of the test byte's value;
\* a short FIFO, for each place of it may hold any of the bytes.
CONSTANTS
  Depth = 6
  Trigger = 4
  MaxBytes = 8
  LineBytes = {"line", "twin"}
  Undisturbed = FALSE
SPECIFICATION Spec
CHECK_DEADLOCK FALSE
INVARIANTS
  TypeOK
  TestByteOnlyExchanged
  WedgeNeedsBurst
PROPERTIES
  DrainsOrWedges
