--------------------------- MODULE MCProxyImport ---------------------------
EXTENDS ProxyImport

Timetables == {{0, 1}}
Careful == [enabled |-> FALSE, failed |-> FALSE]
Thorough == [enabled |-> TRUE, failed |-> TRUE]
Choices == {Careful, Thorough}
=============================================================================
