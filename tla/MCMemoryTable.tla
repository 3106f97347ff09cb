---- MODULE MCMemoryTable ----
EXTENDS MemoryTable
CONSTANTS none, small, large
MCKey == {1, 2, 3}
MCValue == {none, small, large}
\* 0, 7 and 13 bytes need blocks of 8, 12 and 20.
MCDataSize == none :> 0 @@ small :> 7 @@ large :> 13
MCTableSizes == {64, 88}
MCLargeSizes == none :> 0 @@ small :> 60000 @@ large :> 65532
MCLargeTableSizes == {200000}
===============================
