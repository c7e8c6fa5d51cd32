-------------------------- MODULE MCTransferResume --------------------------
(* Small files for TLC: the second version is shorter, the third longer.    *)
EXTENDS TransferResume

Sizes == <<2, 1, 3>>

Shrinking == <<3, 2>>

\* A change that only shows in the mtime, and a source that never changes.
SameSize  == <<2, 2>>
Unchanged == <<2>>
=============================================================================
