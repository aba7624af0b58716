--------------------------- MODULE MCChunkUpload ---------------------------
(* Small instances of ChunkUpload for TLC. *)
EXTENDS ChunkUpload, TLC

\* Requests, chunk file names and owners are interchangeable.
Symmetry == Permutations(Requests) \cup Permutations(Files) \cup Permutations(Owners)

NoFaults == {}
IoErrors == {"io"}
Cancellations == {"cancel"}
UnpaidUploads == {"unpaid"}
NoTempDir == {"tempdir"}
CancellationsAndNoTempDir == {"cancel", "tempdir"}
IoErrorsAndUnpaidUploads == {"io", "unpaid"}
=============================================================================
