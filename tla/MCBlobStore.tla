---------------------------- MODULE MCBlobStore ----------------------------
(* Small instances of BlobStore for TLC. *)
EXTENDS BlobStore, TLC

\* Requests and name variants are interchangeable.
Symmetry == Permutations(Requests) \cup Permutations(Names)

NoFaults == {}
Crashes == {"crash"}
IoErrors == {"io"}
Cancellations == {"cancel"}
CancellationsAndCrashes == {"cancel", "crash"}
Outages == {"outage"}
S3Errors == {"s3"}
CancellationsAndOutages == {"cancel", "outage"}
=============================================================================
