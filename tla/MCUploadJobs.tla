---------------------------- MODULE MCUploadJobs ----------------------------
EXTENDS UploadJobs, TLC
CONSTANTS p1, p2, s1, s2, j1
\* One goroutine each of two processes.
TwoProcs == s1 :> p1 @@ s2 :> p2
=============================================================================
