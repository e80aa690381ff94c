---------------------------- MODULE MCCloudJobs -----------------------------
EXTENDS CloudJobs, TLC

\* Jobs are interchangeable, and so are clients.
JobSymmetry == Permutations(Jobs)
=============================================================================
