----------------------- MODULE MCDeviceAuthorization -----------------------
(* Finite instances of DeviceAuthorization for TLC. *)
EXTENDS DeviceAuthorization, TLC

\* Requests, subjects and codes are interchangeable.  The liveness run does
\* without the reduction, which TLC does not support there.
Symmetry == Permutations(Polls) \cup Permutations(Verifs)
            \cup Permutations(Subjects) \cup Permutations(Codes)
=============================================================================
