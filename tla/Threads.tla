------------------------------- MODULE Threads -------------------------------
(* The threads of the service, one for each request that runs.  The same    *)
(* threads keep what UserFiles and Knowledge are about.                     *)
CONSTANTS
  Thread,
  None      \* what is not there
=============================================================================
