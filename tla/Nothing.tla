------------------------------- MODULE Nothing -------------------------------
(* Python's None, of the desktop program and of the downloads it shares     *)
(* with the service.                                                        *)
CONSTANT None   \* what is not there
=============================================================================
