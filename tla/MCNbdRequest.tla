---------------------------- MODULE MCNbdRequest ----------------------------
(* Requests to a device of two blocks of two bytes.                        *)
EXTENDS NbdRequest
=============================================================================
