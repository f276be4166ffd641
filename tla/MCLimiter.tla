------------------------------ MODULE MCLimiter ------------------------------
(* Two callers for a window of two tokens.  A request may take the whole       *)
(* window or more, part of it, or spend nothing (a body of unknown length);    *)
(* with one charge in the ledger a caller is at the head and one behind it,    *)
(* and a caller that was sent comes again while the other still waits.         *)
EXTENDS Limiter
=============================================================================
