---------------------------- MODULE MCLspManager ----------------------------
(* One call of an lsp tool and one hook: each may start a server, one of the *)
(* two stays, and both then use it while it is shut down or exits.           *)
EXTENDS LspManager
=============================================================================
