--------------------------- MODULE MCQemuProcess ---------------------------
(* TLC instance of QemuProcess: every entry point, checks adjacent to sends. *)
EXTENDS QemuProcess
=============================================================================
