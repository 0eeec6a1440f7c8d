--------------------------- MODULE MCToolDispatch --------------------------
(* ToolDispatch with the calls of one turn.                                *)
EXTENDS ToolDispatch
============================================================================
