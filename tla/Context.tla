------------------------------ MODULE Context -------------------------------
(***************************************************************************)
(* The context.Context that a command hands to everything it starts: once  *)
(* it is cancelled it stays so.                                            *)
(***************************************************************************)

VARIABLE cancelled      \* whether the channel of ctx.Done() is closed

Cancel == cancelled' = TRUE
=============================================================================
