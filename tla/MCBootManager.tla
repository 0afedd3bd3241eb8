--------------------------- MODULE MCBootManager ---------------------------
(***************************************************************************)
(* A small instance of BootManager: two default options, of which the menu *)
(* and the shell may be missing from an image, and one of the user's. The  *)
(* keys are pressed in behaviours of their own.                            *)
(***************************************************************************)
EXTENDS BootManager

MCDefaults == <<"menu", "shell">>
MCImages == {{"menu", "shell"}, {"menu"}}
MCScopes == {{"edits"}, {"keys"}}
=============================================================================
