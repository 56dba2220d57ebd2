----------------------------- MODULE MCClipboard -----------------------------
(* Clipboard for TLC: its bounds are in Clipboard.cfg. *)
EXTENDS Clipboard
=============================================================================
