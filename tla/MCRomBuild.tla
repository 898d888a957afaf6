----------------------------- MODULE MCRomBuild -----------------------------
(* The image builders with two edits by the user and one killed run. *)
EXTENDS RomBuild
=============================================================================
