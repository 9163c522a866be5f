---------------------------- MODULE MCAppUpdate ----------------------------
(* Small instances of the updater for TLC. *)
EXTENDS AppUpdate
=============================================================================
