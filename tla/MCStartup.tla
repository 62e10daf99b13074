----------------------------- MODULE MCStartup -----------------------------
(***************************************************************************)
(* Two processes of main.ts and one migration:up for TLC.                  *)
(***************************************************************************)
EXTENDS Startup
=============================================================================
