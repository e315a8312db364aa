---------------------------- MODULE MCLuaScripts ----------------------------
(***************************************************************************)
(* Three scripts, of which two may be in progress at a time.               *)
(***************************************************************************)
EXTENDS LuaScripts
=============================================================================
