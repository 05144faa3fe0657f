------------------------------- MODULE Requests -------------------------------
(***************************************************************************)
(* The concurrent requests of procurement, each in a session of its own,   *)
(* which the modules on its tables share.                                  *)
(***************************************************************************)
CONSTANTS
    Session,        \* concurrent requests, and the worker
    None            \* no call under way, no qualification yet
=============================================================================
