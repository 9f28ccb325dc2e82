------------------------- MODULE MCWatcherDispatch -------------------------
(* WatcherDispatch with one file f1 and, for the runs that need it, one    *)
(* websocket channel c1.                                                   *)
EXTENDS WatcherDispatch

CONSTANTS f1, c1

NoneAffected == {{}}
FileAffected == {{}, {f1}}
=============================================================================
