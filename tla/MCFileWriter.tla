---------------------------- MODULE MCFileWriter ----------------------------
(***************************************************************************)
(* Scenes for FileWriter: requests under pressure, with every fault; file  *)
(* faults alone with one block more; and writing, expiry and restart with  *)
(* room for three files.                                                   *)
(***************************************************************************)
EXTENDS FileWriter

Pressure ==
    [buffers |-> 2, ring |-> 1, sizes |-> {1, 3}, blocks |-> 2, ops |-> {"write", "lost", "sync", "close"},
     faults |-> AllFaults]

FileFaults ==
    [Pressure EXCEPT !.blocks = 3, !.ops = {"write", "sync", "close"}, !.faults = {"open", "write", "seek"}]

Restart ==
    [buffers |-> 3, ring |-> 3, sizes |-> {1}, blocks |-> 3, ops |-> {"write", "sync", "close"},
     faults |-> {"write", "crash", "expire"}]

MCScenes == {Pressure, FileFaults, Restart}
=============================================================================
