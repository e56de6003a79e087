--------------------------- MODULE MCAppLifecycle ---------------------------
(* The disks an operator may leave behind: one for each way a start can go;   *)
(* RECOVERABLE comes of a bootstrap file that could not be deleted.         *)
EXTENDS AppLifecycle

Ready == [key |-> TRUE, ca |-> TRUE, store |-> "fresh", bootstrap |-> "none"]

MCDisks ==
    {Ready,
     [Ready EXCEPT !.store = "none", !.bootstrap = "good"],     \* NEW
     [Ready EXCEPT !.bootstrap = "bad"],
     [Ready EXCEPT !.store = "unreadable", !.bootstrap = "good"],
     [Ready EXCEPT !.store = "none"],                           \* BROKEN
     [Ready EXCEPT !.ca = FALSE],
     [Ready EXCEPT !.key = FALSE]}
=============================================================================
