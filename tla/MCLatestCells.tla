---------------------------- MODULE MCLatestCells -----------------------------
(* The two kinds of cells, each on its own: a RetainLatest with three threads *)
(* and four values, or an AsyncValue with two setters and four callbacks.     *)
EXTENDS RetainLatest, AsyncValue

VARIABLE subject      \* which cell this behaviour is about

CellsInit == /\ Init /\ AsyncInit
             /\ \/ subject = "async"  /\ kind = "plain"
                \/ subject = "retain" /\ type = "void"

CellsNext == \/ subject = "async"  /\ AsyncNext /\ UNCHANGED <<vars, subject>>
             \/ subject = "retain" /\ Next      /\ UNCHANGED <<asyncVars, subject>>

CellsSpec == CellsInit /\ [][CellsNext]_<<vars, asyncVars, subject>>
==============================================================================
