-------------------------------- MODULE Patch --------------------------------
(***************************************************************************)
(* What a PATCH handler writes: it loads a row, assigns the fields it was  *)
(* sent, and commits.  The ORM then updates only the columns that differ   *)
(* from what was loaded (db/session.py keeps one session per request).     *)
(***************************************************************************)

\* variant: the whole row is written back
WrittenWhole(row, held, change) ==
  [f \in DOMAIN row |-> IF f \in DOMAIN change THEN change[f] ELSE held[f]]

Written(row, held, change) ==
  [f \in DOMAIN row |-> IF f \in DOMAIN change /\ change[f] # held[f] THEN change[f] ELSE row[f]]
=============================================================================
