------------------------------ MODULE MCSchema ------------------------------
(* The database of the app, for TLC. *)
EXTENDS Schema

CONSTANTS t1, t2, t3, ssh, veeam

(* No database; one without groups, types and systems; one that a killed   *)
(* migration has left, to which somebody has added a service of their own. *)
MCOldDatabases ==
    {[tables |-> {}, columns |-> {}, services |-> [n \in Names |-> "absent"]],
     [tables |-> {"clients", "services", "rules", "apply_log"}, columns |-> {},
      services |-> [n \in Names |-> IF n = ssh THEN "builtin" ELSE "absent"]],
     [tables |-> Tables, columns |-> {"dest_tag_id", "kind"},
      services |-> [n \in Names |-> IF n = ssh THEN "builtin" ELSE "own"]]}

=============================================================================
