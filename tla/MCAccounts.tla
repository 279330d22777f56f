---------------------------- MODULE MCAccounts ----------------------------
(* One business with its founder, two more uids, two requests at a time. *)
EXTENDS Accounts, TLC

CONSTANTS r1, r2, k1, k2, ana, beto, carla, mail1, mail2

MCRequests == {r1, r2}
MCConnections == {k1, k2}
MCUids == {ana, beto, carla}
MCEmails == {mail1, mail2}
\* A new role, a lock-out, a re-admission that names both columns, and a null.
MCUpdates == {[role |-> "sales_rep", activity |-> "active"], [activity |-> "inactive"],
              [role |-> "null"]}

Symmetry == Permutations(MCRequests) \cup Permutations(MCConnections)
                \cup Permutations({beto, carla})
=============================================================================
