--------------------------- MODULE MCAgentWrites ---------------------------
(* A purchase and a collection and three threads: one of an earlier run and *)
(* the two of the next.  Or one sale or one cash movement, and two threads. *)
EXTENDS AgentWrites, TLC

CONSTANTS t1, t2, w1, w2, w3, f1, f2

MCTasks == {t1, t2}
MCOneTask == {t1}
MCWorkers == {w1, w2, w3}
MCTwoWorkers == {w1, w2}
MCCalls == {t1 :> "purchase" @@ t2 :> "collect"}
MCOneCall == {t1 :> k : k \in {"sale", "cash"}}
MCFigures == {f1, f2}
MCSymmetry == Permutations(MCWorkers) \cup Permutations(MCFigures)
=============================================================================
