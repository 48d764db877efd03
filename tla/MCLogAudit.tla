----------------------------- MODULE MCLogAudit -----------------------------
(* Messages 2 and 3 share a second, message 1 has one of its own.            *)
EXTENDS LogAudit

MCSecondOf(n) == n \div 2
MCMaxStarts == [s \in Services |-> IF s = "api" THEN 2 ELSE 1]
MCAsks == {[filter |-> "all", limit |-> 1], [filter |-> "info", limit |-> -1],
           [filter |-> "blockchain", limit |-> 2]}
=============================================================================
