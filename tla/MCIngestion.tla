---------------------------- MODULE MCIngestion ----------------------------
(* Instance of Ingestion: two documents in one scope and one in another, so *)
(* that a page boundary falls inside a scope and a scope may fail alone.    *)
EXTENDS Ingestion

CONSTANTS ScopeA, ScopeB

MCDocs == 1..3
MCScopeOf == [d \in MCDocs |-> IF d = 3 THEN ScopeB ELSE ScopeA]
=============================================================================
