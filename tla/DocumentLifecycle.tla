-------------------------- MODULE DocumentLifecycle --------------------------
(***************************************************************************)
(* What app/documents promises of a document to the people who uploaded    *)
(* it: it waits, then it is indexed or it failed, and it stays so until    *)
(* somebody deletes it.                                                    *)
(***************************************************************************)
CONSTANT Docs

VARIABLE phase

Accept(d) ==
    phase[d] = "absent" /\ phase' = [phase EXCEPT ![d] = "waiting"]

Settle(d) ==
    /\ phase[d] = "waiting"
    /\ \E outcome \in {"indexed", "failed"} :
          phase' = [phase EXCEPT ![d] = outcome]

Remove(d) ==
    /\ phase[d] \in {"waiting", "indexed", "failed"}
    /\ phase' = [phase EXCEPT ![d] = "deleted"]

Init == phase = [d \in Docs |-> "absent"]

Next == \E d \in Docs : Accept(d) \/ Settle(d) \/ Remove(d)

Spec == Init /\ [][Next]_phase

\* A document that waits does not wait forever.
FairSpec == Spec /\ \A d \in Docs : WF_phase(Settle(d))
=============================================================================
