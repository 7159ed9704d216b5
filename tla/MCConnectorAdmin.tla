-------------------------- MODULE MCConnectorAdmin --------------------------
(***************************************************************************)
(* Instances of ConnectorAdmin for TLC.                                    *)
(***************************************************************************)
EXTENDS ConnectorAdmin, TLC

CONSTANTS c1, c2, c3, r1, r2, secret1, secret2

Symmetry == Permutations(Connectors) \cup Permutations(Requests)

Patch(label, freq, auth) == [label |-> label, freq |-> freq, auth |-> auth]

RenameForms == {Patch(l, Unset, Unset) : l \in Labels}

PatchForms == RenameForms \cup {Patch(Unset, f, Unset) : f \in Frequencies}

NoPatch == {}

\* The form sends back the mask for a secret that was not edited.
CredentialForms ==
    {Patch(Unset, Unset, [k \in AuthKeys |-> IF k = edited THEN v ELSE Mask]) :
        edited \in AuthKeys, v \in AuthValues}

\* A body of each kind, one with nothing but masks, and the empty one.
AllForms ==
    PatchForms \cup CredentialForms
        \cup {Patch(Unset, Unset, [k \in AuthKeys |-> Mask]),
              Patch(Unset, Unset, Unset)}
=============================================================================
