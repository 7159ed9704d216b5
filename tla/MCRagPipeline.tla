---------------------------- MODULE MCRagPipeline ----------------------------
(***************************************************************************)
(* Instances of RagPipeline for TLC: two tickets of one project (one with  *)
(* two chunks, and a name that is inside that of the other), a page, a     *)
(* document of a client and the two kinds of chunk of the SQL agent.       *)
(***************************************************************************)
EXTENDS RagPipeline, TLC

CONSTANTS j1, j2, j3, s1, d1, q1, q2

MCSourceNames == ("jira" :> "jira") @@ ("document" :> "documents")
MCTicketDoc == "IH-1" :> "IH-1"
MCAvailable == <<"jira", "sharepoint", "sql", "documents">>
MCFallback == <<"jira", "sharepoint">>

Scope(sources, instance, doc) == [sources |-> sources, instance |-> instance, doc |-> doc]
MCScopes == {Scope(<<>>, NoInstance, NoDoc), Scope(<<"jira">>, "A", NoDoc),
             Scope(<<"documents">>, NoInstance, "D-1"),
             Scope(<<"documents">>, NoInstance, NoDoc)}

MCStore == <<d1, j1, j3, j2, q1, q2, s1>>
MCSourceOf == (j1 :> "jira") @@ (j2 :> "jira") @@ (j3 :> "jira") @@ (s1 :> "sharepoint")
              @@ (d1 :> "documents") @@ (q1 :> "sql") @@ (q2 :> "sql")
MCDocOf == (j1 :> "IH-1") @@ (j2 :> "IH-12") @@ (j3 :> "IH-1") @@ (s1 :> "S-1")
           @@ (d1 :> "D-1") @@ (q1 :> "base") @@ (q2 :> "base")
Meta(status, priority, instance) ==
    [status |-> status, priority |-> priority, connector_instance_id |-> instance]
MCMetaOf == (j1 :> Meta("open", "High", "A")) @@ (j2 :> Meta("done", "Highest", "A"))
            @@ (j3 :> Meta("open", "High", "A"))
            @@ (s1 :> Meta("", "", "B")) @@ (d1 :> Meta("", "", ""))
            @@ (q1 :> Meta("", "", "")) @@ (q2 :> Meta("", "", ""))
MCSizeOf == (j1 :> 1) @@ (j2 :> 2) @@ (j3 :> 1) @@ (s1 :> 2) @@ (d1 :> 4) @@ (q1 :> 1) @@ (q2 :> 1)

MCAllowedKeys == ("jira" :> {"status", "priority", InstanceKey})
                 @@ ("sharepoint" :> {"author", InstanceKey})
                 @@ ("documents" :> {"filename", InstanceKey}) @@ ("sql" :> {})
Filter(key, negated, values) == [key |-> key, negated |-> negated, values |-> values]
MCFilters == {Filter("status", TRUE, {"done"}), Filter("priority", FALSE, {"High"}),
              Filter("connector_instance_id", FALSE, {"B"}), Filter("author", FALSE, {})}
MCWithin == {<<"IH-1", "IH-12">>, <<"High", "Highest">>}
MCHistories == {<<>>, <<2>>, <<2, 0, 2>>}
=============================================================================
