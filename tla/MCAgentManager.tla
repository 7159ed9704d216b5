--------------------------- MODULE MCAgentManager ---------------------------
(* Instances of AgentManager for TLC. *)
EXTENDS AgentManager

CONSTANTS q1, q2

Routing(sources, mode) == [sources |-> sources, mode |-> mode]

\* The LLM router named two sources and the identifier of a ticket; one source, with
\* filters or without; and the chat of a connector forced a source without an agent.
FourRoutings == {Routing({"jira", "sql"}, "exact"), Routing({"jira"}, "plain"),
                 Routing({"jira"}, "filtered"), Routing({"servicenow"}, "plain")}
=============================================================================
