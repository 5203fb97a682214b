---------------------------- MODULE MCAgentLease ----------------------------
(* AgentLease for TLC: an MCP client and Dao Agent, three lease variables. *)
EXTENDS AgentLease

CONSTANTS h1, h2, h3, mcp, agent

MCTabs    == {1, 2}
MCHolders == {h1, h2, h3}
MCClients == {mcp, agent}
MCMcp     == {mcp}
=============================================================================
