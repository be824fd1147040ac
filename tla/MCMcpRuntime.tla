---- MODULE MCMcpRuntime ----
\* Model checking of McpRuntime: the primary repository and one context.
EXTENDS McpRuntime
====
