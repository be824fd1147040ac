---------------------------- MODULE MCToolCalls -----------------------------
EXTENDS ToolCalls

\* Three calls with distinct ids, or the last one with the id of the first.
MCNumberings == {<<1, 2, 3>>, <<1, 2, 1>>}
=============================================================================
