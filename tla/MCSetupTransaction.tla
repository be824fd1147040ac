------------------------- MODULE MCSetupTransaction -------------------------
(* Clients read the skill file ~/.agents/skills/leantoken/SKILL.md, but the *)
(* last one reads ~/.claude/skills/leantoken/SKILL.md                       *)
EXTENDS SetupTransaction

LastApart ==
  [c \in Clients |-> IF c = NumClients THEN NumClients + NumSkills
                                       ELSE NumClients + 1]
=============================================================================
