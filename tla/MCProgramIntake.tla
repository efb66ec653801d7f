--------------------------- MODULE MCProgramIntake --------------------------
(* Three references, every link structure among them; two of the pages link *)
(* references, and the information page may come to mention known issues.   *)
EXTENDS ProgramIntake

MCPageContents == [p \in Pages |->
                      IF p = "resources" THEN {{}} ELSE SUBSET Refs]
MCPageEdits == [p \in Pages |->
                   IF p = "information" THEN {KnownIssues} ELSE {}]
MCRefContents == SUBSET Refs
=============================================================================
