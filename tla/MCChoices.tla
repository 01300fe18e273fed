---------------------------- MODULE MCChoices ----------------------------
EXTENDS Choices
CONSTANTS x, y
NothingToChoose == <<"SKILLS">>
ToChoose        == <<"STACKS">>
TwoStacks  == [k \in Keys |-> IF k = "STACKS" THEN {x, y} ELSE {x}]
FirstFiles == {[k \in Keys |-> IF k = "SKILLS" THEN None ELSE x]}
FirstImages == {NoImage, [label |-> y, stacks |-> y, true |-> TRUE]}
=============================================================================
