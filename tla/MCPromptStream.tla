---------------------------- MODULE MCPromptStream ----------------------------
(* PromptStream for a few daemons and prompts; daemons are interchangeable,   *)
(* and so are prompts of one kind.                                            *)
EXTENDS PromptStream, TLC

Symmetry == Permutations(Daemons) \cup Permutations(Poison)
            \cup Permutations(Prompts \ Poison)

==============================================================================
