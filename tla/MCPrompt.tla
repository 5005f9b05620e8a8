------------------------------ MODULE MCPrompt ------------------------------
(* Small instances of Prompt. *)
EXTENDS Prompt, TLC

CONSTANTS k1, k2, d1, d2

\* The second definition may be found to be the first one's skill.
MCCanonical == (d1 :> {k1}) @@ (d2 :> {k1, k2})

MCAllowLists == {{}, {d2, Blank}}
MCInsertLists == {{}, {"user-message", Unknown}}

============================================================================
