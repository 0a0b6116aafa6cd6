---------------------------- MODULE DurableFile ----------------------------
(***************************************************************************)
(* What atomic_write promises of a file: it always holds one whole text,   *)
(* the last one written; a power loss may take it back, but to no text     *)
(* older than that of the last write that returned.                        *)
(***************************************************************************)
CONSTANTS
    Texts,
    Nothing  \* no file yet

VARIABLES
    text,  \* what a reader gets
    kept,  \* what it may be after a power loss
    done   \* what the last write that returned had written

vars == <<text, kept, done>>

Init == text = Nothing /\ kept = {Nothing} /\ done = Nothing

Write(t) ==
    /\ text' = t
    /\ kept' = kept \cup {t}
    /\ UNCHANGED done

\* The write of what is there now returns.
Return ==
    /\ kept' = {text}
    /\ done' = text
    /\ UNCHANGED text

PowerLoss(t) ==
    /\ t \in kept
    /\ text' = t
    /\ kept' = {t}
    /\ UNCHANGED done

Next ==
    \/ \E t \in Texts : Write(t)
    \/ Return
    \/ \E t \in kept : PowerLoss(t)

Spec == Init /\ [][Next]_vars

=============================================================================
