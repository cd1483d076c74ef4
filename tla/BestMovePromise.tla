--------------------------- MODULE BestMovePromise ---------------------------
(***************************************************************************)
(* What a search promises to whoever started it: it answers with one move, *)
(* unless it is aborted first, and what is played afterwards is what was   *)
(* answered.                                                               *)
(***************************************************************************)
CONSTANTS
    Move,    \* the moves an answer can have
    Nothing  \* no answer yet, and no move asked for yet

VARIABLES
    phase,   \* "searching", "answered" or "aborted"
    answer,  \* the move of the answer
    asked    \* the move GetBestMove returned

vars == <<phase, answer, asked>>

Init == phase = "searching" /\ answer = Nothing /\ asked = Nothing

Answer ==
    /\ phase = "searching"
    /\ phase' = "answered"
    /\ answer' \in Move
    /\ UNCHANGED asked

Abort ==
    /\ phase = "searching"
    /\ phase' = "aborted"
    /\ UNCHANGED <<answer, asked>>

\* After an abort a move may be asked for as well, and it may be any.
Ask ==
    /\ phase # "searching"
    /\ asked' \in Move
    /\ phase = "answered" => asked' = answer
    /\ UNCHANGED <<phase, answer>>

Next == Answer \/ Abort \/ Ask

Spec == Init /\ [][Next]_vars /\ WF_vars(Answer \/ Abort)
=============================================================================
