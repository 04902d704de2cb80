------------------------------ MODULE Exchange ------------------------------
(***************************************************************************)
(* What a request to the model promises its caller and demands of it, from *)
(* the outside: the model is called a bounded number of times, never while *)
(* a function call of its last turn is unanswered; the request ends once,  *)
(* with an answer (of the model's last turn, after which nothing is owed)  *)
(* or an error, and by then every connection made for it is closed.        *)
(* Engine.tla implements this.                                             *)
(***************************************************************************)
EXTENDS Naturals

CONSTANTS MaxRounds,    \* calls of the model for one request
          Turns,        \* function calls a turn of the model may contain
          None

VARIABLES asked,    \* how often the model has been called
          owed,     \* function calls not answered yet
          holding,  \* a connection is open
          outcome   \* "answer" or "error" once the request has ended

vars == <<asked, owed, holding, outcome>>

Init == asked = 0 /\ owed = 0 /\ ~holding /\ outcome = None

\* A connection is made, before the model is asked for the first time.
Connect ==
    /\ outcome = None /\ asked = 0
    /\ holding' = TRUE
    /\ UNCHANGED <<asked, owed, outcome>>

\* The model takes a turn that calls functions.
Ask ==
    /\ outcome = None /\ owed = 0 /\ asked < MaxRounds
    /\ asked' = asked + 1
    /\ owed' \in Turns
    /\ UNCHANGED <<holding, outcome>>

\* One of the functions is called, or the call fails: either is an answer.
Serve ==
    /\ owed > 0
    /\ owed' = owed - 1
    /\ UNCHANGED <<asked, holding, outcome>>

\* The model's turn ends the request, or the last allowed turn has not.
End ==
    /\ outcome = None /\ owed = 0
    /\ \/ asked < MaxRounds /\ asked' = asked + 1 /\ outcome' \in {"answer", "error"}
       \/ asked = MaxRounds /\ UNCHANGED asked /\ outcome' = "error"
    /\ holding' = FALSE
    /\ UNCHANGED owed

Next == Connect \/ Ask \/ Serve \/ End

Spec == Init /\ [][Next]_vars
=============================================================================
