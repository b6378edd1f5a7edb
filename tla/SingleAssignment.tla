-------------------------- MODULE SingleAssignment --------------------------
(***************************************************************************)
(* What a value computed once and waited for by many promises: it is       *)
(* assigned at most once, everyone who waits for it is told the same       *)
(* outcome, nobody is told an outcome before there is one, and an answer   *)
(* is never taken back.  A waiter may give up before it is answered.       *)
(*                                                                         *)
(* Deferred (internal/deferred) and AppRuntime (the sync.OnceValues of     *)
(* app.go) are both shown to implement this specification.                 *)
(***************************************************************************)

CONSTANTS
    Readers,     \* those who ask for the value
    Outcomes,    \* what the computation can return, a failure included
    Unset,       \* no outcome yet, and no answer yet
    GaveUp       \* the answer of a reader that stopped waiting

VARIABLES
    cell,        \* the outcome, once there is one
    answer       \* what each reader was told

vars == <<cell, answer>>

TypeOK ==
    /\ cell \in Outcomes \union {Unset}
    /\ answer \in [Readers -> Outcomes \union {Unset, GaveUp}]

Init ==
    /\ cell = Unset
    /\ answer = [r \in Readers |-> Unset]

Assign ==
    /\ cell = Unset
    /\ cell' \in Outcomes
    /\ UNCHANGED answer

Answer(r) ==
    /\ answer[r] = Unset
    /\ cell # Unset
    /\ answer' = [answer EXCEPT ![r] = cell]
    /\ UNCHANGED cell

GiveUp(r) ==
    /\ answer[r] = Unset
    /\ answer' = [answer EXCEPT ![r] = GaveUp]
    /\ UNCHANGED cell

Next == Assign \/ \E r \in Readers : Answer(r) \/ GiveUp(r)

Spec == Init /\ [][Next]_vars

=============================================================================
