------------------------------ MODULE Deferred ------------------------------
(***************************************************************************)
(* internal/deferred: a function run in a goroutine of its own, whose      *)
(* result any number of callers wait for.                                  *)
(*                                                                         *)
(* The goroutine writes two fields, then closes the channel; a caller      *)
(* selects between its own context and the channel, then reads the two     *)
(* fields.  No lock orders the fields: only the close does.  Each write    *)
(* and each read is a step of its own here.                                *)
(*                                                                         *)
(* The fields are written once, so a caller that gets through the select   *)
(* may read them in either order.                                          *)
(***************************************************************************)

CONSTANTS
    Callers,     \* the goroutines that call Get
    Values,      \* what deferFunc returns when it succeeds
    Errors,      \* the errors it returns when it fails
    Zero,        \* the zero value of T, which accompanies an error
    NoError,     \* the nil error
    Unset,       \* no result, no answer yet
    CtxErr       \* the answer <<zero, ctx.Err()>>

ASSUME DeferredAssumption ==
    /\ Zero \notin Values
    /\ NoError \notin Errors
    /\ Unset \notin (Values \union {Zero}) \X (Errors \union {NoError})
    /\ CtxErr # Unset
    /\ CtxErr \notin (Values \union {Zero}) \X (Errors \union {NoError})

VARIABLES
    worker,      \* where the goroutine is
    returned,    \* what deferFunc returned, on the goroutine's stack
    value, err,  \* the fields of Result
    done,        \* the channel done is closed
    cancelled,   \* cancelled[c]: the context of caller c is done
    caller,      \* where each caller of Get is
    seen,        \* seen[c]: the value field as c read it
    got          \* got[c]: what Get returned to c

vars == <<worker, returned, value, err, done, cancelled, caller, seen, got>>

\* The pairs deferFunc can return: a value, or the zero value with an error.
Results == (Values \X {NoError}) \union ({Zero} \X Errors)

Pairs == (Values \union {Zero}) \X (Errors \union {NoError})

TypeOK ==
    /\ worker \in {"running", "returned", "half_stored", "stored", "finished"}
    /\ returned \in Results \union {Unset}
    /\ value \in Values \union {Zero}
    /\ err \in Errors \union {NoError}
    /\ done \in BOOLEAN
    /\ cancelled \in [Callers -> BOOLEAN]
    /\ caller \in [Callers -> {"idle", "select", "read", "back"}]
    /\ seen \in [Callers -> Values \union {Zero}]
    /\ got \in [Callers -> Pairs \union {Unset, CtxErr}]

\* Defer: the Result has only its channel, and the goroutine is started.
Init ==
    /\ worker = "running"
    /\ returned = Unset
    /\ value = Zero
    /\ err = NoError
    /\ done = FALSE
    /\ cancelled = [c \in Callers |-> FALSE]
    /\ caller = [c \in Callers |-> "idle"]
    /\ seen = [c \in Callers |-> Zero]
    /\ got = [c \in Callers |-> Unset]

-----------------------------------------------------------------------------
(* The goroutine *)

\* deferFunc returns.
Return ==
    /\ worker = "running"
    /\ worker' = "returned"
    /\ returned' \in Results
    /\ UNCHANGED <<value, err, done, cancelled, caller, seen, got>>

StoreValue ==
    /\ worker = "returned"
    /\ worker' = "half_stored"
    /\ value' = returned[1]
    /\ UNCHANGED <<returned, err, done, cancelled, caller, seen, got>>

StoreErr ==
    /\ worker = "half_stored"
    /\ worker' = "stored"
    /\ err' = returned[2]
    /\ UNCHANGED <<returned, value, done, cancelled, caller, seen, got>>

\* Mutants of Close: before the error is stored; skipped when deferFunc failed.
CloseBeforeErr ==
    /\ worker \in {"half_stored", "stored"}
    /\ worker' = IF worker = "stored" THEN "finished" ELSE worker
    /\ done' = TRUE
    /\ UNCHANGED <<returned, value, err, cancelled, caller, seen, got>>

CloseOnSuccess ==
    /\ worker = "stored" /\ err = NoError
    /\ worker' = "finished"
    /\ done' = TRUE
    /\ UNCHANGED <<returned, value, err, cancelled, caller, seen, got>>

Close ==
    /\ worker = "stored"
    /\ worker' = "finished"
    /\ done' = TRUE
    /\ UNCHANGED <<returned, value, err, cancelled, caller, seen, got>>

Worker == StoreValue \/ StoreErr \/ Close

-----------------------------------------------------------------------------
(* The callers of Get *)

\* A caller may arrive with a context that is already done.
Call(c) ==
    /\ caller[c] = "idle"
    /\ caller' = [caller EXCEPT ![c] = "select"]
    /\ UNCHANGED <<worker, returned, value, err, done, cancelled, seen, got>>

Cancel(c) ==
    /\ ~cancelled[c]
    /\ caller[c] # "back"
    /\ cancelled' = [cancelled EXCEPT ![c] = TRUE]
    /\ UNCHANGED <<worker, returned, value, err, done, caller, seen, got>>

\* Mutant: the context is looked at only once the result is there.
GetCancelledLate(c) ==
    /\ caller[c] = "select"
    /\ cancelled[c] /\ done
    /\ caller' = [caller EXCEPT ![c] = "back"]
    /\ got' = [got EXCEPT ![c] = CtxErr]
    /\ UNCHANGED <<worker, returned, value, err, done, cancelled, seen>>

\* The first case of the select.  With the result there too, either is taken.
GetCancelled(c) ==
    /\ caller[c] = "select"
    /\ cancelled[c]
    /\ caller' = [caller EXCEPT ![c] = "back"]
    /\ got' = [got EXCEPT ![c] = CtxErr]
    /\ UNCHANGED <<worker, returned, value, err, done, cancelled, seen>>

\* Mutants: read without waiting; the pair is taken for the value.
GetNoWait(c) ==
    /\ caller[c] = "select"
    /\ caller' = [caller EXCEPT ![c] = "read"]
    /\ seen' = [seen EXCEPT ![c] = value]
    /\ UNCHANGED <<worker, returned, value, err, done, cancelled, got>>

GetPair(c) ==
    /\ caller[c] = "select"
    /\ done
    /\ caller' = [caller EXCEPT ![c] = "read"]
    /\ seen' = [seen EXCEPT ![c] = returned]
    /\ UNCHANGED <<worker, returned, value, err, done, cancelled, got>>

\* The second case: the channel is closed.  Read the value ...
GetDone(c) ==
    /\ caller[c] = "select"
    /\ done
    /\ caller' = [caller EXCEPT ![c] = "read"]
    /\ seen' = [seen EXCEPT ![c] = value]
    /\ UNCHANGED <<worker, returned, value, err, done, cancelled, got>>

\* ... then the error, and return both.
GetReturn(c) ==
    /\ caller[c] = "read"
    /\ caller' = [caller EXCEPT ![c] = "back"]
    /\ got' = [got EXCEPT ![c] = <<seen[c], err>>]
    /\ UNCHANGED <<worker, returned, value, err, done, cancelled, seen>>

Get(c) == GetCancelled(c) \/ GetDone(c) \/ GetReturn(c)

Next ==
    \/ Return
    \/ Worker
    \/ \E c \in Callers : Call(c) \/ Cancel(c) \/ Get(c)

\* Goroutines are scheduled.  Nothing obliges deferFunc to return (the HTTP
\* client of provider discovery has no timeout), a context to be cancelled, or
\* anyone to call.
Fairness == WF_vars(Worker) /\ \A c \in Callers : WF_vars(Get(c))

Spec == Init /\ [][Next]_vars

FairSpec == Spec /\ Fairness

-----------------------------------------------------------------------------
(* Properties *)

\* No caller is handed a torn pair: what Get returns when its context lives is
\* exactly what deferFunc returned, value and error together, although the two
\* fields are written and read separately and without a lock.
NoTornResult ==
    \A c \in Callers : got[c] \notin {Unset, CtxErr} => got[c] = returned

\* The fields are frozen from the close on: the discovery document a request
\* holds cannot change under it.
FrozenOnceDone == [][done => UNCHANGED <<value, err, done>>]_vars

\* The result is a cell assigned by the close: for its callers, Defer is the
\* single assignment specification.
SA == INSTANCE SingleAssignment WITH
        Readers <- Callers,
        Outcomes <- Results,
        GaveUp <- CtxErr,
        cell <- IF done THEN <<value, err>> ELSE Unset,
        answer <- got

ImplementsSingleAssignment == SA!Spec

\* A caller whose context is cancelled comes back even if deferFunc never
\* returns.
CancelledCallerReturns ==
    \A c \in Callers : (caller[c] = "select" /\ cancelled[c]) ~> (caller[c] = "back")

\* Once deferFunc has returned, every caller comes back.
EveryCallerReturns ==
    \A c \in Callers :
        (caller[c] = "select" /\ worker # "running") ~> (caller[c] = "back")

=============================================================================
