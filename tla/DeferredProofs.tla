--------------------------- MODULE DeferredProofs ---------------------------
(***************************************************************************)
(* Deferred hands every caller the one result of deferFunc, whole, and     *)
(* implements SingleAssignment, for any callers, values and errors.        *)
(***************************************************************************)

EXTENDS Deferred, TLAPS

\* How far the goroutine is fixes what is in the two fields; a caller that has
\* read the value did so after the close; an answer is the pair of the fields.
IInv ==
    /\ TypeOK
    /\ worker = "running" <=> returned = Unset
    /\ done <=> worker = "finished"
    /\ worker \in {"half_stored", "stored", "finished"} => value = returned[1]
    /\ worker \in {"stored", "finished"} => err = returned[2]
    /\ \A c \in Callers :
         /\ caller[c] = "read" => done /\ seen[c] = value
         /\ got[c] = Unset <=> caller[c] # "back"
         /\ got[c] \notin {Unset, CtxErr} => done /\ got[c] = <<value, err>>

\* A result is a pair of the right type, different from the two markers.
LEMMA ResultsArePairs ==
    ASSUME NEW x \in Results
    PROVE  /\ x = <<x[1], x[2]>>
           /\ x[1] \in Values \union {Zero}
           /\ x[2] \in Errors \union {NoError}
           /\ x # Unset
           /\ x # CtxErr
  BY DeferredAssumption DEF Results, DeferredAssumption

LEMMA InitInv == Init => IInv
  BY DEF Init, IInv, TypeOK

LEMMA StepInv == IInv /\ [Next]_vars => IInv'
<1> SUFFICES ASSUME IInv, [Next]_vars PROVE IInv'
  OBVIOUS
<1> USE DEF IInv, TypeOK
<1>1. CASE Return
  <2>1. returned' \in Results /\ returned' # Unset
    BY <1>1, ResultsArePairs DEF Return
  <2> QED
    BY <1>1, <2>1 DEF Return
<1>2. CASE StoreValue
  <2>1. returned \in Results /\ returned[1] \in Values \union {Zero}
    BY <1>2, ResultsArePairs DEF StoreValue
  <2> QED
    BY <1>2, <2>1 DEF StoreValue
<1>3. CASE StoreErr
  <2>1. returned \in Results /\ returned[2] \in Errors \union {NoError}
    BY <1>3, ResultsArePairs DEF StoreErr
  <2> QED
    BY <1>3, <2>1 DEF StoreErr
<1>4. CASE Close
  BY <1>4 DEF Close
<1>5. ASSUME NEW c \in Callers, Call(c) PROVE IInv'
  BY <1>5 DEF Call
<1>6. ASSUME NEW c \in Callers, Cancel(c) PROVE IInv'
  BY <1>6 DEF Cancel
<1>7. ASSUME NEW c \in Callers, GetCancelled(c) PROVE IInv'
  BY <1>7, DeferredAssumption DEF GetCancelled, DeferredAssumption
<1>8. ASSUME NEW c \in Callers, GetDone(c) PROVE IInv'
  BY <1>8 DEF GetDone
<1>9. ASSUME NEW c \in Callers, GetReturn(c) PROVE IInv'
  <2>1. seen[c] \in Values \union {Zero} /\ err \in Errors \union {NoError}
    OBVIOUS
  <2>2. <<seen[c], err>> \in Pairs
    BY <2>1 DEF Pairs
  <2>3. <<seen[c], err>> # Unset
    BY <2>2, DeferredAssumption DEF Pairs, DeferredAssumption
  <2> QED
    BY <1>9, <2>2, <2>3 DEF GetReturn
<1>10. CASE UNCHANGED vars
  BY <1>10 DEF vars
<1> QED
  BY <1>1, <1>2, <1>3, <1>4, <1>5, <1>6, <1>7, <1>8, <1>9, <1>10
  DEF Next, Worker, Get

THEOREM Invariance == Spec => []IInv
  BY InitInv, StepInv, PTL DEF Spec

\* Type correctness of the result, its goroutine and its callers.
THEOREM TypeCorrect == Spec => []TypeOK
<1>1. IInv => TypeOK
  BY DEF IInv
<1> QED
  BY <1>1, Invariance, PTL

\* Get never returns a torn pair: a caller that was not cancelled has exactly
\* what deferFunc returned (defer.go, the two stores before close).
THEOREM NoTorn == Spec => []NoTornResult
<1>1. IInv => NoTornResult
  <2> SUFFICES ASSUME IInv, NEW c \in Callers, got[c] \notin {Unset, CtxErr}
               PROVE  got[c] = returned
    BY DEF NoTornResult
  <2>1. worker = "finished" /\ got[c] = <<value, err>>
    BY DEF IInv
  <2>2. returned \in Results
    BY <2>1 DEF IInv, TypeOK
  <2> QED
    BY <2>1, <2>2, ResultsArePairs DEF IInv
<1> QED
  BY <1>1, Invariance, PTL

\* Once the channel is closed no step writes the fields.
THEOREM Frozen == Spec => FrozenOnceDone
<1>1. IInv /\ [Next]_vars => [done => UNCHANGED <<value, err, done>>]_vars
  BY DEF IInv, Next, Worker, Get, Return, StoreValue, StoreErr, Close, Call,
         Cancel, GetCancelled, GetDone, GetReturn, vars
<1> QED
  BY <1>1, Invariance, PTL DEF Spec, FrozenOnceDone

\* Defer and Get implement the single assignment specification: the close
\* assigns the cell, and a select that ends answers its caller.
THEOREM Implements == Spec => ImplementsSingleAssignment
<1>1. Init => SA!Init
  BY DEF Init, SA!Init
<1>2. IInv /\ IInv' /\ [Next]_vars => [SA!Next]_(SA!vars)
  <2> SUFFICES ASSUME IInv, IInv', [Next]_vars PROVE [SA!Next]_(SA!vars)
    OBVIOUS
  <2> USE DEF SA!vars
  <2>1. CASE Return \/ StoreValue \/ StoreErr
    BY <2>1 DEF Return, StoreValue, StoreErr, IInv
  <2>2. CASE Close
    <3>1. returned \in Results /\ <<value, err>> = returned /\ ~done
      BY <2>2, ResultsArePairs DEF Close, IInv, TypeOK
    <3>2. SA!Assign
      BY <2>2, <3>1 DEF Close, SA!Assign
    <3> QED
      BY <3>2 DEF SA!Next
  <2>3. ASSUME NEW c \in Callers, Call(c) \/ Cancel(c) \/ GetDone(c)
        PROVE  [SA!Next]_(SA!vars)
    BY <2>3 DEF Call, Cancel, GetDone
  <2>4. ASSUME NEW c \in Callers, GetCancelled(c) PROVE [SA!Next]_(SA!vars)
    <3>1. SA!GiveUp(c)
      BY <2>4 DEF GetCancelled, SA!GiveUp, IInv
    <3> QED
      BY <3>1 DEF SA!Next
  <2>5. ASSUME NEW c \in Callers, GetReturn(c) PROVE [SA!Next]_(SA!vars)
    <3>1. done /\ returned \in Results /\ <<value, err>> = returned
      BY <2>5, ResultsArePairs DEF GetReturn, IInv, TypeOK
    <3>2. <<value, err>> # Unset
      BY <3>1, ResultsArePairs
    <3>3. SA!Answer(c)
      BY <2>5, <3>1, <3>2 DEF GetReturn, SA!Answer, IInv
    <3> QED
      BY <3>3 DEF SA!Next
  <2>6. CASE UNCHANGED vars
    BY <2>6 DEF vars
  <2> QED
    BY <2>1, <2>2, <2>3, <2>4, <2>5, <2>6 DEF Next, Worker, Get
<1> QED
  BY <1>1, <1>2, Invariance, PTL DEF Spec, ImplementsSingleAssignment, SA!Spec

=============================================================================
