-------------------------- MODULE AppRuntimeProofs --------------------------
(***************************************************************************)
(* The directory of a configuration is loaded at most once and whole,      *)
(* everybody is told the same of it, a configuration takes over only with  *)
(* it, and each runtime implements SingleAssignment: for any number of     *)
(* configurations and requests, and any tables.                            *)
(***************************************************************************)

EXTENDS AppRuntime, TLAPS

-----------------------------------------------------------------------------
(* Directories, row by row *)

\* The rows of address k among the first n.
RowsOf(rs, n, k) == {i \in 1 .. n : NormalizeEmail(rs[i].email) = k}

\* The addresses in the first n rows.
Keys(rs, n) == {NormalizeEmail(rs[i].email) : i \in 1 .. n}

IsFirst(i, S) == i \in S /\ \A j \in S : i <= j

RolesIn(rs, S) == {rs[i].role : i \in S}

\* What the first n rows describe.
DescribedUpTo(rs, n) ==
    [k \in Keys(rs, n) |->
       [name |-> rs[Min(RowsOf(rs, n, k))].name,
        roles |-> RolesIn(rs, RowsOf(rs, n, k))]]

\* Each address has a first row.
HaveFirsts(rs, n) == \A k \in Keys(rs, n) : \E i \in 1 .. n : IsFirst(i, RowsOf(rs, n, k))

LEMMA ScannedAll == ASSUME NEW rs PROVE DescribedUpTo(rs, Len(rs)) = Described(rs)
  BY DEF DescribedUpTo, Described, Keys, RowsOf, RolesIn

LEMMA ScannedNone ==
    ASSUME NEW rs
    PROVE  Keys(rs, 0) = {} /\ HaveFirsts(rs, 0) /\ DescribedUpTo(rs, 0) = Empty
<1>1. 1 .. 0 = {}
  OBVIOUS
<1>2. Keys(rs, 0) = {}
  BY <1>1 DEF Keys
<1> QED
  BY <1>2 DEF HaveFirsts, DescribedUpTo, Empty

\* The first of some numbers is their minimum.
LEMMA FirstIsMin ==
    ASSUME NEW S \in SUBSET Nat, NEW i, IsFirst(i, S)
    PROVE  Min(S) = i
<1>1. \A x \in S : (\A j \in S : x <= j) => x = i
  BY DEF IsFirst
<1> QED
  BY <1>1 DEF IsFirst, Min

\* One more row is filed as the whole describes it.
LEMMA ScannedOneMore ==
    ASSUME NEW rs, NEW n \in Nat, HaveFirsts(rs, n)
    PROVE  /\ HaveFirsts(rs, n + 1)
           /\ AddRow(DescribedUpTo(rs, n), rs[n + 1]) = DescribedUpTo(rs, n + 1)
<1> DEFINE key == NormalizeEmail(rs[n + 1].email)
           dir == DescribedUpTo(rs, n)
           all == DescribedUpTo(rs, n + 1)
           sum == AddRow(dir, rs[n + 1])
<1>1. 1 .. (n + 1) = (1 .. n) \union {n + 1}
  OBVIOUS
<1>2. Keys(rs, n + 1) = Keys(rs, n) \union {key}
  BY <1>1 DEF Keys
<1>3. ASSUME NEW k, k # key PROVE RowsOf(rs, n + 1, k) = RowsOf(rs, n, k)
  BY <1>1, <1>3 DEF RowsOf
<1>4. RowsOf(rs, n + 1, key) = RowsOf(rs, n, key) \union {n + 1}
  BY <1>1 DEF RowsOf
<1>5. \A k : RowsOf(rs, n, k) \in SUBSET Nat /\ RowsOf(rs, n + 1, k) \in SUBSET Nat
  BY DEF RowsOf
<1>6. \A k : k \in Keys(rs, n) <=> RowsOf(rs, n, k) # {}
  BY DEF Keys, RowsOf
<1>7. ASSUME NEW k, NEW i, IsFirst(i, RowsOf(rs, n, k)) PROVE IsFirst(i, RowsOf(rs, n + 1, k))
  BY <1>3, <1>4, <1>7 DEF IsFirst, RowsOf
<1>8. key \notin Keys(rs, n) => RowsOf(rs, n + 1, key) = {n + 1} /\ IsFirst(n + 1, {n + 1})
  BY <1>4, <1>6 DEF IsFirst
<1>9. HaveFirsts(rs, n + 1)
  <2> SUFFICES ASSUME NEW k \in Keys(rs, n + 1) 
                PROVE  \E i \in 1 .. (n + 1) : IsFirst(i, RowsOf(rs, n + 1, k))
    BY DEF HaveFirsts
  <2>1. CASE k \in Keys(rs, n)
    BY <2>1, <1>7 DEF HaveFirsts
  <2>2. CASE k \notin Keys(rs, n)
    BY <2>2, <1>2, <1>8
  <2> QED
    BY <2>1, <2>2
<1>10. DOMAIN dir = Keys(rs, n) /\ DOMAIN all = Keys(rs, n + 1)
  BY DEF DescribedUpTo
<1>11. ASSUME NEW k \in Keys(rs, n + 1) PROVE sum[k] = all[k]
  <2>1. sum[k] = IF k # key THEN dir[k]
                 ELSE IF key \in DOMAIN dir
                        THEN [name |-> dir[key].name, roles |-> dir[key].roles \union {rs[n + 1].role}]
                        ELSE [name |-> rs[n + 1].name, roles |-> {rs[n + 1].role}]
    BY <1>2, <1>10 DEF AddRow
  <2>2. all[k] = [name |-> rs[Min(RowsOf(rs, n + 1, k))].name,
                  roles |-> RolesIn(rs, RowsOf(rs, n + 1, k))]
    BY DEF DescribedUpTo
  <2>3. CASE k # key
    <3>1. dir[k] = [name |-> rs[Min(RowsOf(rs, n, k))].name,
                    roles |-> RolesIn(rs, RowsOf(rs, n, k))]
      BY <2>3, <1>2 DEF DescribedUpTo
    <3> QED
      BY <2>1, <2>2, <2>3, <3>1, <1>3
  <2>4. CASE k = key /\ key \in Keys(rs, n)
    <3>1. PICK i \in 1 .. n : IsFirst(i, RowsOf(rs, n, key))
      BY <2>4 DEF HaveFirsts
    <3>2. dir[key] = [name |-> rs[i].name, roles |-> RolesIn(rs, RowsOf(rs, n, key))]
      BY <2>4, <3>1, <1>5, FirstIsMin DEF DescribedUpTo
    <3>3. all[key] = [name |-> rs[i].name, roles |-> RolesIn(rs, RowsOf(rs, n + 1, key))]
      BY <2>2, <2>4, <3>1, <1>5, <1>7, FirstIsMin
    <3>4. RolesIn(rs, RowsOf(rs, n + 1, key))
            = RolesIn(rs, RowsOf(rs, n, key)) \union {rs[n + 1].role}
      BY <1>4 DEF RolesIn
    <3>5. dir[key].name = rs[i].name /\ dir[key].roles = RolesIn(rs, RowsOf(rs, n, key))
      BY <3>2
    <3> QED
      BY <2>1, <2>4, <1>10, <3>3, <3>4, <3>5
  <2>5. CASE k = key /\ key \notin Keys(rs, n)
    <3>1. all[key] = [name |-> rs[n + 1].name, roles |-> RolesIn(rs, {n + 1})]
      BY <2>2, <2>5, <1>8, FirstIsMin
    <3>2. RolesIn(rs, {n + 1}) = {rs[n + 1].role}
      BY DEF RolesIn
    <3> QED
      BY <2>1, <2>5, <1>10, <3>1, <3>2
  <2> QED
    BY <2>3, <2>4, <2>5
<1>12. DOMAIN sum = Keys(rs, n + 1) /\ sum = [k \in DOMAIN sum |-> sum[k]]
  BY <1>2, <1>10 DEF AddRow
<1>13. all = [k \in Keys(rs, n + 1) |-> all[k]]
  BY DEF DescribedUpTo
<1> QED
  BY <1>9, <1>11, <1>12, <1>13

LEMMA ScannedIsDirectory == ASSUME NEW rs, NEW n PROVE IsDirectory(DescribedUpTo(rs, n))
  BY DEF IsDirectory, DescribedUpTo

-----------------------------------------------------------------------------
(* The inductive invariant *)

\* What each variable is a function of; TypeOK speaks of its values only.
Shapes ==
    /\ index = [g \in Configs |-> index[g]]
    /\ result = [g \in Configs |-> result[g]]
    /\ answer = [c \in Callers |-> answer[c]]

\* Nobody knows a configuration before it is made, and Start only its own.
Known ==
    /\ candidate \in {0, newest} /\ current <= newest
    /\ listening => candidate # 0
    /\ \A c \in Callers : config[c] <= newest
    /\ \A g \in Configs : config[Starter(g)] \in {0, g}
    /\ \A g \in Configs : load[g] # "idle" => g <= newest

\* The once function of g: it has a result when it is done; it goes to the
\* database with a connection string, and once; the index is what the rows up to
\* its position describe.
Loading(g) ==
    /\ load[g] = "done" <=> result[g] # Unset
    /\ load[g] \in {"connect", "query", "scan"} => postgres[g]
    /\ connections[g] <= 1
    /\ load[g] \in {"idle", "connect"} => connections[g] = 0
    /\ connections[g] # 0 => postgres[g]
    /\ load[g] \in {"idle", "connect", "query"} => position[g] = 0
    /\ load[g] = "scan" => rows[g] \in Databases /\ position[g] <= Len(rows[g])
    /\ index[g] = DescribedUpTo(rows[g], position[g])
    /\ HaveFirsts(rows[g], position[g])

\* The result of g is the absence of a directory, a failure, or the whole.
Outcome(g) ==
    \/ result[g] \in {Unset, Failed}
    \/ result[g] = NoDirectory /\ ~postgres[g]
    \/ rows[g] \in Databases /\ result[g] = Described(rows[g])

Answered(c) == answer[c] # Unset => config[c] # 0 /\ answer[c] = result[config[c]]

IInv ==
    /\ TypeOK /\ Shapes /\ Known
    /\ \A g \in Configs : Loading(g) /\ Outcome(g)
    /\ \A c \in Callers : Answered(c)


-----------------------------------------------------------------------------

\* The invariant holds initially.
LEMMA InitInv == Init => IInv
<1> SUFFICES ASSUME Init PROVE IInv
  OBVIOUS
<1> USE RuntimeAssumption DEF Init, RuntimeAssumption
<1>1. TypeOK
  <2>1. IsDirectory(Empty)
    BY DEF IsDirectory, Empty
  <2>2. \A g \in Configs : IsDirectory(index[g])
    BY <2>1
  <2>3. /\ newest \in 0 .. MaxConfigs /\ current \in 0 .. MaxConfigs
        /\ candidate \in 0 .. MaxConfigs /\ config \in [Callers -> 0 .. MaxConfigs]
    OBVIOUS
  <2>4. /\ postgres \in [Configs -> BOOLEAN] /\ rows \in [Configs -> Databases \union {<<>>}]
        /\ load \in [Configs -> {"idle", "connect", "query", "scan", "done"}]
        /\ position \in [Configs -> Nat] /\ connections \in [Configs -> Nat]
    OBVIOUS
  <2> QED
    BY <2>2, <2>3, <2>4 DEF TypeOK
<1>2. Shapes
  BY DEF Shapes
<1>3. Known
  BY DEF Known, Configs, Callers
<1>4. ASSUME NEW g \in Configs PROVE Loading(g) /\ Outcome(g)
  BY ScannedNone DEF Loading, Outcome
<1>5. ASSUME NEW c \in Callers PROVE Answered(c)
  BY DEF Answered
<1> QED
  BY <1>1, <1>2, <1>3, <1>4, <1>5 DEF IInv

\* A configuration whose load stands still keeps its part of the invariant.
LEMMA LoadStandsStill ==
    ASSUME NEW g \in Configs, Loading(g), Outcome(g), postgres'[g] = postgres[g],
           load'[g] = load[g], rows'[g] = rows[g], position'[g] = position[g],
           index'[g] = index[g], result'[g] = result[g], connections'[g] = connections[g]
    PROVE  Loading(g)' /\ Outcome(g)'
  BY DEF Loading, Outcome

\* The steps of the environment and of the callers leave every load alone, and
\* of the configurations only a new one gets another connection string.
LEMMA LoadsStandStill ==
    ASSUME IInv, UNCHANGED loader, \A g \in Configs : postgres'[g] = postgres[g] \/ load[g] = "idle"
    PROVE  \A g \in Configs : Loading(g)' /\ Outcome(g)'
<1> SUFFICES ASSUME NEW g \in Configs PROVE Loading(g)' /\ Outcome(g)'
  OBVIOUS
<1>1. Loading(g) /\ Outcome(g) /\ load[g] \in {"idle", "connect", "query", "scan", "done"}
  BY DEF IInv, TypeOK
<1>2. CASE postgres'[g] = postgres[g]
  BY <1>1, <1>2, LoadStandsStill DEF loader
<1>3. CASE load[g] = "idle"
  BY <1>1, <1>3, RuntimeAssumption DEF loader, Loading, Outcome, RuntimeAssumption
<1> QED
  BY <1>2, <1>3

\* Neither does an answer change while its result is there.
LEMMA AnswersStand ==
    ASSUME IInv, UNCHANGED caller,
           \A g \in Configs : result[g] # Unset => result'[g] = result[g]
    PROVE  \A c \in Callers : Answered(c)'
  BY DEF IInv, Answered, Loading, caller, TypeOK, Configs

LEMMA StepInv == IInv /\ [Next]_vars => IInv'
<1> SUFFICES ASSUME IInv, [Next]_vars PROVE IInv'
  OBVIOUS
<1> USE RuntimeAssumption DEF RuntimeAssumption
<1>0. TypeOK /\ Shapes /\ Known
  BY DEF IInv
<1>1. CASE ChangeDatabase
  <2> USE <1>1 DEF ChangeDatabase, server, loader, caller
  <2>1. TypeOK' /\ Shapes' /\ Known'
    BY <1>0 DEF TypeOK, Shapes, Known
  <2> QED
    BY <2>1, LoadsStandStill, AnswersStand DEF IInv
<1>2. CASE Reload
  <2> USE <1>2 DEF Reload, loader, caller
  <2>1. newest' = newest + 1 /\ newest' \in Configs /\ candidate' = newest'
    BY <1>0 DEF TypeOK, Configs
  <2>2. TypeOK'
    <3>1. PICK p \in BOOLEAN : postgres' = [postgres EXCEPT ![newest'] = p]
      OBVIOUS
    <3>2. postgres' \in [Configs -> BOOLEAN]
      BY <1>0, <2>1, <3>1 DEF TypeOK
    <3>3. newest' \in 0 .. MaxConfigs /\ candidate' \in 0 .. MaxConfigs
      BY <2>1 DEF Configs
    <3> QED
      BY <1>0, <3>2, <3>3 DEF TypeOK
  <2>3. Shapes' /\ Known'
    BY <1>0, <2>1 DEF TypeOK, Shapes, Known, Configs
  <2>4. \A g \in Configs : postgres'[g] = postgres[g] \/ load[g] = "idle"
    BY <1>0, <2>1 DEF TypeOK, Known, Configs
  <2> QED
    BY <2>2, <2>3, <2>4, LoadsStandStill, AnswersStand DEF IInv
<1>3. CASE Listen
  <2> USE <1>3 DEF Listen, loader, caller
  <2>1. TypeOK' /\ Shapes' /\ Known'
    BY <1>0 DEF TypeOK, Shapes, Known
  <2> QED
    BY <2>1, LoadsStandStill, AnswersStand DEF IInv
<1>4. CASE Concluded
  <2> USE <1>4 DEF Concluded, loader, caller
  <2>1. Shapes' /\ Known'
    BY <1>0 DEF TypeOK, Shapes, Known
  <2>2. TypeOK'
    <3>1. current' \in 0 .. MaxConfigs /\ candidate' \in 0 .. MaxConfigs
      BY <1>0 DEF TypeOK
    <3> QED
      BY <1>0, <3>1 DEF TypeOK
  <2> QED
    BY <2>1, <2>2, LoadsStandStill, AnswersStand DEF IInv
<1>5. CASE Start
  <2> USE <1>5 DEF Start, server, loader
  <2>1. candidate \in Configs /\ Starter(candidate) \in Callers
    BY <1>0 DEF TypeOK, Configs, Callers
  <2>2. TypeOK' /\ Shapes'
    BY <1>0, <2>1 DEF TypeOK, Shapes
  <2>3. Known'
    BY <1>0, <2>1 DEF TypeOK, Known, Starter
  <2>4. ASSUME NEW c \in Callers PROVE Answered(c)'
    BY <1>0, <2>1 DEF TypeOK, IInv, Answered
  <2> QED
    BY <2>2, <2>3, <2>4, LoadsStandStill DEF IInv
<1>6. ASSUME NEW r \in Requests, Ask(r) PROVE IInv'
  <2> USE <1>6 DEF Ask, server, loader
  <2>1. PICK g \in {current} \union (IF listening THEN {candidate} ELSE {}) :
          g # 0 /\ config' = [config EXCEPT ![r] = g]
    OBVIOUS
  <2>2. g \in Configs /\ g <= newest /\ r \in Callers
    BY <1>0, <2>1 DEF TypeOK, Known, Configs, Callers
  <2>3. TypeOK' /\ Shapes'
    BY <1>0, <2>1, <2>2 DEF TypeOK, Shapes, Configs
  <2>4. Known'
    BY <1>0, <2>1, <2>2 DEF TypeOK, Known
  <2>5. ASSUME NEW c \in Callers PROVE Answered(c)'
    BY <1>0, <2>1, <2>2 DEF TypeOK, IInv, Answered
  <2> QED
    BY <2>3, <2>4, <2>5, LoadsStandStill DEF IInv
<1>7. ASSUME NEW c \in Callers, Return(c) PROVE IInv'
  <2> USE <1>7 DEF Return, Waiting, server, loader
  <2>1. config[c] \in Configs /\ result[config[c]] # Unset
    BY <1>0 DEF TypeOK, Configs
  <2>2. TypeOK' /\ Shapes' /\ Known'
    BY <1>0, <2>1 DEF TypeOK, Shapes, Known
  <2>3. ASSUME NEW d \in Callers PROVE Answered(d)'
    BY <1>0, <2>1 DEF TypeOK, Shapes, IInv, Answered
  <2> QED
    BY <2>2, <2>3, LoadsStandStill DEF IInv
<1>8. ASSUME NEW g \in Configs, Load(g) PROVE IInv'
  <2>0. Loading(g) /\ Outcome(g) /\ UNCHANGED <<server, caller>> /\ db' = db
    BY <1>8 DEF IInv, Load, Begin, Connect, Query, ScanRow, Loaded, LoadFails
  <2>1. ASSUME NEW h \in Configs, h # g PROVE Loading(h)' /\ Outcome(h)'
    <3>1. Loading(h) /\ Outcome(h)
      BY DEF IInv
    <3>2. UNCHANGED <<load[h], rows[h], position[h], index[h], result[h], connections[h], postgres[h]>>
      BY <1>8, <1>0, <2>1 DEF Load, Begin, Connect, Query, ScanRow, Loaded, LoadFails, Settle,
                              TypeOK, Shapes, server
    <3> QED
      BY <3>1, <3>2, LoadStandsStill
  <2>2. CASE Begin(g)
    <3> USE <2>2 DEF Begin, Settle
    <3>1. g <= newest
      BY <1>0 DEF Known, Waiting
    <3>2. TypeOK' /\ Shapes'
      BY <1>0 DEF TypeOK, Shapes, server, caller
    <3>3. Known'
      BY <1>0, <3>1 DEF TypeOK, Known, server, caller
    <3>4. Loading(g)' /\ Outcome(g)'
      BY <1>0, <2>0 DEF TypeOK, Shapes, Loading, Outcome, server
    <3> QED
      BY <1>0, <2>0, <2>1, <3>2, <3>3, <3>4, AnswersStand DEF IInv, Shapes, Loading
  <2>3. CASE Connect(g)
    <3> USE <2>3 DEF Connect
    <3>1. TypeOK' /\ Shapes' /\ Known'
      BY <1>0 DEF TypeOK, Shapes, Known, server, caller
    <3>2. Loading(g)' /\ Outcome(g)'
      BY <1>0, <2>0 DEF TypeOK, Loading, Outcome, server
    <3> QED
      BY <1>0, <2>0, <2>1, <3>1, <3>2, AnswersStand DEF IInv
  <2>4. CASE Query(g)
    <3> USE <2>4 DEF Query
    <3>1. TypeOK' /\ Shapes' /\ Known'
      BY <1>0 DEF TypeOK, Shapes, Known, server, caller
    <3>2. Loading(g)' /\ Outcome(g)'
      BY <1>0, <2>0, ScannedNone DEF TypeOK, Loading, Outcome, server
    <3> QED
      BY <1>0, <2>0, <2>1, <3>1, <3>2, AnswersStand DEF IInv
  <2>5. CASE ScanRow(g)
    <3> USE <2>5 DEF ScanRow
    <3>1. /\ position'[g] = position[g] + 1 /\ position[g] \in Nat
          /\ HaveFirsts(rows[g], position[g] + 1)
          /\ index'[g] = DescribedUpTo(rows[g], position[g] + 1)
      BY <1>0, <2>0, ScannedOneMore DEF TypeOK, Shapes, Loading
    <3>2. TypeOK' /\ Shapes' /\ Known'
      <4>1. \A h \in Configs : IsDirectory(index'[h])
        BY <1>0, <3>1, ScannedIsDirectory DEF TypeOK, Shapes
      <4>2. position' \in [Configs -> Nat]
        BY <1>0 DEF TypeOK
      <4>3. TypeOK'
        BY <1>0, <4>1, <4>2 DEF TypeOK, server, caller
      <4>4. \E d : index' = [index EXCEPT ![g] = d]
        OBVIOUS
      <4>6. DOMAIN index = Configs
        BY <1>0 DEF Shapes
      <4>7. index' = [h \in Configs |-> index'[h]]
        BY <4>4, <4>6
      <4>8. Shapes'
        BY <1>0, <4>7 DEF Shapes, caller
      <4>5. Known'
        BY <1>0 DEF Known, server, caller
      <4> QED
        BY <4>3, <4>5, <4>8
    <3>3. Loading(g)' /\ Outcome(g)'
      BY <1>0, <2>0, <3>1 DEF TypeOK, Loading, Outcome, server
    <3> QED
      BY <1>0, <2>0, <2>1, <3>2, <3>3, AnswersStand DEF IInv
  <2>6. CASE Loaded(g)
    <3> USE <2>6 DEF Loaded, Settle
    <3>1. rows[g] \in Databases /\ index[g] = Described(rows[g])
      BY <2>0, ScannedAll DEF Loading
    <3>2. index[g] \notin {Unset, Failed, NoDirectory}
      BY <3>1
    <3>3. TypeOK' /\ Shapes' /\ Known'
      BY <1>0 DEF TypeOK, Shapes, Known, server, caller
    <3>4. Loading(g)' /\ Outcome(g)'
      BY <1>0, <2>0, <3>1, <3>2 DEF TypeOK, Shapes, Loading, Outcome, server
    <3> QED
      BY <1>0, <2>0, <2>1, <3>3, <3>4, AnswersStand DEF IInv, Shapes, Loading
  <2>7. CASE LoadFails(g)
    <3> USE <2>7 DEF LoadFails, Settle
    <3>1. TypeOK' /\ Shapes' /\ Known'
      BY <1>0 DEF TypeOK, Shapes, Known, server, caller
    <3>2. Loading(g)' /\ Outcome(g)'
      BY <1>0, <2>0 DEF TypeOK, Shapes, Loading, Outcome, server
    <3> QED
      BY <1>0, <2>0, <2>1, <3>1, <3>2, AnswersStand DEF IInv, Shapes, Loading
  <2> QED
    BY <1>8, <2>2, <2>3, <2>4, <2>5, <2>6, <2>7 DEF Load
<1>9. CASE UNCHANGED vars
  <2> USE <1>9 DEF vars, server, loader, caller
  <2>1. TypeOK' /\ Shapes' /\ Known'
    BY <1>0 DEF TypeOK, Shapes, Known
  <2> QED
    BY <2>1, LoadsStandStill, AnswersStand DEF IInv
<1> QED
  BY <1>1, <1>2, <1>3, <1>4, <1>5, <1>6, <1>7, <1>8, <1>9 DEF Next

THEOREM Invariance == Spec => []IInv
  BY InitInv, StepInv, PTL DEF Spec

-----------------------------------------------------------------------------

\* The state of the configurations, their loads and their callers stays within
\* its types.
THEOREM TypeCorrect == Spec => []TypeOK
<1>1. IInv => TypeOK
  BY DEF IInv
<1> QED
  BY <1>1, Invariance, PTL

\* A directory that is published is the whole of what the query returned
\* (app.go: "It returns no partial state after a failure").
THEOREM Whole == Spec => []WholeDirectory
<1>1. IInv => WholeDirectory
  BY DEF IInv, Outcome, WholeDirectory
<1> QED
  BY <1>1, Invariance, PTL

\* Start and all requests together send a configuration to the database at most
\* once (app.go, sync.OnceValues), and never without a connection string.
THEOREM LoadsOnce == Spec => []OneLoad
<1>1. IInv => OneLoad
  BY DEF IInv, TypeOK, Loading, OneLoad
<1> QED
  BY <1>1, Invariance, PTL

\* Whoever asks a configuration for its runtime is told the same.
THEOREM ToldTheSame == Spec => []SameAnswer
<1>1. IInv => SameAnswer
  BY DEF IInv, Answered, SameAnswer
<1> QED
  BY <1>1, Invariance, PTL

\* A configuration takes over only with its directory loaded (app.go, Start).
THEOREM TakesOver == Spec => TakesOverLoaded
<1> DEFINE Step == current' # current =>
                     /\ current' = candidate
                     /\ result[candidate] \notin {Unset, Failed}
                     /\ postgres[candidate] => result[candidate] # NoDirectory
<1>1. IInv /\ [Next]_vars => [Step]_vars
  <2> SUFFICES ASSUME IInv, [Next]_vars, current' # current PROVE Step
    OBVIOUS
  <2>1. Concluded
    BY DEF Next, ChangeDatabase, Reload, Listen, Start, Ask, Return, Load, Begin, Connect, Query,
           ScanRow, Loaded, LoadFails, vars, server
  <2>2. candidate \in Configs /\ Starter(candidate) \in Callers
    BY <2>1 DEF Concluded, IInv, TypeOK, Configs, Callers
  <2>3. config[Starter(candidate)] = candidate
    BY <2>1, <2>2 DEF Concluded, IInv, Known, Answered
  <2>4. answer[Starter(candidate)] = result[candidate] /\ Outcome(candidate)
    BY <2>1, <2>2, <2>3 DEF Concluded, IInv, Answered
  <2> QED
    BY <2>1, <2>2, <2>4, RuntimeAssumption DEF Concluded, Outcome, RuntimeAssumption
<1> QED
  BY <1>1, Invariance, PTL DEF Spec, TakesOverLoaded

-----------------------------------------------------------------------------
(* Refinement *)

\* What the readers of g have been told.
Told(g) == [c \in Callers |-> IF config[c] = g THEN answer[c] ELSE Unset]

\* A step that leaves the result of g and the answers alone is none of Once(g).
LEMMA OnceStutters ==
    ASSUME IInv, NEW g \in Configs, result'[g] = result[g], UNCHANGED answer,
           \A c \in Callers : config'[c] = config[c] \/ config[c] = 0
    PROVE  Once(g)!vars' = Once(g)!vars
<1>1. ASSUME NEW c \in Callers
      PROVE  (IF config'[c] = g THEN answer'[c] ELSE Unset) = (IF config[c] = g THEN answer[c] ELSE Unset)
  BY <1>1 DEF IInv, Answered, Configs
<1>2. Told(g)' = Told(g)
  BY <1>1 DEF Told
<1> QED
  BY <1>2 DEF Once!vars, Told

\* The once function of a configuration and its callers implement the single
\* assignment: the end of the load assigns the result, OnceValues answers with it.
THEOREM Implements == Spec => ImplementsSingleAssignment
<1>1. Init => \A g \in Configs : Once(g)!Init
  BY DEF Init, Once!Init
<1>2. IInv /\ [Next]_vars => \A g \in Configs : [Once(g)!Next]_(Once(g)!vars)
  <2> SUFFICES ASSUME IInv, [Next]_vars, NEW g \in Configs
               PROVE  [Once(g)!Next]_(Once(g)!vars)
    OBVIOUS
  <2>1. CASE ChangeDatabase \/ Reload \/ Listen \/ Concluded \/ Start \/ UNCHANGED vars
    <3>1. result' = result /\ UNCHANGED answer
      BY <2>1 DEF ChangeDatabase, Reload, Listen, Concluded, Start, vars, loader, caller
    <3>2. \A c \in Callers : config'[c] = config[c] \/ config[c] = 0
      BY <2>1 DEF ChangeDatabase, Reload, Listen, Concluded, Start, vars, caller, IInv, TypeOK
    <3> QED
      BY <3>1, <3>2, OnceStutters
  <2>2. ASSUME NEW r \in Requests, Ask(r) PROVE [Once(g)!Next]_(Once(g)!vars)
    <3>1. \A c \in Callers : config'[c] = config[c] \/ config[c] = 0
      BY <2>2 DEF Ask, IInv, TypeOK
    <3> QED
      BY <2>2, <3>1, OnceStutters DEF Ask, loader
  <2>3. ASSUME NEW c \in Callers, Return(c) PROVE [Once(g)!Next]_(Once(g)!vars)
    <3>1. /\ answer' = [answer EXCEPT ![c] = result[config[c]]] /\ answer[c] = Unset
          /\ result[config[c]] # Unset /\ result' = result /\ config' = config
      BY <2>3 DEF Return, Waiting, loader
    <3>2. CASE config[c] = g
      <4>1. Told(g)' = [Told(g) EXCEPT ![c] = result[g]] /\ Told(g)[c] = Unset
        BY <3>1, <3>2 DEF Told, IInv, Shapes
      <4>2. Once(g)!Answer(c)
        BY <3>1, <3>2, <4>1 DEF Once!Answer, Told
      <4> QED
        BY <4>2 DEF Once!Next
    <3>3. CASE config[c] # g
      <4>1. Told(g)' = Told(g)
        BY <3>1, <3>3 DEF Told, IInv, Shapes
      <4> QED
        BY <3>1, <4>1 DEF Once!vars, Told
    <3> QED
      BY <3>2, <3>3
  <2>4. ASSUME NEW h \in Configs, Load(h) PROVE [Once(g)!Next]_(Once(g)!vars)
    <3>1. UNCHANGED <<config, answer>>
      BY <2>4 DEF Load, Begin, Connect, Query, ScanRow, Loaded, LoadFails, caller
    <3>2. CASE result'[g] = result[g]
      BY <3>1, <3>2, OnceStutters
    <3>3. CASE result'[g] # result[g]
      <4>1. h = g /\ result[g] = Unset
        BY <2>4, <3>3 DEF Load, Begin, Connect, Query, ScanRow, Loaded, LoadFails, Settle,
                          IInv, Shapes, Loading
      <4>2. result'[g] \in {Failed, NoDirectory} \union {Described(rs) : rs \in Databases}
        <5>1. Outcome(g)' /\ Loading(g)'
          BY StepInv DEF IInv
        <5> QED
          BY <3>3, <4>1, <5>1 DEF Outcome
      <4>3. Told(g)' = Told(g)
        BY <3>1 DEF Told
      <4>4. Once(g)!Assign
        BY <4>1, <4>2, <4>3 DEF Once!Assign, Told
      <4> QED
        BY <4>4 DEF Once!Next
    <3> QED
      BY <3>2, <3>3
  <2> QED
    BY <2>1, <2>2, <2>3, <2>4 DEF Next
<1> QED
  BY <1>1, <1>2, Invariance, PTL DEF Spec, ImplementsSingleAssignment

=============================================================================
