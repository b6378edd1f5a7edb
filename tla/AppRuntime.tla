----------------------------- MODULE AppRuntime -----------------------------
(***************************************************************************)
(* The role directory of the oidc app: App.runtime, a sync.OnceValues      *)
(* around initializeRuntime, the load from PostgreSQL (directory.Load),    *)
(* and Caddy's reloads around them.                                        *)
(*                                                                         *)
(* Every reload makes a configuration with an App of its own.  The app is  *)
(* asked for its runtime by Start and by the role matchers of requests,    *)
(* which can come first: Caddy starts the apps of a configuration in no    *)
(* particular order, so its listeners may be open before the oidc app has  *)
(* started.  Whoever is first runs the load; the others wait for it, with  *)
(* no regard for their contexts; its result or error is everyone's, for    *)
(* good.                                                                   *)
(*                                                                         *)
(* External: Caddy (Reload, Listen, Concluded) and PostgreSQL, whose       *)
(* single query sees one state of the tables, and which may fail at any    *)
(* step and be changed by its owner at any time.                           *)
(***************************************************************************)

EXTENDS Naturals, Sequences, FiniteSetsExt, Directory

CONSTANTS
    Requests,      \* requests that come to a role matcher, once each
    MaxConfigs,    \* the number of configurations of a run
    Databases,     \* the states of the joined tables: sequences of rows
    Unset,         \* not loaded, not answered
    Failed,        \* the cached error
    NoDirectory    \* a runtime without a directory: no postgres directive

Configs == 1 .. MaxConfigs

\* The callers of runtime(): Start of each configuration, and the requests.
Starter(g) == <<"start", g>>
Callers == {Starter(g) : g \in Configs} \union Requests

\* The directory that a sequence of rows describes, without a loop: the users
\* are the normalised addresses, each with all of its roles.
Described(rs) ==
    LET Of(k) == {i \in 1 .. Len(rs) : NormalizeEmail(rs[i].email) = k}
    IN  [k \in {NormalizeEmail(rs[i].email) : i \in 1 .. Len(rs)} |->
           [name |-> rs[Min(Of(k))].name,
            roles |-> {rs[i].role : i \in Of(k)}]]

\* The outcomes are told apart, and so are Start and the requests.
ASSUME RuntimeAssumption ==
    /\ MaxConfigs \in Nat
    /\ \A g \in Configs : Starter(g) \notin Requests
    /\ Unset # Failed /\ Unset # NoDirectory /\ Failed # NoDirectory
    /\ \A rs \in Databases :
         Len(rs) \in Nat /\ Described(rs) \notin {Unset, Failed, NoDirectory}

VARIABLES
    db,            \* what the tables hold now
    postgres,      \* postgres[g]: configuration g has a connection string
    newest,        \* the configurations made so far
    current,       \* the configuration that serves, 0 before there is one
    candidate,     \* the configuration being loaded, 0 if none
    listening,     \* the candidate's listeners are open
    load,          \* load[g]: where the once function of g is
    rows,          \* rows[g]: the rows of its query
    position,      \* position[g]: how many it has scanned
    index,         \* index[g]: the directory under construction
    result,        \* result[g]: what the once function returned
    connections,   \* connections[g]: how often g went to the database
    config,        \* config[c]: the configuration caller c belongs to, or 0
    answer         \* answer[c]: what runtime() returned to it

server == <<newest, current, candidate, listening, postgres>>
loader == <<load, rows, position, index, result, connections>>
caller == <<config, answer>>
vars == <<db, server, loader, caller>>

\* Directories that the rows of a database can make up, in part or in full.
IsDirectory(d) == \A k \in DOMAIN d : DOMAIN d[k] = {"name", "roles"}

TypeOK ==
    /\ db \in Databases
    /\ postgres \in [Configs -> BOOLEAN]
    /\ newest \in 0 .. MaxConfigs
    /\ current \in 0 .. MaxConfigs
    /\ candidate \in 0 .. MaxConfigs
    /\ listening \in BOOLEAN
    /\ load \in [Configs -> {"idle", "connect", "query", "scan", "done"}]
    /\ rows \in [Configs -> Databases \union {<<>>}]
    /\ position \in [Configs -> Nat]
    /\ connections \in [Configs -> Nat]
    /\ \A g \in Configs : IsDirectory(index[g])
    /\ \A g \in Configs :
         result[g] \in {Unset, Failed, NoDirectory} \/ IsDirectory(result[g])
    /\ config \in [Callers -> 0 .. MaxConfigs]
    /\ \A c \in Callers :
         answer[c] \in {Unset, Failed, NoDirectory} \/ IsDirectory(answer[c])

Init ==
    /\ db \in Databases
    /\ postgres = [g \in Configs |-> FALSE]
    /\ newest = 0
    /\ current = 0
    /\ candidate = 0
    /\ listening = FALSE
    /\ load = [g \in Configs |-> "idle"]
    /\ rows = [g \in Configs |-> <<>>]
    /\ position = [g \in Configs |-> 0]
    /\ index = [g \in Configs |-> Empty]
    /\ result = [g \in Configs |-> Unset]
    /\ connections = [g \in Configs |-> 0]
    /\ config = [c \in Callers |-> 0]
    /\ answer = [c \in Callers |-> Unset]

\* A caller of runtime() that has no answer yet.
Waiting(c) == config[c] # 0 /\ answer[c] = Unset

-----------------------------------------------------------------------------
(* The environment *)

\* Someone else changes the users and roles.
ChangeDatabase ==
    /\ db' \in Databases \ {db}
    /\ UNCHANGED <<server, loader, caller>>

\* A configuration, with or without the postgres directive, is provisioned.
Reload ==
    /\ candidate = 0 /\ newest < MaxConfigs
    /\ newest' = newest + 1
    /\ candidate' = newest'
    /\ \E p \in BOOLEAN : postgres' = [postgres EXCEPT ![newest'] = p]
    /\ listening' = FALSE
    /\ UNCHANGED <<db, current, loader, caller>>

\* The http app of the candidate starts before its oidc app has.
Listen ==
    /\ candidate # 0 /\ ~listening
    /\ listening' = TRUE
    /\ UNCHANGED <<db, newest, current, candidate, postgres, loader, caller>>

\* Mutant of Concluded: Start does not return the error of runtime.
ConcludedAnyway ==
    /\ candidate # 0
    /\ answer[Starter(candidate)] # Unset
    /\ current' = candidate
    /\ candidate' = 0
    /\ listening' = FALSE
    /\ UNCHANGED <<db, newest, postgres, loader, caller>>

\* Start returns: the candidate takes over, or is dropped.
Concluded ==
    /\ candidate # 0
    /\ answer[Starter(candidate)] # Unset
    /\ current' = IF answer[Starter(candidate)] = Failed THEN current ELSE candidate
    /\ candidate' = 0
    /\ listening' = FALSE
    /\ UNCHANGED <<db, newest, postgres, loader, caller>>

-----------------------------------------------------------------------------
(* The callers of runtime() *)

Start ==
    /\ candidate # 0
    /\ config[Starter(candidate)] = 0
    /\ config' = [config EXCEPT ![Starter(candidate)] = candidate]
    /\ UNCHANGED <<db, server, loader, answer>>

\* A request reaches a role matcher of the configuration that serves it.
Ask(r) ==
    /\ config[r] = 0
    /\ \E g \in {current} \union (IF listening THEN {candidate} ELSE {}) :
         /\ g # 0
         /\ config' = [config EXCEPT ![r] = g]
    /\ UNCHANGED <<db, server, loader, answer>>

\* OnceValues returns what the one call returned.
Return(c) ==
    /\ Waiting(c)
    /\ result[config[c]] # Unset
    /\ answer' = [answer EXCEPT ![c] = result[config[c]]]
    /\ UNCHANGED <<db, server, loader, config>>

-----------------------------------------------------------------------------
(* The once function: initializeRuntime, loadDirectory and Load *)

\* It returns.
Settle(g, outcome) ==
    /\ load' = [load EXCEPT ![g] = "done"]
    /\ result' = [result EXCEPT ![g] = outcome]

\* Mutant of Begin: every caller without an answer starts a load of its own.
BeginAgain(g) ==
    /\ load[g] \in {"idle", "done"}
    /\ \E c \in Callers : Waiting(c) /\ config[c] = g
    /\ postgres[g]
    /\ load' = [load EXCEPT ![g] = "connect"]
    /\ UNCHANGED <<db, server, rows, position, index, result, connections, caller>>

\* The first caller runs it; without postgres there is nothing to load.
Begin(g) ==
    /\ load[g] = "idle"
    /\ \E c \in Callers : Waiting(c) /\ config[c] = g
    /\ \/ postgres[g] /\ load' = [load EXCEPT ![g] = "connect"] /\ UNCHANGED result
       \/ ~postgres[g] /\ Settle(g, NoDirectory)
    /\ UNCHANGED <<db, server, rows, position, index, connections, caller>>

Connect(g) ==
    /\ load[g] = "connect"
    /\ load' = [load EXCEPT ![g] = "query"]
    /\ connections' = [connections EXCEPT ![g] = @ + 1]
    /\ UNCHANGED <<db, server, rows, position, index, result, caller>>

\* One statement: its rows are those of one moment.
Query(g) ==
    /\ load[g] = "query"
    /\ load' = [load EXCEPT ![g] = "scan"]
    /\ rows' = [rows EXCEPT ![g] = db]
    /\ UNCHANGED <<db, server, position, index, result, connections, caller>>

\* One turn of the loop: Next, Scan, and the row goes into the index.
ScanRow(g) ==
    /\ load[g] = "scan" /\ position[g] < Len(rows[g])
    /\ position' = [position EXCEPT ![g] = @ + 1]
    /\ index' = [index EXCEPT ![g] = AddRow(@, rows[g][position'[g]])]
    /\ UNCHANGED <<db, server, load, rows, result, connections, caller>>

\* Mutant of Loaded: rows.Err is not looked at when Next says there is no more.
LoadedUnchecked(g) ==
    /\ load[g] = "scan"
    /\ Settle(g, index[g])
    /\ UNCHANGED <<db, server, rows, position, index, connections, caller>>

\* The rows end without an error.
Loaded(g) ==
    /\ load[g] = "scan" /\ position[g] = Len(rows[g])
    /\ Settle(g, index[g])
    /\ UNCHANGED <<db, server, rows, position, index, connections, caller>>

\* Mutant of LoadFails: the half-built directory is published with the error.
LoadFailsPublishing(g) ==
    /\ load[g] \in {"connect", "query", "scan"}
    /\ Settle(g, index[g])
    /\ UNCHANGED <<db, server, rows, position, index, connections, caller>>

\* Mutant of LoadFails: the error is not cached, the next caller tries again.
LoadFailsForgetting(g) ==
    /\ load[g] \in {"connect", "query", "scan"}
    /\ load' = [load EXCEPT ![g] = "idle"]
    /\ position' = [position EXCEPT ![g] = 0]
    /\ index' = [index EXCEPT ![g] = Empty]
    /\ \E c \in Callers :
         /\ Waiting(c) /\ config[c] = g
         /\ answer' = [answer EXCEPT ![c] = Failed]
    /\ UNCHANGED <<db, server, rows, result, connections, config>>

\* Mutant of LoadFails: the function ends without telling those who wait for it.
LoadFailsSilently(g) ==
    /\ load[g] \in {"connect", "query", "scan"}
    /\ load' = [load EXCEPT ![g] = "done"]
    /\ UNCHANGED <<db, server, rows, position, index, result, connections, caller>>

\* The connection, the query, a scan or the rows report an error; all four do
\* once directoryLoadTimeout has passed.  The directory so far is dropped.
LoadFails(g) ==
    /\ load[g] \in {"connect", "query", "scan"}
    /\ Settle(g, Failed)
    /\ UNCHANGED <<db, server, rows, position, index, connections, caller>>

Load(g) ==
    Begin(g) \/ Connect(g) \/ Query(g) \/ ScanRow(g) \/ Loaded(g) \/ LoadFails(g)

-----------------------------------------------------------------------------

Next ==
    \/ ChangeDatabase \/ Reload \/ Listen \/ Concluded \/ Start
    \/ \E r \in Requests : Ask(r)
    \/ \E c \in Callers : Return(c)
    \/ \E g \in Configs : Load(g)

Spec == Init /\ [][Next]_vars

\* Caddy goes through with a reload, goroutines are scheduled, and the timeout
\* ends every load.  Nobody has to reload, or to send a request.
FairSpec ==
    /\ Spec
    /\ WF_vars(Start) /\ WF_vars(Concluded)
    /\ \A c \in Callers : WF_vars(Return(c))
    /\ \A g \in Configs : WF_vars(Load(g))

-----------------------------------------------------------------------------
(* Safety *)

\* A published directory is the whole of what the database held at one moment,
\* never what a load had collected when it was cut short (app.go: "It returns
\* no partial state after a failure").
WholeDirectory ==
    \A g \in Configs :
        result[g] \notin {Unset, Failed, NoDirectory} => result[g] = Described(rows[g])

\* However many callers race for it, a configuration goes to the database at
\* most once, and not at all without the postgres directive.
OneLoad ==
    \A g \in Configs : connections[g] <= (IF postgres[g] THEN 1 ELSE 0)

\* Start and every request of a configuration are told the same.
SameAnswer ==
    \A c, d \in Callers :
        (config[c] = config[d] /\ answer[c] # Unset /\ answer[d] # Unset)
          => answer[c] = answer[d]

-----------------------------------------------------------------------------
(* Action properties *)

\* A configuration takes over only with its directory loaded, and a failed
\* reload leaves the old one serving.
TakesOverLoaded ==
    [][/\ current' # current =>
            /\ current' = candidate
            /\ result[candidate] \notin {Unset, Failed}
            /\ postgres[candidate] => result[candidate] # NoDirectory]_vars

-----------------------------------------------------------------------------
(* Refinement *)

\* The runtime of configuration g, for the callers that belong to it.
Once(g) == INSTANCE SingleAssignment WITH
    Readers <- Callers,
    Outcomes <- {Failed, NoDirectory} \union {Described(rs) : rs \in Databases},
    GaveUp <- Unset,
    cell <- result[g],
    answer <- [c \in Callers |-> IF config[c] = g THEN answer[c] ELSE Unset]

\* Each configuration's OnceValues is a single assignment whose readers never
\* give up; its outcomes are whole directories.
ImplementsSingleAssignment ==
    /\ \A g \in Configs : Once(g)!Init
    /\ [][\A g \in Configs : [Once(g)!Next]_(Once(g)!vars)]_vars

-----------------------------------------------------------------------------
(* Liveness *)

\* Every reload comes to an end, the candidate serving or dropped.
ReloadEnds == (candidate # 0) ~> (candidate = 0)

\* Nobody waits for ever: every caller is answered, as the load cannot hang, not
\* even a request that is the one running it; and so every reload ends.
CallersReturn ==
    /\ \A c \in Callers : Waiting(c) ~> ~Waiting(c)
    /\ ReloadEnds

=============================================================================
