----------------------------- MODULE Inheritance -----------------------------
(***************************************************************************)
(* How a handler comes by its provider configuration: the global oidc      *)
(* blocks and the handlers' own (parseGlobalConfig of app.go and           *)
(* UnmarshalCaddyfile of middleware.go), GetInheritedProvider,             *)
(* baseline.Apply, and the provisioning of the handler, its provider       *)
(* module and its authenticator set.                                       *)
(*                                                                         *)
(* A provider module is a struct whose fields are values, or references    *)
(* (pointers, slices, maps) to objects that provisioning changes: loading  *)
(* the authenticators empties the raw list and appends to the loaded one.  *)
(* The default and the named modules are baselines of many handlers, so    *)
(* whether an object is cloned or shared on its way decides whether one    *)
(* handler can change another.  The model keeps the heap: an address is    *)
(* the struct and the field an object was made for.                        *)
(*                                                                         *)
(* Caddy parses the global blocks one after the other, handing each what   *)
(* came of those before it, then the handlers; it provisions the handlers  *)
(* one at a time, in an order of its own, and drops the whole              *)
(* configuration at the first error.                                       *)
(***************************************************************************)

EXTENDS Caddyfile

CONSTANTS
    Handlers,        \* the oidc handlers of a configuration
    Names,           \* names of providers
    Default,         \* the default provider; to inherit from it, give no name
    Files,           \* the global blocks: sequences of a name and lines
    Directives,      \* Directives[h]: what may be in the block of handler h
    DefaultScope, DefaultUsername

Globals == {Default} \union Names

\* The struct GetInheritedProvider makes for handler h.
Copy(h) == <<h, "copy">>

Owners == Globals \union Handlers \union {Copy(h) : h \in Handlers}

Addresses == Owners \X References

GlobalBlocks == [name : Globals, lines : Seq(Lines)]

\* A name is that of one struct, and the zero value is no address and no default.
ASSUME InheritanceAssumption ==
    /\ Default \notin Names /\ Handlers \cap Globals = {}
    /\ \A h \in Handlers : Copy(h) \notin Globals \union Handlers
    /\ Unset \notin Addresses
    /\ Unset # DefaultScope
    /\ Files \subseteq Seq(GlobalBlocks)
    /\ \A h \in Handlers : Directives[h] \subseteq Seq(Lines)

VARIABLES
    file,      \* the global blocks
    directive, \* directive[h]: the lines of handler h
    inherits,  \* inherits[h]: the module handler h names
    next,      \* the global block the parser is at
    postgres,  \* the connection string of the app
    module,    \* module[o]: the fields of struct o, an address for a reference
    heap,      \* heap[a]: the object at address a
    pc,        \* pc[h]: how far handler h is
    provider   \* provider[h]: what Create made of it

given == <<file, directive, inherits>>
app   == <<next, postgres>>
vars  == <<given, app, module, heap, pc, provider>>

PCs == {"file", "parsed", "inherited", "provisioned", "created", "done", "failed"}

\* A reference leads to an object, and a provider is made of a handler that came so far.
TypeOK ==
    /\ next \in 1 .. Len(file) + 1
    /\ \A o \in Owners : /\ DOMAIN module[o] = Fields
                         /\ \A f \in References : module[o][f] \in Addresses \union {Unset}
    /\ \A o \in Owners, f \in References :
         module[o][f] # Unset => heap[module[o][f]] # Unset
    /\ pc \in [Handlers -> PCs]
    /\ \A h \in Handlers : (provider[h] # Unset) => pc[h] \in {"created", "done", "failed"}

Init ==
    /\ file \in Files
    /\ directive \in {d \in [Handlers -> UNION {Directives[h] : h \in Handlers}] :
                        \A h \in Handlers : d[h] \in Directives[h]}
    /\ inherits \in [Handlers -> Globals]
    /\ next = 1 /\ postgres = Unset
    /\ module = [o \in Owners |-> Nothing]
    /\ heap = [a \in Addresses |-> Unset]
    /\ pc = [h \in Handlers |-> "file"]
    /\ provider = [h \in Handlers |-> Unset]

-----------------------------------------------------------------------------
(* Parsing *)

\* The fields of struct o as they would be written down.
Written(o) ==
    [f \in Fields |-> IF f \in References /\ module[o][f] # Unset THEN heap[module[o][f]]
                      ELSE module[o][f]]

\* Struct o becomes m, with objects of its own.
Read(o, m) ==
    /\ module' = [module EXCEPT ![o] = [f \in Fields |->
                     IF f \in References /\ m[f] # Unset THEN <<o, f>> ELSE m[f]]]
    /\ heap' = [a \in Addresses |-> IF a[1] = o THEN m[a[2]] ELSE heap[a]]

\* postgres is an option of the app, for the unnamed block only.
Accepted(o, lines) ==
    \A l \in ToSet(lines) : LineAccepted(l) /\ (l.option = "postgres" => o = Default)

\* Mutant of BlockOf: a block of a name that was there before starts anew.
BlockOfNew(o, lines) == WithLines(Nothing, lines)

\* The module of o after one more block for it: what came of the ones before is
\* read from JSON and added to.
BlockOf(o, lines) == WithLines(Written(o), lines)

Fresh == \A h \in Handlers : pc[h] = "file"

ParseBlock ==
    /\ next <= Len(file) /\ Fresh
    /\ LET b == file[next]
       IN  /\ Accepted(b.name, b.lines)
           /\ Read(b.name, BlockOf(b.name, b.lines))
           /\ postgres' = LET p == Of(b.lines, "postgres")
                          IN  IF p = {} THEN postgres ELSE b.lines[Max(p)].args[1]
    /\ next' = next + 1
    /\ UNCHANGED <<given, pc, provider>>

\* Nothing comes of a file with an error.
ParseFails ==
    /\ next <= Len(file) /\ Fresh
    /\ ~Accepted(file[next].name, file[next].lines)
    /\ pc' = [h \in Handlers |-> "failed"]
    /\ UNCHANGED <<given, app, module, heap, provider>>

\* The handlers after the global blocks.
Unparsed(h) ==
    /\ next > Len(file) /\ pc[h] = "file"
    /\ \A g \in Handlers : pc[g] \in {"file", "parsed"}

ParseDirective(h) ==
    /\ Unparsed(h) /\ Accepted(h, directive[h])
    /\ Read(h, WithLines(Nothing, directive[h]))
    /\ pc' = [pc EXCEPT ![h] = "parsed"]
    /\ UNCHANGED <<given, app, provider>>

ParseDirectiveFails(h) ==
    /\ Unparsed(h) /\ ~Accepted(h, directive[h])
    /\ pc' = [pc EXCEPT ![h] = "failed"]
    /\ UNCHANGED <<given, app, module, heap, provider>>

\* There is a block for module o, or, for the default, any.
Configured(o) == \E i \in DOMAIN file : o \in {file[i].name, Default}

-----------------------------------------------------------------------------
(* baseline.Apply *)

\* The fields of dst that src fills.
Filled(dst, src) == {f \in Fields : dst[f] = Unset /\ src[f] # Unset}

\* Mutant of Applied: references are copied, not cloned.
AppliedSharing(o, dst, src) ==
    [f \in Fields |-> IF f \in Filled(dst, src) THEN src[f] ELSE dst[f]]

\* The struct dst of owner o after Apply(dst, src): a value is copied, the
\* object of a reference is cloned.
Applied(o, dst, src) ==
    [f \in Fields |-> IF f \notin Filled(dst, src) THEN dst[f]
                      ELSE IF f \in References THEN <<o, f>> ELSE src[f]]

\* Mutant of Cloned: a new object is made and left empty.
ClonedNothing(objects, o, dst, src) == objects

\* The heap after it.
Cloned(objects, o, dst, src) ==
    [a \in Addresses |-> IF a[1] = o /\ a[2] \in Filled(dst, src)
                           THEN objects[src[a[2]]] ELSE objects[a]]

-----------------------------------------------------------------------------
(* OIDCMiddleware.Provision *)

\* One handler at a time, and none after an error.
Turn(h, place) ==
    /\ pc[h] = place
    /\ \A g \in Handlers \ {h} : pc[g] \in {"parsed", "done"}

Become(h, place) == pc' = [pc EXCEPT ![h] = place]

Abort(h) == Become(h, "failed") /\ UNCHANGED <<given, app, module, heap, provider>>

\* Without a name the default itself is the baseline.
InheritDefault(h) ==
    /\ Turn(h, "parsed") /\ inherits[h] = Default /\ Configured(Default)
    /\ module' = [module EXCEPT ![h] = Applied(h, module[h], module[Default])]
    /\ heap' = Cloned(heap, h, module[h], module[Default])
    /\ Become(h, "inherited")
    /\ UNCHANGED <<given, app, provider>>

\* Mutant of InheritNamed: the default is applied to the named module itself.
InheritNamedInPlace(h) ==
    LET n == inherits[h]
        full == Applied(n, module[n], module[Default])
        objects == Cloned(heap, n, module[n], module[Default])
    IN  /\ Turn(h, "parsed") /\ n \in Names /\ Configured(n)
        /\ module' = [module EXCEPT ![n] = full, ![h] = Applied(h, module[h], full)]
        /\ heap' = Cloned(objects, h, module[h], full)
        /\ Become(h, "inherited")
        /\ UNCHANGED <<given, app, provider>>

\* With one, a copy of the named module to which the default was applied.  The
\* copy still refers to the objects of the named module.
InheritNamed(h) ==
    LET n == inherits[h]
        full == Applied(Copy(h), module[n], module[Default])
        objects == Cloned(heap, Copy(h), module[n], module[Default])
    IN  /\ Turn(h, "parsed") /\ n \in Names /\ Configured(n)
        /\ module' = [module EXCEPT ![Copy(h)] = full, ![h] = Applied(h, module[h], full)]
        /\ heap' = Cloned(objects, h, module[h], full)
        /\ Become(h, "inherited")
        /\ UNCHANGED <<given, app, provider>>

\* The name is not configured; or nothing is, and there is no app.
InheritMissing(h) == Turn(h, "parsed") /\ ~Configured(inherits[h]) /\ Abort(h)

\* A new object for a field without one.
Made(h, f) == IF module[h][f] = Unset THEN <<h, f>> ELSE module[h][f]

\* Set.Provision: LoadModule empties the raw list once its modules are made.
Loaded(set) ==
    [set EXCEPT !.loaded = @ \o (IF set.raw = <<>> THEN DefaultAuthenticators ELSE set.raw),
                !.raw = <<>>]

Enabled == [disable |-> FALSE, audience |-> FALSE]

\* OIDCProviderModule.Provision: the set, then the remaining defaults.
ProvisionModule(h) ==
    LET set == Made(h, "authenticators")
        scope == Made(h, "scope")
        metadata == Made(h, "metadata")
        Old(a, new) == IF heap[a] = Unset THEN new ELSE heap[a]
    IN  /\ Turn(h, "inherited")
        /\ heap' = [heap EXCEPT ![set] = Loaded(Old(set, EmptySet)),
                                ![scope] = Old(scope, DefaultScope),
                                ![metadata] = Old(metadata, Enabled)]
        /\ module' = [module EXCEPT
                        ![h].authenticators = set, ![h].scope = scope, ![h].metadata = metadata,
                        ![h].username = IF @ = Unset THEN DefaultUsername ELSE @]
        /\ Become(h, "provisioned")
        /\ UNCHANGED <<given, app, provider>>

\* An authenticator does not load (a placeholder is unknown, a secret too short).
ProvisionFails(h) == Turn(h, "inherited") /\ Abort(h)

\* Create: the provider gets the authenticators of the set of now; the rest is
\* read through the module by the goroutine of the discovery.
Create(h) ==
    /\ Turn(h, "provisioned")
    /\ provider' = [provider EXCEPT ![h] =
                      LET set == heap[module[h].authenticators]
                      IN  [Written(h) EXCEPT !.authenticators =
                             [loaded |-> set.loaded, required |-> set.required,
                              preserve |-> set.preserve]]]
    /\ Become(h, "created")
    /\ UNCHANGED <<given, app, module, heap>>

\* The rules are provisioned, then Validate looks at the whole; either may fail,
\* and the latter does without an issuer.
Validate(h) ==
    /\ Turn(h, "created")
    /\ module[h].issuer # Unset
    /\ Become(h, "done")
    /\ UNCHANGED <<given, app, module, heap, provider>>

ValidateFails(h) == Turn(h, "created") /\ Abort(h)

Next ==
    \/ ParseBlock \/ ParseFails
    \/ \E h \in Handlers :
        \/ ParseDirective(h) \/ ParseDirectiveFails(h)
        \/ InheritDefault(h) \/ InheritNamed(h) \/ InheritMissing(h)
        \/ ProvisionModule(h) \/ ProvisionFails(h)
        \/ Create(h) \/ Validate(h) \/ ValidateFails(h)

Spec == Init /\ [][Next]_vars

-----------------------------------------------------------------------------
(* Properties *)

\* All lines about module o, whatever blocks they are in.
LinesOf(o) ==
    IF o \in Handlers THEN directive[o]
    ELSE FlattenSeq([i \in DOMAIN file |-> IF file[i].name = o THEN file[i].lines ELSE <<>>])

\* The modules a handler inherits from, the nearest first.
Chain(h) == IF inherits[h] \in Names THEN <<h, inherits[h], Default>> ELSE <<h, Default>>

\* What the files say of a field: the nearest module that says anything.
Says(h, f) ==
    LET said  == [i \in DOMAIN Chain(h) |-> Said(LinesOf(Chain(h)[i]))[f]]
        heard == {i \in DOMAIN said : said[i] # Unset}
    IN  IF heard = {} THEN Unset ELSE said[CHOOSE i \in heard : \A j \in heard : i <= j]

\* Every handler runs with the configuration the files give it, field by field
\* from its nearest ancestor: whichever blocks the lines about an ancestor are
\* spread over, before or after those about its heirs, and whichever handlers were
\* provisioned before.  None finds a set of authenticators that another has
\* emptied or already loaded.
EffectiveConfiguration ==
    \A h \in Handlers : provider[h] # Unset =>
        LET set == Else(Says(h, "authenticators"), EmptySet)
        IN  provider[h] =
              [issuer |-> Says(h, "issuer"),
               username |-> Else(Says(h, "username"), DefaultUsername),
               tls_insecure_skip_verify |-> Says(h, "tls_insecure_skip_verify"),
               scope |-> Else(Says(h, "scope"), DefaultScope),
               metadata |-> Else(Says(h, "metadata"), Enabled),
               token_params |-> Says(h, "token_params"),
               authenticators |->
                 [loaded |-> IF set.raw = <<>> THEN DefaultAuthenticators ELSE set.raw,
                  required |-> set.required, preserve |-> set.preserve]]

\* Field by field what the nearest of handler h, its named module and the default
\* holds, once they are parsed.
Nearest(h) ==
    [f \in Fields |->
       Else(WithLines(Nothing, directive[h])[f],
            IF inherits[h] \in Names THEN Else(Written(inherits[h])[f], Written(Default)[f])
            ELSE Written(Default)[f])]

\* That, provisioned for h alone, is what every handler runs with, at any time: even
\* when handlers before it were provisioned from the same global modules.
NearestAncestor ==
    \A h \in Handlers : provider[h] # Unset =>
        LET set == Loaded(Else(Nearest(h).authenticators, EmptySet))
        IN  provider[h] =
              [Nearest(h) EXCEPT
                 !.username = Else(@, DefaultUsername),
                 !.scope = Else(@, DefaultScope),
                 !.metadata = Else(@, Enabled),
                 !.authenticators = [loaded |-> set.loaded, required |-> set.required,
                                     preserve |-> set.preserve]]

\* The objects a struct refers to.
Objects(o) == {module[o][f] : f \in References} \ {Unset}

\* No object is within the reach of two handlers, or of a handler and a global
\* module (baseline.go: "so that the original source value is not modified").
NothingShared ==
    \A h \in Handlers : \A o \in (Globals \union Handlers) \ {h} :
        Objects(h) \cap Objects(o) = {}

\* The default and the named modules, baselines of handlers yet to come, stay as
\* they were when the first handler was parsed (app.go: "The caller must not modify the returned provider").
GlobalsUntouched ==
    [][~Fresh => \A o \in Globals :
         /\ module'[o] = module[o]
         /\ \A a \in Objects(o) : heap'[a] = heap[a]]_vars

=============================================================================
