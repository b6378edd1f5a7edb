-------------------------- MODULE InheritanceProofs --------------------------
(***************************************************************************)
(* No handler reaches an object of another or of a global module, the      *)
(* global modules stay as they were parsed, and every handler runs with    *)
(* the configuration of its nearest ancestors: for every set of handlers   *)
(* and names, whatever is in the files.                                    *)
(*                                                                         *)
(* The invariant says where objects are: a global module and a handler     *)
(* refer to their own only; only the copy a handler is made from, which    *)
(* nobody keeps, refers to those of the named module.                      *)
(***************************************************************************)

EXTENDS Inheritance, TLAPS

\* Struct o refers to its own objects.
Owns(o) == \A f \in References : module[o][f] \in {Unset, <<o, f>>}

\* It has an object for a field exactly if it refers to one.
Backed(o) == \A f \in References : module[o][f] = Unset <=> heap[<<o, f>>] = Unset

Shapes ==
    /\ file \in Files /\ next \in 1 .. Len(file) + 1
    /\ inherits \in [Handlers -> Globals]
    /\ DOMAIN module = Owners /\ DOMAIN heap = Addresses
    /\ \A o \in Owners : DOMAIN module[o] = Fields
    /\ pc \in [Handlers -> PCs] /\ DOMAIN provider = Handlers

\* Module m after its provisioning.
Provisioned(m) ==
    [m EXCEPT !.username = Else(@, DefaultUsername), !.scope = Else(@, DefaultScope),
              !.metadata = Else(@, Enabled),
              !.authenticators = Loaded(Else(@, EmptySet))]

\* The provider of module m once it is provisioned.
Created(m) ==
    [m EXCEPT !.authenticators = [loaded |-> m.authenticators.loaded,
                                  required |-> m.authenticators.required,
                                  preserve |-> m.authenticators.preserve]]

\* How far a handler is, and what that says of its module and its provider.
Progress(h) ==
    /\ pc[h] \in {"parsed", "inherited"} => Backed(h)
    /\ pc[h] = "parsed" => \A f \in Fields : Written(h)[f] = WithLines(Nothing, directive[h])[f]
    /\ pc[h] = "inherited" => Written(h) = Nearest(h)
    /\ pc[h] = "provisioned" =>
         module[h].authenticators # Unset /\ Written(h) = Provisioned(Nearest(h))
    /\ provider[h] # Unset =>
         /\ provider[h] = Created(Provisioned(Nearest(h)))
         /\ pc[h] \in {"created", "done", "failed"}

IInv ==
    /\ Shapes
    /\ \A o \in Globals \union Handlers : Owns(o)
    /\ \A o \in Globals : Backed(o)
    /\ \A h \in Handlers : Progress(h)

-----------------------------------------------------------------------------
(* Where things are *)

\* Names, handlers and copies are apart, and so are their objects.
LEMMA Apart ==
    /\ \A h \in Handlers : h \notin Globals /\ Copy(h) \notin Globals \union Handlers
    /\ \A o \in Globals \union Handlers : o \in Owners
    /\ \A h \in Handlers : Copy(h) \in Owners
    /\ \A o \in Owners, f \in References : <<o, f>> \in Addresses /\ <<o, f>> # Unset
  BY InheritanceAssumption DEF InheritanceAssumption, Owners, Addresses

LEMMA FieldNames ==
    /\ References \subseteq Fields /\ Values \subseteq Fields /\ Fields = Values \union References
    /\ Values \cap References = {}
    /\ "authenticators" \in References /\ "scope" \in References /\ "metadata" \in References
    /\ "username" \in Values
  BY DEF Fields, Values, References

\* What is written of a struct that owns its objects, field by field.
LEMMA WrittenFields ==
    ASSUME NEW o
    PROVE  /\ DOMAIN Written(o) = Fields
           /\ \A f \in Values : Written(o)[f] = module[o][f]
           /\ \A f \in References :
                Written(o)[f] = IF module[o][f] # Unset THEN heap[module[o][f]] ELSE Unset
  BY FieldNames DEF Written

\* It is nothing exactly where the struct refers to nothing.
LEMMA WrittenUnset ==
    ASSUME NEW o, Owns(o), Backed(o), NEW f \in Fields
    PROVE  Written(o)[f] = Unset <=> module[o][f] = Unset
<1>1. CASE f \in Values
  BY <1>1, WrittenFields
<1>2. CASE f \in References
  BY <1>2, WrittenFields DEF Owns, Backed
<1> QED
  BY <1>1, <1>2, FieldNames

\* A struct that did not change, with objects that did not, is still what it was.
LEMMA Stays ==
    ASSUME NEW o \in Globals \union Handlers, Owns(o), module'[o] = module[o],
           \A f \in References : heap'[<<o, f>>] = heap[<<o, f>>]
    PROVE  /\ Owns(o)' /\ (Backed(o) => Backed(o)') /\ Written(o)' = Written(o)
<1>1. Owns(o)' /\ (Backed(o) => Backed(o)')
  BY DEF Owns, Backed
<1>2. Written(o)' = Written(o)
  BY DEF Owns, Written
<1> QED
  BY <1>1, <1>2

\* What handler h inherits depends on the global modules, and on those alone.
LEMMA NearestStays ==
    ASSUME NEW h \in Handlers, inherits \in [Handlers -> Globals], UNCHANGED given,
           \A o \in Globals : Written(o)' = Written(o)
    PROVE  Nearest(h)' = Nearest(h)
<1>1. Default \in Globals /\ inherits[h] \in Globals
  BY DEF Globals
<1> QED
  BY <1>1 DEF Nearest, given

\* Struct o as it was read.
LEMMA ReadStruct ==
    ASSUME Shapes, NEW o \in Owners, NEW m, Read(o, m)
    PROVE  /\ DOMAIN module' = Owners /\ DOMAIN heap' = Addresses
           /\ \A p \in Owners : DOMAIN module'[p] = Fields
           /\ Owns(o)' /\ Backed(o)' /\ \A f \in Fields : Written(o)'[f] = m[f]
           /\ \A p \in Owners \ {o} :
                /\ module'[p] = module[p]
                /\ \A f \in References : heap'[<<p, f>>] = heap[<<p, f>>]
<1>1. /\ DOMAIN module' = Owners /\ DOMAIN heap' = Addresses
      /\ module'[o] = [f \in Fields |-> IF f \in References /\ m[f] # Unset THEN <<o, f>> ELSE m[f]]
      /\ \A f \in References : heap'[<<o, f>>] = m[f]
      /\ \A p \in Owners \ {o} :
           /\ module'[p] = module[p]
           /\ \A f \in References : heap'[<<p, f>>] = heap[<<p, f>>]
  BY Apart DEF Read, Shapes
<1>2. \A f \in References : <<o, f>> # Unset
  BY Apart
<1>3. Owns(o)' /\ Backed(o)'
  BY <1>1, <1>2, FieldNames DEF Owns, Backed
<1>4. ASSUME NEW f \in Fields PROVE Written(o)'[f] = m[f]
  BY <1>1, <1>2, FieldNames DEF Written
<1> QED
  BY <1>1, <1>3, <1>4 DEF Shapes

-----------------------------------------------------------------------------
(* Apply *)

\* A step of handler h touches nothing but its struct and its copy.
Elsewhere(h) ==
    \A p \in Owners \ {h, Copy(h)} :
        module'[p] = module[p] /\ \A f \in References : heap'[<<p, f>>] = heap[<<p, f>>]

\* What an object of src holds; nothing where there is none.
Held(objects, src, f) == IF src[f] # Unset THEN objects[src[f]] ELSE Unset

\* After Apply to a handler that owns its objects it still does, and holds what it
\* held or else what src holds.
LEMMA ApplyOwn ==
    ASSUME Shapes, NEW h \in Handlers, Owns(h), Backed(h), NEW objects, NEW src,
           \A f \in References : src[f] # Unset => src[f] \in Addresses /\ objects[src[f]] # Unset,
           \A f \in References : objects[<<h, f>>] = heap[<<h, f>>],
           module'[h] = Applied(h, module[h], src),
           heap' = Cloned(objects, h, module[h], src)
    PROVE  /\ Owns(h)' /\ Backed(h)'
           /\ \A f \in Values : Written(h)'[f] = Else(Written(h)[f], src[f])
           /\ \A f \in References : Written(h)'[f] = Else(Written(h)[f], Held(objects, src, f))
<1>1. \A f \in References : /\ <<h, f>> \in Addresses /\ <<h, f>> # Unset
                            /\ <<h, f>>[1] = h /\ <<h, f>>[2] = f
  BY Apart
<1>2. ASSUME NEW f \in References
      PROVE  /\ module'[h][f] = IF module[h][f] = Unset /\ src[f] # Unset THEN <<h, f>>
                                ELSE module[h][f]
             /\ heap'[<<h, f>>] = IF module[h][f] = Unset /\ src[f] # Unset THEN objects[src[f]]
                                  ELSE heap[<<h, f>>]
  BY <1>1, FieldNames DEF Applied, Cloned, Filled
<1>3. ASSUME NEW f \in Values
      PROVE  module'[h][f] = IF module[h][f] = Unset THEN src[f] ELSE module[h][f]
  BY FieldNames DEF Applied, Filled
<1>4. Owns(h)'
  BY <1>2 DEF Owns
<1>5. Backed(h)'
  BY <1>1, <1>2 DEF Owns, Backed
<1>6. ASSUME NEW f \in Values PROVE Written(h)'[f] = Else(Written(h)[f], src[f])
  BY <1>3, FieldNames DEF Written, Else
<1>7. ASSUME NEW f \in References PROVE Written(h)'[f] = Else(Written(h)[f], Held(objects, src, f))
  <2>1. Written(h)[f] = IF module[h][f] # Unset THEN heap[module[h][f]] ELSE Unset
    BY WrittenFields
  <2>2. Written(h)'[f] = IF module'[h][f] # Unset THEN heap'[module'[h][f]] ELSE Unset
    BY FieldNames DEF Written
  <2>3. CASE module[h][f] # Unset
    <3>1. module[h][f] = <<h, f>> /\ heap[<<h, f>>] # Unset
      BY <2>3 DEF Owns, Backed
    <3> QED
      BY <1>1, <1>2, <2>1, <2>2, <2>3, <3>1 DEF Else
  <2>4. CASE module[h][f] = Unset
    BY <1>1, <1>2, <2>1, <2>2, <2>4 DEF Else, Held
  <2> QED
    BY <2>3, <2>4
<1> QED
  BY <1>4, <1>5, <1>6, <1>7

\* The copy of a named module after Apply holds what the module held or else what
\* the default holds, and no object of either was touched.
LEMMA ApplyCopy ==
    ASSUME Shapes, NEW h \in Handlers, NEW n \in Globals, Owns(n), Backed(n),
           Owns(Default), Backed(Default), NEW full, NEW objects,
           full = Applied(Copy(h), module[n], module[Default]),
           objects = Cloned(heap, Copy(h), module[n], module[Default])
    PROVE  /\ \A f \in Values : full[f] = Else(Written(n)[f], Written(Default)[f])
           /\ \A f \in References : full[f] # Unset => full[f] \in Addresses /\ objects[full[f]] # Unset
           /\ \A f \in References :
                Held(objects, full, f) = Else(Written(n)[f], Written(Default)[f])
           /\ \A p \in Owners \ {Copy(h)} : \A f \in References :
                objects[<<p, f>>] = heap[<<p, f>>]
<1>0. /\ n # Copy(h) /\ Default # Copy(h) /\ n \in Owners /\ Default \in Owners
      /\ Copy(h) \in Owners
  BY Apart DEF Globals
<1>1. \A o \in Owners, f \in References : /\ <<o, f>> \in Addresses /\ <<o, f>> # Unset
                                          /\ <<o, f>>[1] = o /\ <<o, f>>[2] = f
  BY Apart
<1>2. \A p \in Owners \ {Copy(h)} : \A f \in References : objects[<<p, f>>] = heap[<<p, f>>]
  BY <1>1 DEF Cloned
<1>3. ASSUME NEW f \in Values PROVE full[f] = Else(Written(n)[f], Written(Default)[f])
  BY FieldNames DEF Applied, Filled, Written, Else
<1>4. ASSUME NEW f \in References
      PROVE  /\ full[f] # Unset => full[f] \in Addresses /\ objects[full[f]] # Unset
             /\ Held(objects, full, f) = Else(Written(n)[f], Written(Default)[f])
  <2>1. CASE module[n][f] # Unset
    <3>1. module[n][f] = <<n, f>> /\ heap[<<n, f>>] # Unset /\ full[f] = <<n, f>>
      BY <2>1, FieldNames DEF Owns, Backed, Applied, Filled
    <3>2. objects[<<n, f>>] = heap[<<n, f>>]
      BY <1>0, <1>2
    <3>3. Written(n)[f] = heap[<<n, f>>]
      BY <3>1, <1>0, <1>1, FieldNames DEF Written
    <3> QED
      BY <3>1, <3>2, <3>3, <1>0, <1>1 DEF Held, Else
  <2>2. CASE module[n][f] = Unset /\ module[Default][f] # Unset
    <3>1. /\ module[Default][f] = <<Default, f>> /\ heap[<<Default, f>>] # Unset
          /\ full[f] = <<Copy(h), f>>
      BY <2>2, FieldNames DEF Owns, Backed, Applied, Filled
    <3>2. objects[<<Copy(h), f>>] = heap[<<Default, f>>]
      BY <1>0, <1>1, <2>2, <3>1, FieldNames DEF Cloned, Filled
    <3>3. Written(n)[f] = Unset /\ Written(Default)[f] = heap[<<Default, f>>]
      BY <2>2, <3>1, FieldNames DEF Written
    <3> QED
      BY <3>1, <3>2, <3>3, <1>0, <1>1 DEF Held, Else
  <2>3. CASE module[n][f] = Unset /\ module[Default][f] = Unset
    <3>1. full[f] = Unset
      BY <2>3, FieldNames DEF Applied, Filled
    <3>2. Written(n)[f] = Unset /\ Written(Default)[f] = Unset
      BY <2>3, FieldNames DEF Written
    <3> QED
      BY <3>1, <3>2 DEF Held, Else
  <2> QED
    BY <2>1, <2>2, <2>3
<1> QED
  BY <1>2, <1>3, <1>4

-----------------------------------------------------------------------------
(* The steps *)

\* The blocks of a file are about global modules.
LEMMA FileBlocks ==
    ASSUME file \in Files
    PROVE  /\ file \in Seq(GlobalBlocks) /\ Len(file) \in Nat /\ DOMAIN file = 1 .. Len(file)
           /\ \A i \in 1 .. Len(file) : file[i].name \in Globals /\ file[i].lines \in Seq(Lines)
<1>1. file \in Seq(GlobalBlocks)
  BY InheritanceAssumption DEF InheritanceAssumption
<1>2. Len(file) \in Nat /\ DOMAIN file = 1 .. Len(file)
  BY <1>1
<1>3. \A i \in 1 .. Len(file) : file[i] \in GlobalBlocks
  BY <1>1
<1>4. \A b \in GlobalBlocks : b.name \in Globals /\ b.lines \in Seq(Lines)
  BY DEF GlobalBlocks
<1> QED
  BY <1>1, <1>2, <1>3, <1>4

LEMMA InitInv == Init => IInv
<1> SUFFICES ASSUME Init PROVE IInv
  OBVIOUS
<1>1. Shapes
  BY FileBlocks DEF Init, Shapes, Nothing, PCs
<1>2. ASSUME NEW o \in Owners PROVE Owns(o) /\ Backed(o)
  BY Apart, FieldNames DEF Init, Owns, Backed, Nothing
<1>3. ASSUME NEW h \in Handlers PROVE Progress(h)
  BY DEF Init, Progress
<1> QED
  BY <1>1, <1>2, <1>3, Apart DEF IInv

\* While all handlers are yet to be parsed, none has a provider.
LEMMA NoneYet ==
    ASSUME IInv, NEW h \in Handlers, pc[h] \notin {"created", "done", "failed"}
    PROVE  provider[h] = Unset
  BY DEF IInv, Progress

LEMMA ParseBlockInv == ASSUME IInv, ParseBlock PROVE IInv'
<1>1. PICK o : o = file[next].name
  OBVIOUS
<1>2. o \in Globals /\ o \in Owners /\ next' \in 1 .. Len(file) + 1
  BY <1>1, FileBlocks, Apart DEF ParseBlock, IInv, Shapes
<1>3. PICK m : Read(o, m)
  BY <1>1 DEF ParseBlock
<1>4. Shapes /\ UNCHANGED <<given, pc, provider>>
  BY DEF IInv, ParseBlock
<1>5. Shapes'
  BY <1>2, <1>3, <1>4, ReadStruct DEF Shapes, given
<1>6. ASSUME NEW p \in Globals \union Handlers PROVE Owns(p)' /\ (p \in Globals => Backed(p)')
  <2>1. CASE p = o
    BY <1>2, <1>3, <1>4, <2>1, ReadStruct DEF Owns, Backed
  <2>2. CASE p # o
    BY <1>2, <1>3, <1>4, <2>2, ReadStruct, Apart DEF IInv, Owns, Backed
  <2> QED
    BY <2>1, <2>2
<1>7. ASSUME NEW h \in Handlers PROVE Progress(h)'
  <2>1. pc[h] = "file" /\ provider[h] = Unset
    BY NoneYet DEF ParseBlock, Fresh
  <2> QED
    BY <1>4, <2>1 DEF Progress
<1> QED
  BY <1>5, <1>6, <1>7 DEF IInv

LEMMA ParseFailsInv == ASSUME IInv, ParseFails PROVE IInv'
<1>1. UNCHANGED <<given, app, module, heap, provider>> /\ pc' = [h \in Handlers |-> "failed"]
  BY DEF ParseFails
<1>2. Shapes'
  BY <1>1 DEF IInv, Shapes, given, app, PCs
<1>3. ASSUME NEW h \in Handlers PROVE Progress(h)'
  <2>1. provider[h] = Unset
    BY NoneYet DEF ParseFails, Fresh
  <2> QED
    BY <1>1, <2>1 DEF Progress
<1> QED
  BY <1>1, <1>2, <1>3 DEF IInv, Owns, Backed

\* The global modules stay what they are in a step of a handler, and so do the other
\* handlers.
LEMMA OthersStand ==
    ASSUME IInv, NEW h \in Handlers, Elsewhere(h)
    PROVE  \A p \in (Globals \union Handlers) \ {h} :
              Owns(p)' /\ (Backed(p) => Backed(p)') /\ Written(p)' = Written(p)
<1> SUFFICES ASSUME NEW p \in (Globals \union Handlers) \ {h}
             PROVE  Owns(p)' /\ (Backed(p) => Backed(p)') /\ Written(p)' = Written(p)
  OBVIOUS
<1>1. p \in Owners \ {h, Copy(h)} /\ Owns(p)
  BY Apart DEF IInv
<1> QED
  BY <1>1, Stays DEF Elsewhere

LEMMA NearestStands ==
    ASSUME IInv, NEW h \in Handlers, Elsewhere(h), UNCHANGED given, NEW g \in Handlers
    PROVE  Nearest(g)' = Nearest(g)
<1>1. \A o \in Globals : Written(o)' = Written(o)
  BY OthersStand, Apart
<1> QED
  BY <1>1, NearestStays DEF IInv, Shapes

LEMMA HandlerStep ==
    ASSUME IInv, NEW h \in Handlers, Elsewhere(h), UNCHANGED given, Shapes',
           Owns(h)', Progress(h)',
           \A g \in Handlers \ {h} : pc'[g] = pc[g] /\ provider'[g] = provider[g]
    PROVE  IInv'
<1>1. ASSUME NEW p \in Globals \union Handlers PROVE Owns(p)'
  BY OthersStand
<1>2. ASSUME NEW p \in Globals PROVE Backed(p)'
  BY OthersStand, Apart DEF IInv
<1>3. ASSUME NEW g \in Handlers, g # h PROVE Progress(g)'
  <2>1. Progress(g)
    BY DEF IInv
  <2>2. (Backed(g) => Backed(g)') /\ Written(g)' = Written(g)
    BY <1>3, OthersStand
  <2>3. Nearest(g)' = Nearest(g)
    BY NearestStands
  <2>4. pc'[g] = pc[g] /\ provider'[g] = provider[g] /\ directive'[g] = directive[g]
    BY <1>3 DEF given
  <2>5. module'[g] = module[g]
    BY <1>3, Apart DEF Elsewhere
  <2> QED
    BY <2>1, <2>2, <2>3, <2>4, <2>5 DEF Progress
<1> QED
  BY <1>1, <1>2, <1>3 DEF IInv

\* What a step of handler h does to the places: Become.
LEMMA Becomes ==
    ASSUME Shapes, NEW h \in Handlers, NEW place \in PCs, Become(h, place)
    PROVE  /\ pc' \in [Handlers -> PCs] /\ pc'[h] = place
           /\ \A g \in Handlers \ {h} : pc'[g] = pc[g]
  BY DEF Shapes, Become

LEMMA ParseDirectiveInv ==
    ASSUME IInv, NEW h \in Handlers, ParseDirective(h) PROVE IInv' /\ Elsewhere(h)
<1>1. Shapes /\ pc[h] = "file" /\ provider[h] = Unset /\ h \in Owners
  BY NoneYet, Apart DEF IInv, ParseDirective, Unparsed
<1>2. PICK m : m = WithLines(Nothing, directive[h])
  OBVIOUS
<1>3. Read(h, m) /\ UNCHANGED <<given, app, provider>>
  BY <1>2 DEF ParseDirective
<1>4. Become(h, "parsed") /\ "parsed" \in PCs
  BY DEF ParseDirective, Become, PCs
<1>5. Shapes' /\ Elsewhere(h)
  BY <1>1, <1>3, <1>4, ReadStruct, Becomes DEF Shapes, given, app, Elsewhere
<1>6. Owns(h)' /\ Backed(h)' /\ \A f \in Fields : Written(h)'[f] = m[f]
  BY <1>1, <1>3, ReadStruct
<1>7. Progress(h)'
  BY <1>1, <1>2, <1>3, <1>4, <1>6, Becomes DEF Progress, given
<1> QED
  BY <1>1, <1>3, <1>4, <1>5, <1>6, <1>7, Becomes, HandlerStep

\* A step that moves h, its struct and its objects as they are.
LEMMA MoveInv ==
    ASSUME IInv, NEW h \in Handlers, NEW place \in {"failed", "done"}, Become(h, place),
           UNCHANGED <<given, app, module, heap, provider>>
    PROVE  IInv' /\ Elsewhere(h)
<1>1. Shapes /\ Progress(h) /\ Owns(h) /\ place \in PCs
  BY DEF IInv, PCs
<1>2. Shapes' /\ Elsewhere(h) /\ Owns(h)'
  BY <1>1, Becomes DEF Shapes, given, app, Elsewhere, Owns
<1>3. Nearest(h)' = Nearest(h)
  BY <1>2, NearestStands
<1>4. Progress(h)'
  BY <1>1, <1>3, Becomes DEF Progress
<1> QED
  BY <1>1, <1>2, <1>4, Becomes, HandlerStep

\* A handler that has inherited from the module src holds what it held or else what
\* src holds; from which its nearest ancestors follow.
LEMMA InheritStep ==
    ASSUME IInv, NEW h \in Handlers, pc[h] = "parsed", Become(h, "inherited"),
           UNCHANGED <<given, app, provider>>, Shapes', Elsewhere(h), Owns(h)', Backed(h)',
           \A f \in Fields : Written(h)'[f] =
             Else(Written(h)[f],
                  IF inherits[h] \in Names THEN Else(Written(inherits[h])[f], Written(Default)[f])
                  ELSE Written(Default)[f])
    PROVE  IInv'
<1>1. \A f \in Fields : Written(h)[f] = WithLines(Nothing, directive[h])[f]
  BY DEF IInv, Progress
<1>2. Written(h)' = Nearest(h)
  BY <1>1 DEF Nearest, Written
<1>3. Nearest(h)' = Nearest(h)
  BY NearestStands
<1>4. provider[h] = Unset /\ Shapes /\ "inherited" \in PCs
  BY NoneYet DEF IInv, PCs
<1>5. Progress(h)'
  BY <1>2, <1>3, <1>4, Becomes DEF Progress
<1> QED
  BY <1>4, <1>5, Becomes, HandlerStep

LEMMA InheritDefaultInv ==
    ASSUME IInv, NEW h \in Handlers, InheritDefault(h) PROVE IInv' /\ Elsewhere(h)
<1>1. /\ Shapes /\ pc[h] = "parsed" /\ inherits[h] = Default /\ Owns(h) /\ Backed(h)
      /\ Owns(Default) /\ Backed(Default) /\ Default \in Owners /\ h \in Owners
  BY Apart DEF IInv, InheritDefault, Turn, Progress, Globals
<1>2. PICK src : src = module[Default]
  OBVIOUS
<1>3. /\ module' = [module EXCEPT ![h] = Applied(h, module[h], src)]
      /\ heap' = Cloned(heap, h, module[h], src)
      /\ Become(h, "inherited") /\ UNCHANGED <<given, app, provider>>
  BY <1>2 DEF InheritDefault
<1>4. module'[h] = Applied(h, module[h], src) /\ "inherited" \in PCs
  BY <1>1, <1>3 DEF Shapes, PCs
<1>5. \A f \in References : src[f] # Unset => src[f] \in Addresses /\ heap[src[f]] # Unset
  BY <1>1, <1>2, Apart DEF Owns, Backed
<1>6. /\ Owns(h)' /\ Backed(h)'
      /\ \A f \in Values : Written(h)'[f] = Else(Written(h)[f], src[f])
      /\ \A f \in References : Written(h)'[f] = Else(Written(h)[f], Held(heap, src, f))
  BY <1>1, <1>3, <1>4, <1>5, ApplyOwn
<1>7. /\ \A f \in Values : src[f] = Written(Default)[f]
      /\ \A f \in References : Held(heap, src, f) = Written(Default)[f]
  BY <1>2, WrittenFields DEF Held
<1>8. Elsewhere(h)
  BY <1>1, <1>3, Apart DEF Elsewhere, Cloned, Shapes
<1>9. Shapes'
  BY <1>1, <1>3, <1>4, Becomes DEF Shapes, given, app, Applied, Cloned
<1>10. Default \notin Names
  BY InheritanceAssumption DEF InheritanceAssumption
<1> QED
  BY <1>1, <1>3, <1>6, <1>7, <1>8, <1>9, <1>10, FieldNames, InheritStep

LEMMA InheritNamedInv ==
    ASSUME IInv, NEW h \in Handlers, InheritNamed(h) PROVE IInv' /\ Elsewhere(h)
<1>1. PICK n : n = inherits[h]
  OBVIOUS
<1>2. /\ Shapes /\ pc[h] = "parsed" /\ n \in Names /\ n \in Globals /\ Owns(h) /\ Backed(h)
      /\ Owns(n) /\ Backed(n) /\ Owns(Default) /\ Backed(Default) /\ h \in Owners
      /\ Copy(h) \in Owners \ {h}
  BY <1>1, Apart DEF IInv, InheritNamed, Turn, Progress, Globals
<1>3. PICK full : full = Applied(Copy(h), module[n], module[Default])
  OBVIOUS
<1>4. PICK objects : objects = Cloned(heap, Copy(h), module[n], module[Default])
  OBVIOUS
<1>5. /\ module' = [module EXCEPT ![Copy(h)] = full, ![h] = Applied(h, module[h], full)]
      /\ heap' = Cloned(objects, h, module[h], full)
      /\ Become(h, "inherited") /\ UNCHANGED <<given, app, provider>>
  BY <1>1, <1>3, <1>4 DEF InheritNamed
<1>6. module'[h] = Applied(h, module[h], full) /\ "inherited" \in PCs
  BY <1>2, <1>5 DEF Shapes, PCs
<1>7. /\ \A f \in Values : full[f] = Else(Written(n)[f], Written(Default)[f])
      /\ \A f \in References : full[f] # Unset => full[f] \in Addresses /\ objects[full[f]] # Unset
      /\ \A f \in References : Held(objects, full, f) = Else(Written(n)[f], Written(Default)[f])
      /\ \A p \in Owners \ {Copy(h)} : \A f \in References : objects[<<p, f>>] = heap[<<p, f>>]
  BY <1>2, <1>3, <1>4, ApplyCopy
<1>8. /\ Owns(h)' /\ Backed(h)'
      /\ \A f \in Values : Written(h)'[f] = Else(Written(h)[f], full[f])
      /\ \A f \in References : Written(h)'[f] = Else(Written(h)[f], Held(objects, full, f))
  <2>1. \A f \in References : objects[<<h, f>>] = heap[<<h, f>>]
    BY <1>2, <1>7
  <2>2. heap' = Cloned(objects, h, module[h], full)
    BY <1>5
  <2>3. \A f \in References : full[f] # Unset => full[f] \in Addresses /\ objects[full[f]] # Unset
    BY <1>7
  <2> QED
    BY <1>2, <1>6, <2>1, <2>2, <2>3, ApplyOwn
<1>9. Elsewhere(h)
  <2> SUFFICES ASSUME NEW p \in Owners \ {h, Copy(h)}
               PROVE  /\ module'[p] = module[p]
                      /\ \A f \in References : heap'[<<p, f>>] = heap[<<p, f>>]
    BY DEF Elsewhere
  <2>1. module'[p] = module[p]
    BY <1>2, <1>5 DEF Shapes
  <2>2. \A f \in References : heap'[<<p, f>>] = objects[<<p, f>>]
    BY <1>5, Apart DEF Cloned
  <2> QED
    BY <1>7, <2>1, <2>2
<1>10. Shapes'
  BY <1>2, <1>3, <1>5, <1>6, Becomes DEF Shapes, given, app, Applied, Cloned
<1> QED
  BY <1>1, <1>2, <1>5, <1>7, <1>8, <1>9, <1>10, FieldNames, InheritStep

\* Provisioning gives the module of h, in objects of its own, what it lacks.
LEMMA ProvisionModuleInv ==
    ASSUME IInv, NEW h \in Handlers, ProvisionModule(h) PROVE IInv' /\ Elsewhere(h)
<1>1. /\ Shapes /\ pc[h] = "inherited" /\ Owns(h) /\ Backed(h) /\ Written(h) = Nearest(h)
      /\ h \in Owners /\ provider[h] = Unset
  BY NoneYet, Apart DEF IInv, ProvisionModule, Turn, Progress
<1>2. \A f \in References : Made(h, f) = <<h, f>>
  BY <1>1 DEF Made, Owns
<1>3. PICK set, scope, metadata :
        /\ set = Loaded(IF heap[<<h, "authenticators">>] = Unset THEN EmptySet
                        ELSE heap[<<h, "authenticators">>])
        /\ scope = IF heap[<<h, "scope">>] = Unset THEN DefaultScope ELSE heap[<<h, "scope">>]
        /\ metadata = IF heap[<<h, "metadata">>] = Unset THEN Enabled ELSE heap[<<h, "metadata">>]
  OBVIOUS
<1>4. /\ heap' = [heap EXCEPT ![<<h, "authenticators">>] = set, ![<<h, "scope">>] = scope,
                              ![<<h, "metadata">>] = metadata]
      /\ module' = [module EXCEPT
                      ![h].authenticators = <<h, "authenticators">>, ![h].scope = <<h, "scope">>,
                      ![h].metadata = <<h, "metadata">>,
                      ![h].username = IF @ = Unset THEN DefaultUsername ELSE @]
      /\ Become(h, "provisioned") /\ UNCHANGED <<given, app, provider>>
  BY <1>2, <1>3, FieldNames DEF ProvisionModule
<1>5. /\ DOMAIN heap' = Addresses
      /\ heap'[<<h, "authenticators">>] = set /\ heap'[<<h, "scope">>] = scope
      /\ heap'[<<h, "metadata">>] = metadata
      /\ heap'[<<h, "token_params">>] = heap[<<h, "token_params">>]
      /\ \A p \in Owners \ {h} : \A f \in References : heap'[<<p, f>>] = heap[<<p, f>>]
  BY <1>1, <1>4, Apart DEF Shapes, References
<1>6. /\ DOMAIN module' = Owners /\ DOMAIN module'[h] = Fields
      /\ \A p \in Owners \ {h} : module'[p] = module[p]
      /\ module'[h].authenticators = <<h, "authenticators">>
      /\ module'[h].scope = <<h, "scope">> /\ module'[h].metadata = <<h, "metadata">>
      /\ module'[h].username = Else(module[h].username, DefaultUsername)
      /\ module'[h].issuer = module[h].issuer
      /\ module'[h].tls_insecure_skip_verify = module[h].tls_insecure_skip_verify
      /\ module'[h].token_params = module[h].token_params
  BY <1>1, <1>4 DEF Shapes, Fields, Values, References, Else
<1>7. Elsewhere(h) /\ Owns(h)' /\ "provisioned" \in PCs
  BY <1>1, <1>5, <1>6 DEF Elsewhere, Owns, References, PCs
<1>8. Shapes'
  BY <1>1, <1>4, <1>5, <1>6, <1>7, Becomes DEF Shapes, given, app
<1>9. \A f \in References : <<h, f>> # Unset
  BY <1>1, Apart
<1>10. Written(h)' = Provisioned(Nearest(h))
  <2>1. /\ Written(h)' = [f \in Fields |-> Written(h)'[f]]
        /\ DOMAIN Nearest(h) = Fields
    BY DEF Written, Nearest
  <2>2. Written(h)'["authenticators"] = Loaded(Else(Nearest(h).authenticators, EmptySet))
    <3>1. Else(Written(h).authenticators, EmptySet)
            = IF heap[<<h, "authenticators">>] = Unset THEN EmptySet
              ELSE heap[<<h, "authenticators">>]
      BY <1>1, FieldNames DEF Written, Else, Owns, Backed
    <3>2. Written(h)'["authenticators"] = set
      BY <1>5, <1>6, <1>9, FieldNames DEF Written
    <3> QED
      BY <1>1, <1>3, <3>1, <3>2
  <2>3. Written(h)'["scope"] = Else(Nearest(h).scope, DefaultScope)
    <3>1. Else(Written(h).scope, DefaultScope) = scope
      BY <1>1, <1>3, FieldNames DEF Written, Else, Owns, Backed
    <3> QED
      BY <1>1, <1>5, <1>6, <1>9, <3>1, FieldNames DEF Written
  <2>4. Written(h)'["metadata"] = Else(Nearest(h).metadata, Enabled)
    <3>1. Else(Written(h).metadata, Enabled) = metadata
      BY <1>1, <1>3, FieldNames DEF Written, Else, Owns, Backed
    <3> QED
      BY <1>1, <1>5, <1>6, <1>9, <3>1, FieldNames DEF Written
  <2>5. Written(h)'["token_params"] = Nearest(h).token_params
    <3>1. "token_params" \in References /\ "token_params" \in Fields
      BY DEF References, Fields
    <3> QED
      BY <1>1, <1>5, <1>6, <3>1 DEF Written, Owns
  <2>6. /\ Written(h)'["username"] = Else(Nearest(h).username, DefaultUsername)
        /\ Written(h)'["issuer"] = Nearest(h).issuer
        /\ Written(h)'["tls_insecure_skip_verify"] = Nearest(h).tls_insecure_skip_verify
    <3>1. {"username", "issuer", "tls_insecure_skip_verify"} \subseteq Fields \ References
      BY DEF Values, References, Fields
    <3> QED
      BY <1>1, <1>6, <3>1 DEF Written, Else
  <2> QED
    BY <2>1, <2>2, <2>3, <2>4, <2>5, <2>6 DEF Provisioned, Fields, Values, References
<1>11. Nearest(h)' = Nearest(h)
  BY <1>4, <1>7, NearestStands
<1>12. Progress(h)'
  BY <1>1, <1>4, <1>6, <1>7, <1>9, <1>10, <1>11, FieldNames, Becomes DEF Progress
<1> QED
  BY <1>1, <1>4, <1>7, <1>8, <1>12, Becomes, HandlerStep

LEMMA CreateInv ==
    ASSUME IInv, NEW h \in Handlers, Create(h) PROVE IInv' /\ Elsewhere(h)
<1>1. /\ Shapes /\ pc[h] = "provisioned" /\ Owns(h) /\ module[h].authenticators # Unset
      /\ Written(h) = Provisioned(Nearest(h))
  BY DEF IInv, Create, Turn, Progress
<1>2. UNCHANGED <<given, app, module, heap>> /\ Become(h, "created") /\ "created" \in PCs
  BY DEF Create, PCs
<1>3. Written(h).authenticators = heap[module[h].authenticators]
  BY <1>1, FieldNames DEF Written
<1>4. provider'[h] = Created(Written(h)) /\ DOMAIN provider' = Handlers
      /\ \A g \in Handlers \ {h} : provider'[g] = provider[g]
  BY <1>1, <1>3 DEF Create, Created, Shapes
<1>5. Shapes' /\ Elsewhere(h) /\ Owns(h)'
  BY <1>1, <1>2, <1>4, Becomes DEF Shapes, given, app, Elsewhere, Owns
<1>6. Nearest(h)' = Nearest(h)
  BY <1>2, <1>5, NearestStands
<1>7. Progress(h)'
  BY <1>1, <1>2, <1>4, <1>6, Becomes DEF Progress
<1> QED
  BY <1>1, <1>2, <1>4, <1>5, <1>7, Becomes, HandlerStep

\* The remaining steps of a handler move it only.
LEMMA MovesInv ==
    ASSUME IInv, NEW h \in Handlers,
           \/ ParseDirectiveFails(h) \/ InheritMissing(h) \/ ProvisionFails(h)
           \/ Validate(h) \/ ValidateFails(h)
    PROVE  IInv' /\ Elsewhere(h)
  BY MoveInv DEF ParseDirectiveFails, InheritMissing, ProvisionFails, Validate, ValidateFails,
                 Abort, Become

LEMMA HandlerInv ==
    ASSUME IInv, NEW h \in Handlers,
           \/ ParseDirective(h) \/ ParseDirectiveFails(h)
           \/ InheritDefault(h) \/ InheritNamed(h) \/ InheritMissing(h)
           \/ ProvisionModule(h) \/ ProvisionFails(h)
           \/ Create(h) \/ Validate(h) \/ ValidateFails(h)
    PROVE  IInv' /\ Elsewhere(h)
  BY ParseDirectiveInv, InheritDefaultInv, InheritNamedInv, ProvisionModuleInv, CreateInv, MovesInv

LEMMA StepInv == IInv /\ [Next]_vars => IInv'
<1> SUFFICES ASSUME IInv, [Next]_vars PROVE IInv'
  OBVIOUS
<1>1. CASE ParseBlock \/ ParseFails
  BY <1>1, ParseBlockInv, ParseFailsInv
<1>2. CASE \E h \in Handlers :
             \/ ParseDirective(h) \/ ParseDirectiveFails(h)
             \/ InheritDefault(h) \/ InheritNamed(h) \/ InheritMissing(h)
             \/ ProvisionModule(h) \/ ProvisionFails(h)
             \/ Create(h) \/ Validate(h) \/ ValidateFails(h)
  BY <1>2, HandlerInv
<1>3. CASE UNCHANGED vars
  BY <1>3 DEF vars, given, app, IInv, Shapes, Owns, Backed, Progress, Written, Nearest
<1> QED
  BY <1>1, <1>2, <1>3 DEF Next

\* The invariant holds throughout.
THEOREM Invariance == Spec => []IInv
  BY InitInv, StepInv, PTL DEF Spec

-----------------------------------------------------------------------------

\* No two handlers, nor a handler and a global module, have an object in common
\* (baseline.go, Apply clones what it takes over).
THEOREM NoneShared == Spec => []NothingShared
<1>1. IInv => NothingShared
  BY Apart DEF IInv, Owns, NothingShared, Objects
<1> QED
  BY <1>1, Invariance, PTL

\* Every handler runs with what it, its named module and the default say, field by
\* field (app.go, GetInheritedProvider; provider_module.go, Provision and Create).
THEOREM NearestAncestors == Spec => []NearestAncestor
<1>1. ASSUME IInv, NEW h \in Handlers, provider[h] # Unset
      PROVE  LET set == Loaded(Else(Nearest(h).authenticators, EmptySet))
             IN  provider[h] =
                   [Nearest(h) EXCEPT
                      !.username = Else(@, DefaultUsername),
                      !.scope = Else(@, DefaultScope),
                      !.metadata = Else(@, Enabled),
                      !.authenticators = [loaded |-> set.loaded, required |-> set.required,
                                          preserve |-> set.preserve]]
  <2>1. provider[h] = Created(Provisioned(Nearest(h)))
    BY <1>1 DEF IInv, Progress
  <2>2. DOMAIN Nearest(h) = Fields
    BY DEF Nearest
  <2> QED
    BY <2>1, <2>2 DEF Created, Provisioned, Fields, Values, References
<1>2. IInv => NearestAncestor
  BY <1>1 DEF NearestAncestor
<1> QED
  BY <1>2, Invariance, PTL

\* Once the handlers are being parsed and provisioned, the global modules and their
\* objects stay as they are (app.go: "The caller must not modify the returned
\* provider").
THEOREM GlobalsStay == Spec => GlobalsUntouched
<1>1. ASSUME IInv, [Next]_vars, ~Fresh, NEW o \in Globals
      PROVE  module'[o] = module[o] /\ \A a \in Objects(o) : heap'[a] = heap[a]
  <2>1. CASE UNCHANGED vars
    BY <2>1 DEF vars
  <2>2. CASE Next
    <3>1. PICK h \in Handlers : Elsewhere(h)
      BY <1>1, <2>2, HandlerInv DEF Next, ParseBlock, ParseFails
    <3>2. o \in Owners \ {h, Copy(h)} /\ Owns(o)
      BY <1>1, Apart DEF IInv
    <3> QED
      BY <3>1, <3>2 DEF Elsewhere, Owns, Objects
  <2> QED
    BY <1>1, <2>1, <2>2
<1>2. IInv /\ [Next]_vars =>
        [~Fresh => \A o \in Globals :
           /\ module'[o] = module[o]
           /\ \A a \in Objects(o) : heap'[a] = heap[a]]_vars
  BY <1>1
<1> QED
  BY <1>2, Invariance, PTL DEF Spec, GlobalsUntouched

=============================================================================
