------------------------------ MODULE Prototype ------------------------------
(***************************************************************************)
(* The callable registry's signature check and the reflective call of a    *)
(* builtin (src/codegen/codegen.go: initCallables, CheckPrototype, and    *)
(* EmitBuiltinDecl from the arity check to c.Call).                        *)
(*                                                                         *)
(* Go types are records [name, iface, methods]: an interface type is its  *)
(* method set, a concrete type has a method set it implements.  A         *)
(* signature lists the parameter types of the callable's Call method; when *)
(* it is variadic its last entry is the element type of the variadic      *)
(* slice (what In(numIn).Elem() gives).  An argument Value is its kind,   *)
(* and Value.Reflect(param) succeeds when the kind names the type.        *)
(*                                                                         *)
(* One callable is followed: init checks it against the prototype (and    *)
(* the program panics at init if it fails); then one call of the builtin  *)
(* with the arguments the checker let through reflects them and calls it. *)
(***************************************************************************)
EXTENDS Naturals, Sequences

CONSTANTS
  PrototypeIn,    \* the parameter types of Prototype.Call after the receiver
  PrototypeOut,   \* its result types
  Signatures,     \* the signatures callables in the registry may have
  DynamicTypes,   \* the concrete types of the values EmitBuiltinDecl passes
  ArgKinds,       \* the kinds of argument values
  MaxArgs         \* the most arguments a call has

VARIABLES
  sig,     \* the callable's Call signature: [ins, variadic, outs]
  args,    \* the argument kinds of the call
  phase,   \* "init", "registered", "rejected", "error", "call", "returned", "panic"
  ins      \* the reflect.Values handed to c.Call, by their dynamic types

vars == <<sig, args, phase, ins>>

Implements(t, i) == i.iface /\ i.methods \subseteq t.methods

(* reflect's assignability of a value of dynamic type t to a parameter p *)
AssignableTo(t, p) == t = p \/ Implements(t, p)

(* a parameter of the callable conforms to the prototype's: the test of   *)
(* CheckPrototype, for inputs and outputs alike                           *)
Conforms(param, proto) ==
  ~((param.iface /\ ~Implements(param, proto)) \/ (~param.iface /\ param # proto))

CheckPrototype(s) ==
  /\ Len(s.ins) >= Len(PrototypeIn)
  /\ Len(s.outs) = Len(PrototypeOut)
  /\ \A i \in 1..Len(PrototypeIn) : Conforms(s.ins[i], PrototypeIn[i])
  /\ \A i \in 1..Len(PrototypeOut) : Conforms(s.outs[i], PrototypeOut[i])

Reflect(kind, param) == param.name = kind

(* The domain arguments, reflected in order: the regular parameters, then *)
(* the variadic tail, each against its parameter; or the first error.      *)
NumIn(s) == IF s.variadic THEN Len(s.ins) - 1 ELSE Len(s.ins)
(* Variant: the receiver counted as a parameter. *)
ExpectedWithReceiver(s) == NumIn(s) - Len(PrototypeIn) - 1

Expected(s) == NumIn(s) - Len(PrototypeIn)
ParamOf(s, j) == IF j <= Expected(s) THEN s.ins[Len(PrototypeIn) + j] ELSE s.ins[Len(s.ins)]
Reflected(s, as) ==
  LET n == IF s.variadic THEN Len(as) ELSE Expected(s)
  IN [j \in 1..n |-> ParamOf(s, j)]

(* reflect.Value.Call panics unless the values match the signature in     *)
(* number and are each assignable to their parameter.                      *)
CallPanics(s, vs) ==
  \/ ~s.variadic /\ Len(vs) # Len(s.ins)
  \/ s.variadic /\ Len(vs) < Len(s.ins) - 1
  \/ \E j \in DOMAIN vs :
       ~AssignableTo(vs[j], IF j < Len(s.ins) \/ ~s.variadic THEN s.ins[j] ELSE s.ins[Len(s.ins)])

-----------------------------------------------------------------------------
Init ==
  /\ sig \in Signatures
  /\ args \in UNION {[1..n -> ArgKinds] : n \in 0..MaxArgs}
  /\ phase = "init"
  /\ ins = <<>>

(* init(): initCallables checks every callable and panics on any failure. *)
InitCallables ==
  /\ phase = "init"
  /\ phase' = IF CheckPrototype(sig) THEN "registered" ELSE "rejected"
  /\ UNCHANGED <<sig, args, ins>>

(* Variant: the argument Values are passed without Reflect. *)
EmitBuiltinDeclUnreflected ==
  /\ phase = "registered"
  /\ IF \/ Len(args) < Expected(sig)
        \/ \E j \in DOMAIN Reflected(sig, args) : ~Reflect(args[j], Reflected(sig, args)[j])
       THEN /\ phase' = "error"
            /\ UNCHANGED ins
       ELSE /\ phase' = "call"
            /\ \E pre \in [1..Len(PrototypeIn) -> DynamicTypes] :
                 /\ \A i \in 1..Len(PrototypeIn) : AssignableTo(pre[i], PrototypeIn[i])
                 /\ ins' = pre \o [j \in DOMAIN args |->
                                      [name |-> "*" \o args[j] \o "Value", iface |-> FALSE,
                                       methods |-> {"Kind"}]]
  /\ UNCHANGED <<sig, args>>

(* EmitBuiltinDecl from the arity check to the call: too few arguments or *)
(* a failed Reflect is an error; otherwise the prototype values (ctx, the *)
(* client, the incoming value, the options), of any dynamic type the     *)
(* code may hold, are followed by the reflected arguments.                 *)
EmitBuiltinDecl ==
  /\ phase = "registered"
  /\ IF \/ Len(args) < Expected(sig)
        \/ \E j \in DOMAIN Reflected(sig, args) : ~Reflect(args[j], Reflected(sig, args)[j])
       THEN /\ phase' = "error"
            /\ UNCHANGED ins
       ELSE /\ phase' = "call"
            /\ \E pre \in [1..Len(PrototypeIn) -> DynamicTypes] :
                 /\ \A i \in 1..Len(PrototypeIn) : AssignableTo(pre[i], PrototypeIn[i])
                 /\ ins' = pre \o Reflected(sig, args)
  /\ UNCHANGED <<sig, args>>

(* outs := c.Call(ins) *)
Call ==
  /\ phase = "call"
  /\ phase' = IF CallPanics(sig, ins) THEN "panic" ELSE "returned"
  /\ UNCHANGED <<sig, args, ins>>

Finished ==
  /\ phase \in {"rejected", "error", "returned", "panic"}
  /\ UNCHANGED vars

Next == InitCallables \/ EmitBuiltinDecl \/ Call \/ Finished

Spec == Init /\ [][Next]_vars

-----------------------------------------------------------------------------
TypeOK ==
  /\ sig \in Signatures
  /\ phase \in {"init", "registered", "rejected", "error", "call", "returned", "panic"}
  /\ ins \in Seq(DynamicTypes \cup UNION {{s.ins[i] : i \in DOMAIN s.ins} : s \in Signatures})

(* Prototype conformance (spec 4.4, 8.7): a callable that init accepted is     *)
(* never called by EmitBuiltinDecl in a way that makes reflect's Call     *)
(* panic, whatever arguments the checker let through.                      *)
NoPanicAtCall == phase # "panic"

=============================================================================
