---------------------------- MODULE MC_Prototype ----------------------------
(***************************************************************************)
(* The prototype of spec 4.4/6: Call(ctx context.Context, cln              *)
(* *client.Client, v Value, opts Option, ...) (Value, error).  The values  *)
(* EmitBuiltinDecl passes have these dynamic types: a context of the       *)
(* standard library (it has Done and nothing of a cancellable interface), *)
(* the client, a filesystem value, an option list.                         *)
(***************************************************************************)
EXTENDS Prototype

Context   == [name |-> "context.Context", iface |-> TRUE, methods |-> {"Done"}]
CancelCtx == [name |-> "CancelContext", iface |-> TRUE, methods |-> {"Done", "Cancel"}]
Any       == [name |-> "interface{}", iface |-> TRUE, methods |-> {}]
Client    == [name |-> "*client.Client", iface |-> FALSE, methods |-> {}]
ValueT    == [name |-> "Value", iface |-> TRUE, methods |-> {"Kind"}]
OptionT   == [name |-> "Option", iface |-> FALSE, methods |-> {}]
ErrorT    == [name |-> "error", iface |-> TRUE, methods |-> {"Error"}]
StringT   == [name |-> "string", iface |-> FALSE, methods |-> {}]
IntT      == [name |-> "int", iface |-> FALSE, methods |-> {}]

ValueCtx  == [name |-> "*context.valueCtx", iface |-> FALSE, methods |-> {"Done"}]
FSValue   == [name |-> "*filesystemValue", iface |-> FALSE, methods |-> {"Kind"}]

MCPrototypeIn == <<Context, Client, ValueT, OptionT>>
MCPrototypeOut == <<ValueT, ErrorT>>
MCDynamicTypes == {ValueCtx, Client, FSValue, OptionT}

Domains == {<<>>, <<StringT>>, <<IntT>>, <<StringT, IntT>>, <<StringT, StringT>>}
SigsWith(prefixes, outs) ==
  UNION {{[ins |-> p \o d, variadic |-> v, outs |-> o] :
            p \in prefixes, v \in IF d = <<>> THEN {FALSE} ELSE BOOLEAN, o \in outs} : d \in Domains}

(* Callables written to the prototype, as every callable of the registry  *)
(* is: the prefix and results are the prototype's own types.               *)
RepoSignatures == SigsWith({MCPrototypeIn}, {MCPrototypeOut})

(* Every signature CheckPrototype is asked about: other interfaces in the *)
(* prefix, a missing result, fewer parameters.                             *)
AnySignatures ==
  SigsWith({<<c, Client, v, OptionT>> : c \in {Context, CancelCtx, Any}, v \in {ValueT, Any}}
             \cup {<<Context, Client, ValueT>>},
           {MCPrototypeOut, <<ValueT>>})
=============================================================================
