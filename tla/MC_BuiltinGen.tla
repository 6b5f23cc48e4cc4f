---------------------------- MODULE MC_BuiltinGen ----------------------------
EXTENDS BuiltinGen

(* two base kinds and an option kind, which the kind function quotes *)
MCKinds == {"string", "fs", "option::run"}
MCNames == {"image", "copy"}
MCFieldNames == {"x"}
(* a plain character, one html/template rewrites, and the backquote *)
MCChars == {"a", "<", BT}
=============================================================================
