--------------------------- MODULE LoggerRegistry ---------------------------
(***************************************************************************)
(* What the logger tree promises about names: under a given logger a name  *)
(* is given one fresh logger, once, and everybody who asks for it, at any  *)
(* time, is handed that logger.  Nothing is said about locks, about the    *)
(* manager's own map, or about who asks.                                   *)
(*                                                                         *)
(* This is what getOrCreateInternalSubLogger does, what its callers and    *)
(* the tests rely on (logger_test.go:57-66) and what manager.go:33 says;   *)
(* the interface comment of GetOrCreateSubLogger (logger.go:17) says that  *)
(* who asks again is handed nil, which is not what is specified here.      *)
(***************************************************************************)
CONSTANTS Key,        \* a parent logger and a name
          LoggerId, None

VARIABLES
    registry,   \* the logger of each key, None before it is created
    handed      \* the answers given so far, as pairs of key and logger

vars == <<registry, handed>>

Init ==
    /\ registry \in [Key -> LoggerId \cup {None}]
    /\ handed = {}

Create(k, id) ==
    /\ registry[k] = None
    /\ \A j \in Key: registry[j] # id
    /\ registry' = [registry EXCEPT ![k] = id]
    /\ UNCHANGED handed

Answer(k) ==
    /\ registry[k] # None
    /\ handed' = handed \cup {<<k, registry[k]>>}
    /\ UNCHANGED registry

Next == \E k \in Key: Answer(k) \/ \E id \in LoggerId: Create(k, id)

Spec == Init /\ [][Next]_vars
=============================================================================
