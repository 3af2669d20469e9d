----------------------------- MODULE PluginRpc -----------------------------
(***************************************************************************)
(* What the plugin protocol promises the program loader: a call asks for   *)
(* the service code of one file and is answered once, with the code made   *)
(* from that file.  The service may stop at any time, and then no call is  *)
(* answered any more; but it ends regularly only between calls.            *)
(***************************************************************************)
CONSTANTS Callers, Files, None

VARIABLES
    wanted,     \* the file each caller asks for
    asked,      \* callers whose call was made
    got,        \* the file each caller's code was made from, None before
    service     \* "starting" | "up" | "stopped" | "ended"

rpcVars == <<wanted, asked, got, service>>

Init ==
    /\ wanted \in [Callers -> Files]
    /\ asked = {}
    /\ got = [c \in Callers |-> None]
    /\ service = "starting"

Start ==
    /\ service = "starting"
    /\ service' = "up"
    /\ UNCHANGED <<wanted, asked, got>>

Ask(c) ==
    /\ service = "up" /\ c \notin asked
    /\ asked' = asked \cup {c}
    /\ UNCHANGED <<wanted, got, service>>

Answer(c) ==
    /\ service = "up" /\ c \in asked /\ got[c] = None
    /\ got' = [got EXCEPT ![c] = wanted[c]]
    /\ UNCHANGED <<wanted, asked, service>>

Stop ==
    /\ service \in {"starting", "up"}
    /\ service' = "stopped"
    /\ UNCHANGED <<wanted, asked, got>>

End ==
    /\ service = "up" /\ \A c \in asked : got[c] # None
    /\ service' = "ended"
    /\ UNCHANGED <<wanted, asked, got>>

Next ==
    \/ Start \/ Stop \/ End
    \/ \E c \in Callers : Ask(c) \/ Answer(c)

(* What the service may do, whether or not it ever does anything.          *)
SafeSpec == Init /\ [][Next]_rpcVars

(* The service comes up or fails, and every call made is answered unless   *)
(* the service stops.                                                      *)
Spec ==
    /\ SafeSpec
    /\ WF_rpcVars(Start \/ (service = "starting" /\ Stop))
    /\ \A c \in Callers : WF_rpcVars(Answer(c))
=============================================================================
