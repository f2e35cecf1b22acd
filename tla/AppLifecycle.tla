---------------------------- MODULE AppLifecycle ----------------------------
(***************************************************************************)
(* What the platform promises about apps and the signing groups behind     *)
(* them, whoever asks and in whatever order: a group backs one app at most,*)
(* an app is live exactly while a group that exists backs it, and archiving*)
(* is final.  AppGroup shows how the handlers keep it.                     *)
(***************************************************************************)
CONSTANTS Apps,      \* rows the apps table may come to hold
          Groups,    \* addresses the factory may come to deploy to
          NoGroup    \* group_address IS NULL

VARIABLES
    status,    \* apps.status, "absent" before the row is inserted
    binding,   \* apps.group_address
    onChain    \* the groups the factory has created

vars == <<status, binding, onChain>>

Init ==
    /\ status = [a \in Apps |-> "absent"]
    /\ binding = [a \in Apps |-> NoGroup]
    /\ onChain = {}

Register(a) ==
    /\ status[a] = "absent"
    /\ status' = [status EXCEPT ![a] = "provisioning"]
    /\ UNCHANGED <<binding, onChain>>

Deploy(g) ==
    /\ g \notin onChain
    /\ onChain' = onChain \cup {g}
    /\ UNCHANGED <<status, binding>>

\* The first group makes an app live; a later one takes its place.
Bind(a, g) ==
    /\ status[a] \in {"provisioning", "live"}
    /\ g \in onChain
    /\ \A b \in Apps \ {a} : binding[b] # g
    /\ binding' = [binding EXCEPT ![a] = g]
    /\ status' = [status EXCEPT ![a] = "live"]
    /\ UNCHANGED onChain

Archive(a) ==
    /\ status[a] \in {"provisioning", "live"}
    /\ status' = [status EXCEPT ![a] = "archived"]
    /\ UNCHANGED <<binding, onChain>>

Next ==
    \/ \E a \in Apps : Register(a) \/ Archive(a)
    \/ \E g \in Groups : Deploy(g)
    \/ \E a \in Apps, g \in Groups : Bind(a, g)

Spec == Init /\ [][Next]_vars
=============================================================================
