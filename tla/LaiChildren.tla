---------------------------- MODULE LaiChildren -----------------------------
(***************************************************************************)
(* What the table of the children of a namespace node promises to the rest *)
(* of LAI (lai_install_nsnode(), lai_uninstall_nsnode(),                   *)
(* lai_ns_get_child(), lai_ns_child_iterate() of lai/core/ns.c): it is a   *)
(* set of nodes with different names, and a walk over it gives every node  *)
(* once, although the AML code that the caller evaluates between two steps *)
(* of the walk installs and uninstalls children of the same node.          *)
(***************************************************************************)
CONSTANTS
    Nodes,          \* the nodes that may become children, by allocation
    NameOf,         \* their names
    NULL            \* no node

VARIABLES
    children,       \* the installed nodes
    walking,        \* whether a walk is under way
    pending,        \* the nodes that the walk has still to give
    answer          \* what the last call returned

vars == <<children, walking, pending, answer>>

Named(name) == {n \in children : NameOf[n] = name}

Init == children = {} /\ walking = FALSE /\ pending = {} /\ answer = NULL

\* A node whose name is taken is refused.  A new node may or may not come up in the walk.
Install(n) ==
    /\ n \notin children
    /\ IF Named(NameOf[n]) # {}
       THEN /\ answer' = "LAI_ERROR_UNEXPECTED_RESULT"
            /\ UNCHANGED <<children, pending>>
       ELSE /\ answer' = "LAI_ERROR_NONE"
            /\ children' = children \cup {n}
            /\ pending' \in IF walking THEN {pending, pending \cup {n}} ELSE {{}}
    /\ UNCHANGED walking

\* A node that is gone never comes up.
Uninstall(n) ==
    /\ n \in children
    /\ children' = children \ {n}
    /\ pending' = pending \ {n}
    /\ UNCHANGED <<walking, answer>>

GetChild(name) ==
    /\ answer' \in IF Named(name) = {} THEN {NULL} ELSE Named(name)
    /\ UNCHANGED <<children, walking, pending>>

StartWalk ==
    /\ ~walking
    /\ walking' = TRUE
    /\ pending' = children
    /\ UNCHANGED <<children, answer>>

\* The walk ends when nothing is pending, and not before.
WalkNext ==
    /\ walking
    /\ IF pending = {}
       THEN answer' = NULL /\ walking' = FALSE /\ pending' = {}
       ELSE /\ answer' \in pending
            /\ pending' = pending \ {answer'}
            /\ UNCHANGED walking
    /\ UNCHANGED children

Next ==
    \/ \E n \in Nodes : Install(n) \/ Uninstall(n) \/ GetChild(NameOf[n])
    \/ StartWalk
    \/ WalkNext

Spec == Init /\ [][Next]_vars
=============================================================================
