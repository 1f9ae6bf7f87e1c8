---------------------------- MODULE LaiNamespace ----------------------------
(***************************************************************************)
(* The ACPI namespace of the LAI interpreter (lai/core/ns.c): a tree of    *)
(* nodes in which every node has a hash table of its children, and a       *)
(* global array of all installed nodes.  The operators take the namespace  *)
(*                                                                         *)
(*     ns = [node, linked, array]                                          *)
(*                                                                         *)
(* and give the node that is found, or the new namespace.  A node is named *)
(* by the number of its allocation (LAI never frees one).  The hash tables *)
(* find a child by its name: all of them together are the set `linked` of  *)
(* the nodes that are in the table of their parent.  `array` is what       *)
(* instance->ns_array holds.  A name (struct lai_amlname) is a record of   *)
(* is_absolute, height (the number of ^) and the sequence of its segments. *)
(***************************************************************************)
EXTENDS Naturals, Sequences, FiniteSets

NULL == 0
Root == 1

\* `data` depends on the type: the object of a Name, the target of an Alias, and so on.
Node(type, parent, name, data) == [type |-> type, parent |-> parent, name |-> name, data |-> data]

NoData == [type |-> "NONE"]

-----------------------------------------------------------------------------
\* The children under a name; there is at most one (LaiHashTable keeps it so).
ChildrenNamed(ns, parent, name) ==
    {n \in ns.linked : ns.node[n].parent = parent /\ ns.node[n].name = name}

lai_ns_get_child(ns, parent, name) ==
    LET found == ChildrenNamed(ns, parent, name)
    IN  IF found = {} THEN NULL ELSE CHOOSE n \in found : TRUE

\* The node `n` and its ancestors: index i is i scopes up, NULL above the root.
AncestorsOf(ns, n) ==
    LET up[i \in 0 .. Len(ns.node)] ==
          IF i = 0 THEN n ELSE IF up[i - 1] = NULL THEN NULL ELSE ns.node[up[i - 1]].parent
    IN  up

\* Where a name starts: at the root, or as many scopes up as it has ^, at most at the root.
StartOf(ns, ctx, amln) ==
    IF amln.is_absolute THEN Root
    ELSE LET up == AncestorsOf(ns, ctx)
         IN  up[CHOOSE i \in 0 .. amln.height :
                   up[i] # NULL /\ (i = amln.height \/ up[i + 1] = NULL)]

\* What a name stands for: the target of an alias.
Aliased(ns, n) == IF n # NULL /\ ns.node[n].type = "ALIAS" THEN ns.node[n].data.target ELSE n

\* From a node down along segments.
Descend(ns, start, segs) ==
    LET at[i \in 0 .. Len(segs)] ==
          IF i = 0 THEN start
          ELSE IF at[i - 1] = NULL THEN NULL ELSE lai_ns_get_child(ns, at[i - 1], segs[i])
    IN  at[Len(segs)]

\* A single segment is looked up in the scope and then in all scopes around it.
lai_resolve_search(ns, ctx, name) ==
    LET up   == AncestorsOf(ns, ctx)
        hits == {i \in DOMAIN up : up[i] # NULL /\ lai_ns_get_child(ns, up[i], name) # NULL}
    IN  IF hits = {} THEN NULL
        ELSE Aliased(ns, lai_ns_get_child(ns, up[CHOOSE i \in hits : \A j \in hits : i <= j], name))

search_scopes(amln) == ~amln.is_absolute /\ amln.height = 0 /\ Len(amln.segs) = 1

\* An alias on the way is not followed, the one at the end is.
lai_do_resolve(ns, ctx, amln) ==
    IF search_scopes(amln) THEN lai_resolve_search(ns, ctx, amln.segs[1])
    ELSE Aliased(ns, Descend(ns, StartOf(ns, ctx, amln), amln.segs))

\* lai_resolve_path() takes its paths as text; here every alias is followed and no scope
\* around the first one is searched.
lai_resolve_path(ns, ctx, amln) ==
    LET at[i \in 0 .. Len(amln.segs)] ==
          IF i = 0 THEN StartOf(ns, ctx, amln)
          ELSE IF at[i - 1] = NULL THEN NULL
               ELSE Aliased(ns, lai_ns_get_child(ns, at[i - 1], amln.segs[i]))
    IN  at[Len(amln.segs)]

\* The parent of a new node: all segments but the last, aliases followed.  NULL stands for
\* the failure of LAI_ENSURE(parent).
lai_do_resolve_new_node(ns, ctx, amln) ==
    lai_resolve_path(ns, ctx, [amln EXCEPT !.segs = SubSeq(@, 1, Len(@) - 1)])

-----------------------------------------------------------------------------
(***************************************************************************)
(* A node goes into the array first, and a node of the same name is looked *)
(* for afterwards: a duplicate stays in the array and out of the tree, and *)
(* the caller gets an error.                                               *)
(***************************************************************************)
Duplicate(ns, n) == ChildrenNamed(ns, n.parent, n.name) # {}

lai_install_nsnode(ns, n) ==
    LET id == Len(ns.node) + 1
    IN  [node   |-> Append(ns.node, n),
         array  |-> ns.array \cup {id},
         linked |-> IF Duplicate(ns, n) THEN ns.linked ELSE ns.linked \cup {id}]

\* Variant: the node stays in the table of its parent.
lai_uninstall_nsnode_ArrayOnly(ns, nodes) == [ns EXCEPT !.array = @ \ nodes]
\* Of all nodes in the set; a node that is not in the table of its parent is a panic.
lai_uninstall_nsnode(ns, nodes) ==
    [ns EXCEPT !.array = @ \ nodes, !.linked = @ \ nodes]

\* A control method; `pc` and `limit` of its code, override for the methods of the host.
Method(pc, limit, argc) == [pc |-> pc, limit |-> limit, argc |-> argc, override |-> FALSE]
HostMethod(argc) == [pc |-> 0, limit |-> 0, argc |-> argc, override |-> TRUE]

\* lai_create_root(): the root, which is not in the array, the predefined scopes and the
\* methods of the operating system.
Predefined ==
    [i \in 1 .. 5 |-> Node("DEVICE", Root, <<"_SB_", "_SI_", "_GPE", "_PR_", "_TZ_">>[i], NoData)]
    \o << Node("METHOD", Root, "_OSI", HostMethod(1)),
          Node("METHOD", Root, "_OS_", HostMethod(0)),
          Node("METHOD", Root, "_REV", HostMethod(0)) >>

lai_create_root ==
    [node   |-> << Node("ROOT", NULL, "\\___", NoData) >> \o Predefined,
     linked |-> 2 .. Len(Predefined) + 1,
     array  |-> 2 .. Len(Predefined) + 1]

-----------------------------------------------------------------------------
(* What a walk over the namespace may rely on.                             *)

\* A node in the tree is in the array that lai_ns_iterate() walks.
LinkedAreListedIn(ns) == ns.linked \subseteq ns.array
=============================================================================
