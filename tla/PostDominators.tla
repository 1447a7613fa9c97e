--------------------------- MODULE PostDominators ---------------------------
(***************************************************************************)
(* compute_postdominators of src/graph/analysis/post_dominator.rs: the     *)
(* fixed point that intersects the sets of the successors, one node after  *)
(* the other, until a round changes nothing.  The callers pass node_set as *)
(* the set of nodes; exit_set is any set.                                  *)
(***************************************************************************)
EXTENDS Naturals, Sequences

CONSTANTS
    Node,
    Inputs      \* the arguments: records of succ, nodes and exit_set

ASSUME InputsAssumption ==
    Inputs \subseteq [succ : [Node -> SUBSET Node], nodes : Seq(Node), exit_set : SUBSET Node]

VARIABLES
    input,
    pdom,
    changed,
    at          \* the position in nodes of the inner loop

postVars == <<input, pdom, changed, at>>

nodes == input.nodes
node_set == {nodes[i] : i \in 1 .. Len(nodes)}
exit_set == input.exit_set

intersect_sets(sets) == {p \in UNION sets : \A s \in sets : p \in s}

successors(n) == input.succ[n] \cap node_set

updated(n) == {n} \cup intersect_sets({pdom[s] : s \in successors(n)})

-----------------------------------------------------------------------------
\* Fault: every set starts with its node only.
PostInitLow ==
    /\ input \in Inputs
    /\ pdom = [n \in node_set |-> {n}]
    /\ changed = FALSE
    /\ at = 1

\* The sets before the loop, and the entry of its first round.
PostInit ==
    /\ input \in Inputs
    /\ pdom = [n \in node_set |-> IF n \in exit_set THEN {n} ELSE node_set]
    /\ changed = FALSE
    /\ at = 1

\* Fault: an exit is not skipped.
SkipExitNot ==
    /\ at <= Len(nodes)
    /\ nodes[at] \in exit_set
    /\ pdom' = [pdom EXCEPT ![nodes[at]] = updated(nodes[at])]
    /\ changed' = (changed \/ updated(nodes[at]) # pdom[nodes[at]])
    /\ at' = at + 1
    /\ UNCHANGED input

SkipExit ==
    /\ at <= Len(nodes)
    /\ nodes[at] \in exit_set
    /\ at' = at + 1
    /\ UNCHANGED <<input, pdom, changed>>

\* Fault: a round that visits a node counts as a change.
UpdateAlways ==
    /\ at <= Len(nodes)
    /\ nodes[at] \notin exit_set
    /\ pdom' = [pdom EXCEPT ![nodes[at]] = updated(nodes[at])]
    /\ changed' = TRUE
    /\ at' = at + 1
    /\ UNCHANGED input

\* Fault: the flag only tells of the last node.
UpdateLast ==
    /\ at <= Len(nodes)
    /\ nodes[at] \notin exit_set
    /\ pdom' = [pdom EXCEPT ![nodes[at]] = updated(nodes[at])]
    /\ changed' = (updated(nodes[at]) # pdom[nodes[at]])
    /\ at' = at + 1
    /\ UNCHANGED input

Update ==
    /\ at <= Len(nodes)
    /\ nodes[at] \notin exit_set
    /\ pdom' = [pdom EXCEPT ![nodes[at]] = updated(nodes[at])]
    /\ changed' = (changed \/ updated(nodes[at]) # pdom[nodes[at]])
    /\ at' = at + 1
    /\ UNCHANGED input

NextRound ==
    /\ at > Len(nodes)
    /\ changed
    /\ changed' = FALSE
    /\ at' = 1
    /\ UNCHANGED <<input, pdom>>

PostNext == SkipExit \/ Update \/ NextRound

\* One call, which nothing interrupts.
PostSpec == PostInit /\ [][PostNext]_postVars /\ WF_postVars(PostNext)

Returned == at > Len(nodes) /\ ~changed

-----------------------------------------------------------------------------
(* Post-dominance by paths.                                                *)

\* Where the paths of the code end: in an exit, or where they cannot go on.  The
\* definition at post_dominator.rs:4-5 speaks of "every path from `n` to any exit":
\* by it a dead end outside exit_set would end no path.
Ends == {n \in node_set : n \in exit_set \/ successors(n) = {}}

\* The nodes with a path to a node of To without a node of Off; the path does
\* not go on from an end.
Reaching(To, Off) ==
    LET closed == {S \in SUBSET node_set :
                      /\ To \cap node_set \subseteq S \cup Off
                      /\ \A m \in node_set \ (Ends \cup Off \cup S) : successors(m) \cap S = {}}
    IN {n \in node_set : \A S \in closed : n \in S}

\* At every moment a set holds all the post-dominators of its node.
NeverTooSmall ==
    \A p \in node_set : \A n \in node_set \ Reaching(Ends, {p}) : p \in pdom[n]

TypeOK == /\ input \in Inputs
          /\ pdom \in [node_set -> SUBSET node_set]
          /\ \A n \in node_set : n \in pdom[n]
          /\ changed \in BOOLEAN
          /\ at \in 1 .. Len(nodes) + 1

\* The returned sets are the post-dominators: p lies on every path from n to an
\* end.  A node that reaches no end has every node.  Against post_dominator.rs:6,
\* "Exit nodes post-dominate only themselves.", an exit is in the set of each node
\* whose paths all pass through it, as an only exit is; its own set holds only it.
PostDominanceExact ==
    Returned => \A p \in node_set : {n \in node_set : p \in pdom[n]} = node_set \ Reaching(Ends, {p})

\* No step of a round makes a set larger, whatever the order of the nodes.
OnlyShrink == [][\A n \in node_set : pdom'[n] \subseteq pdom[n]]_postVars

\* The loop ends, on cyclic graphs and for nodes that reach no exit too.
Returns == <>Returned

=============================================================================
