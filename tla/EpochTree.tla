----------------------------- MODULE EpochTree -----------------------------
(***************************************************************************)
(* How append_observation computes the observation root from a frontier of *)
(* left siblings, against the complete tree over the leaves in order.      *)
(* Hashes are symbolic: a leaf, an empty leaf and a node never collide.    *)
(***************************************************************************)
EXTENDS Integers, Sequences, SequencesExt

CONSTANTS
    Transcripts,   \* transcript hashes
    Depth          \* EPOCH_TREE_DEPTH, 16

TreeConstants == Depth \in Nat \ {0}

VARIABLES
    tree,          \* DeviceEpoch: independent_observers, frontier and observation_root
    leaves         \* history: the transcripts in order

treeVars == <<tree, leaves>>

Empty == <<"empty">>
Unset == <<"unset">>                 \* [0; 32]
Leaf(t) == <<"leaf", t>>
Node(l, r) == <<"node", l, r>>

\* 1 << level, and n >> level
Power[level \in 0 .. Depth] == IF level = 0 THEN 1 ELSE 2 * Power[level - 1]
Shifted(n) == LET half[level \in 0 .. Depth] == IF level = 0 THEN n ELSE half[level - 1] \div 2 IN half

MaxCount == Power[Depth] - 1         \* u16::MAX at depth 16

EmptyTree == [count |-> 0, frontier |-> [i \in 0 .. Depth - 1 |-> Unset], root |-> Unset]

BitIsClear(n, level) == Shifted(n)[level] % 2 = 0

\* One level: a left child is kept in the frontier, a right one joins it.
Climb(state, level) ==
    LET left == BitIsClear(state.count, level) IN
    [count |-> state.count,
     node |-> IF left THEN Node(state.node, state.zero) ELSE Node(state.frontier[level], state.node),
     zero |-> Node(state.zero, state.zero),
     frontier |-> IF left THEN [state.frontier EXCEPT ![level] = state.node] ELSE state.frontier]

\* The climb from a new leaf, level by level.
Path(t, state) ==
    LET up[level \in 0 .. Depth] ==
            IF level = 0
            THEN [count |-> state.count, node |-> Leaf(t), zero |-> Empty, frontier |-> state.frontier]
            ELSE Climb(up[level - 1], level - 1)
    IN up

\* appendObservationTree and append_observation: the tree with one more leaf.
Appended(t, state) ==
    LET top == Path(t, state)[Depth]
    IN [count |-> state.count + 1, frontier |-> top.frontier, root |-> top.node]

TreeInit == tree = EmptyTree /\ leaves = <<>>

\* append_observation
AppendLeaf(t) ==
    /\ tree.count < MaxCount
    /\ tree' = Appended(t, tree)
    /\ leaves' = Append(leaves, t)

-----------------------------------------------------------------------------
\* The complete tree: the nodes of every level by index, from the leaves alone.
Nodes(order) ==
    LET tier[level \in 0 .. Depth] ==
            IF level = 0
            THEN [i \in Nat |-> IF i < Len(order) THEN Leaf(order[i + 1]) ELSE Empty]
            ELSE [i \in Nat |-> Node(tier[level - 1][2 * i], tier[level - 1][2 * i + 1])]
    IN tier

Complete(order) == Nodes(order)[Depth][0]

\* After every append, up to the last one the counter allows, the root is the
\* complete tree's: observers and their order can be recomputed from the
\* commitments, although the program keeps only one node per level.
FrontierRoot ==
    /\ tree.count = Len(leaves)
    /\ tree.count > 0 => tree.root = Complete(leaves)
=============================================================================
