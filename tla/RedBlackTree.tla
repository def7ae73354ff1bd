---------------------------- MODULE RedBlackTree ----------------------------
(***************************************************************************)
(* The red-black tree of the library (rbt.c, taken from ION), which holds  *)
(* contacts, ranges and nodes, with the loop of the sweeps that delete     *)
(* while they walk (remove_expired_contacts, remove_expired_ranges).       *)
(*                                                                         *)
(* Insertion and deletion go once from the root down and rebalance on the  *)
(* way: one action is one turn of their loop.  Between calls a node bears  *)
(* the name of the entry it holds, which is sound because nobody keeps the *)
(* address of a node from one call to the next, except a sweep, whose next *)
(* node is followed through the renaming.                                  *)
(***************************************************************************)
EXTENDS Integers, FiniteSets, TLC

CONSTANT Key        \* the entries; a smaller number is an entry that compares less

ASSUME RedBlackTreeAssumption == Key \subseteq Nat \ {0}

NULL == 0
DUMMY == -1         \* dummyRootBuffer
LEFT == 0
RIGHT == 1
Side == {LEFT, RIGHT}

VARIABLES nodes,    \* the allocated nodes and, during a call, the dummy root
          root,     \* Rbt.root
          length,   \* Rbt.length
          call,     \* the call that runs and its local variables
          walk,     \* a sweep: the next node, and the entries it has kept so far
          torn      \* an insertion found no memory: the tree may only be cleared

vars == <<nodes, root, length, call, walk, torn>>

NoCall == [op |-> "none"]
NoWalk == [on |-> FALSE, next |-> NULL, kept |-> {}]

NewNode(parent, data, red) ==
  [parent |-> parent, child |-> [s \in Side |-> NULL], data |-> data, isRed |-> red]

NoNode == [n \in {} |-> NewNode(NULL, NULL, FALSE)]

Init ==
  /\ nodes = NoNode /\ root = NULL /\ length = 0
  /\ call = NoCall /\ walk = NoWalk /\ torn = FALSE

-----------------------------------------------------------------------------
(* Nodes *)

\* nodeIsRed: no node is black.
IsRed(t, n) == n # NULL /\ n \in DOMAIN t /\ t[n].isRed

SetChild(t, n, side, child) == [t EXCEPT ![n].child[side] = child]

Paint(t, reds, blacks) ==
  [n \in DOMAIN t |-> IF n \in reds \cup blacks THEN [t[n] EXCEPT !.isRed = n \in reds] ELSE t[n]]

Children(t, n) == {t[n].child[s] : s \in Side} \ {NULL}

\* Wrong on purpose: the subtree that changes sides keeps its old parent.
RotateOnceOrphaned(t, top, direction) ==
  LET pivot == t[top].child[1 - direction]
      orphan == t[pivot].child[direction]
  IN  [t EXCEPT ![pivot].parent = t[top].parent, ![pivot].child[direction] = top,
                ![pivot].isRed = FALSE, ![top].parent = pivot,
                ![top].child[1 - direction] = orphan, ![top].isRed = TRUE]

\* rotateOnce: the new top of the subtree is the pivot, and its parent does not know yet.
RotateOnce(t, top, direction) ==
  LET pivot == t[top].child[1 - direction]
      orphan == t[pivot].child[direction]
      turned == [t EXCEPT ![pivot].parent = t[top].parent, ![pivot].child[direction] = top,
                          ![pivot].isRed = FALSE, ![top].parent = pivot,
                          ![top].child[1 - direction] = orphan, ![top].isRed = TRUE]
  IN  IF orphan = NULL THEN turned ELSE [turned EXCEPT ![orphan].parent = top]

\* A rotation of the subtree below above at side, and the new child of above.
RotateBelow(t, above, side, direction) ==
  LET top == t[above].child[side]
  IN  SetChild(RotateOnce(t, top, direction), above, side, t[top].child[1 - direction])

\* rotateTwice below above at side
RotateTwiceBelow(t, above, side, direction) ==
  LET top == t[above].child[side]
  IN  RotateBelow(RotateBelow(t, top, 1 - direction, 1 - direction), above, side, direction)

SideOf(t, above, n) == IF t[above].child[RIGHT] = n THEN RIGHT ELSE LEFT

-----------------------------------------------------------------------------
(* The beginning and the end of a call *)

DANGLING == -2      \* an address that no allocated node has

Named(t, n) == IF n \in DOMAIN t THEN t[n].data ELSE IF n = NULL THEN NULL ELSE DANGLING

WithDummy == nodes @@ (DUMMY :> [NewNode(NULL, NULL, FALSE) EXCEPT !.child[RIGHT] = root])

\* "Make sure the root node is black."
Blackened(t, top) == IF top = NULL THEN t ELSE [t EXCEPT ![top].isRed = FALSE]

\* The dummy root is left and the new root recorded; here each node also takes the name
\* of the entry it holds now.
Settle(t) ==
  \E top \in {t[DUMMY].child[RIGHT]} :
  \E tree \in {[n \in DOMAIN t \ {DUMMY} |-> Blackened(t, top)[n]]} :
    /\ nodes' = [k \in {tree[n].data : n \in DOMAIN tree} |->
         LET n == tree[CHOOSE m \in DOMAIN tree : tree[m].data = k]
         IN  [n EXCEPT !.parent = Named(tree, @),
                       !.child = [s \in Side |-> Named(tree, n.child[s])]]]
    /\ root' = Named(tree, top)
    /\ walk' = [walk EXCEPT !.next = Named(tree, @)]
    /\ call' = NoCall

Idle == call = NoCall /\ ~ walk.on /\ ~ torn

-----------------------------------------------------------------------------
(* rbt_insert *)

\* The callers insert what they did not find.
Insert(k) ==
  /\ Idle /\ k \notin DOMAIN nodes
  /\ nodes' = WithDummy
  /\ call' = [op |-> "insert", data |-> k, greatgrandparent |-> DUMMY, grandparent |-> NULL,
              parent |-> NULL, node |-> root, direction |-> LEFT, prevDirection |-> LEFT]
  /\ UNCHANGED <<root, length, walk, torn>>

\* An empty tree needs no descent.
InsertFirst ==
  /\ call.op = "insert" /\ root = NULL
  /\ nodes' = call.data :> NewNode(NULL, call.data, FALSE)
  /\ root' = call.data /\ length' = 1
  /\ call' = NoCall
  /\ UNCHANGED <<walk, torn>>

\* The new leaf is hung in, or the red of two children goes up to their parent.
PlacedOrFlipped(t, n) ==
  IF call.node = NULL
  THEN SetChild(t @@ (n :> NewNode(call.parent, call.data, TRUE)), call.parent, call.direction, n)
  ELSE IF IsRed(t, t[n].child[LEFT]) /\ IsRed(t, t[n].child[RIGHT])
  THEN Paint(t, {n}, Children(t, n))
  ELSE t

\* "Look for a newly introduced red violation; if present, fix it."
RedViolationFixed(t, n) ==
  LET above == call.greatgrandparent
      subtree == SideOf(t, above, call.grandparent)
  IN  IF ~ (IsRed(t, call.parent) /\ IsRed(t, n)) THEN t
      ELSE IF t[call.parent].child[call.prevDirection] = n
      THEN RotateBelow(t, above, subtree, 1 - call.prevDirection)
      ELSE RotateTwiceBelow(t, above, subtree, 1 - call.prevDirection)

\* One turn of the loop.
InsertStep ==
  /\ call.op = "insert" /\ root # NULL
  /\ \E n \in {IF call.node = NULL THEN call.data ELSE call.node} :
     \E t \in {RedViolationFixed(PlacedOrFlipped(nodes, n), n)} :
       LET next == IF t[n].data < call.data THEN RIGHT ELSE LEFT
       IN  IF t[n].data = call.data
           THEN Settle(t) /\ length' = length + 1 /\ UNCHANGED torn
           ELSE /\ nodes' = t
                /\ call' = [call EXCEPT
                     !.greatgrandparent = IF call.grandparent # NULL THEN call.grandparent ELSE @,
                     !.grandparent = call.parent, !.parent = n, !.node = t[n].child[next],
                     !.direction = next, !.prevDirection = call.direction]
                /\ UNCHANGED <<root, length, walk, torn>>

\* createNode finds no memory: what the descent has rotated so far stays, and the root is
\* not recorded.  The error is a fatal one, after which the instance is closed.
InsertFails ==
  /\ call.op = "insert" /\ call.node = NULL
  /\ nodes' = [n \in DOMAIN nodes \ {DUMMY} |-> nodes[n]]
  /\ call' = NoCall /\ torn' = (root # NULL)
  /\ UNCHANGED <<root, length, walk>>

-----------------------------------------------------------------------------
(* rbt_delete *)

BeginDelete(k) ==
  IF root = NULL THEN UNCHANGED <<nodes, call>>
  ELSE /\ nodes' = WithDummy
       /\ call' = [op |-> "delete", data |-> k, grandparent |-> NULL, parent |-> NULL,
                   node |-> DUMMY, target |-> NULL, direction |-> RIGHT]

Delete(k) ==
  /\ Idle
  /\ BeginDelete(k)
  /\ UNCHANGED <<root, length, walk, torn>>

\* The sibling has a red child: the subtree of the parent turns, and its new top is red
\* with black children.
BorrowedRed(t, parent, grandparent, sibling, n, side) ==
  LET subtree == SideOf(t, grandparent, parent)
      turned == IF IsRed(t, t[sibling].child[side])
                THEN RotateTwiceBelow(t, grandparent, subtree, side)
                ELSE RotateBelow(t, grandparent, subtree, side)
      top == turned[grandparent].child[subtree]
  IN  Paint(turned, {top, n} \ Children(turned, top), Children(turned, top))

\* Wrong on purpose: equal goes right, and the successor replaces what is deleted.
DirectionPastEqual(t, n) == IF t[n].data <= call.data THEN RIGHT ELSE LEFT

\* Past the entry looked for the descent goes on to its predecessor.
Direction(t, n) == IF t[n].data < call.data THEN RIGHT ELSE LEFT

\* One turn of the loop: down one node, which is red or gets red, or has a red child in
\* the direction the descent takes.
DeleteStep ==
  LET side == call.direction
      parent == call.node
      n == nodes[parent].child[side]
      next == Direction(nodes, n)
      red == nodes[n].child[1 - next]
      sibling == nodes[parent].child[1 - side]
      Go(t, above) ==
        /\ nodes' = t
        /\ call' = [call EXCEPT !.grandparent = call.parent, !.parent = above, !.node = n,
                                !.direction = next,
                                !.target = IF nodes[n].data = call.data THEN n ELSE @]
  IN  /\ call.op = "delete" /\ n # NULL
      /\ CASE IsRed(nodes, n) \/ IsRed(nodes, nodes[n].child[next]) -> Go(nodes, parent)
           [] OTHER ->
              CASE IsRed(nodes, red) -> Go(RotateBelow(nodes, parent, side, next), red)
                [] ~ IsRed(nodes, red) /\ sibling = NULL -> Go(nodes, parent)
                [] ~ IsRed(nodes, red) /\ sibling # NULL ->
                     IF \A c \in Children(nodes, sibling) : ~ IsRed(nodes, c)
                     THEN Go(Paint(nodes, {sibling, n}, {parent}), parent)
                     ELSE Go(BorrowedRed(nodes, parent, call.parent, sibling, n, side), parent)
      /\ UNCHANGED <<root, length, walk, torn>>

\* "Must make its parent forget about it": the only child, if any, takes its place.
Unhooked(t, last) ==
  SetChild(t, call.parent, SideOf(t, call.parent, last),
           t[last].child[IF t[last].child[LEFT] = NULL THEN RIGHT ELSE LEFT])

\* Wrong on purpose: the data stay where they are.
MovedNot(t, last) == t

\* The target takes the entry of the last node, its predecessor.
Moved(t, last) == [t EXCEPT ![call.target].data = t[last].data]

\* Past the end of the descent, whose last node is freed.
DeleteEnd ==
  LET last == call.node
      tree == Moved(Unhooked(nodes, last), last)
  IN  /\ call.op = "delete" /\ nodes[last].child[call.direction] = NULL
      /\ IF call.target = NULL
         THEN Settle(nodes) /\ UNCHANGED length
         ELSE /\ Settle([n \in DOMAIN nodes \ {last} |-> tree[n]])
              /\ length' = length - 1
      /\ UNCHANGED torn

-----------------------------------------------------------------------------
(* rbt_clear *)

\* The length is not reset.
Clear ==
  /\ call = NoCall /\ ~ walk.on /\ root # NULL
  /\ call' = [op |-> "clear", node |-> root]
  /\ UNCHANGED <<nodes, root, length, walk, torn>>

\* "Erase the child pointer for the child that has now been deleted."
Forgotten(n) ==
  [m \in DOMAIN nodes \ {n} |->
     [nodes[m] EXCEPT !.child = [s \in Side |-> IF m = nodes[n].parent /\ @[s] = n
                                                THEN NULL ELSE @[s]]]]

Below(n) == IF nodes[n].child[LEFT] # NULL THEN nodes[n].child[LEFT] ELSE nodes[n].child[RIGHT]

\* destroyRbtNodes: down to a leaf, which is freed, and back to its parent.
ClearStep ==
  LET n == call.node
      parent == nodes[n].parent
  IN  /\ call.op = "clear"
      /\ IF Below(n) # NULL
         THEN call' = [call EXCEPT !.node = Below(n)] /\ UNCHANGED <<nodes, root, torn>>
         ELSE /\ nodes' = Forgotten(n)
              /\ call' = IF parent = NULL THEN NoCall ELSE [call EXCEPT !.node = parent]
              /\ root' = IF parent = NULL THEN NULL ELSE root
              /\ torn' = (torn /\ parent # NULL)
      /\ UNCHANGED <<length, walk>>

-----------------------------------------------------------------------------
(* Reading *)

\* rbt_first, rbt_last: the last node to one side of n's subtree
Extreme(n, side) ==
  LET to[m \in DOMAIN nodes] ==
        IF nodes[m].child[side] = NULL THEN m ELSE to[nodes[m].child[side]]
  IN  IF n = NULL THEN NULL ELSE to[n]

First == Extreme(root, LEFT)
Last == Extreme(root, RIGHT)

\* traverseRbt: rbt_next to the right, rbt_prev to the left
Traverse(n, side) ==
  LET up[m \in DOMAIN nodes] ==
        LET p == nodes[m].parent
        IN  IF p = NULL \/ nodes[p].child[1 - side] = m THEN p ELSE up[p]
  IN  IF nodes[n].child[side] = NULL THEN up[n] ELSE Extreme(nodes[n].child[side], 1 - side)

\* rbt_search: the node that holds k, or none and the node after it
Search(k) ==
  LET down[m \in DOMAIN nodes] ==
        LET side == IF m < k THEN RIGHT ELSE LEFT
            child == nodes[m].child[side]
        IN  IF m = k THEN [node |-> m, successor |-> NULL]
            ELSE IF child # NULL THEN down[child]
            ELSE [node |-> NULL, successor |-> IF side = LEFT THEN m ELSE Traverse(m, RIGHT)]
  IN  IF root = NULL THEN [node |-> NULL, successor |-> NULL] ELSE down[root]

-----------------------------------------------------------------------------
(* A sweep: the loop of remove_expired_contacts and remove_expired_ranges *)

SweepBegin ==
  /\ Idle
  /\ walk' = [on |-> TRUE, next |-> First, kept |-> {}]
  /\ UNCHANGED <<nodes, root, length, call, torn>>

SweepKeep ==
  /\ walk.on /\ call = NoCall /\ walk.next # NULL
  /\ walk' = [walk EXCEPT !.next = Traverse(walk.next, RIGHT), !.kept = @ \cup {walk.next}]
  /\ UNCHANGED <<nodes, root, length, call, torn>>

\* The next node is looked up before the entry is deleted.
SweepDelete ==
  /\ walk.on /\ call = NoCall /\ walk.next # NULL
  /\ walk' = [walk EXCEPT !.next = Traverse(walk.next, RIGHT)]
  /\ BeginDelete(walk.next)
  /\ UNCHANGED <<root, length, torn>>

SweepEnd ==
  /\ walk.on /\ call = NoCall /\ walk.next = NULL
  /\ walk' = NoWalk
  /\ UNCHANGED <<nodes, root, length, call, torn>>

-----------------------------------------------------------------------------
CallStep == InsertFirst \/ InsertStep \/ InsertFails \/ DeleteStep \/ DeleteEnd \/ ClearStep

Next ==
  \/ \E k \in Key : Insert(k) \/ Delete(k)
  \/ Clear
  \/ InsertFirst \/ InsertStep \/ InsertFails \/ DeleteStep \/ DeleteEnd \/ ClearStep
  \/ SweepBegin \/ SweepKeep \/ SweepDelete \/ SweepEnd

\* A call that has begun is not left: the loops run in the thread of the caller.
Spec == Init /\ [][Next]_vars /\ WF_vars(CallStep)

-----------------------------------------------------------------------------
(* Properties *)

Whole == call = NoCall /\ ~ torn

\* Types; between calls the root and the two ends of the tree belong to it.
TypeOK ==
  /\ DOMAIN nodes \subseteq Key \cup {DUMMY}
  /\ \A n \in DOMAIN nodes :
       /\ nodes[n].parent \in Key \cup {NULL} /\ nodes[n].data \in Key \cup {NULL}
       /\ nodes[n].isRed \in BOOLEAN
       /\ \A s \in Side : nodes[n].child[s] \in Key \cup {NULL}
  /\ root \in Key \cup {NULL} /\ length \in Nat
  /\ torn \in BOOLEAN /\ walk.on \in BOOLEAN /\ walk.kept \subseteq Key

\* subtreeBlackHeight (rbt.c:1574), the check of the code's own treeBroken: 0 if somewhere
\* below n a red node has a red child or the black nodes on two ways down differ in number.
BlackHeight(n) ==
  LET height[m \in DOMAIN nodes \cup {NULL}] ==
        IF m = NULL THEN 1
        ELSE LET h == [s \in Side |-> height[nodes[m].child[s]]]
             IN  IF \/ h[LEFT] = 0 \/ h[LEFT] # h[RIGHT]
                    \/ nodes[m].isRed /\ \E c \in Children(nodes, m) : nodes[c].isRed
                 THEN 0
                 ELSE IF nodes[m].isRed THEN h[LEFT] ELSE h[LEFT] + 1
  IN  height[n]

\* "Root is always black" (rbt.c:599), and the rules of treeBroken: what keeps the tree
\* balanced, which one turn of a loop may break only for the next one to repair.
RedBlack == Whole => ~ IsRed(nodes, root) /\ BlackHeight(root) > 0

\* Walking and searching see every entry in order and nothing else, in both directions,
\* whatever was rotated: the parents and children of the nodes agree.
WalksInOrder ==
  Whole =>
    LET held == DOMAIN nodes
        After(k) == {n \in held : n > k}
        Before(k) == {n \in held : n < k}
        Least(S) == IF S = {} THEN NULL ELSE CHOOSE n \in S : \A m \in S : n <= m
        Greatest(S) == IF S = {} THEN NULL ELSE CHOOSE n \in S : \A m \in S : n >= m
    IN  /\ First = Least(held) /\ Last = Greatest(held)
        /\ \A n \in held : Traverse(n, RIGHT) = Least(After(n)) /\ Traverse(n, LEFT) = Greatest(Before(n))
        /\ \A k \in Key : Search(k) = IF k \in held THEN [node |-> k, successor |-> NULL]
                                      ELSE [node |-> NULL, successor |-> Least(After(k))]

\* A sweep passes by each entry once: the node it goes on with is never the one a deletion
\* freed, and at its end what it kept is what the tree holds.
SweepSeesAll ==
  /\ walk.next \in DOMAIN nodes \cup {NULL}
  /\ walk.on /\ Whole /\ walk.next = NULL => walk.kept = DOMAIN nodes

\* Clearing frees every node, even of a tree that an insertion without memory left with
\* the wrong root.
ClearFreesAll == call = NoCall /\ root = NULL => nodes = NoNode

\* Between calls the tree is balanced and walked in order from both ends, whatever was
\* inserted and deleted before in whatever order, and an empty tree has no nodes.
TreeSound == TypeOK /\ RedBlack /\ WalksInOrder /\ ClearFreesAll

\* The entries of the tree; those of a torn tree count as lost.
Contents ==
  IF torn \/ call.op = "clear" THEN {} ELSE {nodes[n].data : n \in DOMAIN nodes} \ {NULL}

Request ==
  IF call.op \in {"insert", "delete"} THEN <<call.op, call.data>> ELSE << >>

Abstract == INSTANCE OrderedSet WITH contents <- Contents, request <- Request

\* The tree is an ordered set: an insertion adds its entry, a deletion removes the entry
\* asked for and nothing else, whatever moves between the nodes, and each comes to its end.
IsOrderedSet == Abstract!Spec

=============================================================================
