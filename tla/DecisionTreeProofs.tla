------------------------- MODULE DecisionTreeProofs -------------------------
(***************************************************************************)
(* Proofs about DecisionTree, for messages of every length, any parameters *)
(* and any values: the search stays in the tree, in a proper tree it ends  *)
(* in the leaf the kernel's values lead to, and only a tree that is not    *)
(* proper or asks for an unknown parameter has no answer.                  *)
(***************************************************************************)
EXTENDS DecisionTree, FiniteSetTheorems, TLAPS

-----------------------------------------------------------------------------
(* The sons of a row.                                                      *)

\* Two elements of a finite set of numbers are ranked by the elements below them.
LEMMA PairRanks ==
  ASSUME NEW S \in SUBSET Nat, Cardinality(S) = 2, IsFiniteSet(S)
  PROVE  \E x, y \in S :
           /\ x < y /\ S = {x, y}
           /\ {c \in S : Cardinality({b \in S : b < c}) = 0} = {x}
           /\ {c \in S : Cardinality({b \in S : b < c}) = 1} = {y}
<1>1. PICK u \in S : TRUE
  <2>1. S # {}
    BY FS_EmptySet
  <2> QED
    BY <2>1
<1>2. IsFiniteSet(S \ {u}) /\ Cardinality(S \ {u}) = 1
  BY <1>1, FS_RemoveElement
<1>3. PICK v \in S \ {u} : S \ {u} = {v}
  BY <1>2, FS_Singleton
<1>4. S = {u, v} /\ u # v /\ u \in Nat /\ v \in Nat
  BY <1>1, <1>3
<1>5. PICK x \in S, y \in S : S = {x, y} /\ x < y
  BY <1>4
<1>6. {b \in S : b < x} = {} /\ {b \in S : b < y} = {x}
  BY <1>5
<1>7. Cardinality({b \in S : b < x}) = 0 /\ Cardinality({b \in S : b < y}) = 1
  BY <1>6, FS_EmptySet, FS_Singleton
<1> QED
  BY <1>5, <1>7

LEMMA RowFacts ==
  ASSUME TypeOK
  PROVE  /\ Len(rows) \in Nat /\ DOMAIN rows = 1 .. Len(rows) /\ NULL \notin DOMAIN rows
         /\ \A k \in DOMAIN rows : rows[k] \in Row
         /\ rows # <<>> => 1 \in DOMAIN rows
<1>1. rows \in Seq(Row)
  BY DEF TypeOK
<1>2. Len(rows) \in Nat /\ DOMAIN rows = 1 .. Len(rows)
  BY <1>1
<1> QED
  BY <1>1, <1>2 DEF NULL

LEMMA ChildType ==
  ASSUME TypeOK, NEW k, NEW n
  PROVE  Child(k, n) \in Node
<1>1. CASE Nth(k, n) = {}
  BY <1>1 DEF Child, Node
<1>2. CASE Nth(k, n) # {}
  <2>1. Child(k, n) \in Nth(k, n)
    BY <1>2 DEF Child
  <2> QED
    BY <2>1 DEF Nth, After, Node
<1> QED
  BY <1>1, <1>2

\* In a proper tree the sons of an inner row are what create_tree takes for them.
LEMMA ProperSons ==
  ASSUME TypeOK, Proper, NEW k \in DOMAIN rows, rows[k].name # Leaf
  PROVE  /\ lchild(k) \in Sons(k) /\ Left(lchild(k))
         /\ rchild(k) \in Sons(k) /\ ~Left(rchild(k))
<1>1. /\ DOMAIN rows = 1 .. Len(rows) /\ Len(rows) \in Nat /\ 1 \in DOMAIN rows
  BY RowFacts DEF Proper
<1>2. After(k) = Sons(k)
  <2>1. \A c \in Sons(k) : c > k
    BY <1>1 DEF Sons, Proper
  <2>2. \A c \in DOMAIN rows : c > k => c # 1
    BY <1>1
  <2> QED
    BY <2>1, <2>2 DEF After, Sons
<1>3. Cardinality(Sons(k)) = 2
  BY DEF Proper
<1>4. Sons(k) \in SUBSET Nat /\ IsFiniteSet(Sons(k))
  <2>1. Sons(k) \subseteq 1 .. Len(rows)
    BY <1>1 DEF Sons
  <2>2. IsFiniteSet(1 .. Len(rows))
    BY <1>1, FS_Interval
  <2>3. IsFiniteSet(Sons(k))
    BY <2>1, <2>2, FS_Subset
  <2> QED
    BY <2>1, <2>3
<1>5. PICK x \in Sons(k), y \in Sons(k) :
        /\ x < y /\ Sons(k) = {x, y}
        /\ {c \in Sons(k) : Cardinality({b \in Sons(k) : b < c}) = 0} = {x}
        /\ {c \in Sons(k) : Cardinality({b \in Sons(k) : b < c}) = 1} = {y}
  BY <1>3, <1>4, PairRanks
<1>6. Nth(k, 0) = {x} /\ Nth(k, 1) = {y}
  BY <1>2, <1>5 DEF Nth
<1>7. lchild(k) = x /\ rchild(k) = y
  BY <1>6 DEF lchild, rchild, Child
<1>8. \A c \in Sons(k) : \A b \in DOMAIN rows \ {1} :
        rows[b].father = rows[c].father <=> b \in Sons(k)
  BY DEF Sons
<1>9. x \in Nat /\ y \in Nat /\ x \in DOMAIN rows \ {1} /\ y \in DOMAIN rows \ {1}
  BY <1>4, <1>5 DEF Sons
<1>10. Left(x) /\ ~Left(y)
  BY <1>5, <1>8, <1>9 DEF Left
<1> QED
  BY <1>5, <1>7, <1>10

-----------------------------------------------------------------------------
(* Type correctness.                                                       *)

LEMMA InitType == Init => TypeOK
<1> SUFFICES ASSUME Init PROVE TypeOK
  OBVIOUS
<1>1. Unset \in [Parameter -> Values]
  BY TreeAssumption DEF TreeAssumption, Unset
<1>2. rows \in Seq(Row)
  BY DEF Init
<1> QED
  BY <1>1, <1>2 DEF Init, TypeOK, Node

LEMMA StepType == TypeOK /\ [Next]_vars => TypeOK'
<1> SUFFICES ASSUME TypeOK, [Next]_vars PROVE TypeOK'
  OBVIOUS
<1>1. CASE UNCHANGED vars
  BY <1>1 DEF vars, search, TypeOK, Node
<1>2. CASE ReadRow
  <2>1. PICK f \in 0 .. Len(rows) + 1, n \in Name, v \in Thresholds :
          rows' = Append(rows, [father |-> f, itself |-> Len(rows), name |-> n, value |-> v])
    BY <1>2 DEF ReadRow
  <2>2. [father |-> f, itself |-> Len(rows), name |-> n, value |-> v] \in Row
    BY RowFacts DEF Row
  <2>3. rows' \in Seq(Row) /\ Len(rows') = Len(rows) + 1
    BY <2>1, <2>2 DEF TypeOK
  <2>4. DOMAIN rows \subseteq DOMAIN rows'
    BY <2>3, RowFacts
  <2> QED
    BY <1>2, <2>3, <2>4 DEF ReadRow, TypeOK, Node, search
<1>3. CASE MessageEnd
  BY <1>3 DEF MessageEnd, TypeOK, Node, search
<1>4. CASE Fill
  <2>1. tnode \in Node
    BY RowFacts DEF tnode, Node
  <2> QED
    BY <1>4, <2>1 DEF Fill, TypeOK, Node
<1>5. CASE SessionEnd
  <2>1. Unset \in [Parameter -> Values]
    BY TreeAssumption DEF TreeAssumption, Unset
  <2>2. rows' \in Seq(Row)
    BY <1>5 DEF SessionEnd
  <2> QED
    BY <1>5, <2>1, <2>2 DEF SessionEnd, TypeOK, Node
<1>6. CASE Descend
  <2>1. tree' \in Node
    BY <1>6, ChildType DEF Descend, lchild, rchild
  <2>2. rows' = rows
    BY <1>6 DEF Descend
  <2> QED
    BY <1>6, <2>1, <2>2 DEF Descend, TypeOK, Node
<1>7. CASE NotKnown
  BY <1>7 DEF NotKnown, TypeOK, Node, search
<1>8. CASE Arrive
  BY <1>8 DEF Arrive, TypeOK, Node, search
<1>9. CASE ArriveNowhere
  BY <1>9 DEF ArriveNowhere, TypeOK, Node, search
<1> QED
  BY <1>1, <1>2, <1>3, <1>4, <1>5, <1>6, <1>7, <1>8, <1>9 DEF Next, Bst_search

\* Whatever the fathers of the rows are, the search stays in the tree.
THEOREM TypeCorrect == Spec => []TypeOK
  BY InitType, StepType, PTL DEF Spec

-----------------------------------------------------------------------------
(* The search.                                                             *)

\* Where the search is in a proper tree, and in one whose parameters are filled.
SearchInv ==
  pc = "search" =>
    /\ rows # <<>> => node_pre # NULL
    /\ Proper => tree # NULL /\ (~found => node_pre = tree)
    /\ Proper /\ (\A p \in Asked : role[p] = "filled") =>
         tree \in Reached /\ \A p \in Asked : fstates[p] = truth[p]

FaultInv == fault => rows = <<>>

TreeInv == TypeOK /\ SearchInv /\ FaultInv /\ AnswerIsTheLeaf /\ NullIsMalformed

LEMMA FirstIsReached == ASSUME TypeOK, Proper PROVE 1 \in Reached
<1>1. 1 \in DOMAIN rows
  BY RowFacts DEF Proper
<1> QED
  BY <1>1 DEF Reached, Closed

\* Going down on the side of the parameter stays on the rows that are reached.
LEMMA DescentIsReached ==
  ASSUME TypeOK, NEW k \in Reached, NEW c \in Sons(k),
         Left(c) <=> truth[rows[k].name] <= rows[k].value
  PROVE  c \in Reached
<1>1. c \in DOMAIN rows
  BY DEF Sons
<1>2. ASSUME NEW R \in SUBSET DOMAIN rows, Closed(R) PROVE c \in R
  <2>1. k \in R
    BY <1>2 DEF Reached
  <2> QED
    BY <1>2, <2>1 DEF Closed
<1> QED
  BY <1>1, <1>2 DEF Reached

LEMMA InitInv == Init => TreeInv
  BY InitType DEF Init, TreeInv, SearchInv, FaultInv, AnswerIsTheLeaf, NullIsMalformed

\* What is said of the rows and of the kernel's values stays while they do.
LEMMA TreeStays ==
  ASSUME rows' = rows, truth' = truth, role' = role
  PROVE  /\ Proper' = Proper /\ Asked' = Asked /\ Reached' = Reached
  BY DEF Proper, Sons, Asked, Reached, Closed, Left

LEMMA SearchStep ==
  ASSUME TreeInv, ~fault, Bst_search, TypeOK'
  PROVE  TreeInv'
<1>1. rows' = rows /\ truth' = truth /\ role' = role /\ fstates' = fstates /\ pc = "search"
  BY DEF Bst_search, Descend, NotKnown, Arrive, ArriveNowhere
<1>2. Proper' = Proper /\ Asked' = Asked /\ Reached' = Reached
  BY <1>1, TreeStays
<1>3. CASE Descend
  <2>1. /\ tree \in DOMAIN rows /\ rows[tree].name # Leaf /\ tree # NULL
        /\ node_pre' = tree /\ found' = TRUE /\ pc' = "search" /\ fault' = fault
        /\ tree' = IF GoesLeft THEN lchild(tree) ELSE rchild(tree)
    BY <1>3 DEF Descend, Inner, TreeInv, TypeOK, Node
  <2>2. ASSUME Proper PROVE tree' \in Sons(tree) /\ (Left(tree') <=> GoesLeft)
    BY <2>1, <2>2, ProperSons DEF TreeInv
  <2>3. Proper => tree' # NULL
    BY <2>2, RowFacts DEF Sons, TreeInv
  <2>4. ASSUME Proper, \A p \in Asked : role[p] = "filled"
        PROVE  tree' \in Reached /\ \A p \in Asked : fstates[p] = truth[p]
    <3>1. tree \in Reached /\ \A p \in Asked : fstates[p] = truth[p]
      BY <1>1, <2>4 DEF TreeInv, SearchInv
    <3>2. rows[tree].name \in Asked
      BY <2>1 DEF Asked
    <3>3. GoesLeft <=> truth[rows[tree].name] <= rows[tree].value
      BY <3>1, <3>2 DEF GoesLeft
    <3>4. tree' \in Reached
      BY <2>2, <2>4, <3>1, <3>3, DescentIsReached DEF TreeInv
    <3> QED
      BY <3>1, <3>4
  <2>5. SearchInv'
    BY <1>1, <1>2, <2>1, <2>3, <2>4 DEF SearchInv
  <2> QED
    BY <1>1, <1>2, <2>1, <2>5 DEF TreeInv, FaultInv, AnswerIsTheLeaf, NullIsMalformed
<1>4. CASE NotKnown
  <2>1. /\ tree \in DOMAIN rows /\ rows[tree].name # Leaf
        /\ role[rows[tree].name] = "unknown" /\ pc' = "found" /\ fault' = fault
    BY <1>4 DEF NotKnown, Inner, Known, TreeInv, TypeOK, Node
  <2>2. rows[tree].name \in Asked
    BY <2>1 DEF Asked
  <2> QED
    BY <1>1, <1>2, <2>1, <2>2
    DEF TreeInv, SearchInv, FaultInv, AnswerIsTheLeaf, NullIsMalformed
<1>5. CASE Arrive
  <2>1. /\ node_pre # NULL /\ pc' = "found" /\ fault' = fault
        /\ tree # NULL => rows[tree].name = Leaf
        /\ answer' = IF found THEN tree ELSE node_pre
    BY <1>5 DEF Arrive, Inner
  <2>2. Proper => answer' = tree /\ tree # NULL
    BY <1>1, <2>1 DEF TreeInv, SearchInv
  <2>3. ASSUME Proper, \A p \in Asked : role[p] = "filled" PROVE tree \in Reached
    BY <1>1, <2>3 DEF TreeInv, SearchInv
  <2>4. AnswerIsTheLeaf'
    BY <1>1, <1>2, <2>1, <2>2, <2>3 DEF AnswerIsTheLeaf
  <2> QED
    BY <1>1, <1>2, <2>1, <2>2, <2>4 DEF TreeInv, SearchInv, FaultInv, NullIsMalformed
<1>6. CASE ArriveNowhere
  <2>1. node_pre = NULL /\ pc' = "search" /\ fault' = TRUE
        /\ tree' = tree /\ node_pre' = node_pre /\ found' = found
    BY <1>6, <1>1 DEF ArriveNowhere, search
  <2>2. rows = <<>>
    BY <1>1, <2>1 DEF TreeInv, SearchInv
  <2>3. ~Proper
    BY <2>2 DEF Proper
  <2> QED
    BY <1>1, <1>2, <2>1, <2>2, <2>3
    DEF TreeInv, SearchInv, FaultInv, AnswerIsTheLeaf, NullIsMalformed
<1> QED
  BY <1>3, <1>4, <1>5, <1>6 DEF Bst_search

LEMMA StepInv == TreeInv /\ [Next]_vars => TreeInv'
<1> SUFFICES ASSUME TreeInv, [Next]_vars PROVE TreeInv'
  OBVIOUS
<1>1. TypeOK'
  BY StepType DEF TreeInv
<1>2. CASE UNCHANGED vars
  <2>1. UNCHANGED <<role, rows, truth, fstates, pc, tree, node_pre, found, answer, fault>>
    BY <1>2 DEF vars, search
  <2>2. Proper' = Proper /\ Asked' = Asked /\ Reached' = Reached
    BY <2>1, TreeStays
  <2> QED
    BY <1>1, <2>1, <2>2
    DEF TreeInv, SearchInv, FaultInv, AnswerIsTheLeaf, NullIsMalformed
<1>3. CASE ~fault /\ (ReadRow \/ MessageEnd \/ SessionEnd)
  <2>1. pc' \in {"message", "links"} /\ fault' = FALSE
    BY <1>1, <1>3 DEF ReadRow, MessageEnd, SessionEnd, TypeOK
  <2> QED
    BY <1>1, <2>1 DEF TreeInv, SearchInv, FaultInv, AnswerIsTheLeaf, NullIsMalformed
<1>4. CASE ~fault /\ Fill
  <2>1. /\ pc' = "search" /\ tree' = tnode /\ node_pre' = tnode /\ fault' = FALSE
        /\ \A p \in Parameter : role[p] # "misplaced" => fstates'[p] = truth'[p]
        /\ rows' = rows /\ role' = role
    BY <1>1, <1>4 DEF Fill, TypeOK
  <2>2. rows # <<>> => tnode # NULL
    BY DEF tnode, NULL
  <2>3. Proper' => rows # <<>>
    BY <2>1 DEF Proper
  <2>4. Proper' => tree' \in Reached'
    <3>1. (TypeOK /\ Proper => 1 \in Reached)'
      BY FirstIsReached, PTL
    <3> QED
      BY <1>1, <2>1, <2>3, <3>1 DEF tnode
  <2>5. (\A p \in Asked' : role'[p] = "filled") =>
          \A p \in Asked' : fstates'[p] = truth'[p]
    <3>1. Asked' \subseteq Parameter
      BY <1>1, <2>1, RowFacts DEF Asked, TreeInv, Row, Name
    <3> QED
      BY <2>1, <3>1
  <2> QED
    BY <1>1, <2>1, <2>2, <2>3, <2>4, <2>5
    DEF TreeInv, SearchInv, FaultInv, AnswerIsTheLeaf, NullIsMalformed
<1>5. CASE ~fault /\ Bst_search
  BY <1>1, <1>5, SearchStep
<1> QED
  BY <1>2, <1>3, <1>4, <1>5 DEF Next

LEMMA Invariance == Spec => []TreeInv
  BY InitInv, StepInv, PTL DEF Spec

\* For every message that is a proper tree and asks for filled parameters only, of
\* any size, bst_search answers with the leaf the kernel's values lead to.
THEOREM LeafIsTheAnswer == Spec => []AnswerIsTheLeaf
<1>1. TreeInv => AnswerIsTheLeaf
  BY DEF TreeInv
<1> QED
  BY <1>1, Invariance, PTL

\* Only trees that are not proper or ask for unknown parameters answer NULL, and only
\* the empty message makes bst_search follow a null pointer.
THEOREM ProperTreesAnswer == Spec => []NullIsMalformed
<1>1. TreeInv => NullIsMalformed
  BY DEF TreeInv
<1> QED
  BY <1>1, Invariance, PTL
=============================================================================
