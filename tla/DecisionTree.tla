---------------------------- MODULE DecisionTree ----------------------------
(***************************************************************************)
(* The decision tree of the switch (project/ofproto.c): the message of the *)
(* controller is a list of rows (init_linger_m), which create_tree joins   *)
(* to a tree; for every link main_linger fills a vector of parameters and  *)
(* bst_search goes down the tree with it.                                  *)
(*                                                                         *)
(* The subtree that create_tree makes of a row depends on the row and on   *)
(* those after it only, so a tree node is the number of its row, 0 for     *)
(* NULL.  The rows have the identities 0, 1, 2, ... of project/tree.csv,   *)
(* whose first row names itself as its father; the fathers are any, rows   *)
(* that are still to come included.  The class of a row is never read.     *)
(*                                                                         *)
(*   role   what a parameter is to main_linger, chosen once: "filled" with *)
(*          the kernel's value; "misplaced", one of those whose name is    *)
(*          set while the value goes to another field, or whose field that *)
(*          is (station_count, qfrequeues); or "unknown".                  *)
(***************************************************************************)
EXTENDS Integers, Sequences, FiniteSets

CONSTANTS Parameter, Leaf,        \* names; the name 0 of a leaf
          Unfilled,               \* the parameters whose role may not be "filled"
          Thresholds, Values,     \* of the rows, of the parameters
          MaxRows                 \* bound on the message

ASSUME TreeAssumption ==
         /\ Leaf \notin Parameter /\ Unfilled \subseteq Parameter
         /\ Thresholds \subseteq Int /\ Values \subseteq Int /\ 0 \in Values
         /\ MaxRows \in Nat

VARIABLES
  role,
  rows,                   \* the list node
  truth, fstates,         \* what the kernel says of a link; the vector
  pc, tree, node_pre, found,      \* bst_search
  answer,                 \* search_results
  fault

search == <<tree, node_pre, found>>
vars == <<role, rows, truth, fstates, pc, search, answer, fault>>

NULL == 0
Unset == [p \in Parameter |-> 0]
Name == Parameter \cup {Leaf}
Row == [father : Nat, itself : Nat, name : Name, value : Thresholds]
Node == DOMAIN rows \cup {NULL}

TypeOK ==
  /\ role \in [Parameter -> {"filled", "misplaced", "unknown"}]
  /\ rows \in Seq(Row)
  /\ truth \in [Parameter -> Values] /\ fstates \in [Parameter -> Values]
  /\ pc \in {"message", "links", "search", "found"}
  /\ tree \in Node /\ node_pre \in Node /\ found \in BOOLEAN
  /\ answer \in Node /\ fault \in BOOLEAN

Init ==
  /\ role \in [Parameter -> {"filled", "misplaced", "unknown"}]
  /\ \A p \in Parameter : role[p] # "filled" => p \in Unfilled
  /\ rows = <<>>
  /\ truth = Unset /\ fstates = Unset
  /\ pc = "message"
  /\ tree = NULL /\ node_pre = NULL /\ found = FALSE
  /\ answer = NULL /\ fault = FALSE

-----------------------------------------------------------------------------
(* init_linger_m.                                                          *)

ReadRow ==
  /\ pc = "message" /\ Len(rows) < MaxRows
  /\ \E f \in 0 .. Len(rows) + 1, n \in Name, v \in Thresholds :
       /\ IF rows = <<>> THEN f = 0 ELSE f # Len(rows)
       /\ rows' = Append(rows, [father |-> f, itself |-> Len(rows), name |-> n, value |-> v])
  /\ UNCHANGED <<role, truth, fstates, pc, search, answer, fault>>

MessageEnd ==
  /\ pc = "message"
  /\ pc' = "links"
  /\ UNCHANGED <<role, rows, truth, fstates, search, answer, fault>>

-----------------------------------------------------------------------------
(* create_tree.                                                            *)

After(k) == {c \in DOMAIN rows : c > k /\ rows[c].father = rows[k].itself}
Nth_FromHead(k, n) == {c \in DOMAIN rows : /\ rows[c].father = rows[k].itself
                        /\ Cardinality({b \in DOMAIN rows : b < c /\ rows[b].father = rows[k].itself}) = n}

\* find_lchild is the first row after the father's that names it, find_rchild the
\* second.
Nth(k, n) == {c \in After(k) : Cardinality({b \in After(k) : b < c}) = n}
Child_Third(k, n) == IF Nth(k, 2 * n) = {} THEN NULL ELSE CHOOSE c \in Nth(k, 2 * n) : TRUE
Child_FromHead(k, n) == IF Nth_FromHead(k, n) = {} THEN NULL
                        ELSE CHOOSE c \in Nth_FromHead(k, n) : TRUE
Child(k, n) == IF Nth(k, n) = {} THEN NULL ELSE CHOOSE c \in Nth(k, n) : TRUE
lchild(k) == Child(k, 0)
rchild(k) == Child(k, 1)
tnode == IF rows = <<>> THEN NULL ELSE 1

-----------------------------------------------------------------------------
(* main_linger, for every link.                                            *)

\* The array is on the stack and not initialised; after a link it is set to 0.
Fill ==
  /\ pc \in {"links", "found"}
  /\ truth' \in [Parameter -> Values] /\ fstates' \in [Parameter -> Values]
  /\ \A p \in Parameter : role[p] # "misplaced" => fstates'[p] = truth'[p]
  /\ pc' = "search" /\ tree' = tnode /\ node_pre' = tnode /\ found' = FALSE
  /\ answer' = NULL
  /\ UNCHANGED <<role, rows, fault>>

\* destroy_everything; the next message.
SessionEnd ==
  /\ pc \in {"links", "found"}
  /\ rows' = <<>> /\ pc' = "message"
  /\ truth' = Unset /\ fstates' = Unset
  /\ tree' = NULL /\ node_pre' = NULL /\ found' = FALSE /\ answer' = NULL
  /\ UNCHANGED <<role, fault>>

-----------------------------------------------------------------------------
(* bst_search.                                                             *)

Inner == tree # NULL /\ rows[tree].name # Leaf
Known == role[rows[tree].name] # "unknown"
GoesLeft_Strictly == fstates[rows[tree].name] < rows[tree].value
GoesLeft == fstates[rows[tree].name] <= rows[tree].value

Descend ==
  /\ pc = "search" /\ Inner /\ Known
  /\ found' = TRUE /\ node_pre' = tree
  /\ tree' = IF GoesLeft THEN lchild(tree) ELSE rchild(tree)
  /\ UNCHANGED <<role, rows, truth, fstates, pc, answer, fault>>

NotKnown ==
  /\ pc = "search" /\ Inner /\ ~Known
  /\ answer' = NULL /\ pc' = "found"
  /\ UNCHANGED <<role, rows, truth, fstates, search, fault>>

\* node_pre is read for the log: with an empty tree a null pointer is followed.
Arrive ==
  /\ pc = "search" /\ ~Inner /\ node_pre # NULL
  /\ answer' = IF found THEN tree ELSE node_pre
  /\ pc' = "found"
  /\ UNCHANGED <<role, rows, truth, fstates, search, fault>>

ArriveNowhere ==
  /\ pc = "search" /\ node_pre = NULL
  /\ fault' = TRUE
  /\ UNCHANGED <<role, rows, truth, fstates, pc, search, answer>>

-----------------------------------------------------------------------------
Bst_search == Descend \/ NotKnown \/ Arrive \/ ArriveNowhere

Next ==
  \/ ~fault /\ (ReadRow \/ MessageEnd \/ Fill \/ SessionEnd \/ Bst_search)
  \/ fault /\ UNCHANGED vars

Spec == Init /\ [][Next]_vars
FairSpec == Spec /\ WF_vars(~fault /\ Bst_search)

-----------------------------------------------------------------------------
(* Properties.                                                             *)

Asked == {rows[k].name : k \in DOMAIN rows} \ {Leaf}
Sons(k) == {c \in DOMAIN rows \ {1} : rows[c].father = rows[k].itself}

\* A tree as the controller's is: every row but the first comes after its father,
\* an inner row has two sons and a leaf none.
Proper ==
  /\ rows # <<>>
  /\ \A k \in DOMAIN rows :
       /\ \A c \in Sons(k) : k < c
       /\ Cardinality(Sons(k)) = IF rows[k].name = Leaf THEN 0 ELSE 2
  /\ \A c \in DOMAIN rows \ {1} : \E k \in DOMAIN rows : c \in Sons(k)

\* The rows the kernel's values lead to: the first one, and the sons of such a row
\* on the side of its parameter.
Left(c) == \A b \in DOMAIN rows \ {1} : rows[b].father = rows[c].father => c <= b
Closed(R) ==
  /\ 1 \in R
  /\ \A k \in R : \A c \in Sons(k) :
       (Left(c) <=> truth[rows[k].name] <= rows[k].value) => c \in R
Reached == {c \in DOMAIN rows : \A R \in SUBSET DOMAIN rows : Closed(R) => c \in R}

\* In a proper tree that asks for filled parameters only, bst_search answers with
\* the leaf the kernel's values lead to, although create_tree pairs the rows by the
\* order of the message alone.
AnswerIsTheLeaf ==
  pc = "found" /\ Proper /\ (\A p \in Asked : role[p] = "filled") =>
    answer \in Reached /\ rows[answer].name = Leaf

\* Only a tree that is not proper or asks for an unknown parameter answers NULL:
\* any other flags every link, as no class is looked at.  A null pointer is
\* followed for the empty message only.
NullIsMalformed ==
  /\ pc = "found" /\ answer = NULL => ~Proper \/ \E p \in Asked : role[p] = "unknown"
  /\ fault => rows = <<>>

\* Whatever the fathers are, bst_search ends: no row becomes a descendant of itself,
\* although the first one names itself as its father.
SearchEnds == pc = "search" /\ ~fault ~> pc # "search" \/ fault
=============================================================================
