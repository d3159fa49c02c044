------------------------------ MODULE ValueLists ------------------------------
(***************************************************************************)
(* What SmallVec (src/include/db25/physical/small_vec.hpp) promises: lists *)
(* that are values.  A list belongs to the one name it is kept under, a    *)
(* copy is no alias, and a list that was moved elsewhere is left empty.    *)
(***************************************************************************)
EXTENDS Naturals, Sequences, Functions

CONSTANTS Names, Elements

VARIABLE lists   \* the lists there are, by name

Bind(x, list) == lists' = [y \in DOMAIN lists \cup {x} |-> IF y = x THEN list ELSE lists[y]]

ListsInit == lists = <<>>

Made(x)     == x \in DOMAIN lists' \ DOMAIN lists /\ lists'[x] \in Seq(Elements) /\ Bind(x, lists'[x])
Appended(x) == \E e \in Elements : Bind(x, Append(lists[x], e))
Emptied(x)  == Bind(x, <<>>)
Copied(x)   == \E y \in DOMAIN lists : Bind(x, lists[y])

Moved(x) ==
  \E y \in DOMAIN lists \ {x} :
    lists' = [z \in DOMAIN lists \cup {x} |->
                IF z = x THEN lists[y] ELSE IF z = y THEN <<>> ELSE lists[z]]

Gone(x) == lists' = Restrict(lists, DOMAIN lists \ {x})

ListsNext ==
  \E x \in Names :
    \/ Made(x) \/ Copied(x) \/ Moved(x)
    \/ x \in DOMAIN lists /\ (Appended(x) \/ Emptied(x) \/ Gone(x))

ListsSpec == ListsInit /\ [][ListsNext]_lists
=============================================================================
