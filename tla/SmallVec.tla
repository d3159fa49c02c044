------------------------------- MODULE SmallVec -------------------------------
(***************************************************************************)
(* The container of src/include/db25/physical/small_vec.hpp, in which the  *)
(* planner keeps its join keys and distribution keys: up to N elements in  *)
(* the object, more of them in a buffer of its own on the heap.            *)
(*                                                                         *)
(* An object is [heap, size, cap, inline]; heap = None while the elements  *)
(* are inline.  A fresh buffer's cells hold Junk, and nothing erases what  *)
(* a cell held before.  An operation acts on an object and the heap.       *)
(***************************************************************************)
EXTENDS Naturals, Sequences, FiniteSets, Functions, SequencesExt

CONSTANTS
  Names,      \* the objects a program may have at a time
  Elements,
  N,          \* the inline capacity
  Buffers,    \* addresses the allocator may hand out
  MaxSize,    \* bound: how long a list gets, and what is reserved at most
  Junk,       \* what uninitialised memory holds
  None        \* the null pointer

ASSUME SizesAssumption  == N \in Nat \ {0} /\ MaxSize \in Nat
ASSUME MemoryAssumption ==
  /\ Junk \notin Elements /\ None \notin Buffers
  /\ IsFiniteSet(Names) /\ IsFiniteSet(Buffers) /\ Cardinality(Buffers) > Cardinality(Names)

VARIABLES
  vec,        \* the objects that are alive
  heap        \* the buffers that are allocated: sequences of cells

vars == <<vec, heap>>

Cells == Elements \cup {Junk}

Cleared == [heap |-> None, size |-> 0, cap |-> N, inline |-> [i \in 1..N |-> Junk]]

(* The cells data() points at, and the elements among them.                *)
Data(v, mem)     == IF v.heap # None THEN mem[v.heap] ELSE v.inline
Contents(v, mem) == SubSeq(Data(v, mem), 1, v.size)

State(v, mem) == [v |-> v, mem |-> mem]

(* memcpy() of these elements to the start of data().                      *)
Filled(cells, list) == [i \in DOMAIN cells |-> IF i \in DOMAIN list THEN list[i] ELSE cells[i]]

Write(s, list) ==
  IF s.v.heap # None THEN State(s.v, [s.mem EXCEPT ![s.v.heap] = Filled(@, list)])
                     ELSE State([s.v EXCEPT !.inline = Filled(@, list)], s.mem)
-----------------------------------------------------------------------------
Freed(mem, b) == Restrict(mem, DOMAIN mem \ {b})

(* Seeded defect: the elements are not brought along.                      *)
GrowEmpty(s, want) ==
  LET next == IF want > N THEN want ELSE N + 1
      b    == CHOOSE fresh \in Buffers : fresh \notin DOMAIN s.mem
  IN  State([s.v EXCEPT !.heap = b, !.cap = next],
            [c \in (DOMAIN s.mem \ {s.v.heap}) \cup {b} |->
               IF c = b THEN [i \in 1..next |-> Junk] ELSE s.mem[c]])

(* A larger buffer, filled from where the elements were; that is freed.    *)
Grow(s, want) ==
  LET next == IF want > N THEN want ELSE N + 1
      b    == CHOOSE fresh \in Buffers : fresh \notin DOMAIN s.mem
  IN  State([s.v EXCEPT !.heap = b, !.cap = next],
            [c \in (DOMAIN s.mem \ {s.v.heap}) \cup {b} |->
               IF c = b THEN Filled([i \in 1..next |-> Junk], Contents(s.v, s.mem))
               ELSE s.mem[c]])

Reserved(s, n) == IF n > s.v.cap THEN Grow(s, n) ELSE s

Pushed(s, e) ==
  LET room == IF s.v.size = s.v.cap THEN Grow(s, s.v.cap * 2) ELSE s
      list == Append(Contents(room.v, room.mem), e)
      full == Write(room, list)
  IN  State([full.v EXCEPT !.size = @ + 1], full.mem)

(* One push_back() per initialiser.                                        *)
PushedAll(s, list) ==
  LET after[k \in 0..Len(list)] == IF k = 0 THEN s ELSE Pushed(after[k - 1], list[k])
  IN  after[Len(list)]

(* Seeded defect: a list shorter than the old one keeps the old length.    *)
AssignedLonger(s, list) ==
  LET full == Write(Reserved(s, Len(list)), list)
  IN  State([full.v EXCEPT !.size = IF Len(list) > @ THEN Len(list) ELSE @], full.mem)

Assigned(s, list) ==
  LET full == Write(Reserved(s, Len(list)), list)
  IN  State([full.v EXCEPT !.size = Len(list)], full.mem)

Released(s) ==
  IF s.v.heap = None THEN s
  ELSE State([s.v EXCEPT !.heap = None, !.cap = N], Freed(s.mem, s.v.heap))

(* take(): `s' takes over what `other' has ...                             *)
Taken(s, other) ==
  IF other.heap # None
  THEN State([s.v EXCEPT !.heap = other.heap, !.cap = other.cap, !.size = other.size], s.mem)
  ELSE State([s.v EXCEPT !.inline = Filled(@, SubSeq(other.inline, 1, other.size)),
                         !.size = other.size], s.mem)

(* Seeded defect: what is left is empty, but it keeps the buffer as well.  *)
LeftOwning(other) == [other EXCEPT !.size = 0]

(* ... and this is what it leaves.                                         *)
Left(other) == [other EXCEPT !.heap = None, !.size = 0,
                             !.cap = IF other.heap # None THEN N ELSE @]
-----------------------------------------------------------------------------
Becomes(x, s) ==
  /\ vec'  = [y \in DOMAIN vec \cup {x} |-> IF y = x THEN s.v ELSE vec[y]]
  /\ heap' = s.mem

Here(x)   == State(vec[x], heap)
Room(x)   == vec[x].size < MaxSize
Absent(x) == x \notin DOMAIN vec

Init == vec = <<>> /\ heap = <<>>

(* Construction, from a list of initialisers too.                          *)
Make(x) ==
  /\ Absent(x)
  /\ \E list \in BoundedSeq(Elements, N + 1) :
       Becomes(x, PushedAll(State(Cleared, heap), list))

PushBack(x) == ~Absent(x) /\ Room(x) /\ \E e \in Elements : Becomes(x, Pushed(Here(x), e))

Clear(x) == ~Absent(x) /\ Becomes(x, State([vec[x] EXCEPT !.size = 0], heap))

Reserve(x) == ~Absent(x) /\ \E n \in 1..MaxSize : Becomes(x, Reserved(Here(x), n))

CopyConstruct(x) ==
  /\ Absent(x)
  /\ \E y \in DOMAIN vec :
       Becomes(x, Assigned(State(Cleared, heap), Contents(vec[y], heap)))

CopyAssign(x) ==
  /\ ~Absent(x)
  /\ \E y \in DOMAIN vec \ {x} : Becomes(x, Assigned(Here(x), Contents(vec[y], heap)))

MoveOver(x, y, s) ==
  /\ vec' = [z \in DOMAIN vec \cup {x} |->
               IF z = x THEN Taken(s, vec[y]).v ELSE IF z = y THEN Left(vec[y]) ELSE vec[z]]
  /\ heap' = Taken(s, vec[y]).mem

MoveConstruct(x) == Absent(x) /\ \E y \in DOMAIN vec : MoveOver(x, y, State(Cleared, heap))

(* Seeded defect: the old buffer is not given back.                        *)
MoveAssignUnreleased(x) ==
  ~Absent(x) /\ \E y \in DOMAIN vec \ {x} : MoveOver(x, y, Here(x))

MoveAssign(x) == ~Absent(x) /\ \E y \in DOMAIN vec \ {x} : MoveOver(x, y, Released(Here(x)))

Destroy(x) ==
  /\ ~Absent(x)
  /\ vec'  = Restrict(vec, DOMAIN vec \ {x})
  /\ heap' = Released(Here(x)).mem

Next ==
  \E x \in Names :
    \/ Make(x) \/ PushBack(x) \/ Clear(x) \/ Reserve(x)
    \/ CopyConstruct(x) \/ CopyAssign(x) \/ MoveConstruct(x) \/ MoveAssign(x)
    \/ Destroy(x)

Spec == Init /\ [][Next]_vars
-----------------------------------------------------------------------------
(* An object in memory: its capacity is that of what data() points at, and *)
(* never less than what it has inline, and its list is part of that, with  *)
(* an element in every cell: uninitialised memory and cells beyond the end *)
(* of a buffer are never read.                                             *)
Sound(v, mem) ==
  /\ v \in [heap : DOMAIN mem \cup {None}, size : Nat, cap : Nat, inline : [1..N -> Cells]]
  /\ v.cap = Len(Data(v, mem)) /\ v.cap >= N /\ v.size <= v.cap
  /\ Contents(v, mem) \in Seq(Elements)

(* The types of the variables. *)
VecTypeOK ==
  /\ DOMAIN vec \subseteq Names /\ DOMAIN heap \subseteq Buffers
  /\ \A b \in DOMAIN heap : heap[b] \in Seq(Cells)
  /\ \A x \in DOMAIN vec : Sound(vec[x], heap)

(* Every buffer has exactly one owner: none is freed twice when two owners *)
(* are destroyed, and none is lost when its only owner lets it go.         *)
BuffersOwnedOnce ==
  \A b \in DOMAIN heap : \E x \in DOMAIN vec : {y \in DOMAIN vec : vec[y].heap = b} = {x}

(* What holds of the objects and their buffers between any two calls.      *)
VecInv == VecTypeOK /\ BuffersOwnedOnce

(* The containers are values: whatever is copied, moved, grown or cleared, *)
(* every step is a step of lists that share nothing.                       *)
AsLists == [x \in DOMAIN vec |-> Contents(vec[x], heap)]
Lists   == INSTANCE ValueLists WITH lists <- AsLists

KeepsValues == Lists!ListsSpec
=============================================================================
