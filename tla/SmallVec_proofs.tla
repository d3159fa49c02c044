---------------------------- MODULE SmallVec_proofs ----------------------------
(***************************************************************************)
(* The vectors of small_vec.hpp, for every inline capacity, every kind of  *)
(* element and every number of objects: the memory is never misused, and   *)
(* what the objects hold are lists that share nothing.                     *)
(*                                                                         *)
(* An operation takes an object and the memory to an object and the        *)
(* memory.  It is local when it touches no buffer but the object's own;    *)
(* local operations compose, and whatever a local operation makes of one   *)
(* object, the others and their buffers stay as they are.                  *)
(***************************************************************************)
EXTENDS SmallVec, SequenceTheorems, FiniteSetTheorems, Recursions

(* An object in memory, by itself. *)
Fit(s) ==
  /\ DOMAIN s.mem \subseteq Buffers
  /\ \A b \in DOMAIN s.mem : s.mem[b] \in Seq(Cells)
  /\ Sound(s.v, s.mem)

(* Of the memory, `t' has what `s' has, but for the object's own buffer.   *)
Only(s, t) ==
  /\ \A b \in DOMAIN s.mem \ {s.v.heap} :
       b \in DOMAIN t.mem /\ t.mem[b] = s.mem[b] /\ b # t.v.heap
  /\ \A b \in DOMAIN t.mem : b = t.v.heap \/ b \in DOMAIN s.mem \ {s.v.heap}

HasRoom(s) == \E fresh \in Buffers : fresh \notin DOMAIN s.mem

(* There is a buffer for whatever a local operation has made of `s'.       *)
Roomy(s) == \A t : Fit(t) /\ Only(s, t) => HasRoom(t)
-----------------------------------------------------------------------------
(* The list of an object.                                                  *)

(* It is decided by the first cells.                                       *)
LEMMA FirstCells ==
  ASSUME NEW d \in Seq(Cells), NEW n \in Nat, n <= Len(d),
         NEW list \in Seq(Elements), Len(list) = n,
         \A i \in 1..n : d[i] = list[i]
  PROVE  SubSeq(d, 1, n) = list
<1>1. /\ SubSeq(d, 1, n) \in Seq(Cells) /\ Len(SubSeq(d, 1, n)) = n
      /\ \A i \in 1..n : SubSeq(d, 1, n)[i] = d[i]
  BY SubSeqProperties
<1>2. list \in Seq(Cells)
  BY DEF Cells
<1> QED
  BY <1>1, <1>2, SeqEqual

(* The list of an object that fits its memory, cell by cell.               *)
LEMMA ListOf ==
  ASSUME NEW s, Fit(s)
  PROVE  /\ Data(s.v, s.mem) \in Seq(Cells)
         /\ s.v.cap = Len(Data(s.v, s.mem)) /\ s.v.cap \in Nat /\ s.v.size \in Nat
         /\ s.v.size <= s.v.cap /\ N <= s.v.cap
         /\ Contents(s.v, s.mem) \in Seq(Elements)
         /\ Len(Contents(s.v, s.mem)) = s.v.size
         /\ \A i \in 1..s.v.size : Contents(s.v, s.mem)[i] = Data(s.v, s.mem)[i]
<1> DEFINE d == Data(s.v, s.mem)
<1>1. /\ s.v.heap \in DOMAIN s.mem \cup {None} /\ s.v.size \in Nat /\ s.v.cap \in Nat
      /\ s.v.inline \in [1..N -> Cells]
  BY DEF Fit, Sound
<1>2. s.v.inline \in Seq(Cells)
  BY <1>1, SizesAssumption
<1>3. d \in Seq(Cells)
  BY <1>1, <1>2 DEF Fit, Data
<1>4. s.v.cap = Len(d) /\ N <= s.v.cap /\ s.v.size <= s.v.cap
  BY SizesAssumption DEF Fit, Sound
<1>5. Contents(s.v, s.mem) = SubSeq(d, 1, s.v.size) /\ Contents(s.v, s.mem) \in Seq(Elements)
  BY DEF Contents, Fit, Sound
<1> HIDE DEF d
<1>6. /\ Len(SubSeq(d, 1, s.v.size)) = s.v.size
      /\ \A i \in 1..s.v.size : SubSeq(d, 1, s.v.size)[i] = d[i]
  BY <1>1, <1>3, <1>4, SubSeqProperties
<1> QED
  BY <1>1, <1>3, <1>4, <1>5, <1>6 DEF d

(* An object is put together from what it holds.                           *)
LEMMA FitFrom ==
  ASSUME NEW s, NEW list \in Seq(Elements),
         DOMAIN s.mem \subseteq Buffers,
         \A b \in DOMAIN s.mem : s.mem[b] \in Seq(Cells),
         s.v \in [heap : DOMAIN s.mem \cup {None}, size : Nat, cap : Nat,
                  inline : [1..N -> Cells]],
         Data(s.v, s.mem) \in Seq(Cells), s.v.cap = Len(Data(s.v, s.mem)),
         N <= s.v.cap, s.v.size <= s.v.cap, Len(list) = s.v.size,
         \A i \in 1..s.v.size : Data(s.v, s.mem)[i] = list[i]
  PROVE  Fit(s) /\ Contents(s.v, s.mem) = list
<1>1. Contents(s.v, s.mem) = list
  <2> DEFINE d == Data(s.v, s.mem)
  <2>1. d \in Seq(Cells) /\ s.v.size \in Nat /\ s.v.size <= Len(d)
    OBVIOUS
  <2>2. \A i \in 1..s.v.size : d[i] = list[i]
    OBVIOUS
  <2> HIDE DEF d
  <2>3. SubSeq(d, 1, s.v.size) = list
    BY <2>1, <2>2, FirstCells
  <2> QED
    BY <2>3 DEF d, Contents
<1>2. N \in Nat
  BY SizesAssumption
<1> QED
  BY <1>1, <1>2 DEF Fit, Sound

(* What is copied to the start of some cells is there, and nowhere else.   *)
LEMMA FilledCells ==
  ASSUME NEW cells \in Seq(Cells), NEW list \in Seq(Elements), Len(list) <= Len(cells)
  PROVE  /\ Filled(cells, list) \in Seq(Cells)
         /\ Len(Filled(cells, list)) = Len(cells)
         /\ \A i \in 1..Len(list) : Filled(cells, list)[i] = list[i]
<1>1. /\ DOMAIN cells = 1..Len(cells) /\ Len(cells) \in Nat
      /\ DOMAIN list = 1..Len(list) /\ Len(list) \in Nat
      /\ \A i \in 1..Len(list) : list[i] \in Cells
      /\ \A i \in 1..Len(cells) : cells[i] \in Cells
  BY LenProperties DEF Cells
<1>2. Filled(cells, list)
        = [i \in 1..Len(cells) |-> IF i \in 1..Len(list) THEN list[i] ELSE cells[i]]
  BY <1>1 DEF Filled
<1>3. Filled(cells, list) \in [1..Len(cells) -> Cells]
  BY <1>1, <1>2
<1>4. Filled(cells, list) \in Seq(Cells) /\ Len(Filled(cells, list)) = Len(cells)
  BY <1>1, <1>3
<1> QED
  BY <1>1, <1>2, <1>4

(* Doing nothing is local, and local operations compose.                   *)
LEMMA OnlyItself == ASSUME NEW s, Fit(s) PROVE Only(s, s)
  BY DEF Only

LEMMA OnlyComposes ==
  ASSUME NEW s, NEW t, NEW u, Only(s, t), Only(t, u) PROVE Only(s, u)
  BY DEF Only
-----------------------------------------------------------------------------
(* The operations, one after the other.                                    *)

(* The list is written over the cells there are: there must be enough.     *)
LEMMA WriteLocal ==
  ASSUME NEW s, Fit(s), NEW list \in Seq(Elements), Len(list) <= s.v.cap, NEW t,
         t = State([Write(s, list).v EXCEPT !.size = Len(list)], Write(s, list).mem)
  PROVE  /\ Fit(t) /\ Only(s, t) /\ Contents(t.v, t.mem) = list
         /\ Write(s, list).v.size = s.v.size
<1> DEFINE w == Write(s, list)
<1>1. /\ DOMAIN s.mem \subseteq Buffers
      /\ \A b \in DOMAIN s.mem : s.mem[b] \in Seq(Cells)
      /\ s.v \in [heap : DOMAIN s.mem \cup {None}, size : Nat, cap : Nat,
                  inline : [1..N -> Cells]]
      /\ Len(list) \in Nat
  BY LenProperties DEF Fit, Sound
<1>2. /\ Data(s.v, s.mem) \in Seq(Cells) /\ s.v.cap = Len(Data(s.v, s.mem))
      /\ N <= s.v.cap /\ Len(list) <= Len(Data(s.v, s.mem))
  BY ListOf
<1>3. t.mem = w.mem /\ t.v = [w.v EXCEPT !.size = Len(list)]
  BY DEF State
<1>4. CASE s.v.heap # None
  <2>1. w.v = s.v /\ w.mem = [s.mem EXCEPT ![s.v.heap] = Filled(s.mem[s.v.heap], list)]
    BY <1>4 DEF Write, State
  <2>2. Data(s.v, s.mem) = s.mem[s.v.heap] /\ s.v.heap \in DOMAIN s.mem
    BY <1>1, <1>4 DEF Data
  <2>3. /\ Filled(s.mem[s.v.heap], list) \in Seq(Cells)
        /\ Len(Filled(s.mem[s.v.heap], list)) = s.v.cap
        /\ \A i \in 1..Len(list) : Filled(s.mem[s.v.heap], list)[i] = list[i]
    BY <1>2, <2>2, FilledCells
  <2>4. /\ t.v \in [heap : DOMAIN s.mem \cup {None}, size : Nat, cap : Nat,
                    inline : [1..N -> Cells]]
        /\ t.v.heap = s.v.heap /\ t.v.size = Len(list) /\ t.v.cap = s.v.cap
    BY <1>1, <1>3, <2>1
  <2>5. /\ DOMAIN t.mem = DOMAIN s.mem
        /\ t.mem[s.v.heap] = Filled(s.mem[s.v.heap], list)
        /\ \A b \in DOMAIN s.mem \ {s.v.heap} : t.mem[b] = s.mem[b]
    BY <1>1, <1>3, <2>1, <2>2
  <2>6. Data(t.v, t.mem) = Filled(s.mem[s.v.heap], list)
    BY <1>4, <2>4, <2>5 DEF Data
  <2>7. \A b \in DOMAIN t.mem : t.mem[b] \in Seq(Cells)
    BY <1>1, <2>3, <2>5
  <2>8. Only(s, t)
    BY <2>2, <2>4, <2>5 DEF Only
  <2>9. Fit(t) /\ Contents(t.v, t.mem) = list
    <3>1. Data(t.v, t.mem) \in Seq(Cells) /\ t.v.cap = Len(Data(t.v, t.mem))
      BY <2>3, <2>4, <2>6
    <3>2. \A i \in 1..t.v.size : Data(t.v, t.mem)[i] = list[i]
      BY <2>3, <2>4, <2>6
    <3>3. /\ N <= t.v.cap /\ t.v.size <= t.v.cap /\ Len(list) = t.v.size
          /\ DOMAIN t.mem \subseteq Buffers
          /\ t.v \in [heap : DOMAIN t.mem \cup {None}, size : Nat, cap : Nat,
                      inline : [1..N -> Cells]]
      BY <1>1, <1>2, <2>4, <2>5
    <3> QED
      BY <2>7, <3>1, <3>2, <3>3, FitFrom
  <2> QED
    BY <2>1, <2>8, <2>9
<1>5. CASE s.v.heap = None
  <2>1. w.v = [s.v EXCEPT !.inline = Filled(s.v.inline, list)] /\ w.mem = s.mem
    BY <1>5 DEF Write, State
  <2>2. Data(s.v, s.mem) = s.v.inline
    BY <1>5 DEF Data
  <2>3. /\ Filled(s.v.inline, list) \in Seq(Cells)
        /\ Len(Filled(s.v.inline, list)) = s.v.cap
        /\ \A i \in 1..Len(list) : Filled(s.v.inline, list)[i] = list[i]
    BY <1>2, <2>2, FilledCells
  <2>4. N = s.v.cap
    BY <1>1, <1>2, <2>2, SizesAssumption, LenProperties
  <2>5. Filled(s.v.inline, list) \in [1..N -> Cells]
    BY <2>3, <2>4, LenProperties
  <2>6. /\ t.v \in [heap : DOMAIN s.mem \cup {None}, size : Nat, cap : Nat,
                    inline : [1..N -> Cells]]
        /\ t.v.heap = None /\ t.v.size = Len(list) /\ t.v.cap = s.v.cap
        /\ t.v.inline = Filled(s.v.inline, list)
    <3> DEFINE cells == Filled(s.v.inline, list)
    <3>1. t.v = [[s.v EXCEPT !.inline = cells] EXCEPT !.size = Len(list)]
      BY <1>3, <2>1
    <3>2. cells \in [1..N -> Cells]
      BY <2>5
    <3> HIDE DEF cells
    <3>3. /\ t.v.heap = None /\ t.v.size = Len(list) /\ t.v.cap = s.v.cap
          /\ t.v.inline = cells
      BY <1>1, <1>5, <3>1
    <3>4. t.v = [heap |-> t.v.heap, size |-> t.v.size, cap |-> t.v.cap, inline |-> t.v.inline]
      BY <1>1, <3>1
    <3> QED
      BY <1>1, <3>2, <3>3, <3>4 DEF cells
  <2>7. t.mem = s.mem
    BY <1>3, <2>1
  <2>8. Data(t.v, t.mem) = Filled(s.v.inline, list)
    BY <2>6 DEF Data
  <2>9. Only(s, t)
    BY <1>5, <2>6, <2>7 DEF Only
  <2>10. Fit(t) /\ Contents(t.v, t.mem) = list
    <3>1. Data(t.v, t.mem) \in Seq(Cells) /\ t.v.cap = Len(Data(t.v, t.mem))
      BY <2>3, <2>6, <2>8
    <3>2. \A i \in 1..t.v.size : Data(t.v, t.mem)[i] = list[i]
      BY <2>3, <2>6, <2>8
    <3>3. /\ N <= t.v.cap /\ t.v.size <= t.v.cap /\ Len(list) = t.v.size
          /\ DOMAIN t.mem \subseteq Buffers
          /\ \A b \in DOMAIN t.mem : t.mem[b] \in Seq(Cells)
          /\ t.v \in [heap : DOMAIN t.mem \cup {None}, size : Nat, cap : Nat,
                      inline : [1..N -> Cells]]
      BY <1>1, <1>2, <2>6, <2>7
    <3> QED
      BY <3>1, <3>2, <3>3, FitFrom
  <2> QED
    BY <1>1, <2>1, <2>9, <2>10
<1> QED
  BY <1>4, <1>5

(* A larger buffer, with the same list in it; the old one is given back.   *)
LEMMA GrowLocal ==
  ASSUME NEW s, Fit(s), HasRoom(s), NEW want \in Nat, s.v.cap < want, NEW t, t = Grow(s, want)
  PROVE  /\ Fit(t) /\ Only(s, t) /\ Contents(t.v, t.mem) = Contents(s.v, s.mem)
         /\ t.v.size = s.v.size /\ t.v.cap = want
<1> DEFINE b == CHOOSE fresh \in Buffers : fresh \notin DOMAIN s.mem
<1> DEFINE list == Contents(s.v, s.mem)
<1> DEFINE cells == Filled([i \in 1..want |-> Junk], list)
<1>1. b \in Buffers /\ b \notin DOMAIN s.mem /\ b # None
  BY MemoryAssumption DEF HasRoom
<1>2. /\ DOMAIN s.mem \subseteq Buffers
      /\ \A c \in DOMAIN s.mem : s.mem[c] \in Seq(Cells)
      /\ s.v \in [heap : DOMAIN s.mem \cup {None}, size : Nat, cap : Nat,
                  inline : [1..N -> Cells]]
  BY DEF Fit, Sound
<1>3. /\ N <= s.v.cap /\ list \in Seq(Elements) /\ Len(list) = s.v.size
      /\ s.v.size <= s.v.cap
  BY ListOf
<1>4. N \in Nat /\ want > N /\ Len(list) <= want /\ s.v.size <= want /\ N <= want
  BY <1>2, <1>3, SizesAssumption
<1> HIDE DEF b
<1>5. t = State([s.v EXCEPT !.heap = b, !.cap = want],
                [c \in (DOMAIN s.mem \ {s.v.heap}) \cup {b} |-> IF c = b THEN cells ELSE s.mem[c]])
  BY <1>4 DEF Grow, b
<1> HIDE DEF list
<1>6. /\ [i \in 1..want |-> Junk] \in Seq(Cells) /\ Len([i \in 1..want |-> Junk]) = want
  BY DEF Cells
<1>7. /\ cells \in Seq(Cells) /\ Len(cells) = want
      /\ \A i \in 1..Len(list) : cells[i] = list[i]
  <2> DEFINE junk == [i \in 1..want |-> Junk]
  <2> HIDE DEF junk
  <2> QED
    BY <1>3, <1>4, <1>6, FilledCells DEF junk
<1> HIDE DEF cells
<1>8. /\ DOMAIN t.mem = (DOMAIN s.mem \ {s.v.heap}) \cup {b}
      /\ t.mem[b] = cells
      /\ \A c \in DOMAIN s.mem \ {s.v.heap} : t.mem[c] = s.mem[c] /\ c # b
  BY <1>1, <1>5 DEF State
<1>9. /\ t.v.heap = b /\ t.v.cap = want /\ t.v.size = s.v.size
      /\ t.v \in [heap : DOMAIN t.mem \cup {None}, size : Nat, cap : Nat,
                  inline : [1..N -> Cells]]
  <2>1. t.v = [s.v EXCEPT !.heap = b, !.cap = want]
    BY <1>5 DEF State
  <2>2. b \in DOMAIN t.mem \cup {None}
    BY <1>8
  <2>3. s.v \in [heap : DOMAIN s.mem \cup {None}, size : Nat, cap : Nat,
                inline : [1..N -> Cells]]
    BY <1>2
  <2> DEFINE here == DOMAIN t.mem \cup {None}
  <2> DEFINE there == DOMAIN s.mem \cup {None}
  <2> HIDE DEF here, there
  <2> QED
    BY <2>1, <2>2, <2>3 DEF here, there
<1>10. Data(t.v, t.mem) = cells
  BY <1>1, <1>8, <1>9 DEF Data
<1>11. Only(s, t)
  BY <1>8, <1>9 DEF Only
<1>12. Fit(t) /\ Contents(t.v, t.mem) = list
  <2>1. DOMAIN t.mem \subseteq Buffers /\ \A c \in DOMAIN t.mem : t.mem[c] \in Seq(Cells)
    BY <1>1, <1>2, <1>7, <1>8
  <2>2. Data(t.v, t.mem) \in Seq(Cells) /\ t.v.cap = Len(Data(t.v, t.mem))
    BY <1>7, <1>9, <1>10
  <2>3. \A i \in 1..t.v.size : Data(t.v, t.mem)[i] = list[i]
    BY <1>3, <1>7, <1>9, <1>10
  <2>4. N <= t.v.cap /\ t.v.size <= t.v.cap /\ Len(list) = t.v.size
    BY <1>3, <1>4, <1>9
  <2> QED
    BY <1>3, <1>9, <2>1, <2>2, <2>3, <2>4, FitFrom
<1> QED
  BY <1>9, <1>11, <1>12 DEF list

(* push_back() grows when it must, and adds one element at the end.        *)
LEMMA PushedLocal ==
  ASSUME NEW s, Fit(s), HasRoom(s), NEW e \in Elements, NEW t, t = Pushed(s, e)
  PROVE  Fit(t) /\ Only(s, t) /\ Contents(t.v, t.mem) = Append(Contents(s.v, s.mem), e)
<1> DEFINE room == IF s.v.size = s.v.cap THEN Grow(s, s.v.cap * 2) ELSE s
<1> DEFINE old == Contents(s.v, s.mem)
<1> DEFINE list == Append(Contents(room.v, room.mem), e)
<1>1. /\ s.v.cap \in Nat /\ s.v.size \in Nat /\ s.v.size <= s.v.cap /\ N <= s.v.cap
      /\ old \in Seq(Elements) /\ Len(old) = s.v.size
  BY ListOf
<1>2. s.v.cap < s.v.cap * 2 /\ s.v.cap * 2 \in Nat /\ s.v.size + 1 <= s.v.cap * 2
  BY <1>1, SizesAssumption
<1>3. /\ Fit(room) /\ Only(s, room) /\ Contents(room.v, room.mem) = old
      /\ room.v.size = s.v.size /\ s.v.size + 1 <= room.v.cap
  <2>1. CASE s.v.size = s.v.cap
    <3>1. room = Grow(s, s.v.cap * 2)
      BY <2>1
    <3> HIDE DEF room
    <3> QED
      BY <1>2, <3>1, GrowLocal
  <2>2. CASE s.v.size # s.v.cap
    BY <1>1, <2>2, OnlyItself
  <2> QED
    BY <2>1, <2>2
<1> HIDE DEF old
<1>4. list \in Seq(Elements) /\ Len(list) = s.v.size + 1 /\ list = Append(old, e)
  <2>1. list = Append(old, e)
    BY <1>3
  <2>2. Append(old, e) \in Seq(Elements) /\ Len(Append(old, e)) = Len(old) + 1
    BY <1>1
  <2> HIDE DEF list
  <2> QED
    BY <1>1, <2>1, <2>2
<1>5. t = State([Write(room, list).v EXCEPT !.size = Write(room, list).v.size + 1],
                Write(room, list).mem)
  BY DEF Pushed
<1> HIDE DEF room, list
<1> DEFINE u == State([Write(room, list).v EXCEPT !.size = Len(list)], Write(room, list).mem)
<1>6. /\ Fit(u) /\ Only(room, u) /\ Contents(u.v, u.mem) = list
      /\ Write(room, list).v.size = room.v.size
  <2>1. Len(list) <= room.v.cap
    BY <1>3, <1>4
  <2> HIDE DEF u
  <2> QED
    BY <1>3, <1>4, <2>1, WriteLocal DEF u
<1>7. u = t
  BY <1>3, <1>4, <1>5, <1>6
<1> HIDE DEF u
<1> QED
  BY <1>3, <1>4, <1>6, <1>7, OnlyComposes DEF old

(* reserve() and assign(). *)
LEMMA ReservedLocal ==
  ASSUME NEW s, Fit(s), HasRoom(s), NEW n \in Nat, NEW t, t = Reserved(s, n)
  PROVE  /\ Fit(t) /\ Only(s, t) /\ Contents(t.v, t.mem) = Contents(s.v, s.mem)
         /\ n <= t.v.cap
<1>1. s.v.cap \in Nat
  BY ListOf
<1>2. CASE n > s.v.cap
  BY <1>1, <1>2, GrowLocal DEF Reserved
<1>3. CASE ~(n > s.v.cap)
  BY <1>1, <1>3, OnlyItself DEF Reserved
<1> QED
  BY <1>2, <1>3

(* assign() leaves the list it is given, whatever was there before.        *)
LEMMA AssignedLocal ==
  ASSUME NEW s, Fit(s), HasRoom(s), NEW list \in Seq(Elements), NEW t, t = Assigned(s, list)
  PROVE  Fit(t) /\ Only(s, t) /\ Contents(t.v, t.mem) = list
<1> DEFINE room == Reserved(s, Len(list))
<1>1. Len(list) \in Nat
  BY LenProperties
<1>2. Fit(room) /\ Only(s, room) /\ Len(list) <= room.v.cap
  <2> HIDE DEF room
  <2> QED
    BY <1>1, ReservedLocal DEF room
<1>3. t = State([Write(room, list).v EXCEPT !.size = Len(list)], Write(room, list).mem)
  BY DEF Assigned
<1> HIDE DEF room
<1>4. Fit(t) /\ Only(room, t) /\ Contents(t.v, t.mem) = list
  BY <1>2, <1>3, WriteLocal
<1> QED
  BY <1>2, <1>4, OnlyComposes

(* What pushing the initialisers one by one goes through, from any start:  *)
(* there is such a sequence of states, and PushedAll ends it.              *)
LEMMA PushesExist ==
  ASSUME NEW s, NEW list \in Seq(Elements)
  PROVE  \E g : /\ g = [k \in 0..Len(list) |->
                          IF k = 0 THEN s ELSE Pushed(g[k - 1], list[k])]
               /\ PushedAll(s, list) = g[Len(list)]
<1> DEFINE n == Len(list)
<1> DEFINE Run(g, m) == g = [k \in 0..m |-> IF k = 0 THEN s ELSE Pushed(g[k - 1], list[k])]
<1> DEFINE Stuck == {m \in 0..n : \A g : ~Run(g, m)}
<1>1. n \in Nat
  BY LenProperties
<1>2. ASSUME Stuck # {} PROVE FALSE
  <2>1. Stuck \in SUBSET Nat
    BY <1>1
  <2>2. PICK m \in Stuck : \A o \in Stuck : m <= o
    <3> HIDE DEF Stuck
    <3> QED
      BY <1>2, <2>1, LeastNatural
  <2>3. m \in 0..n /\ \A g : ~Run(g, m)
    BY <2>2
  <2>4. CASE m = 0
    <3> DEFINE g == [k \in 0..0 |-> s]
    <3>1. g = [k \in 0..0 |-> IF k = 0 THEN s ELSE Pushed(g[k - 1], list[k])]
      OBVIOUS
    <3>2. Run(g, m)
      BY <2>4, <3>1
    <3> HIDE DEF g, Run
    <3> QED
      BY <2>3, <3>2
  <2>5. CASE m # 0
    <3>1. m - 1 \in 0..n /\ m - 1 \notin Stuck
      <4> HIDE DEF Stuck
      <4> QED
        BY <1>1, <2>2, <2>3, <2>5
    <3>2. PICK g : Run(g, m - 1)
      BY <3>1
    <3> DEFINE h == [k \in 0..m |-> IF k = m THEN Pushed(g[m - 1], list[m]) ELSE g[k]]
    <3>3. ASSUME NEW k \in 0..m
          PROVE  h[k] = IF k = 0 THEN s ELSE Pushed(h[k - 1], list[k])
      <4>1. CASE k = m
        <5>1. h[m] = Pushed(g[m - 1], list[m]) /\ h[m - 1] = g[m - 1]
          BY <1>1, <2>3, <2>5
        <5> HIDE DEF h
        <5> QED
          BY <2>5, <4>1, <5>1
      <4>2. CASE k # m
        <5>1. h[k] = g[k] /\ k \in 0..(m - 1)
          BY <1>1, <2>3, <4>2
        <5>2. g[k] = IF k = 0 THEN s ELSE Pushed(g[k - 1], list[k])
          BY <3>2, <5>1
        <5>3. k # 0 => h[k - 1] = g[k - 1]
          BY <1>1, <2>3, <5>1
        <5> HIDE DEF h
        <5> QED
          BY <5>1, <5>2, <5>3
      <4> QED
        BY <4>1, <4>2
    <3>4. DOMAIN h = 0..m /\ h = [k \in 0..m |-> h[k]]
      OBVIOUS
    <3> HIDE DEF h
    <3>5. Run(h, m)
      BY <3>3, <3>4
    <3> QED
      BY <2>3, <3>5
  <2> QED
    BY <2>4, <2>5
<1>3. \E g : Run(g, n)
  BY <1>1, <1>2
<1> DEFINE after == CHOOSE g : Run(g, n)
<1>4. Run(after, n)
  BY <1>3
<1>5. PushedAll(s, list) = after[n]
  BY DEF PushedAll
<1> QED
  BY <1>4, <1>5

(* One push_back() per initialiser makes the list of the initialisers.     *)
LEMMA PushedAllLocal ==
  ASSUME NEW s, Fit(s), Roomy(s), Contents(s.v, s.mem) = <<>>,
         NEW list \in Seq(Elements), NEW t, t = PushedAll(s, list)
  PROVE  Fit(t) /\ Only(s, t) /\ Contents(t.v, t.mem) = list
<1> DEFINE n == Len(list)
<1> DEFINE Right(k, u) ==
      Fit(u) /\ Only(s, u) /\ Contents(u.v, u.mem) = SubSeq(list, 1, k)
<1>1. PICK after : /\ after = [k \in 0..n |->
                                IF k = 0 THEN s ELSE Pushed(after[k - 1], list[k])]
                   /\ t = after[n]
  BY PushesExist
<1> DEFINE Wrong == {k \in 0..n : ~Right(k, after[k])}
<1>2. n \in Nat /\ \A k \in 1..n : list[k] \in Elements
  BY LenProperties
<1>3. after[0] = s /\ \A k \in 1..n : after[k] = Pushed(after[k - 1], list[k])
  BY <1>1, <1>2
<1>4. ASSUME Wrong # {} PROVE FALSE
  <2>1. Wrong \in SUBSET Nat
    BY <1>2
  <2>2. PICK k \in Wrong : \A o \in Wrong : k <= o
    <3> HIDE DEF Wrong
    <3> QED
      BY <1>4, <2>1, LeastNatural
  <2>3. k \in 0..n /\ ~Right(k, after[k])
    BY <2>2
  <2>4. CASE k = 0
    <3>1. SubSeq(list, 1, 0) = <<>>
      BY SubSeqEmpty
    <3> QED
      BY <1>3, <2>3, <2>4, <3>1, OnlyItself
  <2>5. CASE k # 0
    <3> DEFINE u == after[k - 1]
    <3>1. k \in 1..n /\ k - 1 \in 0..n /\ k - 1 \notin Wrong
      BY <1>2, <2>2, <2>3, <2>5
    <3>2. Right(k - 1, u)
      BY <3>1
    <3>3. after[k] = Pushed(u, list[k]) /\ list[k] \in Elements
      BY <1>2, <1>3, <3>1
    <3> HIDE DEF u
    <3>4. HasRoom(u)
      BY <3>2 DEF Roomy
    <3>5. /\ Fit(after[k]) /\ Only(u, after[k])
          /\ Contents(after[k].v, after[k].mem) = Append(SubSeq(list, 1, k - 1), list[k])
      BY <3>2, <3>3, <3>4, PushedLocal
    <3>6. SubSeq(list, 1, k) = Append(SubSeq(list, 1, k - 1), list[k])
      <4>1. SubSeq(list, 1, k) = SubSeq(list, 1, k - 1) \o <<list[k]>>
        BY <3>1, SubSeqRecursiveSecond
      <4>2. SubSeq(list, 1, k - 1) \in Seq(Elements)
        BY <1>2, <3>1, SubSeqProperties
      <4> QED
        BY <3>3, <4>1, <4>2
    <3>7. Only(s, after[k])
      BY <3>2, <3>5, OnlyComposes
    <3> QED
      BY <2>3, <3>5, <3>6, <3>7
  <2> QED
    BY <2>4, <2>5
<1>5. Right(n, after[n])
  BY <1>2, <1>4
<1>6. SubSeq(list, 1, n) = list
  BY <1>2
<1> QED
  BY <1>1, <1>5, <1>6
-----------------------------------------------------------------------------
(* The objects together.                                                   *)

(* Where an operation on `x' starts.                                       *)
Start(x) == State(IF Absent(x) THEN Cleared ELSE vec[x], heap)

(* Between calls, every object fits the heap.                              *)
LEMMA EachFits ==
  ASSUME VecInv, NEW y \in DOMAIN vec
  PROVE  Fit(State(vec[y], heap)) /\ AsLists[y] = Contents(vec[y], heap)
  BY DEF VecInv, VecTypeOK, Fit, State, AsLists

(* A buffer is one object's.                                               *)
LEMMA OneOwner ==
  ASSUME VecInv, NEW b \in DOMAIN heap
  PROVE  \E x \in DOMAIN vec : \A y \in DOMAIN vec : vec[y].heap = b <=> y = x
<1>1. PICK x \in DOMAIN vec : {y \in DOMAIN vec : vec[y].heap = b} = {x}
  BY DEF VecInv, BuffersOwnedOnce
<1> QED
  BY <1>1

(* A new object has no buffer and an empty list.                           *)
LEMMA ClearedFits ==
  /\ Cleared \in [heap : {None}, size : {0}, cap : {N}, inline : [1..N -> Cells]]
  /\ \A mem : Contents(Cleared, mem) = <<>>
<1>1. Cleared \in [heap : {None}, size : {0}, cap : {N}, inline : [1..N -> Cells]]
  BY DEF Cleared, Cells
<1>2. ASSUME NEW mem PROVE Contents(Cleared, mem) = <<>>
  <2>1. Contents(Cleared, mem) = SubSeq(Data(Cleared, mem), 1, 0)
    BY DEF Contents, Cleared
  <2> QED
    BY <2>1, SubSeqEmpty
<1> QED
  BY <1>1, <1>2

(* An operation starts from an object that fits: a new one, or the one     *)
(* there is.                                                               *)
LEMMA StartFits ==
  ASSUME VecInv, NEW x \in Names
  PROVE  /\ Fit(Start(x)) /\ Start(x).mem = heap
         /\ Absent(x) => /\ Start(x) = State(Cleared, heap) /\ Start(x).v.heap = None
                         /\ Contents(Start(x).v, Start(x).mem) = <<>>
         /\ ~Absent(x) => Start(x) = Here(x) /\ Start(x).v = vec[x]
<1>1. Start(x).mem = heap
  BY DEF Start, State
<1>2. CASE Absent(x)
  <2>1. Start(x) = State(Cleared, heap) /\ Start(x).v = Cleared
    BY <1>2 DEF Start, State
  <2>2. /\ Cleared \in [heap : DOMAIN heap \cup {None}, size : Nat, cap : Nat,
                        inline : [1..N -> Cells]]
        /\ Cleared.heap = None /\ Cleared.size = 0 /\ Cleared.cap = N
        /\ Cleared.inline \in [1..N -> Cells] /\ N \in Nat
    BY ClearedFits, SizesAssumption
  <2>3. /\ Data(Cleared, heap) = Cleared.inline
        /\ Cleared.inline \in Seq(Cells) /\ Len(Cleared.inline) = N
    BY <2>2 DEF Data
  <2>4. <<>> \in Seq(Elements)
    OBVIOUS
  <2>5. Contents(Cleared, heap) = <<>>
    BY ClearedFits
  <2>6. Sound(Cleared, heap)
    BY <2>2, <2>3, <2>4, <2>5 DEF Sound
  <2> QED
    BY <1>1, <1>2, <2>1, <2>2, <2>5, <2>6 DEF Fit, VecInv, VecTypeOK
<1>3. CASE ~Absent(x)
  <2>1. Start(x) = Here(x) /\ Start(x).v = vec[x] /\ x \in DOMAIN vec
    BY <1>3 DEF Start, State, Here, Absent
  <2> QED
    BY <1>1, <1>3, <2>1, EachFits DEF Here
<1> QED
  BY <1>2, <1>3

(* There are more buffers than objects, and a buffer has an owner.         *)
LEMMA RoomForAll == ASSUME VecInv, NEW x \in Names PROVE Roomy(Start(x))
<1> SUFFICES ASSUME NEW t, Fit(t), Only(Start(x), t), ~HasRoom(t) PROVE FALSE
  BY DEF Roomy
<1>1. \A b \in Buffers : b \in DOMAIN t.mem
  BY DEF HasRoom
<1>2. ASSUME NEW b \in Buffers, b # t.v.heap
      PROVE  \E y \in DOMAIN vec \ {x} : vec[y].heap = b
  <2>1. b \in DOMAIN heap \ {Start(x).v.heap}
    BY <1>1, <1>2, StartFits DEF Only
  <2>2. PICK y \in DOMAIN vec : vec[y].heap = b
    BY <2>1, OneOwner
  <2>3. y # x
    BY <2>1, <2>2, StartFits DEF Absent
  <2> QED
    BY <2>2, <2>3
<1> DEFINE f == [b \in Buffers |->
                   IF b = t.v.heap THEN x
                   ELSE CHOOSE y \in DOMAIN vec \ {x} : vec[y].heap = b]
<1>3. ASSUME NEW b \in Buffers, b # t.v.heap
      PROVE  f[b] \in Names \ {x} /\ vec[f[b]].heap = b
  BY <1>2, <1>3 DEF VecInv, VecTypeOK
<1>4. \A b \in Buffers : b = t.v.heap => f[b] = x
  OBVIOUS
<1>5. f \in [Buffers -> Names]
  <2> DEFINE owner(b) == IF b = t.v.heap THEN x
                         ELSE CHOOSE y \in DOMAIN vec \ {x} : vec[y].heap = b
  <2>1. \A b \in Buffers : f[b] = owner(b) /\ f[b] \in Names
    BY <1>3, <1>4
  <2>2. f = [b \in Buffers |-> owner(b)] /\ \A b \in Buffers : owner(b) \in Names
    BY <2>1
  <2> HIDE DEF owner, f
  <2> QED
    BY <2>2
<1> HIDE DEF f
<1>6. Cardinality(Names) < Cardinality(Buffers) /\ IsFiniteSet(Names) /\ IsFiniteSet(Buffers)
  <2>1. Cardinality(Names) \in Nat /\ Cardinality(Buffers) \in Nat
    BY MemoryAssumption, FS_CardinalityType
  <2> QED
    BY <2>1, MemoryAssumption
<1>7. PICK b \in Buffers, c \in Buffers : b # c /\ f[b] = f[c]
  BY <1>5, <1>6, FS_PigeonHole
<1> QED
  BY <1>3, <1>4, <1>7

(* What one object becomes by a local operation leaves the others alone,   *)
(* and their buffers with them.                                            *)
LEMMA Settled ==
  ASSUME VecInv, NEW x \in Names, NEW t, Fit(t), Only(Start(x), t), Becomes(x, t)
  PROVE  /\ VecInv'
         /\ AsLists' = [y \in DOMAIN AsLists \cup {x} |->
                          IF y = x THEN Contents(t.v, t.mem) ELSE AsLists[y]]
<1> DEFINE own == Start(x).v.heap
<1>1. /\ DOMAIN vec' = DOMAIN vec \cup {x} /\ heap' = t.mem /\ vec'[x] = t.v
      /\ \A y \in DOMAIN vec \ {x} : vec'[y] = vec[y]
      /\ vec' = [y \in DOMAIN vec' |-> vec'[y]]
  BY DEF Becomes
<1>2. /\ \A b \in DOMAIN heap \ {own} : b \in DOMAIN t.mem /\ t.mem[b] = heap[b] /\ b # t.v.heap
      /\ \A b \in DOMAIN t.mem : b = t.v.heap \/ b \in DOMAIN heap \ {own}
  BY StartFits DEF Only
<1>3. /\ DOMAIN vec \subseteq Names /\ DOMAIN heap \subseteq Buffers /\ None \notin DOMAIN heap
      /\ DOMAIN t.mem \subseteq Buffers /\ None \notin DOMAIN t.mem
  BY MemoryAssumption DEF VecInv, VecTypeOK, Fit
<1>4. \A y \in DOMAIN vec \ {x} :
        vec[y].heap = None \/ vec[y].heap \in DOMAIN heap \ {own}
  <2> TAKE y \in DOMAIN vec \ {x}
  <2>1. vec[y].heap \in DOMAIN heap \cup {None}
    BY EachFits DEF Fit, Sound, State
  <2>2. vec[y].heap = own => own \notin DOMAIN heap
    <3> SUFFICES ASSUME vec[y].heap = own, own \in DOMAIN heap PROVE FALSE
      OBVIOUS
    <3>1. x \in DOMAIN vec /\ vec[x].heap = own
      BY <1>3, StartFits DEF Absent
    <3> HIDE DEF own
    <3> QED
      BY <3>1, OneOwner
  <2> QED
    BY <2>1, <2>2
<1> HIDE DEF own
<1>5. ASSUME NEW y \in DOMAIN vec \ {x}
      PROVE  Sound(vec[y], t.mem) /\ Contents(vec[y], t.mem) = Contents(vec[y], heap)
  <2>1. Sound(vec[y], heap)
    BY DEF VecInv, VecTypeOK
  <2>2. /\ Data(vec[y], t.mem) = Data(vec[y], heap)
        /\ vec[y].heap \in DOMAIN t.mem \cup {None}
    BY <1>2, <1>4 DEF Data
  <2>3. Contents(vec[y], t.mem) = Contents(vec[y], heap)
    BY <2>2 DEF Contents
  <2>4. vec[y] \in [heap : DOMAIN t.mem \cup {None}, size : Nat, cap : Nat,
                    inline : [1..N -> Cells]]
    BY <2>1, <2>2 DEF Sound
  <2> QED
    BY <2>1, <2>2, <2>3, <2>4 DEF Sound
<1>6. VecTypeOK'
  <2>1. \A y \in DOMAIN vec' : Sound(vec'[y], heap')
    BY <1>1, <1>5 DEF Fit
  <2>2. \A b \in DOMAIN heap' : heap'[b] \in Seq(Cells)
    BY <1>1 DEF Fit
  <2> QED
    BY <1>1, <1>3, <2>1, <2>2 DEF VecTypeOK
<1>7. ASSUME NEW b \in DOMAIN heap'
      PROVE  \E z \in DOMAIN vec' : {y \in DOMAIN vec' : vec'[y].heap = b} = {z}
  <2>1. CASE b = t.v.heap
    <3>1. \A y \in DOMAIN vec \ {x} : vec[y].heap # b
      BY <1>1, <1>2, <1>3, <1>4, <2>1
    <3>2. {y \in DOMAIN vec' : vec'[y].heap = b} = {x}
      BY <1>1, <2>1, <3>1
    <3> QED
      BY <1>1, <3>2
  <2>2. CASE b # t.v.heap
    <3>1. b \in DOMAIN heap /\ b # own
      BY <1>1, <1>2, <2>2
    <3>2. PICK z \in DOMAIN vec : \A y \in DOMAIN vec : vec[y].heap = b <=> y = z
      BY <3>1, OneOwner
    <3>3. z # x
      BY <3>1, <3>2, StartFits DEF own, Absent
    <3>4. {y \in DOMAIN vec' : vec'[y].heap = b} = {z}
      BY <1>1, <2>2, <3>2, <3>3
    <3> QED
      BY <1>1, <3>4
  <2> QED
    BY <2>1, <2>2
<1>8. AsLists' = [y \in DOMAIN AsLists \cup {x} |->
                   IF y = x THEN Contents(t.v, t.mem) ELSE AsLists[y]]
  <2>1. AsLists' = [y \in DOMAIN vec' |-> Contents(vec'[y], heap')]
    BY DEF AsLists
  <2>2. DOMAIN AsLists = DOMAIN vec /\ \A y \in DOMAIN vec : AsLists[y] = Contents(vec[y], heap)
    BY DEF AsLists
  <2>3. \A y \in DOMAIN vec' :
          Contents(vec'[y], heap') = IF y = x THEN Contents(t.v, t.mem) ELSE AsLists[y]
    BY <1>1, <1>5, <2>2
  <2> QED
    BY <1>1, <2>1, <2>2, <2>3
<1> QED
  BY <1>6, <1>7, <1>8 DEF VecInv, BuffersOwnedOnce

(* An object whose buffer, if it had one, has been given back.             *)
Bare(x, s) ==
  /\ s.v \in [heap : {None}, size : Nat, cap : {N}, inline : [1..N -> Cells]]
  /\ DOMAIN s.mem = DOMAIN heap \ {Start(x).v.heap}
  /\ \A b \in DOMAIN s.mem : s.mem[b] = heap[b]

(* Without a buffer, the capacity is the inline one.                       *)
LEMMA InlineCap ==
  ASSUME NEW v, NEW mem, Sound(v, mem), v.heap = None
  PROVE  v.cap = N /\ v.inline \in Seq(Cells) /\ Len(v.inline) = N /\ Data(v, mem) = v.inline
<1>1. Data(v, mem) = v.inline /\ v.inline \in [1..N -> Cells] /\ N \in Nat
  BY SizesAssumption DEF Data, Sound
<1>2. v.inline \in Seq(Cells) /\ Len(v.inline) = N
  BY <1>1
<1> QED
  BY <1>1, <1>2 DEF Sound

(* release() gives the buffer back, if there is one ...                    *)
LEMMA ReleasedBare ==
  ASSUME VecInv, NEW x \in DOMAIN vec PROVE Bare(x, Released(Here(x)))
<1> DEFINE s == Released(Here(x))
<1>1. /\ vec[x] \in [heap : DOMAIN heap \cup {None}, size : Nat, cap : Nat,
                     inline : [1..N -> Cells]]
      /\ Sound(vec[x], heap)
  BY DEF VecInv, VecTypeOK, Sound
<1>2. Here(x).v = vec[x] /\ Here(x).mem = heap /\ Start(x).v = vec[x]
  BY DEF Here, State, Start, Absent
<1>3. CASE vec[x].heap = None
  <2>1. s.v = vec[x] /\ s.mem = heap
    BY <1>2, <1>3 DEF Released
  <2>2. vec[x].cap = N
    BY <1>1, <1>3, InlineCap
  <2>3. None \notin DOMAIN heap
    BY MemoryAssumption DEF VecInv, VecTypeOK
  <2> HIDE DEF s
  <2>4. s.v \in [heap : {None}, size : Nat, cap : {N}, inline : [1..N -> Cells]]
    BY <1>1, <1>3, <2>1, <2>2
  <2>5. DOMAIN s.mem = DOMAIN heap \ {Start(x).v.heap}
    BY <1>2, <1>3, <2>1, <2>3
  <2> QED
    BY <2>1, <2>4, <2>5 DEF Bare, s
<1>4. CASE vec[x].heap # None
  <2>1. s.v = [vec[x] EXCEPT !.heap = None, !.cap = N] /\ s.mem = Freed(heap, vec[x].heap)
    BY <1>2, <1>4 DEF Released, State
  <2> HIDE DEF s
  <2>2. s.v \in [heap : {None}, size : Nat, cap : {N}, inline : [1..N -> Cells]]
    BY <1>1, <2>1
  <2>3. DOMAIN s.mem = DOMAIN heap \ {vec[x].heap} /\ \A b \in DOMAIN s.mem : s.mem[b] = heap[b]
    BY <2>1 DEF Freed, Restrict
  <2> QED
    BY <1>2, <2>2, <2>3 DEF Bare, s
<1> QED
  BY <1>3, <1>4

(* ... and a new object has none.                                          *)
LEMMA ClearedBare ==
  ASSUME VecInv, NEW x \in Names, Absent(x) PROVE Bare(x, State(Cleared, heap))
<1>1. None \notin DOMAIN heap
  BY MemoryAssumption DEF VecInv, VecTypeOK
<1>2. Start(x).v.heap = None
  BY StartFits
<1>3. Cleared \in [heap : {None}, size : Nat, cap : {N}, inline : [1..N -> Cells]]
  BY ClearedFits
<1> QED
  BY <1>1, <1>2, <1>3 DEF Bare, State

(* take(): what `other' has is in the object now, in its buffer or copied; *)
(* `other' keeps neither its buffer nor its list.                          *)
LEMMA TakenSound ==
  ASSUME NEW s, NEW other, NEW mem, Sound(other, mem),
         s.v \in [heap : {None}, size : Nat, cap : {N}, inline : [1..N -> Cells]],
         other.heap \in DOMAIN s.mem \cup {None},
         other.heap # None => s.mem[other.heap] = mem[other.heap]
  PROVE  /\ Taken(s, other).mem = s.mem /\ Taken(s, other).v.heap = other.heap
         /\ Sound(Taken(s, other).v, s.mem)
         /\ Contents(Taken(s, other).v, s.mem) = Contents(other, mem)
         /\ Left(other).heap = None /\ Sound(Left(other), s.mem)
         /\ Contents(Left(other), s.mem) = <<>>
<1> DEFINE t == Taken(s, other)
<1> DEFINE l == Left(other)
<1>1. /\ other \in [heap : DOMAIN s.mem \cup {None}, size : Nat, cap : Nat,
                    inline : [1..N -> Cells]]
      /\ other.cap = Len(Data(other, mem)) /\ other.cap >= N /\ other.size <= other.cap
      /\ Contents(other, mem) \in Seq(Elements)
  BY DEF Sound
<1>2. N \in Nat /\ other.inline \in Seq(Cells) /\ Len(other.inline) = N
  BY <1>1, SizesAssumption
<1>3. l.heap = None /\ Sound(l, s.mem) /\ Contents(l, s.mem) = <<>>
  <2>1. other.heap = None => other.cap = N
    BY InlineCap
  <2>2. l = [other EXCEPT !.heap = None, !.size = 0, !.cap = N]
    BY <1>1, <2>1 DEF Left
  <2> HIDE DEF l
  <2>3. /\ l \in [heap : DOMAIN s.mem \cup {None}, size : Nat, cap : Nat,
                  inline : [1..N -> Cells]]
        /\ l.heap = None /\ l.size = 0 /\ l.cap = N /\ l.inline = other.inline
    BY <1>1, <1>2, <2>2
  <2>4. Data(l, s.mem) = other.inline
    BY <2>3 DEF Data
  <2>5. Contents(l, s.mem) = <<>>
    BY <2>3, SubSeqEmpty DEF Contents
  <2>6. <<>> \in Seq(Elements)
    OBVIOUS
  <2> QED
    BY <1>2, <2>3, <2>4, <2>5, <2>6 DEF Sound
<1>4. CASE other.heap # None
  <2>1. /\ t.v = [s.v EXCEPT !.heap = other.heap, !.cap = other.cap, !.size = other.size]
        /\ t.mem = s.mem
    BY <1>4 DEF Taken, State
  <2> HIDE DEF t
  <2>2. /\ t.v.heap = other.heap /\ t.v.cap = other.cap /\ t.v.size = other.size
        /\ t.v.inline \in [1..N -> Cells] /\ t.v.heap \in DOMAIN s.mem \cup {None}
    BY <2>1
  <2>3. t.v \in [heap : DOMAIN s.mem \cup {None}, size : Nat, cap : Nat,
                inline : [1..N -> Cells]]
    <3>1. t.v = [heap |-> t.v.heap, size |-> t.v.size, cap |-> t.v.cap, inline |-> t.v.inline]
      BY <2>1
    <3> QED
      BY <1>1, <2>2, <3>1
  <2>4. Data(t.v, s.mem) = Data(other, mem)
    BY <1>4, <2>2 DEF Data
  <2>5. Contents(t.v, s.mem) = Contents(other, mem)
    BY <2>2, <2>4 DEF Contents
  <2>6. Sound(t.v, s.mem)
    BY <1>1, <2>2, <2>3, <2>4, <2>5 DEF Sound
  <2> QED
    BY <1>3, <2>1, <2>2, <2>5, <2>6 DEF t
<1>5. CASE other.heap = None
  <2> DEFINE list == Contents(other, mem)
  <2>1. /\ other.cap = N /\ Data(other, mem) = other.inline
        /\ list = SubSeq(other.inline, 1, other.size)
    BY <1>5, InlineCap DEF Contents
  <2>2. /\ t.v = [s.v EXCEPT !.inline = Filled(s.v.inline, list), !.size = other.size]
        /\ t.mem = s.mem
    BY <1>5, <2>1 DEF Taken, State
  <2>3. list \in Seq(Elements) /\ Len(list) = other.size /\ other.size <= N
    <3>1. \A i \in 1..other.size : other.inline[i] \in Cells
      BY <1>1, <1>2, <2>1
    <3>2. Len(SubSeq(other.inline, 1, other.size)) = other.size
      BY <1>1, <1>2, <3>1, SubSeqProperties
    <3> QED
      BY <1>1, <2>1, <3>2
  <2> HIDE DEF t, list
  <2>4. /\ s.v.inline \in Seq(Cells) /\ Len(s.v.inline) = N /\ s.v.heap = None /\ s.v.cap = N
        /\ s.v.inline \in [1..N -> Cells]
    BY <1>2
  <2> DEFINE cells == Filled(s.v.inline, list)
  <2>5. /\ cells \in Seq(Cells) /\ Len(cells) = N
        /\ \A i \in 1..Len(list) : cells[i] = list[i]
    BY <2>3, <2>4, FilledCells
  <2> HIDE DEF cells
  <2>6. cells \in [1..N -> Cells]
    BY <1>2, <2>5, LenProperties
  <2>7. /\ t.v.heap = None /\ t.v.cap = N /\ t.v.size = other.size /\ t.v.inline = cells
        /\ t.v = [heap |-> t.v.heap, size |-> t.v.size, cap |-> t.v.cap, inline |-> t.v.inline]
    BY <2>2, <2>4 DEF cells
  <2>8. t.v \in [heap : DOMAIN s.mem \cup {None}, size : Nat, cap : Nat,
                inline : [1..N -> Cells]]
    BY <1>1, <1>2, <2>6, <2>7
  <2>9. Data(t.v, s.mem) = cells
    BY <2>7 DEF Data
  <2>10. Contents(t.v, s.mem) = list
    <3>1. SubSeq(cells, 1, other.size) = list
      BY <1>1, <2>3, <2>5, FirstCells
    <3> QED
      BY <2>7, <2>9, <3>1 DEF Contents
  <2>11. Sound(t.v, s.mem)
    BY <1>2, <2>3, <2>5, <2>7, <2>8, <2>9, <2>10 DEF Sound
  <2> QED
    BY <1>3, <1>5, <2>2, <2>7, <2>10, <2>11 DEF t, list
<1> QED
  BY <1>4, <1>5

(* A move: the list changes hands, and its buffer its owner.               *)
LEMMA MovedSettled ==
  ASSUME VecInv, NEW x \in Names, NEW y \in DOMAIN vec \ {x}, NEW s, Bare(x, s),
         MoveOver(x, y, s)
  PROVE  /\ VecInv'
         /\ AsLists' = [z \in DOMAIN AsLists \cup {x} |->
                          IF z = x THEN AsLists[y] ELSE IF z = y THEN <<>> ELSE AsLists[z]]
<1> DEFINE own == Start(x).v.heap
<1> DEFINE t == Taken(s, vec[y])
<1>1. /\ DOMAIN heap \subseteq Buffers /\ None \notin DOMAIN heap /\ DOMAIN vec \subseteq Names
      /\ \A b \in DOMAIN heap : heap[b] \in Seq(Cells)
      /\ \A z \in DOMAIN vec : Sound(vec[z], heap)
  BY MemoryAssumption DEF VecInv, VecTypeOK
<1>2. DOMAIN s.mem = DOMAIN heap \ {own} /\ \A b \in DOMAIN s.mem : s.mem[b] = heap[b]
  BY DEF Bare
<1>3. \A z \in DOMAIN vec \ {x} :
        vec[z].heap \in DOMAIN s.mem \cup {None} /\ vec[z].heap \in DOMAIN heap \cup {None}
  <2> TAKE z \in DOMAIN vec \ {x}
  <2>1. vec[z].heap \in DOMAIN heap \cup {None}
    BY <1>1 DEF Sound
  <2>2. vec[z].heap = own => own \notin DOMAIN heap
    <3> SUFFICES ASSUME vec[z].heap = own, own \in DOMAIN heap PROVE FALSE
      OBVIOUS
    <3>1. x \in DOMAIN vec /\ vec[x].heap = own
      BY <1>1, StartFits DEF Absent
    <3> HIDE DEF own
    <3> QED
      BY <3>1, OneOwner
  <2> QED
    BY <1>2, <2>1, <2>2
<1>4. \A b \in DOMAIN s.mem : x \in DOMAIN vec => vec[x].heap # b
  BY <1>2, StartFits DEF Absent
<1> HIDE DEF own
<1>5. /\ t.mem = s.mem /\ t.v.heap = vec[y].heap /\ Sound(t.v, s.mem)
      /\ Contents(t.v, s.mem) = Contents(vec[y], heap)
      /\ Left(vec[y]).heap = None /\ Sound(Left(vec[y]), s.mem)
      /\ Contents(Left(vec[y]), s.mem) = <<>>
  <2>1. vec[y].heap # None => s.mem[vec[y].heap] = heap[vec[y].heap]
    BY <1>2, <1>3
  <2>2. s.v \in [heap : {None}, size : Nat, cap : {N}, inline : [1..N -> Cells]]
    BY DEF Bare
  <2> HIDE DEF t
  <2> QED
    BY <1>1, <1>3, <2>1, <2>2, TakenSound DEF t
<1>6. /\ DOMAIN vec' = DOMAIN vec \cup {x} /\ heap' = s.mem
      /\ vec'[x] = t.v /\ vec'[y] = Left(vec[y])
      /\ \A z \in DOMAIN vec \ {x, y} : vec'[z] = vec[z]
  <2>1. /\ vec' = [z \in DOMAIN vec \cup {x} |->
                     IF z = x THEN t.v ELSE IF z = y THEN Left(vec[y]) ELSE vec[z]]
        /\ heap' = t.mem
    BY DEF MoveOver
  <2> HIDE DEF t
  <2> QED
    BY <1>5, <2>1
<1> HIDE DEF t
<1>7. ASSUME NEW z \in DOMAIN vec \ {x}
      PROVE  Sound(vec[z], s.mem) /\ Contents(vec[z], s.mem) = Contents(vec[z], heap)
  <2>1. Sound(vec[z], heap)
    BY <1>1
  <2>2. /\ Data(vec[z], s.mem) = Data(vec[z], heap)
        /\ vec[z].heap \in DOMAIN s.mem \cup {None}
    BY <1>2, <1>3 DEF Data
  <2>3. Contents(vec[z], s.mem) = Contents(vec[z], heap)
    BY <2>2 DEF Contents
  <2>4. vec[z] \in [heap : DOMAIN s.mem \cup {None}, size : Nat, cap : Nat,
                    inline : [1..N -> Cells]]
    BY <2>1, <2>2 DEF Sound
  <2> QED
    BY <2>1, <2>2, <2>3, <2>4 DEF Sound
<1>8. VecTypeOK'
  <2>1. \A z \in DOMAIN vec' : Sound(vec'[z], heap')
    BY <1>5, <1>6, <1>7
  <2>2. \A b \in DOMAIN heap' : heap'[b] \in Seq(Cells)
    BY <1>1, <1>2, <1>6
  <2> QED
    BY <1>1, <1>2, <1>6, <2>1, <2>2 DEF VecTypeOK
<1>9. ASSUME NEW b \in DOMAIN heap'
      PROVE  \E w \in DOMAIN vec' : {z \in DOMAIN vec' : vec'[z].heap = b} = {w}
  <2>1. b \in DOMAIN s.mem /\ b \in DOMAIN heap /\ b # None
    BY <1>1, <1>2, <1>6
  <2>2. PICK o \in DOMAIN vec : \A z \in DOMAIN vec : vec[z].heap = b <=> z = o
    BY <2>1, OneOwner
  <2>3. o # x
    BY <1>4, <2>1, <2>2
  <2>4. CASE o = y
    <3>1. {z \in DOMAIN vec' : vec'[z].heap = b} = {x}
      BY <1>5, <1>6, <2>1, <2>2, <2>4
    <3> QED
      BY <1>6, <3>1
  <2>5. CASE o # y
    <3>1. {z \in DOMAIN vec' : vec'[z].heap = b} = {o}
      BY <1>5, <1>6, <2>1, <2>2, <2>3, <2>5
    <3> QED
      BY <1>6, <3>1
  <2> QED
    BY <2>4, <2>5
<1>10. AsLists' = [z \in DOMAIN AsLists \cup {x} |->
                    IF z = x THEN AsLists[y] ELSE IF z = y THEN <<>> ELSE AsLists[z]]
  <2>1. AsLists' = [z \in DOMAIN vec' |-> Contents(vec'[z], heap')]
    BY DEF AsLists
  <2>2. DOMAIN AsLists = DOMAIN vec /\ \A z \in DOMAIN vec : AsLists[z] = Contents(vec[z], heap)
    BY DEF AsLists
  <2>3. \A z \in DOMAIN vec' :
          Contents(vec'[z], heap')
            = IF z = x THEN AsLists[y] ELSE IF z = y THEN <<>> ELSE AsLists[z]
    BY <1>5, <1>6, <1>7, <2>2
  <2> QED
    BY <1>6, <2>1, <2>2, <2>3
<1> QED
  BY <1>8, <1>9, <1>10 DEF VecInv, BuffersOwnedOnce

(* The destructor gives the object's buffer back, and no other.            *)
LEMMA DestroyedSettled ==
  ASSUME VecInv, NEW x \in Names, Destroy(x)
  PROVE  VecInv' /\ AsLists' = Restrict(AsLists, DOMAIN AsLists \ {x})
<1> DEFINE s == Released(Here(x))
<1>1. /\ DOMAIN heap \subseteq Buffers /\ DOMAIN vec \subseteq Names
      /\ \A b \in DOMAIN heap : heap[b] \in Seq(Cells)
      /\ \A z \in DOMAIN vec : Sound(vec[z], heap)
  BY DEF VecInv, VecTypeOK
<1>2. x \in DOMAIN vec /\ heap' = s.mem
  BY DEF Destroy, Absent
<1>3. /\ DOMAIN vec' = DOMAIN vec \ {x}
      /\ \A z \in DOMAIN vec \ {x} : vec'[z] = vec[z]
  BY DEF Destroy, Restrict
<1>4. /\ DOMAIN s.mem = DOMAIN heap \ {vec[x].heap}
      /\ \A b \in DOMAIN s.mem : s.mem[b] = heap[b]
  <2>1. Bare(x, s)
    BY <1>2, ReleasedBare
  <2>2. Start(x).v = vec[x]
    BY <1>2, StartFits DEF Absent
  <2> QED
    BY <2>1, <2>2 DEF Bare
<1> HIDE DEF s
<1>5. \A z \in DOMAIN vec \ {x} : vec[z].heap \in DOMAIN s.mem \cup {None}
  <2> TAKE z \in DOMAIN vec \ {x}
  <2>1. vec[z].heap \in DOMAIN heap \cup {None}
    BY <1>1 DEF Sound
  <2>2. vec[z].heap \in DOMAIN heap => vec[z].heap # vec[x].heap
    BY <1>2, OneOwner
  <2> QED
    BY <1>4, <2>1, <2>2
<1>6. ASSUME NEW z \in DOMAIN vec \ {x}
      PROVE  Sound(vec[z], s.mem) /\ Contents(vec[z], s.mem) = Contents(vec[z], heap)
  <2>1. Sound(vec[z], heap)
    BY <1>1
  <2>2. /\ Data(vec[z], s.mem) = Data(vec[z], heap)
        /\ vec[z].heap \in DOMAIN s.mem \cup {None}
    BY <1>4, <1>5 DEF Data
  <2>3. Contents(vec[z], s.mem) = Contents(vec[z], heap)
    BY <2>2 DEF Contents
  <2>4. vec[z] \in [heap : DOMAIN s.mem \cup {None}, size : Nat, cap : Nat,
                    inline : [1..N -> Cells]]
    BY <2>1, <2>2 DEF Sound
  <2> QED
    BY <2>1, <2>2, <2>3, <2>4 DEF Sound
<1>7. VecTypeOK'
  BY <1>1, <1>2, <1>3, <1>4, <1>6 DEF VecTypeOK
<1>8. ASSUME NEW b \in DOMAIN heap'
      PROVE  \E w \in DOMAIN vec' : {z \in DOMAIN vec' : vec'[z].heap = b} = {w}
  <2>1. b \in DOMAIN heap /\ b # vec[x].heap
    BY <1>2, <1>4
  <2>2. PICK o \in DOMAIN vec : \A z \in DOMAIN vec : vec[z].heap = b <=> z = o
    BY <2>1, OneOwner
  <2>3. {z \in DOMAIN vec' : vec'[z].heap = b} = {o} /\ o \in DOMAIN vec'
    BY <1>2, <1>3, <2>1, <2>2
  <2> QED
    BY <2>3
<1>9. AsLists' = Restrict(AsLists, DOMAIN AsLists \ {x})
  <2>1. AsLists' = [z \in DOMAIN vec' |-> Contents(vec'[z], heap')]
    BY DEF AsLists
  <2>2. DOMAIN AsLists = DOMAIN vec /\ \A z \in DOMAIN vec : AsLists[z] = Contents(vec[z], heap)
    BY DEF AsLists
  <2>3. \A z \in DOMAIN vec' : Contents(vec'[z], heap') = AsLists[z]
    BY <1>2, <1>3, <1>6, <2>2
  <2> QED
    BY <1>3, <2>1, <2>2, <2>3 DEF Restrict
<1> QED
  BY <1>7, <1>8, <1>9 DEF VecInv, BuffersOwnedOnce
-----------------------------------------------------------------------------
(* Every operation is one of lists.                                        *)

(* Nothing is allocated, and there are no lists.                           *)
LEMMA InitLists == Init => VecInv /\ Lists!ListsInit
<1> SUFFICES ASSUME Init PROVE VecInv /\ Lists!ListsInit
  OBVIOUS
<1>1. vec = <<>> /\ heap = <<>> /\ DOMAIN vec = {} /\ DOMAIN heap = {}
  BY DEF Init
<1>2. VecInv
  BY <1>1 DEF VecInv, VecTypeOK, BuffersOwnedOnce
<1>3. AsLists = <<>>
  <2>1. AsLists = [x \in {} |-> Contents(vec[x], heap)]
    BY <1>1 DEF AsLists
  <2> QED
    BY <1>1, <2>1
<1> QED
  BY <1>2, <1>3 DEF Lists!ListsInit

(* A local operation that leaves this list is one that binds it.           *)
LEMMA Binds ==
  ASSUME VecInv, NEW x \in Names, NEW t, Fit(t), Only(Start(x), t), Becomes(x, t)
  PROVE  VecInv' /\ Lists!Bind(x, Contents(t.v, t.mem))
  BY Settled DEF Lists!Bind

(* The lists are what the objects hold.                                    *)
LEMMA ListsOf ==
  ASSUME VecInv
  PROVE  /\ DOMAIN AsLists = DOMAIN vec
         /\ \A x \in DOMAIN vec :
              AsLists[x] = Contents(vec[x], heap) /\ AsLists[x] \in Seq(Elements)
  BY DEF AsLists, VecInv, VecTypeOK, Sound

(* The constructors from nothing and from initialisers.                    *)
LEMMA MakeLists ==
  ASSUME VecInv, NEW x \in Names, Make(x) PROVE VecInv' /\ Lists!Made(x)
<1>1. PICK list \in BoundedSeq(Elements, N + 1) :
        Becomes(x, PushedAll(State(Cleared, heap), list))
  BY DEF Make
<1>2. list \in Seq(Elements)
  BY <1>1 DEF BoundedSeq, SeqOf
<1> DEFINE t == PushedAll(State(Cleared, heap), list)
<1>3. /\ Absent(x) /\ Start(x) = State(Cleared, heap) /\ Fit(Start(x)) /\ Roomy(Start(x))
      /\ Contents(Start(x).v, Start(x).mem) = <<>>
  BY StartFits, RoomForAll DEF Make
<1>4. Fit(t) /\ Only(Start(x), t) /\ Contents(t.v, t.mem) = list
  <2> HIDE DEF t
  <2> QED
    BY <1>2, <1>3, PushedAllLocal DEF t
<1> HIDE DEF t
<1>5. VecInv' /\ Lists!Bind(x, list)
  BY <1>1, <1>4, Binds DEF t
<1>6. x \in DOMAIN AsLists' /\ AsLists'[x] = list /\ x \notin DOMAIN AsLists
  BY <1>3, <1>5, ListsOf DEF Lists!Bind, Absent
<1> QED
  BY <1>2, <1>5, <1>6 DEF Lists!Made

(* push_back() appends.                                                    *)
LEMMA PushBackLists ==
  ASSUME VecInv, NEW x \in Names, PushBack(x)
  PROVE  VecInv' /\ x \in DOMAIN AsLists /\ Lists!Appended(x)
<1>1. PICK e \in Elements : Becomes(x, Pushed(Here(x), e))
  BY DEF PushBack
<1> DEFINE t == Pushed(Here(x), e)
<1>2. /\ ~Absent(x) /\ Start(x) = Here(x) /\ Fit(Start(x)) /\ HasRoom(Start(x))
      /\ Contents(Start(x).v, Start(x).mem) = AsLists[x]
  BY StartFits, RoomForAll, OnlyItself, ListsOf DEF PushBack, Roomy, Absent
<1> HIDE DEF t
<1>3. Fit(t) /\ Only(Start(x), t) /\ Contents(t.v, t.mem) = Append(AsLists[x], e)
  BY <1>2, PushedLocal DEF t
<1>4. VecInv' /\ Lists!Bind(x, Append(AsLists[x], e))
  BY <1>1, <1>3, Binds DEF t
<1> QED
  BY <1>2, <1>4, ListsOf DEF Lists!Appended, Absent

(* clear() leaves the empty list, in the buffer there was.                 *)
LEMMA ClearLists ==
  ASSUME VecInv, NEW x \in Names, Clear(x)
  PROVE  VecInv' /\ x \in DOMAIN AsLists /\ Lists!Emptied(x)
<1> DEFINE t == State([vec[x] EXCEPT !.size = 0], heap)
<1>1. x \in DOMAIN vec /\ Becomes(x, t) /\ Start(x) = Here(x) /\ Fit(Here(x))
  BY StartFits DEF Clear, Absent
<1>2. /\ Here(x).v = vec[x] /\ Here(x).mem = heap
      /\ t.v = [vec[x] EXCEPT !.size = 0] /\ t.mem = heap
  BY DEF Here, State
<1> HIDE DEF t
<1>3. /\ vec[x] \in [heap : DOMAIN heap \cup {None}, size : Nat, cap : Nat,
                     inline : [1..N -> Cells]]
      /\ vec[x].cap = Len(Data(vec[x], heap)) /\ N <= vec[x].cap
      /\ Data(vec[x], heap) \in Seq(Cells) /\ vec[x].cap \in Nat
      /\ DOMAIN heap \subseteq Buffers /\ \A b \in DOMAIN heap : heap[b] \in Seq(Cells)
  BY <1>1, <1>2, ListOf DEF Fit, Sound
<1>4. /\ t.v \in [heap : DOMAIN heap \cup {None}, size : Nat, cap : Nat,
                  inline : [1..N -> Cells]]
      /\ t.v.heap = vec[x].heap /\ t.v.size = 0 /\ t.v.cap = vec[x].cap
      /\ t.v.inline = vec[x].inline
  BY <1>2, <1>3
<1>5. Data(t.v, t.mem) = Data(vec[x], heap)
  BY <1>2, <1>4 DEF Data
<1>6. Fit(t) /\ Contents(t.v, t.mem) = <<>>
  <2>1. <<>> \in Seq(Elements) /\ Len(<<>>) = 0
    OBVIOUS
  <2> DEFINE none == <<>>
  <2>2. none \in Seq(Elements) /\ Len(none) = 0
    BY <2>1
  <2> HIDE DEF none
  <2>3. \A i \in 1..t.v.size : Data(t.v, t.mem)[i] = none[i]
    BY <1>4
  <2>4. /\ Data(t.v, t.mem) \in Seq(Cells) /\ t.v.cap = Len(Data(t.v, t.mem))
        /\ N <= t.v.cap /\ t.v.size <= t.v.cap /\ Len(none) = t.v.size
    BY <1>3, <1>4, <1>5, <2>2
  <2>5. Fit(t) /\ Contents(t.v, t.mem) = none
    BY <1>2, <1>3, <1>4, <2>2, <2>3, <2>4, FitFrom
  <2> QED
    BY <2>5 DEF none
<1>7. Only(Start(x), t)
  <2>1. vec[x].heap \in DOMAIN heap \cup {None}
    BY <1>3
  <2> QED
    BY <1>1, <1>2, <1>4, <2>1 DEF Only
<1> QED
  BY <1>1, <1>6, <1>7, Binds, ListsOf DEF Lists!Emptied

(* reserve() does not change the list: at most the buffer it is in.        *)
LEMMA ReserveLists ==
  ASSUME VecInv, NEW x \in Names, Reserve(x) PROVE VecInv' /\ UNCHANGED AsLists
<1>1. PICK n \in 1..MaxSize : Becomes(x, Reserved(Here(x), n))
  BY DEF Reserve
<1> DEFINE t == Reserved(Here(x), n)
<1>2. /\ x \in DOMAIN vec /\ Start(x) = Here(x) /\ Fit(Start(x)) /\ HasRoom(Start(x))
      /\ Contents(Start(x).v, Start(x).mem) = AsLists[x]
  BY StartFits, RoomForAll, OnlyItself, ListsOf DEF Reserve, Roomy, Absent
<1>3. n \in Nat
  BY SizesAssumption
<1> HIDE DEF t
<1>4. Fit(t) /\ Only(Start(x), t) /\ Contents(t.v, t.mem) = AsLists[x]
  BY <1>2, <1>3, ReservedLocal DEF t
<1>5. VecInv' /\ Lists!Bind(x, AsLists[x])
  BY <1>1, <1>4, Binds DEF t
<1>6. AsLists = [y \in DOMAIN AsLists |-> AsLists[y]] /\ DOMAIN AsLists = DOMAIN vec
  BY DEF AsLists
<1>7. AsLists' = [y \in DOMAIN AsLists |-> AsLists[y]]
  BY <1>2, <1>5, <1>6 DEF Lists!Bind
<1> QED
  BY <1>5, <1>6, <1>7

(* The copying constructor and assignment.                                 *)
LEMMA CopyLists ==
  ASSUME VecInv, NEW x \in Names, CopyConstruct(x) \/ CopyAssign(x)
  PROVE  VecInv' /\ Lists!Copied(x)
<1>1. PICK y \in DOMAIN vec : Becomes(x, Assigned(Start(x), Contents(vec[y], heap)))
  BY StartFits DEF CopyConstruct, CopyAssign
<1> DEFINE t == Assigned(Start(x), Contents(vec[y], heap))
<1>2. Fit(Start(x)) /\ HasRoom(Start(x))
  BY StartFits, RoomForAll, OnlyItself DEF Roomy
<1>3. AsLists[y] = Contents(vec[y], heap) /\ AsLists[y] \in Seq(Elements)
  BY ListsOf
<1> HIDE DEF t
<1>4. Fit(t) /\ Only(Start(x), t) /\ Contents(t.v, t.mem) = AsLists[y]
  BY <1>2, <1>3, AssignedLocal DEF t
<1>5. VecInv' /\ Lists!Bind(x, AsLists[y])
  BY <1>1, <1>4, Binds DEF t
<1> QED
  BY <1>5, ListsOf DEF Lists!Copied

(* The moving constructor and assignment.                                  *)
LEMMA MoveLists ==
  ASSUME VecInv, NEW x \in Names, MoveConstruct(x) \/ MoveAssign(x)
  PROVE  VecInv' /\ Lists!Moved(x)
<1>1. \E y \in DOMAIN vec \ {x} : \E s : Bare(x, s) /\ MoveOver(x, y, s)
  BY ClearedBare, ReleasedBare DEF MoveConstruct, MoveAssign, Absent
<1>2. PICK y \in DOMAIN vec \ {x} : \E s : Bare(x, s) /\ MoveOver(x, y, s)
  BY <1>1
<1>3. PICK s : Bare(x, s) /\ MoveOver(x, y, s)
  BY <1>2
<1>4. VecInv' /\ AsLists' = [z \in DOMAIN AsLists \cup {x} |->
                              IF z = x THEN AsLists[y] ELSE IF z = y THEN <<>> ELSE AsLists[z]]
  BY <1>3, MovedSettled
<1> QED
  BY <1>4, ListsOf DEF Lists!Moved

(* Each operation keeps the invariant, and is a step of lists.             *)
LEMMA StepLists == VecInv /\ [Next]_vars => VecInv' /\ [Lists!ListsNext]_AsLists
<1> SUFFICES ASSUME VecInv, [Next]_vars PROVE VecInv' /\ [Lists!ListsNext]_AsLists
  OBVIOUS
<1>1. CASE UNCHANGED vars
  BY <1>1 DEF vars, VecInv, VecTypeOK, BuffersOwnedOnce, AsLists
<1>2. ASSUME NEW x \in Names, Make(x) PROVE VecInv' /\ Lists!ListsNext
  BY <1>2, MakeLists DEF Lists!ListsNext
<1>3. ASSUME NEW x \in Names, PushBack(x) PROVE VecInv' /\ Lists!ListsNext
  BY <1>3, PushBackLists DEF Lists!ListsNext
<1>4. ASSUME NEW x \in Names, Clear(x) PROVE VecInv' /\ Lists!ListsNext
  BY <1>4, ClearLists DEF Lists!ListsNext
<1>5. ASSUME NEW x \in Names, Reserve(x) PROVE VecInv' /\ UNCHANGED AsLists
  BY <1>5, ReserveLists
<1>6. ASSUME NEW x \in Names, CopyConstruct(x) \/ CopyAssign(x)
      PROVE  VecInv' /\ Lists!ListsNext
  BY <1>6, CopyLists DEF Lists!ListsNext
<1>7. ASSUME NEW x \in Names, MoveConstruct(x) \/ MoveAssign(x)
      PROVE  VecInv' /\ Lists!ListsNext
  BY <1>7, MoveLists DEF Lists!ListsNext
<1>8. ASSUME NEW x \in Names, Destroy(x) PROVE VecInv' /\ Lists!ListsNext
  <2>1. x \in DOMAIN AsLists
    BY <1>8, ListsOf DEF Destroy, Absent
  <2>2. VecInv' /\ AsLists' = Restrict(AsLists, DOMAIN AsLists \ {x})
    BY <1>8, DestroyedSettled
  <2>3. Lists!Gone(x)
    BY <2>2 DEF Lists!Gone, Lists!Restrict, Restrict
  <2> QED
    BY <2>1, <2>2, <2>3 DEF Lists!ListsNext
<1> QED
  BY <1>1, <1>2, <1>3, <1>4, <1>5, <1>6, <1>7, <1>8 DEF Next

(* Memory is never misused: no cell is read that holds no element, no list *)
(* is longer than its cells, and every buffer is freed by its one owner    *)
(* (all operations of SmallVec).                                           *)
THEOREM VecInvariance == Spec => []VecInv
<1>1. VecInv /\ [Next]_vars => VecInv'
  BY StepLists
<1> QED
  BY <1>1, InitLists, PTL DEF Spec

(* SmallVec implements lists that are values: every operation of it is one *)
(* of lists that share nothing, or changes no list.                        *)
THEOREM VectorsAreValues == Spec => KeepsValues
<1>1. Init => VecInv /\ Lists!ListsInit
  BY InitLists
<1>2. VecInv /\ [Next]_vars => VecInv' /\ [Lists!ListsNext]_AsLists
  BY StepLists
<1> QED
  BY <1>1, <1>2, PTL DEF Spec, KeepsValues, Lists!ListsSpec
=============================================================================
