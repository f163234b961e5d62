--------------------------- MODULE LiskDequeProofs ---------------------------
(***************************************************************************)
(* Proofs about the deque, for any size of block, any size of map from 2   *)
(* on and any set of values: every block has one place in the map, and the *)
(* operations are those of a sequence.                                     *)
(*                                                                         *)
(* A cell is a place in a block.  Numbered through, Num, the cells of the  *)
(* deque are those from start up to, not including, end; deque_at counts   *)
(* from start on.  The lemmas are about a deque given by its five parts,   *)
(* so that they serve for the one before a step, the one after it, and the *)
(* one that deque_update_map leaves in between.                            *)
(***************************************************************************)
EXTENDS LiskDeque, TLAPS

Cells  == [index : Nat, cur : 0 .. unit_num - 1]
Elems  == Values \cup {Junk}
Blocks == [0 .. unit_num - 1 -> Elems]
Num(c) == c.index * unit_num + c.cur

LEMMA Unit == ASSUME DequeAssumption PROVE unit_num \in Nat \ {0}
  BY DEF DequeAssumption

(***************************************************************************)
(* Sequences                                                               *)
(***************************************************************************)
LEMMA SeqType ==
  ASSUME NEW S, NEW s \in Seq(S)
  PROVE  /\ Len(s) \in Nat /\ DOMAIN s = 1 .. Len(s)
         /\ \A i \in 1 .. Len(s) : s[i] \in S
         /\ s # << >> => Len(s) > 0
  OBVIOUS

LEMMA SameSeq ==
  ASSUME NEW S, NEW s \in Seq(S), NEW t \in Seq(S), Len(s) = Len(t),
         \A i \in 1 .. Len(s) : s[i] = t[i]
  PROVE  s = t
  OBVIOUS

LEMMA Concat ==
  ASSUME NEW S, NEW s \in Seq(S), NEW t \in Seq(S)
  PROVE  /\ s \o t \in Seq(S) /\ Len(s \o t) = Len(s) + Len(t)
         /\ \A i \in 1 .. Len(s) + Len(t) :
               (s \o t)[i] = IF i <= Len(s) THEN s[i] ELSE t[i - Len(s)]
  OBVIOUS

LEMMA Appended ==
  ASSUME NEW S, NEW s \in Seq(S), NEW x \in S
  PROVE  /\ Append(s, x) \in Seq(S) /\ Append(s, x) # << >>
         /\ Len(Append(s, x)) = Len(s) + 1
         /\ \A i \in 1 .. Len(s) : Append(s, x)[i] = s[i]
         /\ Append(s, x)[Len(s) + 1] = x
  OBVIOUS

(***************************************************************************)
(* The numbers of the cells                                                *)
(***************************************************************************)
LEMMA Product ==
  ASSUME NEW u \in Nat \ {0}, NEW i \in Nat, NEW j \in Nat, i < j
  PROVE  i * u \in Nat /\ j * u \in Nat /\ i * u + u <= j * u
  <1>1. PICK d \in Nat : j = i + 1 + d
    <2>1. j - i - 1 \in Nat /\ j = i + 1 + (j - i - 1)
      OBVIOUS
    <2>2. QED
      BY <2>1
  <1>2. (i + 1 + d) * u = i * u + u + d * u /\ d * u \in Nat /\ i * u \in Nat
    OBVIOUS
  <1>3. QED
    BY <1>1, <1>2

LEMMA NumType ==
  ASSUME DequeAssumption, NEW c \in Cells
  PROVE  /\ Num(c) \in Nat /\ c.index \in Nat /\ c.cur \in 0 .. unit_num - 1 /\ c.cur \in Nat
         /\ c.cur < unit_num /\ c.index * unit_num \in Nat
  <1>1. unit_num \in Nat \ {0} /\ c.index \in Nat /\ c.cur \in 0 .. unit_num - 1
    BY Unit DEF Cells
  <1>2. c.index * unit_num \in Nat
    BY <1>1
  <1>3. QED
    BY <1>1, <1>2 DEF Num

\* The order of the numbers is the order of blocks, and inside a block of places.
LEMMA NumOrder ==
  ASSUME DequeAssumption, NEW c \in Cells, NEW d \in Cells
  PROVE  /\ Num(c) < Num(d) <=> c.index < d.index \/ (c.index = d.index /\ c.cur < d.cur)
         /\ Num(c) = Num(d) <=> c = d
  <1>0. /\ unit_num \in Nat \ {0} /\ c.index \in Nat /\ d.index \in Nat
        /\ c.cur \in 0 .. unit_num - 1 /\ d.cur \in 0 .. unit_num - 1
        /\ c.index * unit_num \in Nat /\ d.index * unit_num \in Nat
    BY NumType, Unit
  <1>1. c = [index |-> c.index, cur |-> c.cur] /\ d = [index |-> d.index, cur |-> d.cur]
    BY DEF Cells
  <1>2. CASE c.index < d.index
    <2>1. c.index * unit_num + unit_num <= d.index * unit_num
      BY <1>0, <1>2, Product
    <2>2. Num(c) < Num(d)
      BY <1>0, <2>1 DEF Num
    <2>3. QED
      BY <1>0, <1>2, <2>2, NumType
  <1>3. CASE d.index < c.index
    <2>1. d.index * unit_num + unit_num <= c.index * unit_num
      BY <1>0, <1>3, Product
    <2>2. Num(d) < Num(c)
      BY <1>0, <2>1 DEF Num
    <2>3. QED
      BY <1>0, <1>3, <2>2, NumType
  <1>4. CASE c.index = d.index
    <2>1. Num(c) < Num(d) <=> c.cur < d.cur
      BY <1>0, <1>4 DEF Num
    <2>2. Num(c) = Num(d) <=> c.cur = d.cur
      BY <1>0, <1>4 DEF Num
    <2>3. QED
      BY <1>0, <1>1, <1>4, <2>1, <2>2
  <1>5. QED
    BY <1>0, <1>2, <1>3, <1>4

LEMMA SizeIs ==
  ASSUME DequeAssumption, NEW st \in Cells, NEW en \in Cells
  PROVE  (en.index - st.index) * unit_num + en.cur - st.cur = Num(en) - Num(st)
  <1>0. /\ unit_num \in Nat \ {0} /\ st.index \in Nat /\ en.index \in Nat
        /\ st.cur \in Nat /\ en.cur \in Nat
    BY NumType, Unit
  <1>1. ASSUME NEW u \in Nat, NEW i \in Nat, NEW j \in Nat
        PROVE  (j - i) * u = j * u - i * u /\ j * u \in Nat /\ i * u \in Nat
    OBVIOUS
  <1>2. QED
    BY <1>0, <1>1 DEF Num

\* Every number is that of a cell.
LEMMA DivMod ==
  ASSUME NEW u \in Nat \ {0}, NEW q \in Nat, NEW r \in 0 .. u - 1
  PROVE  (q * u + r) \div u = q /\ (q * u + r) % u = r
  <1>1. q * u \in Nat
    OBVIOUS
  <1>2. QED
    BY <1>1

LEMMA CellOf ==
  ASSUME DequeAssumption, NEW n \in Nat
  PROVE  \E c \in Cells : Num(c) = n
  <1>0. unit_num \in Nat \ {0}
    BY Unit
  <1> DEFINE q == n \div unit_num
             r == n % unit_num
             c == [index |-> q, cur |-> r]
  <1>1. q \in Nat /\ r \in 0 .. unit_num - 1 /\ n = q * unit_num + r
    BY <1>0
  <1> HIDE DEF q, r
  <1>2. c \in Cells /\ Num(c) = n
    BY <1>1 DEF Cells, Num
  <1>3. QED
    BY <1>2


(***************************************************************************)
(* A deque by its parts: the heap h, the map m, and start and end          *)
(***************************************************************************)
Cell(h, m, c) == h[m[c.index]][c.cur]

At(h, m, st, k) == LET p == k + st.cur
                   IN h[m[st.index + p \div unit_num]][p % unit_num]

Content(h, m, st, en) == [k \in 1 .. Num(en) - Num(st) |-> At(h, m, st, k - 1)]

\* deque_at finds the cell whose number is that of start and the position added.
LEMMA AtIsCell ==
  ASSUME DequeAssumption, NEW h, NEW m, NEW st \in Cells, NEW k \in Nat, NEW c \in Cells,
         Num(c) = Num(st) + k
  PROVE  At(h, m, st, k) = Cell(h, m, c)
  <1> DEFINE u == unit_num
             q == c.index - st.index
             p == k + st.cur
  <1>0. /\ u \in Nat \ {0} /\ st.index \in Nat /\ st.cur \in 0 .. u - 1
        /\ c.index \in Nat /\ c.cur \in 0 .. u - 1 /\ Num(st) \in Nat /\ Num(c) \in Nat
    BY NumType, Unit
  <1>1. st.index <= c.index
    <2>1. ~(Num(c) < Num(st))
      BY <1>0
    <2>2. QED
      BY <1>0, <2>1, NumOrder
  <1>2. q \in Nat /\ c.index = st.index + q
    BY <1>0, <1>1
  <1>3. (st.index + q) * u = st.index * u + q * u /\ st.index * u \in Nat /\ q * u \in Nat
    BY <1>0, <1>2
  <1>4. p = q * u + c.cur
    BY <1>0, <1>2, <1>3 DEF Num
  <1> HIDE DEF u, q, p
  <1>5. p \div u = q /\ p % u = c.cur
    BY <1>0, <1>2, <1>4, DivMod, Zenon
  <1>6. QED
    BY <1>2, <1>5 DEF At, Cell, u, p

\* The lengths and the elements of a content, and of one read off other parts.
LEMMA ContentElements ==
  ASSUME DequeAssumption, NEW h, NEW m, NEW st \in Cells, NEW en \in Cells, Num(st) <= Num(en),
         \A c \in Cells : Num(st) <= Num(c) /\ Num(c) < Num(en) => Cell(h, m, c) \in Elems
  PROVE  /\ Content(h, m, st, en) \in Seq(Elems)
         /\ Len(Content(h, m, st, en)) = Num(en) - Num(st)
         /\ Num(en) - Num(st) \in Nat
         /\ \A c \in Cells : Num(st) <= Num(c) /\ Num(c) < Num(en) =>
              /\ Num(c) - Num(st) + 1 \in 1 .. Num(en) - Num(st)
              /\ Content(h, m, st, en)[Num(c) - Num(st) + 1] = Cell(h, m, c)
  <1> DEFINE n == Num(en) - Num(st)
             s == Content(h, m, st, en)
             e(k) == At(h, m, st, k - 1)
  <1>0. Num(st) \in Nat /\ Num(en) \in Nat /\ n \in Nat
    BY NumType
  <1>1. ASSUME NEW k \in 1 .. n PROVE e(k) \in Elems
    <2>1. k - 1 \in Nat /\ Num(st) + (k - 1) \in Nat
      BY <1>0
    <2>2. PICK c \in Cells : Num(c) = Num(st) + (k - 1)
      BY <2>1, CellOf
    <2>3. At(h, m, st, k - 1) = Cell(h, m, c)
      BY <2>1, <2>2, AtIsCell
    <2>4. Num(st) <= Num(c) /\ Num(c) < Num(en)
      BY <1>0, <2>2
    <2>5. QED
      BY <2>3, <2>4
  <1>2. s = [k \in 1 .. n |-> e(k)]
    BY DEF Content
  <1> HIDE DEF e, n, s
  <1>3. s \in Seq(Elems) /\ Len(s) = n
    BY <1>0, <1>1, <1>2
  <1>4. ASSUME NEW c \in Cells, Num(st) <= Num(c), Num(c) < Num(en)
        PROVE  /\ Num(c) - Num(st) + 1 \in 1 .. n
               /\ s[Num(c) - Num(st) + 1] = Cell(h, m, c)
    <2> DEFINE k == Num(c) - Num(st) + 1
    <2>1. Num(c) \in Nat
      BY NumType
    <2>2. k \in 1 .. n /\ k - 1 \in Nat /\ Num(c) = Num(st) + (k - 1)
      BY <1>0, <1>4, <2>1 DEF n
    <2> HIDE DEF k
    <2>3. s[k] = At(h, m, st, k - 1)
      BY <1>2, <2>2 DEF e
    <2>4. At(h, m, st, k - 1) = Cell(h, m, c)
      BY <2>2, AtIsCell
    <2>5. QED
      BY <2>2, <2>3, <2>4 DEF k
  <1>5. QED
    BY <1>0, <1>3, <1>4 DEF n, s

\* Where the cell of an element is.
LEMMA ElementCell ==
  ASSUME DequeAssumption, NEW st \in Cells, NEW en \in Cells, NEW k \in 1 .. Num(en) - Num(st)
  PROVE  \E c \in Cells : Num(c) = Num(st) + k - 1 /\ Num(st) <= Num(c) /\ Num(c) < Num(en)
  <1>0. Num(st) \in Nat /\ Num(en) \in Nat
    BY NumType
  <1>1. Num(st) + k - 1 \in Nat
    BY <1>0
  <1>2. PICK c \in Cells : Num(c) = Num(st) + k - 1
    BY <1>1, CellOf
  <1>3. QED
    BY <1>0, <1>2

(***************************************************************************)
(* What a deque is, and what its operations do to its content              *)
(***************************************************************************)
Used(st, en) == st.index .. en.index

Good(h, m, n, st, en) ==
  /\ n \in Nat /\ n > 1 /\ m \in [0 .. n - 1 -> Addr \cup {Junk}] /\ h \in [Addr -> Blocks \cup {<< >>}]
  /\ st \in Cells /\ en \in Cells /\ Num(st) <= Num(en) /\ en.index < n
  /\ \A i, j \in Used(st, en) : m[i] = m[j] => i = j
  /\ {a \in Addr : h[a] # << >>} = {m[i] : i \in Used(st, en)}

LEMMA GoodCells ==
  ASSUME DequeAssumption, NEW h, NEW m, NEW n, NEW st, NEW en, Good(h, m, n, st, en)
  PROVE  /\ st.index \in Nat /\ en.index \in Nat /\ st.index <= en.index
         /\ \A i \in Used(st, en) : /\ i \in 0 .. n - 1 /\ i \in Nat /\ m[i] \in Addr
                                    /\ h[m[i]] # << >> /\ h[m[i]] \in Blocks
         /\ \A c \in Cells : Num(st) <= Num(c) /\ Num(c) <= Num(en) =>
              c.index \in Used(st, en) /\ Cell(h, m, c) \in Elems
  <1>0. /\ st \in Cells /\ en \in Cells /\ st.index \in Nat /\ en.index \in Nat /\ n \in Nat
        /\ Num(st) \in Nat /\ Num(en) \in Nat /\ Num(st) <= Num(en) /\ en.index < n
    BY NumType DEF Good
  <1>1. ASSUME NEW c \in Cells, NEW d \in Cells, Num(c) <= Num(d) PROVE c.index <= d.index
    <2>1. c.index \in Nat /\ d.index \in Nat /\ Num(c) \in Nat /\ Num(d) \in Nat
      BY NumType
    <2>2. ~(Num(d) < Num(c))
      BY <1>1, <2>1
    <2>3. ~(d.index < c.index)
      BY <2>2, NumOrder
    <2>4. QED
      BY <2>1, <2>3
  <1>2. st.index <= en.index
    BY <1>0, <1>1
  <1>3. ASSUME NEW i \in Used(st, en)
        PROVE  /\ i \in 0 .. n - 1 /\ i \in Nat /\ m[i] \in Addr
               /\ h[m[i]] # << >> /\ h[m[i]] \in Blocks
    <2>1. i \in 0 .. n - 1 /\ i \in Nat
      BY <1>0 DEF Used
    <2>2. m[i] \in {a \in Addr : h[a] # << >>}
      BY DEF Good
    <2>3. h[m[i]] \in Blocks \cup {<< >>}
      BY <2>2 DEF Good
    <2>4. QED
      BY <2>1, <2>2, <2>3
  <1>4. ASSUME NEW c \in Cells, Num(st) <= Num(c), Num(c) <= Num(en)
        PROVE  c.index \in Used(st, en) /\ Cell(h, m, c) \in Elems
    <2>1. c.index \in Nat /\ c.cur \in 0 .. unit_num - 1
      BY NumType
    <2>2. st.index <= c.index /\ c.index <= en.index
      BY <1>0, <1>1, <1>4
    <2>3. c.index \in Used(st, en)
      BY <1>0, <2>1, <2>2 DEF Used
    <2>4. h[m[c.index]] \in Blocks
      BY <1>3, <2>3
    <2>5. QED
      BY <2>1, <2>3, <2>4, Zenon DEF Cell, Blocks
  <1>5. QED
    BY <1>0, <1>2, <1>3, <1>4


\* Between st and en lie elements.
Filled(h, m, st, en) ==
  /\ st \in Cells /\ en \in Cells /\ Num(st) <= Num(en)
  /\ \A c \in Cells : Num(st) <= Num(c) /\ Num(c) < Num(en) => Cell(h, m, c) \in Elems

LEMMA GoodFilled ==
  ASSUME DequeAssumption, NEW h, NEW m, NEW n, NEW st, NEW en, Good(h, m, n, st, en)
  PROVE  Filled(h, m, st, en)
  <1>1. st \in Cells /\ en \in Cells /\ Num(st) <= Num(en)
    BY DEF Good
  <1>2. ASSUME NEW c \in Cells, Num(st) <= Num(c), Num(c) < Num(en)
        PROVE  Cell(h, m, c) \in Elems
    <2>1. Num(c) <= Num(en)
      BY <1>1, <1>2, NumType
    <2>2. QED
      BY <1>2, <2>1, GoodCells
  <1>3. QED
    BY <1>1, <1>2 DEF Filled

\* In the places S of the map, and from st up to en, two deques have the same elements.
Alike(h, m, H, M, S) == \A c \in Cells : c.index \in S => Cell(H, M, c) = Cell(h, m, c)

SameCells(h, m, H, M, st, en) ==
  \A c \in Cells : Num(st) <= Num(c) /\ Num(c) < Num(en) => Cell(H, M, c) = Cell(h, m, c)

LEMMA AlikeSame ==
  ASSUME DequeAssumption, NEW h, NEW m, NEW n, NEW st, NEW en, Good(h, m, n, st, en),
         NEW H, NEW M, Alike(h, m, H, M, Used(st, en))
  PROVE  SameCells(h, m, H, M, st, en)
  <1>1. ASSUME NEW c \in Cells, Num(st) <= Num(c), Num(c) < Num(en)
        PROVE  Cell(H, M, c) = Cell(h, m, c)
    <2>1. Num(c) <= Num(en)
      BY <1>1, NumType DEF Good
    <2>2. c.index \in Used(st, en)
      BY <1>1, <2>1, GoodCells
    <2>3. QED
      BY <2>2 DEF Alike
  <1>2. QED
    BY <1>1 DEF SameCells

\* One more element at the front, and one more at the back.
LEMMA LongerFront ==
  ASSUME DequeAssumption, NEW h, NEW m, NEW st, NEW en, NEW H, NEW M, NEW St,
         Filled(h, m, st, en), Filled(H, M, St, en), Num(st) = Num(St) + 1,
         SameCells(h, m, H, M, st, en)
  PROVE  Content(H, M, St, en) = <<Cell(H, M, St)>> \o Content(h, m, st, en)
  <1> DEFINE s == Content(h, m, st, en)
             t == Content(H, M, St, en)
             v == Cell(H, M, St)
             n == Num(en) - Num(st)
             N == Num(en) - Num(St)
  <1>1. /\ st \in Cells /\ en \in Cells /\ St \in Cells
        /\ Num(st) \in Nat /\ Num(en) \in Nat /\ Num(St) \in Nat
    BY NumType DEF Filled
  <1>2. /\ s \in Seq(Elems) /\ Len(s) = n /\ n \in Nat
        /\ \A c \in Cells : Num(st) <= Num(c) /\ Num(c) < Num(en) =>
             s[Num(c) - Num(st) + 1] = Cell(h, m, c)
    BY ContentElements DEF Filled
  <1>3. /\ t \in Seq(Elems) /\ Len(t) = N /\ N \in Nat
        /\ \A c \in Cells : Num(St) <= Num(c) /\ Num(c) < Num(en) =>
             t[Num(c) - Num(St) + 1] = Cell(H, M, c)
    BY ContentElements DEF Filled
  <1>4. N = n + 1 /\ Num(St) < Num(en)
    BY <1>1, <1>2
  <1>5. v \in Elems
    BY <1>1, <1>4 DEF Filled
  <1> HIDE DEF s, t, v, n, N
  <1>6. /\ <<v>> \in Seq(Elems) /\ Len(<<v>>) = 1 /\ <<v>>[1] = v
    BY <1>5
  <1>7. /\ <<v>> \o s \in Seq(Elems) /\ Len(<<v>> \o s) = n + 1
        /\ \A i \in 1 .. n + 1 : (<<v>> \o s)[i] = IF i <= 1 THEN <<v>>[i] ELSE s[i - 1]
    <2>1. /\ <<v>> \o s \in Seq(Elems) /\ Len(<<v>> \o s) = 1 + n
          /\ \A i \in 1 .. 1 + n : (<<v>> \o s)[i] = IF i <= 1 THEN <<v>>[i] ELSE s[i - 1]
      BY <1>2, <1>6, Concat
    <2>2. 1 + n = n + 1
      BY <1>2
    <2>3. QED
      BY <2>1, <2>2
  <1>8. ASSUME NEW k \in 1 .. n + 1 PROVE t[k] = (<<v>> \o s)[k]
    <2>1. PICK c \in Cells : Num(c) = Num(St) + k - 1 /\ Num(St) <= Num(c) /\ Num(c) < Num(en)
      BY <1>1, <1>4, ElementCell DEF N
    <2>2. t[k] = Cell(H, M, c)
      <3>1. Num(c) - Num(St) + 1 = k
        BY <1>1, <1>2, <2>1
      <3>2. QED
        BY <1>3, <2>1, <3>1
    <2>3. CASE k = 1
      <3>1. Num(c) = Num(St)
        BY <1>1, <2>1, <2>3
      <3>2. c = St
        BY <1>1, <3>1, NumOrder
      <3>3. (<<v>> \o s)[k] = v
        BY <1>6, <1>7, <2>3
      <3>4. QED
        BY <2>2, <3>2, <3>3, Zenon DEF v
    <2>4. CASE k # 1
      <3>1. /\ Num(st) <= Num(c) /\ Num(c) - Num(st) + 1 = k - 1 /\ ~(k <= 1)
        BY <1>1, <1>2, <2>1, <2>4
      <3>2. s[k - 1] = Cell(h, m, c)
        BY <1>2, <2>1, <3>1
      <3>3. (<<v>> \o s)[k] = s[k - 1]
        BY <1>7, <3>1
      <3>4. QED
        BY <2>1, <2>2, <3>1, <3>2, <3>3, Zenon DEF SameCells
    <2>5. QED
      BY <2>3, <2>4, Zenon
  <1>9. t = <<v>> \o s
    BY <1>3, <1>4, <1>7, <1>8, SameSeq
  <1>10. QED
    BY <1>9 DEF s, t, v

LEMMA LongerBack ==
  ASSUME DequeAssumption, NEW h, NEW m, NEW st, NEW en, NEW H, NEW M, NEW En,
         Filled(h, m, st, en), Filled(H, M, st, En), Num(En) = Num(en) + 1,
         SameCells(h, m, H, M, st, en)
  PROVE  Content(H, M, st, En) = Append(Content(h, m, st, en), Cell(H, M, en))
  <1> DEFINE s == Content(h, m, st, en)
             t == Content(H, M, st, En)
             v == Cell(H, M, en)
             n == Num(en) - Num(st)
             N == Num(En) - Num(st)
  <1>1. /\ st \in Cells /\ en \in Cells /\ En \in Cells /\ Num(st) <= Num(en)
        /\ Num(st) \in Nat /\ Num(en) \in Nat /\ Num(En) \in Nat
    BY NumType DEF Filled
  <1>2. /\ s \in Seq(Elems) /\ Len(s) = n /\ n \in Nat
        /\ \A c \in Cells : Num(st) <= Num(c) /\ Num(c) < Num(en) =>
             s[Num(c) - Num(st) + 1] = Cell(h, m, c)
    BY ContentElements DEF Filled
  <1>3. /\ t \in Seq(Elems) /\ Len(t) = N /\ N \in Nat
        /\ \A c \in Cells : Num(st) <= Num(c) /\ Num(c) < Num(En) =>
             t[Num(c) - Num(st) + 1] = Cell(H, M, c)
    BY ContentElements DEF Filled
  <1>4. N = n + 1 /\ Num(en) < Num(En) /\ Num(st) <= Num(en)
    BY <1>1, <1>2
  <1>5. v \in Elems
    BY <1>1, <1>4 DEF Filled
  <1> HIDE DEF s, t, v, n, N
  <1>6. /\ Append(s, v) \in Seq(Elems) /\ Len(Append(s, v)) = n + 1
        /\ \A i \in 1 .. n + 1 : Append(s, v)[i] = IF i <= n THEN s[i] ELSE v
    BY <1>2, <1>5, Appended
  <1>7. ASSUME NEW k \in 1 .. n + 1 PROVE t[k] = Append(s, v)[k]
    <2>1. PICK c \in Cells : Num(c) = Num(st) + k - 1 /\ Num(st) <= Num(c) /\ Num(c) < Num(En)
      BY <1>1, <1>4, ElementCell DEF N
    <2>2. Num(c) - Num(st) + 1 = k
      BY <1>1, <1>2, <2>1
    <2>3. t[k] = Cell(H, M, c)
      BY <1>3, <2>1, <2>2
    <2>4. CASE k = n + 1
      <3>1. Num(c) = Num(en) /\ ~(k <= n)
        BY <1>1, <1>2, <2>1, <2>4, SMTT(20) DEF n
      <3>2. c = en
        BY <1>1, <3>1, NumOrder
      <3>3. QED
        BY <1>6, <2>3, <3>1, <3>2 DEF v
    <2>5. CASE k # n + 1
      <3>1. k <= n /\ Num(c) < Num(en)
        BY <1>1, <1>2, <2>1, <2>5 DEF n
      <3>2. QED
        BY <1>2, <1>6, <2>1, <2>2, <2>3, <3>1 DEF SameCells
    <2>6. QED
      BY <2>4, <2>5, Zenon
  <1>8. t = Append(s, v)
    BY <1>3, <1>4, <1>6, <1>7, SameSeq
  <1>9. QED
    BY <1>8 DEF s, t, v


(***************************************************************************)
(* A cell is written; a block is added to the map, or taken from it; the   *)
(* blocks move                                                             *)
(***************************************************************************)
Put(f, x, y)      == [f EXCEPT ![x] = y]
Write(h, a, k, v) == [h EXCEPT ![a][k] = v]

LEMMA NotFree ==
  ASSUME DequeAssumption, NEW b \in Blocks
  PROVE  b # << >>
  <1>1. 0 \in DOMAIN b
    BY Unit DEF Blocks
  <1>2. DOMAIN << >> = {}
    OBVIOUS
  <1>3. QED
    BY <1>1, <1>2

\* start or end moves inside its block.
LEMMA GoodTurn ==
  ASSUME DequeAssumption, NEW h, NEW m, NEW n, NEW st, NEW en, Good(h, m, n, st, en),
         NEW St \in Cells, NEW En \in Cells, Num(St) <= Num(En),
         St.index = st.index, En.index = en.index
  PROVE  Good(h, m, n, St, En)
  BY DEF Good, Used

LEMMA GoodWrite ==
  ASSUME DequeAssumption, NEW h, NEW m, NEW n, NEW st, NEW en, Good(h, m, n, st, en),
         NEW c \in Cells, c.index \in Used(st, en), NEW v \in Elems, NEW H,
         H = Write(h, m[c.index], c.cur, v)
  PROVE  /\ Good(H, m, n, st, en)
         /\ Cell(H, m, c) = v
         /\ \A d \in Cells : d.index \in Used(st, en) /\ d # c => Cell(H, m, d) = Cell(h, m, d)
         /\ \A a \in Addr : h[a] = << >> => H[a] = << >>
  <1> DEFINE A == m[c.index]
             B == [h[A] EXCEPT ![c.cur] = v]
  <1>0. /\ c.cur \in 0 .. unit_num - 1
        /\ c = [index |-> c.index, cur |-> c.cur]
        /\ h \in [Addr -> Blocks \cup {<< >>}]
    BY DEF Cells, Good
  <1>1. A \in Addr /\ h[A] \in Blocks /\ h[A] # << >>
    BY GoodCells
  <1>2. B \in Blocks /\ B[c.cur] = v /\ \A k \in 0 .. unit_num - 1 : k # c.cur => B[k] = h[A][k]
    BY <1>0, <1>1, Zenon DEF Blocks
  <1>3. B # << >>
    BY <1>2, NotFree, Zenon
  <1> HIDE DEF A, B
  <1>4. /\ H \in [Addr -> Blocks \cup {<< >>}] /\ H[A] = B
        /\ \A a \in Addr : a # A => H[a] = h[a]
    BY <1>0, <1>1, <1>2 DEF A, B, Write
  <1>5. {a \in Addr : H[a] # << >>} = {a \in Addr : h[a] # << >>}
    BY <1>1, <1>3, <1>4
  <1>6. Good(H, m, n, st, en)
    BY <1>4, <1>5 DEF Good
  <1>7. Cell(H, m, c) = v
    BY <1>2, <1>4 DEF Cell, A
  <1>8. ASSUME NEW d \in Cells, d.index \in Used(st, en), d # c
        PROVE  Cell(H, m, d) = Cell(h, m, d)
    <2>1. m[d.index] \in Addr /\ d.cur \in 0 .. unit_num - 1 /\ d = [index |-> d.index, cur |-> d.cur]
      BY <1>8, GoodCells DEF Cells
    <2>2. CASE d.index = c.index
      <3>1. d.cur # c.cur
        BY <1>0, <1>8, <2>1, <2>2
      <3>2. QED
        BY <1>2, <1>4, <2>1, <2>2, <3>1 DEF Cell, A
    <2>3. CASE d.index # c.index
      <3>1. m[d.index] # A
        BY <1>8, <2>3 DEF Good, A
      <3>2. QED
        BY <1>4, <2>1, <3>1 DEF Cell
    <2>4. QED
      BY <2>2, <2>3
  <1>9. \A a \in Addr : h[a] = << >> => H[a] = << >>
    BY <1>1, <1>4
  <1>10. QED
    BY <1>6, <1>7, <1>8, <1>9

\* From st and en to St and En, the place i comes into use, or goes out of use.
Grown(n, st, en, i, St, En) ==
  /\ St \in Cells /\ En \in Cells /\ Num(St) <= Num(En) /\ En.index < n
  /\ i \in 0 .. n - 1 /\ i \notin Used(st, en) /\ Used(St, En) = Used(st, en) \cup {i}

Shrunk(n, st, en, i, St, En) ==
  /\ St \in Cells /\ En \in Cells /\ Num(St) <= Num(En) /\ En.index < n
  /\ i \in Used(st, en) /\ Used(St, En) = Used(st, en) \ {i}

\* A block b is allocated at a and put in place i of the map.
LEMMA GoodAdd ==
  ASSUME DequeAssumption, NEW h, NEW m, NEW n, NEW st, NEW en, Good(h, m, n, st, en),
         NEW i, NEW St, NEW En, Grown(n, st, en, i, St, En), NEW a \in Addr, h[a] = << >>,
         NEW b \in Blocks, NEW H, H = Put(h, a, b), NEW M, M = Put(m, i, a)
  PROVE  /\ Good(H, M, n, St, En)
         /\ \A c \in Cells : c.index = i => Cell(H, M, c) = b[c.cur]
         /\ Alike(h, m, H, M, Used(st, en))
  <1>0. /\ h \in [Addr -> Blocks \cup {<< >>}] /\ m \in [0 .. n - 1 -> Addr \cup {Junk}]
        /\ {x \in Addr : h[x] # << >>} = {m[j] : j \in Used(st, en)}
        /\ \A j, k \in Used(st, en) : m[j] = m[k] => j = k
        /\ n \in Nat /\ n > 1
    BY DEF Good
  <1>00. /\ St \in Cells /\ En \in Cells /\ Num(St) <= Num(En) /\ En.index < n
        /\ i \in 0 .. n - 1 /\ i \notin Used(st, en) /\ Used(St, En) = Used(st, en) \cup {i}
    BY DEF Grown
  <1>1. /\ H \in [Addr -> Blocks \cup {<< >>}] /\ H[a] = b /\ b # << >>
        /\ \A x \in Addr : x # a => H[x] = h[x]
    BY <1>0, NotFree DEF Put
  <1>2. /\ M \in [0 .. n - 1 -> Addr \cup {Junk}] /\ M[i] = a
        /\ \A j \in 0 .. n - 1 : j # i => M[j] = m[j]
    BY <1>0, <1>00 DEF Put
  <1>3. ASSUME NEW j \in Used(st, en)
        PROVE  M[j] = m[j] /\ m[j] \in Addr /\ m[j] # a /\ j # i
    <2>1. j \in 0 .. n - 1 /\ m[j] \in Addr /\ h[m[j]] # << >> /\ j # i
      BY <1>00, GoodCells
    <2>2. QED
      BY <1>2, <2>1
  <1>4. \A j, k \in Used(St, En) : M[j] = M[k] => j = k
    BY <1>0, <1>00, <1>2, <1>3
  <1>5. {x \in Addr : H[x] # << >>} = {M[j] : j \in Used(St, En)}
    <2>1. {x \in Addr : H[x] # << >>} = {x \in Addr : h[x] # << >>} \cup {a}
      BY <1>1
    <2>2. {M[j] : j \in Used(St, En)} = {m[j] : j \in Used(st, en)} \cup {a}
      BY <1>00, <1>2, <1>3
    <2>3. QED
      BY <1>0, <2>1, <2>2, Zenon
  <1>6. Good(H, M, n, St, En)
    BY <1>0, <1>00, <1>1, <1>2, <1>4, <1>5 DEF Good
  <1>7. \A c \in Cells : c.index = i => Cell(H, M, c) = b[c.cur]
    BY <1>00, <1>1, <1>2 DEF Cell
  <1>8. Alike(h, m, H, M, Used(st, en))
    BY <1>1, <1>3 DEF Alike, Cell
  <1>9. QED
    BY <1>6, <1>7, <1>8

\* The block in place i of the map is freed.
LEMMA GoodFree ==
  ASSUME DequeAssumption, NEW h, NEW m, NEW n, NEW st, NEW en, Good(h, m, n, st, en),
         NEW i, NEW St, NEW En, Shrunk(n, st, en, i, St, En),
         NEW H, H = Put(h, m[i], << >>), NEW M, M = Put(m, i, Junk)
  PROVE  /\ Good(H, M, n, St, En)
         /\ Alike(H, M, h, m, Used(St, En))
  <1>0. /\ h \in [Addr -> Blocks \cup {<< >>}] /\ m \in [0 .. n - 1 -> Addr \cup {Junk}]
        /\ {x \in Addr : h[x] # << >>} = {m[j] : j \in Used(st, en)}
        /\ \A j, k \in Used(st, en) : m[j] = m[k] => j = k
        /\ n \in Nat /\ n > 1
    BY DEF Good
  <1>00. /\ St \in Cells /\ En \in Cells /\ Num(St) <= Num(En) /\ En.index < n
        /\ i \in Used(st, en) /\ Used(St, En) = Used(st, en) \ {i}
    BY DEF Shrunk
  <1>1. i \in 0 .. n - 1 /\ m[i] \in Addr
    BY <1>00, GoodCells
  <1>2. /\ H \in [Addr -> Blocks \cup {<< >>}] /\ H[m[i]] = << >>
        /\ \A x \in Addr : x # m[i] => H[x] = h[x]
    BY <1>0, <1>1 DEF Put
  <1>3. /\ M \in [0 .. n - 1 -> Addr \cup {Junk}]
        /\ \A j \in 0 .. n - 1 : j # i => M[j] = m[j]
    BY <1>0, <1>1 DEF Put
  <1>4. ASSUME NEW j \in Used(St, En)
        PROVE  M[j] = m[j] /\ m[j] \in Addr /\ m[j] # m[i] /\ j \in Used(st, en)
    <2>1. j \in Used(st, en) /\ j # i
      BY <1>00
    <2>2. j \in 0 .. n - 1 /\ m[j] \in Addr
      BY <2>1, GoodCells
    <2>3. QED
      BY <1>0, <1>00, <1>3, <2>1, <2>2
  <1>5. \A j, k \in Used(St, En) : M[j] = M[k] => j = k
    BY <1>0, <1>4
  <1>6. {x \in Addr : H[x] # << >>} = {M[j] : j \in Used(St, En)}
    <2>1. {x \in Addr : H[x] # << >>} = {x \in Addr : h[x] # << >>} \ {m[i]}
      BY <1>1, <1>2
    <2>2. {M[j] : j \in Used(St, En)} = {m[j] : j \in Used(st, en)} \ {m[i]}
      <3>1. ASSUME NEW x \in {M[j] : j \in Used(St, En)}
            PROVE  x \in {m[j] : j \in Used(st, en)} \ {m[i]}
        BY <1>4
      <3>2. ASSUME NEW j \in Used(st, en), m[j] # m[i]
            PROVE  j \in Used(St, En) /\ m[j] = M[j]
        <4>1. j \in Used(St, En)
          BY <1>00, <3>2
        <4>2. QED
          BY <1>4, <4>1
      <3>3. QED
        BY <3>1, <3>2, Zenon
    <2>3. QED
      BY <1>0, <2>1, <2>2, Zenon
  <1>7. Good(H, M, n, St, En)
    BY <1>0, <1>00, <1>2, <1>3, <1>5, <1>6 DEF Good
  <1>8. Alike(H, M, h, m, Used(St, En))
    BY <1>2, <1>4 DEF Alike, Cell
  <1>9. QED
    BY <1>7, <1>8


LEMMA Shift ==
  ASSUME NEW a \in Int, NEW b \in Int, NEW p \in Int, NEW i \in a .. b
  PROVE  i - a + p \in p .. b - a + p
  OBVIOUS

LEMMA ShiftBack ==
  ASSUME NEW a \in Int, NEW b \in Int, NEW p \in Int, NEW j \in p .. b - a + p
  PROVE  j - p + a \in a .. b /\ (j - p + a) - a + p = j
  OBVIOUS

\* The blocks move, as they are, to the places of a map from p on.
LEMMA GoodMove ==
  ASSUME DequeAssumption, NEW h, NEW m, NEW n, NEW st, NEW en, Good(h, m, n, st, en),
         NEW N \in Nat, N > 1, NEW M \in [0 .. N - 1 -> Addr \cup {Junk}], NEW p \in Nat,
         NEW St, St = Pos(p, st.cur), NEW En, En = Pos(p + (en.index - st.index), en.cur),
         En.index < N, \A i \in Used(st, en) : M[i - st.index + p] = m[i]
  PROVE  Good(h, M, N, St, En) /\ Content(h, M, St, En) = Content(h, m, st, en)
  <1> DEFINE Up(c) == Pos(c.index - st.index + p, c.cur)
  <1>0. /\ st \in Cells /\ en \in Cells /\ st.index \in Nat /\ en.index \in Nat
        /\ st.cur \in 0 .. unit_num - 1 /\ en.cur \in 0 .. unit_num - 1 /\ unit_num \in Nat \ {0}
        /\ st.index <= en.index /\ Num(st) \in Nat /\ Num(en) \in Nat /\ Num(st) <= Num(en)
    <2>1. st \in Cells /\ en \in Cells /\ Num(st) <= Num(en)
      BY DEF Good
    <2>2. QED
      BY <2>1, GoodCells, NumType, Unit
  <1>1. /\ St.index = p /\ St.cur = st.cur /\ En.index = en.index - st.index + p
        /\ En.cur = en.cur /\ En.index \in Nat
    BY <1>0 DEF Pos
  <1>2. St \in Cells /\ En \in Cells /\ Num(St) \in Nat /\ Num(En) \in Nat
    <2>1. St \in Cells /\ En \in Cells
      BY <1>0, <1>1 DEF Cells, Pos
    <2>2. QED
      BY <2>1, NumType
  <1>3. ASSUME NEW c \in Cells, st.index <= c.index
        PROVE  /\ Up(c) \in Cells /\ Up(c).index = c.index - st.index + p /\ Up(c).cur = c.cur
               /\ Num(Up(c)) - Num(St) = Num(c) - Num(st)
    <2>1. c.index \in Nat /\ c.cur \in 0 .. unit_num - 1
      BY NumType
    <2>2. Up(c).index = c.index - st.index + p /\ Up(c).index \in Nat /\ Up(c).cur = c.cur
      <3>1. c.index - st.index + p \in Nat
        <4>1. st.index \in Nat /\ p \in Nat
          BY <1>0, Zenon
        <4>2. QED
          BY <1>3, <2>1, <4>1
      <3>2. QED
        BY <3>1 DEF Pos
    <2>3. Up(c) \in Cells
      BY <2>1, <2>2 DEF Cells, Pos
    <2> HIDE DEF Up
    <2>4. (Up(c).index - St.index) * unit_num + Up(c).cur - St.cur = Num(Up(c)) - Num(St)
      BY <1>2, <2>3, SizeIs
    <2>5. (c.index - st.index) * unit_num + c.cur - st.cur = Num(c) - Num(st)
      BY <1>0, SizeIs
    <2>6. Up(c).index - St.index = c.index - st.index
      <3>1. (c.index - st.index + p) - p = c.index - st.index
        BY <1>0, <2>1
      <3>2. QED
        BY <1>1, <2>2, <3>1
    <2>7. QED
      BY <1>1, <2>2, <2>3, <2>4, <2>5, <2>6
  <1>4. Num(En) - Num(St) = Num(en) - Num(st) /\ Num(St) <= Num(En)
    <2>1. En = Up(en)
      BY <1>0 DEF Pos
    <2> HIDE DEF Up
    <2>2. Num(En) - Num(St) = Num(en) - Num(st)
      BY <1>0, <1>3, <2>1
    <2>3. QED
      BY <1>0, <1>2, <2>2
  <1>5. ASSUME NEW j \in Used(St, En)
        PROVE  j - p + st.index \in Used(st, en) /\ M[j] = m[j - p + st.index]
    <2>1. j \in p .. en.index - st.index + p
      BY <1>1 DEF Used
    <2>2. st.index \in Int /\ en.index \in Int /\ p \in Int
      BY <1>0
    <2>3. j - p + st.index \in Used(st, en) /\ (j - p + st.index) - st.index + p = j
      BY <2>1, <2>2, ShiftBack DEF Used
    <2>4. QED
      BY <2>3
  <1>6. ASSUME NEW i \in Used(st, en)
        PROVE  i - st.index + p \in Used(St, En) /\ M[i - st.index + p] = m[i]
    <2>1. i - st.index + p \in Used(St, En)
      <3>1. i \in st.index .. en.index
        BY DEF Used
      <3>2. i - st.index + p \in p .. en.index - st.index + p
        <4>1. st.index \in Int /\ en.index \in Int /\ p \in Int
          BY <1>0
        <4>2. QED
          BY <3>1, <4>1, Shift, Zenon
      <3>3. QED
        BY <1>1, <3>2 DEF Used
    <2>2. QED
      BY <2>1
  <1>7. \A j, k \in Used(St, En) : M[j] = M[k] => j = k
    <2> SUFFICES ASSUME NEW j \in Used(St, En), NEW k \in Used(St, En), M[j] = M[k]
                 PROVE  j = k
      OBVIOUS
    <2>1. j - p + st.index = k - p + st.index
      <3>1. /\ j - p + st.index \in Used(st, en) /\ M[j] = m[j - p + st.index]
            /\ k - p + st.index \in Used(st, en) /\ M[k] = m[k - p + st.index]
        BY <1>5
      <3>2. \A i, l \in Used(st, en) : m[i] = m[l] => i = l
        BY DEF Good
      <3>3. QED
        BY <3>1, <3>2, Zenon
    <2>2. j \in Int /\ k \in Int
      BY DEF Used
    <2>3. QED
      BY <1>0, <2>1, <2>2
  <1>8. {M[j] : j \in Used(St, En)} = {m[i] : i \in Used(st, en)}
    <2>1. \A j \in Used(St, En) : M[j] \in {m[i] : i \in Used(st, en)}
      BY <1>5
    <2>2. \A i \in Used(st, en) : m[i] \in {M[j] : j \in Used(St, En)}
      BY <1>6
    <2>3. QED
      BY <2>1, <2>2
  <1>9. Good(h, M, N, St, En)
    BY <1>2, <1>4, <1>7, <1>8, Zenon DEF Good
  <1>10. ASSUME NEW k \in 1 .. Num(en) - Num(st)
         PROVE  At(h, M, St, k - 1) = At(h, m, st, k - 1)
    <2>1. PICK c \in Cells : Num(c) = Num(st) + k - 1 /\ Num(st) <= Num(c) /\ Num(c) < Num(en)
      BY <1>0, ElementCell
    <2>2. k - 1 \in Nat /\ Num(c) = Num(st) + (k - 1) /\ Num(c) \in Nat /\ Num(c) <= Num(en)
      BY <1>0, <2>1, NumType
    <2>3. c.index \in Used(st, en) /\ st.index <= c.index
      <3>1. c.index \in Used(st, en)
        BY <2>1, <2>2, GoodCells
      <3>2. QED
        BY <1>0, <3>1 DEF Used
    <2>4. Up(c) \in Cells /\ Num(Up(c)) = Num(St) + (k - 1)
      <3>1. Up(c) \in Cells /\ Num(Up(c)) - Num(St) = Num(c) - Num(st)
        BY <1>3, <2>3
      <3> HIDE DEF Up
      <3>2. Num(Up(c)) \in Nat
        BY <3>1, NumType
      <3>3. QED
        BY <1>0, <1>2, <2>2, <3>1, <3>2
    <2>5. Cell(h, M, Up(c)) = Cell(h, m, c)
      <3>1. Up(c).index = c.index - st.index + p /\ Up(c).cur = c.cur
        BY <1>3, <2>3
      <3> HIDE DEF Up
      <3>2. QED
        BY <1>6, <2>3, <3>1 DEF Cell
    <2> HIDE DEF Up
    <2>6. At(h, M, St, k - 1) = Cell(h, M, Up(c))
      BY <1>2, <2>2, <2>4, AtIsCell
    <2>7. At(h, m, st, k - 1) = Cell(h, m, c)
      BY <1>0, <2>1, <2>2, AtIsCell
    <2>8. QED
      BY <2>5, <2>6, <2>7
  <1>11. Content(h, M, St, En) = Content(h, m, st, en)
    BY <1>4, <1>10 DEF Content
  <1>12. QED
    BY <1>9, <1>11

\* deque_update_map leaves the elements as they are, and room in the map at both ends.
LEMMA UpdatedGood ==
  ASSUME DequeAssumption, Good(heap, map, map_size, start, end)
  PROVE  /\ Good(heap, Updated.map, Updated.size, Updated.start, Updated.end)
         /\ Content(heap, Updated.map, Updated.start, Updated.end) = Content(heap, map, start, end)
         /\ Updated.start.index > 0 /\ Updated.end.index + 1 < Updated.size
         /\ Updated.start.cur = start.cur /\ Updated.end.cur = end.cur
         /\ Updated.map[Updated.end.index] = map[end.index]
  <1> DEFINE N == IF InPlace THEN map_size ELSE 2 * map_size
             p == NewPlace
             M == Moved(p)
             St == Pos(p, start.cur)
             En == Pos(p + (end.index - start.index), end.cur)
  <1>0. /\ start.index \in Nat /\ end.index \in Nat /\ start.index <= end.index
        /\ map_size \in Nat /\ map_size > 1 /\ end.index < map_size
        /\ map \in [0 .. map_size - 1 -> Addr \cup {Junk}]
    BY GoodCells DEF Good
  <1>1. num \in Nat /\ num >= 1 /\ num <= map_size /\ num - 1 = end.index - start.index
    BY <1>0 DEF num
  <1>2. N \in Nat /\ N > 1 /\ p \in Nat /\ p > 0 /\ p + num < N
    <2>1. CASE InPlace
      <3> DEFINE d == map_size - num
      <3>1. d \in Nat /\ d >= 2
        BY <1>0, <1>1, <2>1 DEF InPlace
      <3>2. p = d \div 2 /\ N = map_size
        BY <2>1 DEF NewPlace
      <3>3. d \div 2 \in Nat /\ d \div 2 >= 1 /\ d \div 2 < d
        BY <3>1
      <3>4. QED
        BY <1>0, <1>1, <3>1, <3>2, <3>3
    <2>2. CASE ~InPlace
      <3>1. num \div 2 \in Nat /\ 2 * (num \div 2) <= num /\ num <= 2 * (num \div 2) + 1
        BY <1>1
      <3>2. p = map_size - (num \div 2) /\ N = 2 * map_size
        BY <2>2 DEF NewPlace
      <3> DEFINE d == num \div 2
      <3> HIDE DEF d, p, N
      <3>3. QED
        BY <1>0, <1>1, <3>1, <3>2 DEF d
    <2>3. QED
      BY <2>1, <2>2
  <1>3. /\ Updated.map = M /\ Updated.size = N /\ Updated.start = St
        /\ Updated.end = Pos(p + num - 1, end.cur)
    BY DEF Updated
  <1>4. p + num - 1 = p + (end.index - start.index)
    BY <1>0, <1>1, <1>2
  <1>5. Updated.end = En
    BY <1>3, <1>4
  <1>6. /\ St.index = p /\ En.index = p + (end.index - start.index)
        /\ St.cur = start.cur /\ En.cur = end.cur
    BY DEF Pos
  <1>7. ASSUME NEW i \in 0 .. N - 1
        PROVE  /\ i \in p .. p + num - 1 => M[i] = map[start.index + i - p]
               /\ i \notin p .. p + num - 1 /\ InPlace => M[i] = map[i]
               /\ i \notin p .. p + num - 1 /\ ~InPlace => M[i] = Junk
    BY DEF Moved
  <1>8. M \in [0 .. N - 1 -> Addr \cup {Junk}]
    <2>1. M = [i \in 0 .. N - 1 |-> M[i]]
      BY DEF Moved
    <2>2. ASSUME NEW i \in 0 .. N - 1 PROVE M[i] \in Addr \cup {Junk}
      <3>1. CASE i \in p .. p + num - 1
        <4>1. start.index + i - p \in 0 .. map_size - 1
          <5> HIDE DEF p, N, M
          <5>1. i \in Int /\ p <= i /\ i <= p + num - 1
            BY <1>1, <1>2, <3>1
          <5>2. QED
            BY <1>0, <1>1, <1>2, <5>1
        <4>2. QED
          BY <1>0, <1>7, <3>1, <4>1
      <3>2. CASE i \notin p .. p + num - 1 /\ InPlace
        <4>1. i \in 0 .. map_size - 1
          BY <3>2
        <4>2. QED
          BY <1>0, <1>7, <3>2, <4>1
      <3>3. CASE i \notin p .. p + num - 1 /\ ~InPlace
        BY <1>7, <3>3
      <3>4. QED
        BY <3>1, <3>2, <3>3
    <2> HIDE DEF M, N
    <2>3. QED
      BY <2>1, <2>2
  <1>9. ASSUME NEW i \in Used(start, end) PROVE M[i - start.index + p] = map[i]
    <2>1. /\ i - start.index + p \in 0 .. N - 1 /\ i - start.index + p \in p .. p + num - 1
          /\ start.index + (i - start.index + p) - p = i
      <3>1. i \in Nat /\ start.index <= i /\ i <= end.index
        BY <1>0 DEF Used
      <3> HIDE DEF p, N, M
      <3>2. QED
        BY <1>0, <1>1, <1>2, <3>1
    <2>2. QED
      BY <1>7, <2>1
  <1>10. En.index + 1 < N /\ En.index < N /\ En.index \in Nat
    BY <1>0, <1>1, <1>2, <1>6
  <1> HIDE DEF N, p, M
  <1>11. Good(heap, M, N, St, En) /\ Content(heap, M, St, En) = Content(heap, map, start, end)
    BY <1>2, <1>8, <1>9, <1>10, GoodMove
  <1>12. M[En.index] = map[end.index]
    <2>1. end.index \in Used(start, end) /\ end.index - start.index + p = En.index
      BY <1>0, <1>2, <1>6 DEF Used
    <2>2. QED
      BY <1>9, <2>1
  <1>13. QED
    BY <1>2, <1>3, <1>5, <1>6, <1>10, <1>11, <1>12


(***************************************************************************)
(* What the operations do to a deque, by its parts                         *)
(***************************************************************************)
GoodNow == Good(heap, map, map_size, start, end)
Now     == Content(heap, map, start, end)

\* The next cell, and the one before.
LEMMA NextCell ==
  ASSUME DequeAssumption, NEW c \in Cells
  PROVE  /\ c.cur + 1 # unit_num => LET d == Pos(c.index, c.cur + 1)
                                    IN d \in Cells /\ Num(d) = Num(c) + 1
         /\ c.cur + 1 = unit_num => LET d == Pos(c.index + 1, 0)
                                    IN d \in Cells /\ Num(d) = Num(c) + 1
         /\ c.cur # 0 => LET d == Pos(c.index, c.cur - 1)
                         IN d \in Cells /\ Num(c) = Num(d) + 1
         /\ c.cur = 0 /\ c.index > 0 => LET d == Pos(c.index - 1, unit_num - 1)
                                        IN d \in Cells /\ Num(c) = Num(d) + 1
  <1>0. /\ c.index \in Nat /\ c.cur \in 0 .. unit_num - 1 /\ unit_num \in Nat \ {0}
        /\ c.index * unit_num \in Nat
    BY NumType, Unit
  <1>1. CASE c.cur + 1 # unit_num
    BY <1>0, <1>1 DEF Pos, Cells, Num
  <1>2. CASE c.cur # 0
    BY <1>0, <1>2 DEF Pos, Cells, Num
  <1>3. ASSUME NEW i \in Int, NEW u \in Int PROVE (i + 1) * u = i * u + u /\ i * u \in Int
    OBVIOUS
  <1>4. CASE c.cur + 1 = unit_num
    BY <1>0, <1>3, <1>4 DEF Pos, Cells, Num
  <1>5. CASE c.cur = 0 /\ c.index > 0
    <2>1. c.index - 1 \in Nat /\ (c.index - 1) + 1 = c.index
      BY <1>0, <1>5
    <2>2. c.index * unit_num = (c.index - 1) * unit_num + unit_num /\ (c.index - 1) * unit_num \in Int
      BY <1>0, <1>3, <2>1
    <2>3. QED
      BY <1>0, <1>5, <2>1, <2>2 DEF Pos, Cells, Num
  <1>6. QED
    BY <1>1, <1>2, <1>4, <1>5

\* The element goes in front of the first one of the block.
LEMMA PushFrontInside ==
  ASSUME DequeAssumption, GoodNow, NEW v \in Elems, start.cur # 0,
         start' = Pos(start.index, start.cur - 1),
         heap' = Write(heap, map[start.index], start.cur - 1, v)
  PROVE  /\ Good(heap', map, map_size, start', end)
         /\ Content(heap', map, start', end) = <<v>> \o Now
  <1>0. /\ start \in Cells /\ end \in Cells /\ Num(start) \in Nat /\ Num(end) \in Nat
        /\ Num(start) <= Num(end) /\ Good(heap, map, map_size, start, end)
    BY NumType DEF GoodNow, Good
  <1>1. start' \in Cells /\ Num(start) = Num(start') + 1
    BY <1>0, NextCell
  <1>2. Num(start') \in Nat /\ start'.index = start.index /\ start'.cur = start.cur - 1
    BY <1>1, NumType DEF Pos
  <1>3. Good(heap, map, map_size, start', end)
    <2>1. Num(start') <= Num(end)
      BY <1>0, <1>1, <1>2
    <2>2. QED
      BY <1>0, <1>1, <1>2, <2>1, GoodTurn
  <1>4. start'.index \in Used(start', end) /\ Used(start', end) = Used(start, end)
    BY <1>0, <1>2, GoodCells DEF Used
  <1>5. /\ Good(heap', map, map_size, start', end) /\ Cell(heap', map, start') = v
        /\ \A d \in Cells : d.index \in Used(start', end) /\ d # start' =>
             Cell(heap', map, d) = Cell(heap, map, d)
    <2>1. heap' = Write(heap, map[start'.index], start'.cur, v)
      BY <1>2
    <2>2. QED
      BY <1>1, <1>3, <1>4, <2>1, GoodWrite
  <1>6. SameCells(heap, map, heap', map, start, end)
    <2> SUFFICES ASSUME NEW c \in Cells, Num(start) <= Num(c), Num(c) < Num(end)
                 PROVE  Cell(heap', map, c) = Cell(heap, map, c)
      BY DEF SameCells
    <2>1. c # start' /\ Num(c) <= Num(end)
      BY <1>0, <1>1, <1>2, NumType
    <2>2. c.index \in Used(start, end)
      BY <1>0, <2>1, GoodCells
    <2>3. QED
      BY <1>4, <1>5, <2>1, <2>2
  <1>7. Filled(heap, map, start, end) /\ Filled(heap', map, start', end)
    BY <1>0, <1>5, GoodFilled
  <1>8. Content(heap', map, start', end) = <<Cell(heap', map, start')>> \o Now
    BY <1>1, <1>6, <1>7, LongerFront DEF Now
  <1>9. QED
    BY <1>5, <1>8, Zenon

\* A block is put in front, and the element is its last.
AddedBefore(m, st, a, v) ==
  /\ st.cur = 0 /\ a \in Addr /\ heap[a] = << >>
  /\ start' = Pos(st.index - 1, unit_num - 1) /\ map' = Put(m, st.index - 1, a)
  /\ heap' = Put(heap, a, Put(NewBlock, unit_num - 1, v))

LEMMA PushFrontBlock ==
  ASSUME DequeAssumption, NEW m, NEW n, NEW st, NEW en, Good(heap, m, n, st, en),
         st.index > 0, NEW v \in Elems, NEW a, AddedBefore(m, st, a, v)
  PROVE  /\ Good(heap', map', n, start', en)
         /\ Content(heap', map', start', en) = <<v>> \o Content(heap, m, st, en)
  <1> DEFINE b == Put(NewBlock, unit_num - 1, v)
             i == st.index - 1
  <1>00. /\ st.cur = 0 /\ a \in Addr /\ heap[a] = << >>
         /\ start' = Pos(i, unit_num - 1) /\ map' = Put(m, i, a) /\ heap' = Put(heap, a, b)
    BY DEF AddedBefore
  <1>0. /\ st \in Cells /\ en \in Cells /\ Num(st) \in Nat /\ Num(en) \in Nat
        /\ Num(st) <= Num(en) /\ en.index < n /\ n \in Nat
        /\ st.index \in Nat /\ en.index \in Nat /\ st.index <= en.index
    BY NumType, GoodCells, Zenon DEF Good
  <1>1. start' \in Cells /\ Num(st) = Num(start') + 1
    BY <1>00, <1>0, NextCell
  <1>2. Num(start') \in Nat /\ start'.index = i /\ start'.cur = unit_num - 1
    BY <1>00, <1>1, NumType DEF Pos
  <1>3. b \in Blocks /\ b[unit_num - 1] = v
    BY Unit DEF NewBlock, Blocks, Elems, Put
  <1>4. /\ i \in 0 .. n - 1 /\ i \notin Used(st, en)
        /\ Used(start', en) = Used(st, en) \cup {i}
    BY <1>0, <1>2 DEF Used
  <1>5. Grown(n, st, en, i, start', en)
    BY <1>0, <1>1, <1>2, <1>4 DEF Grown
  <1>6. a \in Addr /\ heap[a] = << >> /\ heap' = Put(heap, a, b) /\ map' = Put(m, i, a)
    BY <1>00, Zenon
  <1> HIDE DEF b, i
  <1>7. /\ Good(heap', map', n, start', en)
        /\ \A c \in Cells : c.index = i => Cell(heap', map', c) = b[c.cur]
        /\ Alike(heap, m, heap', map', Used(st, en))
    <2>1. b \in Blocks
      BY <1>3, Zenon
    <2>2. Good(heap', map', n, start', en) /\ Alike(heap, m, heap', map', Used(st, en))
      BY <1>5, <1>6, <2>1, GoodAdd, Zenon
    <2>3. \A c \in Cells : c.index = i => Cell(heap', map', c) = b[c.cur]
      <3>1. heap \in [Addr -> Blocks \cup {<< >>}] /\ m \in [0 .. n - 1 -> Addr \cup {Junk}]
        BY DEF Good
      <3>2. map'[i] = a /\ heap'[a] = b
        BY <1>4, <1>6, <3>1 DEF Put
      <3>3. QED
        BY <3>2 DEF Cell
    <2>4. QED
      BY <2>2, <2>3, Zenon
  <1>8. Cell(heap', map', start') = v
    BY <1>1, <1>2, <1>3, <1>7
  <1>9. SameCells(heap, m, heap', map', st, en)
    BY <1>7, AlikeSame
  <1>10. Filled(heap, m, st, en) /\ Filled(heap', map', start', en)
    BY <1>7, GoodFilled
  <1>11. Content(heap', map', start', en)
           = <<Cell(heap', map', start')>> \o Content(heap, m, st, en)
    BY <1>1, <1>9, <1>10, LongerFront
  <1>12. QED
    BY <1>7, <1>8, <1>11

\* The element is written at end.
LEMMA WriteBack ==
  ASSUME DequeAssumption, NEW h, NEW m, NEW n, NEW st, NEW en, Good(h, m, n, st, en),
         NEW v \in Elems, NEW H, H = Write(h, m[en.index], en.cur, v)
  PROVE  /\ Good(H, m, n, st, en) /\ Cell(H, m, en) = v /\ SameCells(h, m, H, m, st, en)
         /\ \A a \in Addr : h[a] = << >> => H[a] = << >>
  <1>0. en \in Cells /\ Num(en) \in Nat
    BY NumType DEF Good
  <1>1. en.index \in Used(st, en)
    BY GoodCells DEF Used
  <1>2. /\ Good(H, m, n, st, en) /\ Cell(H, m, en) = v
        /\ \A d \in Cells : d.index \in Used(st, en) /\ d # en => Cell(H, m, d) = Cell(h, m, d)
        /\ \A a \in Addr : h[a] = << >> => H[a] = << >>
    BY <1>0, <1>1, GoodWrite
  <1>3. ASSUME NEW c \in Cells, Num(st) <= Num(c), Num(c) < Num(en)
        PROVE  Cell(H, m, c) = Cell(h, m, c)
    <2>1. c # en /\ Num(c) <= Num(en)
      BY <1>0, <1>3, NumType
    <2>2. c.index \in Used(st, en)
      BY <1>3, <2>1, GoodCells
    <2>3. QED
      BY <1>2, <2>1, <2>2
  <1>4. QED
    BY <1>2, <1>3 DEF SameCells

\* Between the same ends, the same cells are the same content.
LEMMA SameContent ==
  ASSUME DequeAssumption, NEW h, NEW m, NEW H, NEW M, NEW st \in Cells, NEW en \in Cells,
         SameCells(h, m, H, M, st, en)
  PROVE  Content(H, M, st, en) = Content(h, m, st, en)
  <1>1. ASSUME NEW k \in 1 .. Num(en) - Num(st)
        PROVE  At(H, M, st, k - 1) = At(h, m, st, k - 1)
    <2>1. PICK c \in Cells : Num(c) = Num(st) + k - 1 /\ Num(st) <= Num(c) /\ Num(c) < Num(en)
      BY ElementCell
    <2>2. k - 1 \in Nat /\ Num(c) = Num(st) + (k - 1)
      BY <2>1, NumType
    <2>3. At(H, M, st, k - 1) = Cell(H, M, c) /\ At(h, m, st, k - 1) = Cell(h, m, c)
      BY <2>1, <2>2, AtIsCell
    <2>4. QED
      BY <2>1, <2>3 DEF SameCells
  <1>2. QED
    BY <1>1 DEF Content

\* A push at the back that fails leaves its element behind, but outside the deque.
LEMMA PushBackForgotten ==
  ASSUME DequeAssumption, NEW m, NEW n, NEW st, NEW en, Good(heap, m, n, st, en), NEW v \in Elems,
         heap' = Write(heap, m[en.index], en.cur, v)
  PROVE  /\ Good(heap', m, n, st, en)
         /\ Content(heap', m, st, en) = Content(heap, m, st, en)
  <1>1. /\ Good(heap', m, n, st, en)
        /\ SameCells(heap, m, heap', m, st, en)
    BY WriteBack
  <1>2. st \in Cells /\ en \in Cells
    BY DEF Good
  <1>3. QED
    BY <1>1, <1>2, SameContent

\* end moves on in its block.
LEMMA PushBackInside ==
  ASSUME DequeAssumption, GoodNow, NEW v \in Elems, end.cur + 1 # unit_num,
         end' = Pos(end.index, end.cur + 1), heap' = Write(heap, map[end.index], end.cur, v)
  PROVE  /\ Good(heap', map, map_size, start, end')
         /\ Content(heap', map, start, end') = Append(Now, v)
  <1>0. /\ start \in Cells /\ end \in Cells /\ Num(start) \in Nat /\ Num(end) \in Nat
        /\ Num(start) <= Num(end) /\ Good(heap, map, map_size, start, end)
    BY NumType DEF GoodNow, Good
  <1>1. end' \in Cells /\ Num(end') = Num(end) + 1
    BY <1>0, NextCell
  <1>2. end'.index = end.index /\ Num(start) <= Num(end')
    BY <1>0, <1>1 DEF Pos
  <1>3. /\ Good(heap', map, map_size, start, end) /\ Cell(heap', map, end) = v
        /\ SameCells(heap, map, heap', map, start, end)
    BY <1>0, WriteBack
  <1>4. Good(heap', map, map_size, start, end')
    BY <1>0, <1>1, <1>2, <1>3, GoodTurn
  <1>5. Filled(heap, map, start, end) /\ Filled(heap', map, start, end')
    BY <1>0, <1>4, GoodFilled
  <1>6. Content(heap', map, start, end') = Append(Now, Cell(heap', map, end))
    <2>1. /\ end \in Cells /\ Num(end') = Num(end) + 1
          /\ SameCells(heap, map, heap', map, start, end)
      BY <1>0, <1>1, <1>3, Zenon
    <2>2. QED
      BY <1>5, <2>1, LongerBack DEF Now
  <1>7. QED
    BY <1>3, <1>4, <1>6

\* The block of end is full, and a new one is put behind it.
AddedBehind(m, en, a, v) ==
  /\ en.cur + 1 = unit_num /\ a \in Addr /\ heap[a] = << >>
  /\ end' = Pos(en.index + 1, 0) /\ map' = Put(m, en.index + 1, a)
  /\ heap' = Put(Write(heap, m[en.index], en.cur, v), a, NewBlock)

LEMMA PushBackBlock ==
  ASSUME DequeAssumption, NEW m, NEW n, NEW st, NEW en, Good(heap, m, n, st, en),
         en.index + 1 < n, NEW v \in Elems, NEW a, AddedBehind(m, en, a, v)
  PROVE  /\ Good(heap', map', n, st, end')
         /\ Content(heap', map', st, end') = Append(Content(heap, m, st, en), v)
  <1> DEFINE G == Write(heap, m[en.index], en.cur, v)
             i == en.index + 1
  <1>00. /\ en.cur + 1 = unit_num /\ a \in Addr /\ heap[a] = << >>
         /\ end' = Pos(i, 0) /\ map' = Put(m, i, a) /\ heap' = Put(G, a, NewBlock)
    BY DEF AddedBehind
  <1>0. /\ st \in Cells /\ en \in Cells /\ Num(st) \in Nat /\ Num(en) \in Nat
        /\ Num(st) <= Num(en) /\ n \in Nat
        /\ st.index \in Nat /\ en.index \in Nat /\ st.index <= en.index
    BY NumType, GoodCells, Zenon DEF Good
  <1>1. end' \in Cells /\ Num(end') = Num(en) + 1
    BY <1>00, <1>0, NextCell
  <1>2. end'.index = i
    BY <1>00 DEF Pos
  <1>3. NewBlock \in Blocks
    BY DEF NewBlock, Blocks, Elems
  <1>4. /\ Good(G, m, n, st, en) /\ Cell(G, m, en) = v /\ G[a] = << >>
        /\ SameCells(heap, m, G, m, st, en)
    <2>1. G = Write(heap, m[en.index], en.cur, v)
      OBVIOUS
    <2> HIDE DEF G, i
    <2>2. QED
      <3>1. /\ Good(G, m, n, st, en) /\ Cell(G, m, en) = v /\ SameCells(heap, m, G, m, st, en)
            /\ \A x \in Addr : heap[x] = << >> => G[x] = << >>
        BY <2>1, WriteBack
      <3>2. QED
        BY <1>00, <3>1, Zenon
  <1>5. /\ i \notin Used(st, en) /\ en.index \in Used(st, en)
        /\ Used(st, end') = Used(st, en) \cup {i}
    BY <1>0, <1>2 DEF Used
  <1>6. Grown(n, st, en, i, st, end')
    BY <1>0, <1>1, <1>2, <1>5 DEF Grown
  <1>7. a \in Addr /\ heap' = Put(G, a, NewBlock) /\ map' = Put(m, i, a)
    BY <1>00, Zenon
  <1> HIDE DEF G, i
  <1>8. /\ Good(heap', map', n, st, end')
        /\ Alike(G, m, heap', map', Used(st, en))
    <2>1. Good(G, m, n, st, en) /\ G[a] = << >>
      BY <1>4, Zenon
    <2>2. QED
      BY <1>3, <1>6, <1>7, <2>1, GoodAdd, Zenon
  <1>9. Cell(heap', map', en) = v
    BY <1>0, <1>4, <1>5, <1>8 DEF Alike
  <1>10. SameCells(heap, m, heap', map', st, en)
    <2>1. SameCells(G, m, heap', map', st, en)
      BY <1>4, <1>8, AlikeSame
    <2>2. QED
      BY <1>4, <2>1 DEF SameCells
  <1>11. Filled(heap, m, st, en) /\ Filled(heap', map', st, end')
    BY <1>8, GoodFilled
  <1>12. Content(heap', map', st, end')
           = Append(Content(heap, m, st, en), Cell(heap', map', en))
    <2>1. en \in Cells /\ Num(en) \in Nat /\ Num(end') = Num(en) + 1
      BY <1>0, <1>1, Zenon
    <2>2. QED
      BY <1>10, <1>11, <2>1, LongerBack
  <1>13. QED
    BY <1>8, <1>9, <1>12

\* start moves on in its block.
LEMMA PopFrontInside ==
  ASSUME DequeAssumption, GoodNow, Num(start) < Num(end), start.cur + 1 # unit_num,
         start' = Pos(start.index, start.cur + 1)
  PROVE  /\ Good(heap, map, map_size, start', end)
         /\ Now = <<Cell(heap, map, start)>> \o Content(heap, map, start', end)
  <1>0. /\ start \in Cells /\ end \in Cells /\ Num(start) \in Nat /\ Num(end) \in Nat
        /\ Good(heap, map, map_size, start, end)
    BY NumType DEF GoodNow, Good
  <1>1. start' \in Cells /\ Num(start') = Num(start) + 1
    BY <1>0, NextCell
  <1>2. start'.index = start.index /\ Num(start') <= Num(end)
    BY <1>0, <1>1 DEF Pos
  <1>3. Good(heap, map, map_size, start', end)
    BY <1>0, <1>1, <1>2, GoodTurn
  <1>4. Filled(heap, map, start, end) /\ Filled(heap, map, start', end)
    BY <1>0, <1>3, GoodFilled
  <1>5. SameCells(heap, map, heap, map, start', end)
    BY DEF SameCells
  <1>6. QED
    BY <1>1, <1>3, <1>4, <1>5, LongerFront DEF Now

\* The element was the last of its block, which is freed.
LEMMA PopFrontBlock ==
  ASSUME DequeAssumption, GoodNow, Num(start) < Num(end), start.cur + 1 = unit_num,
         start' = Pos(start.index + 1, 0), heap' = Put(heap, map[start.index], << >>),
         map' = Put(map, start.index, Junk)
  PROVE  /\ Good(heap', map', map_size, start', end)
         /\ Now = <<Cell(heap, map, start)>> \o Content(heap', map', start', end)
  <1>0. /\ start \in Cells /\ end \in Cells /\ Num(start) \in Nat /\ Num(end) \in Nat
        /\ start.index \in Nat /\ end.index \in Nat /\ start.index <= end.index
        /\ map_size \in Nat /\ end.index < map_size /\ Good(heap, map, map_size, start, end)
    BY NumType, GoodCells, Zenon DEF GoodNow, Good
  <1>1. start' \in Cells /\ Num(start') = Num(start) + 1
    BY <1>0, NextCell
  <1>2. start'.index = start.index + 1 /\ Num(start') <= Num(end)
    BY <1>0, <1>1 DEF Pos
  <1>3. Shrunk(map_size, start, end, start.index, start', end)
    <2>1. start.index \in Used(start, end) /\ Used(start', end) = Used(start, end) \ {start.index}
      BY <1>0, <1>2 DEF Used
    <2>2. QED
      BY <1>0, <1>1, <1>2, <2>1 DEF Shrunk
  <1>4. /\ Good(heap', map', map_size, start', end)
        /\ Alike(heap', map', heap, map, Used(start', end))
    BY <1>0, <1>3, GoodFree
  <1>5. SameCells(heap', map', heap, map, start', end)
    BY <1>4, AlikeSame
  <1>6. Filled(heap, map, start, end) /\ Filled(heap', map', start', end)
    BY <1>0, <1>4, GoodFilled
  <1>7. Now = <<Cell(heap, map, start)>> \o Content(heap', map', start', end)
    BY <1>1, <1>5, <1>6, LongerFront DEF Now
  <1>8. QED
    BY <1>4, <1>7

\* end moves back in its block.
LEMMA PopBackInside ==
  ASSUME DequeAssumption, GoodNow, Num(start) < Num(end), end.cur # 0,
         end' = Pos(end.index, end.cur - 1)
  PROVE  /\ Good(heap, map, map_size, start, end')
         /\ Now = Append(Content(heap, map, start, end'), Cell(heap, map, end'))
  <1>0. /\ start \in Cells /\ end \in Cells /\ Num(start) \in Nat /\ Num(end) \in Nat
        /\ Good(heap, map, map_size, start, end)
    BY NumType DEF GoodNow, Good
  <1>1. end' \in Cells /\ Num(end) = Num(end') + 1
    BY <1>0, NextCell
  <1>2. end'.index = end.index /\ Num(start) <= Num(end')
    <2>1. Num(end') \in Nat
      BY <1>1, NumType
    <2>2. QED
      BY <1>0, <1>1, <2>1 DEF Pos
  <1>3. Good(heap, map, map_size, start, end')
    BY <1>0, <1>1, <1>2, GoodTurn
  <1>4. Filled(heap, map, start, end) /\ Filled(heap, map, start, end')
    BY <1>0, <1>3, GoodFilled
  <1>5. SameCells(heap, map, heap, map, start, end')
    BY DEF SameCells
  <1>6. QED
    BY <1>1, <1>3, <1>4, <1>5, LongerBack DEF Now

\* The block of end was empty, and is freed: the last element is in the one before.
LEMMA PopBackBlock ==
  ASSUME DequeAssumption, GoodNow, Num(start) < Num(end), end.cur = 0,
         end' = Pos(end.index - 1, unit_num - 1), heap' = Put(heap, map[end.index], << >>),
         map' = Put(map, end.index, Junk)
  PROVE  /\ Good(heap', map', map_size, start, end')
         /\ Now = Append(Content(heap', map', start, end'), Cell(heap, map, end'))
  <1>0. /\ start \in Cells /\ end \in Cells /\ Num(start) \in Nat /\ Num(end) \in Nat
        /\ start.index \in Nat /\ end.index \in Nat /\ start.index <= end.index /\ start.cur \in Nat
        /\ map_size \in Nat /\ end.index < map_size /\ Good(heap, map, map_size, start, end)
    BY NumType, GoodCells, Zenon DEF GoodNow, Good
  <1>1. start.index < end.index /\ end.index > 0
    <2>1. start.index < end.index \/ start.cur < end.cur
      BY <1>0, NumOrder
    <2>2. QED
      BY <1>0, <2>1
  <1>2. end' \in Cells /\ Num(end) = Num(end') + 1
    BY <1>0, <1>1, NextCell
  <1>3. end'.index = end.index - 1 /\ Num(start) <= Num(end') /\ end'.index < map_size
    <2>1. Num(end') \in Nat
      BY <1>2, NumType
    <2>2. QED
      BY <1>0, <1>2, <2>1 DEF Pos
  <1>4. Shrunk(map_size, start, end, end.index, start, end')
    <2>1. end.index \in Used(start, end) /\ Used(start, end') = Used(start, end) \ {end.index}
      BY <1>0, <1>3 DEF Used
    <2>2. QED
      BY <1>0, <1>2, <1>3, <2>1 DEF Shrunk
  <1>5. /\ Good(heap', map', map_size, start, end')
        /\ Alike(heap', map', heap, map, Used(start, end'))
    BY <1>0, <1>4, GoodFree
  <1>6. SameCells(heap', map', heap, map, start, end')
    BY <1>5, AlikeSame
  <1>7. Filled(heap, map, start, end) /\ Filled(heap', map', start, end')
    BY <1>0, <1>5, GoodFilled
  <1>8. Now = Append(Content(heap', map', start, end'), Cell(heap, map, end'))
    BY <1>2, <1>6, <1>7, LongerBack DEF Now
  <1>9. QED
    BY <1>5, <1>8

\* A sequence with one more element at an end, and without it.
LEMMA WithoutFirst ==
  ASSUME NEW S, NEW s \in Seq(S), NEW x \in S, NEW t, t = <<x>> \o s
  PROVE  t # << >> /\ Head(t) = x /\ Tail(t) = s
  <1>1. <<x>> \in Seq(S) /\ Len(<<x>>) = 1 /\ <<x>>[1] = x
    OBVIOUS
  <1>2. Len(s) \in Nat
    BY SeqType
  <1>3. /\ t \in Seq(S) /\ Len(t) = 1 + Len(s)
        /\ \A i \in 1 .. 1 + Len(s) : t[i] = IF i <= 1 THEN <<x>>[i] ELSE s[i - 1]
    BY <1>1, Concat
  <1>4. t # << >> /\ t[1] = x
    BY <1>1, <1>2, <1>3, SeqType
  <1>5. Head(t) = x
    BY <1>3, <1>4
  <1>6. /\ Tail(t) \in Seq(S) /\ Len(Tail(t)) = Len(t) - 1
        /\ \A i \in 1 .. Len(Tail(t)) : Tail(t)[i] = t[i + 1]
    BY <1>3, <1>4
  <1>7. Len(Tail(t)) = Len(s)
    BY <1>2, <1>3, <1>6
  <1>8. ASSUME NEW i \in 1 .. Len(s) PROVE Tail(t)[i] = s[i]
    <2>1. i + 1 \in 1 .. 1 + Len(s) /\ ~(i + 1 <= 1) /\ (i + 1) - 1 = i
      BY <1>2
    <2>2. QED
      BY <1>3, <1>6, <1>7, <2>1
  <1>9. Tail(t) = s
    BY <1>6, <1>7, <1>8, SameSeq
  <1>10. QED
    BY <1>4, <1>5, <1>9

LEMMA WithoutLast ==
  ASSUME NEW S, NEW s \in Seq(S), NEW x \in S, NEW t, t = Append(s, x)
  PROVE  t # << >> /\ t[Len(t)] = x /\ SubSeq(t, 1, Len(t) - 1) = s
  <1>1. /\ t \in Seq(S) /\ t # << >> /\ Len(t) = Len(s) + 1 /\ Len(s) \in Nat
        /\ \A i \in 1 .. Len(s) : t[i] = s[i] /\ s[i] \in S
        /\ t[Len(s) + 1] = x
    BY Appended, SeqType
  <1>2. Len(t) - 1 = Len(s)
    BY <1>1
  <1> DEFINE r == SubSeq(t, 1, Len(s))
  <1>3. /\ r \in Seq(S) /\ Len(r) = (IF 1 <= Len(s) THEN Len(s) - 1 + 1 ELSE 0)
        /\ \A i \in 1 .. Len(s) - 1 + 1 : r[i] = t[1 + i - 1]
    <2>1. \A i \in 1 .. Len(s) : t[i] \in S
      BY <1>1
    <2>2. QED
      BY <1>1, <2>1
  <1> HIDE DEF r
  <1>4. Len(r) = Len(s)
    BY <1>1, <1>3
  <1>5. ASSUME NEW i \in 1 .. Len(s) PROVE r[i] = s[i]
    <2>1. i \in 1 .. Len(s) - 1 + 1 /\ 1 + i - 1 = i
      BY <1>1
    <2>2. QED
      BY <1>1, <1>3, <2>1
  <1>6. r = s
    BY <1>3, <1>4, <1>5, SameSeq
  <1>7. QED
    BY <1>1, <1>2, <1>6 DEF r


(***************************************************************************)
(* The steps                                                               *)
(***************************************************************************)
\* malloc gives a block that was free.
LEMMA MallocFree ==
  ASSUME DequeAssumption, NEW a \in Malloc
  PROVE  a \in Addr /\ heap[a] = << >>
  <1> DEFINE free == {x \in Addr : heap[x] = << >>}
  <1>1. free # {} /\ a = CHOOSE x \in free : TRUE
    BY DEF Malloc
  <1> HIDE DEF free
  <1>2. a \in free
    BY <1>1
  <1>3. QED
    BY <1>2 DEF free

\* A step from the elements s to t, with o popped, is one of a sequence.
SeqStep(s, t, o) ==
  \/ o = Junk /\ (t = s \/ \E v \in Values : t = <<v>> \o s \/ t = Append(s, v))
  \/ s # << >> /\ o = Head(s) /\ t = Tail(s)
  \/ s # << >> /\ o = s[Len(s)] /\ t = SubSeq(s, 1, Len(s) - 1)

\* What an operation has to do.
DequeStep ==
  /\ Good(heap', map', map_size', start', end') /\ out' \in Elems
  /\ SeqStep(Now, Content(heap', map', start', end'), out')

\* The parts that deque_update_map leaves, moved or not.
Parts(m, n, st, en) == [map |-> m, size |-> n, start |-> st, end |-> en]

Left(u, m, n, st, en) ==
  /\ u = Parts(m, n, st, en)
  /\ Good(heap, m, n, st, en) /\ Content(heap, m, st, en) = Now
  /\ st.cur = start.cur /\ en.cur = end.cur /\ m[en.index] = map[end.index]
  /\ u = Updated \/ start.index > 0 => st.index > 0
  /\ u = Updated \/ end.index + 1 < map_size => en.index + 1 < n

LEMMA UpdatedOrSame ==
  ASSUME DequeAssumption, GoodNow, NEW u \in {Updated, Same}
  PROVE  \E m, n, st, en : Left(u, m, n, st, en)
  <1>1. CASE u = Updated
    <2> DEFINE m  == Updated.map
               n  == Updated.size
               st == Updated.start
               en == Updated.end
    <2>1. u = Parts(m, n, st, en)
      BY <1>1 DEF Updated, Parts
    <2>2. /\ Good(heap, m, n, st, en) /\ Content(heap, m, st, en) = Now
          /\ st.cur = start.cur /\ en.cur = end.cur /\ m[en.index] = map[end.index]
          /\ st.index > 0 /\ en.index + 1 < n
      BY UpdatedGood, Zenon DEF GoodNow, Now
    <2> HIDE DEF m, n, st, en
    <2>3. QED
      BY <2>1, <2>2, Zenon DEF Left
  <1>2. CASE u # Updated
    <2>1. u = Parts(map, map_size, start, end)
      BY <1>2 DEF Same, Parts
    <2>2. Good(heap, map, map_size, start, end) /\ Content(heap, map, start, end) = Now
      BY DEF GoodNow, Now
    <2>3. QED
      BY <1>2, <2>1, <2>2, Zenon DEF Left
  <1>3. QED
    BY <1>1, <1>2

LEMMA PushFrontStep ==
  ASSUME DequeAssumption, GoodNow, NEW v \in Values, deque_push_front(v)
  PROVE  DequeStep
  <1>0. v \in Elems /\ Junk \in Elems
    BY DEF Elems
  <1>1. CASE /\ start.cur # 0
             /\ start' = Pos(start.index, start.cur - 1)
             /\ heap' = [heap EXCEPT ![map[start.index]][start.cur - 1] = v]
             /\ out' = Junk /\ UNCHANGED <<map, map_size, end>>
    <2>1. /\ heap' = Write(heap, map[start.index], start.cur - 1, v)
          /\ start.cur # 0 /\ start' = Pos(start.index, start.cur - 1)
      BY <1>1 DEF Write
    <2>2. /\ Good(heap', map, map_size, start', end)
          /\ Content(heap', map, start', end) = <<v>> \o Now
      BY <1>0, <2>1, PushFrontInside
    <2>3. QED
      BY <1>0, <1>1, <2>2, Zenon DEF DequeStep, SeqStep
  <1>2. ASSUME NEW u \in {Updated, Same}, Fails(u), UNCHANGED heap
        PROVE  DequeStep
    <2>1. PICK m, n, st, en : Left(u, m, n, st, en)
      BY UpdatedOrSame, Zenon
    <2>2. u = Parts(m, n, st, en) /\ Good(heap, m, n, st, en) /\ Content(heap, m, st, en) = Now
      BY <2>1, Zenon DEF Left
    <2>3. map' = m /\ map_size' = n /\ start' = st /\ end' = en /\ out' = Junk
      BY <1>2, <2>2 DEF Fails, Install, Parts
    <2>4. QED
      BY <1>0, <1>2, <2>2, <2>3, Zenon DEF DequeStep, SeqStep
  <1>3. ASSUME start.cur = 0, NEW u \in {Updated, Same}, NEW ok \in BOOLEAN, ok,
               IF start.index = 0 THEN deque_update_map(u, ok) ELSE u = Same /\ ok,
               NEW a \in Malloc,
               Install([u EXCEPT !.start = Pos(u.start.index - 1, unit_num - 1)]),
               map' = [u.map EXCEPT ![u.start.index - 1] = a],
               heap' = [heap EXCEPT ![a] = [NewBlock EXCEPT ![unit_num - 1] = v]],
               out' = Junk
        PROVE  DequeStep
    <2>1. u = Updated \/ start.index > 0
      <3>1. start.index \in Nat
        BY GoodCells DEF GoodNow
      <3>2. QED
        BY <1>3, <3>1 DEF deque_update_map
    <2>00. PICK m, n, st, en : Left(u, m, n, st, en)
      BY UpdatedOrSame, Zenon
    <2>2. /\ u = Parts(m, n, st, en) /\ Good(heap, m, n, st, en) /\ Content(heap, m, st, en) = Now
          /\ st.cur = start.cur /\ st.index > 0
      BY <2>1, <2>00, Zenon DEF Left
    <2>3. a \in Addr /\ heap[a] = << >>
      BY MallocFree
    <2>4. heap' = Put(heap, a, Put(NewBlock, unit_num - 1, v)) /\ st.cur = 0
      BY <1>3, <2>2, Zenon DEF Put
    <2>5. /\ map_size' = n /\ end' = en
          /\ start' = Pos(st.index - 1, unit_num - 1) /\ map' = Put(m, st.index - 1, a)
      BY <1>3, <2>2 DEF Install, Parts, Put
    <2>6. /\ Good(heap', map', n, start', en)
          /\ Content(heap', map', start', en) = <<v>> \o Content(heap, m, st, en)
      <3>1. Good(heap, m, n, st, en) /\ st.index > 0
        BY <2>2, Zenon
      <3>2. AddedBefore(m, st, a, v)
        BY <2>3, <2>4, <2>5, Zenon DEF AddedBefore
      <3>3. QED
        BY <1>0, <3>1, <3>2, PushFrontBlock
    <2>7. QED
      <3>1. out' = Junk /\ Content(heap, m, st, en) = Now
        BY <1>3, <2>2, Zenon
      <3>2. QED
        BY <1>0, <2>5, <2>6, <3>1, Zenon DEF DequeStep, SeqStep
  <1>4. QED
    BY <1>1, <1>2, <1>3 DEF deque_push_front


LEMMA PushBackStep ==
  ASSUME DequeAssumption, GoodNow, NEW v \in Values, deque_push_back(v)
  PROVE  DequeStep
  <1> DEFINE G == [heap EXCEPT ![map[end.index]][end.cur] = v]
  <1>0. v \in Elems /\ Junk \in Elems
    BY DEF Elems
  <1>1. CASE /\ end.cur + 1 # unit_num
             /\ end' = Pos(end.index, end.cur + 1)
             /\ heap' = G
             /\ out' = Junk /\ UNCHANGED <<map, map_size, start>>
    <2>1. /\ heap' = Write(heap, map[end.index], end.cur, v)
          /\ end.cur + 1 # unit_num /\ end' = Pos(end.index, end.cur + 1)
      BY <1>1 DEF Write
    <2>2. /\ Good(heap', map, map_size, start, end')
          /\ Content(heap', map, start, end') = Append(Now, v)
      BY <1>0, <2>1, PushBackInside
    <2>3. QED
      BY <1>0, <1>1, <2>2, Zenon DEF DequeStep, SeqStep
  <1>2. ASSUME NEW u \in {Updated, Same}, Fails(u), heap' = G
        PROVE  DequeStep
    <2>00. PICK m, n, st, en : Left(u, m, n, st, en)
      BY UpdatedOrSame, Zenon
    <2>1. /\ u = Parts(m, n, st, en) /\ Good(heap, m, n, st, en) /\ Content(heap, m, st, en) = Now
          /\ en.cur = end.cur /\ m[en.index] = map[end.index]
      BY <2>00, Zenon DEF Left
    <2>2. map' = m /\ map_size' = n /\ start' = st /\ end' = en /\ out' = Junk
      BY <1>2, <2>1 DEF Fails, Install, Parts
    <2>3. heap' = Write(heap, m[en.index], en.cur, v)
      <3>1. heap' = Write(heap, map[end.index], end.cur, v)
        BY <1>2 DEF Write
      <3>2. QED
        BY <2>1, <3>1
    <2>4. Good(heap', m, n, st, en) /\ Content(heap', m, st, en) = Now
      BY <1>0, <2>1, <2>3, PushBackForgotten
    <2>5. QED
      BY <1>0, <2>2, <2>4, Zenon DEF DequeStep, SeqStep
  <1>3. ASSUME end.cur + 1 = unit_num, NEW u \in {Updated, Same}, NEW ok \in BOOLEAN, ok,
               IF end.index = map_size - 1 THEN deque_update_map(u, ok) ELSE u = Same /\ ok,
               NEW a \in Malloc,
               Install([u EXCEPT !.end = Pos(u.end.index + 1, 0)]),
               map' = [u.map EXCEPT ![u.end.index + 1] = a],
               heap' = [heap EXCEPT ![map[end.index]][end.cur] = v, ![a] = NewBlock],
               out' = Junk
        PROVE  DequeStep
    <2>1. u = Updated \/ end.index + 1 < map_size
      <3>1. end.index \in Nat /\ map_size \in Nat /\ end.index < map_size
        <4>1. /\ Good(heap, map, map_size, start, end)
              /\ map_size \in Nat /\ end.index < map_size
          BY Zenon DEF GoodNow, Good
        <4>2. QED
          BY <4>1, GoodCells
      <3>2. QED
        BY <1>3, <3>1 DEF deque_update_map
    <2>00. PICK m, n, st, en : Left(u, m, n, st, en)
      BY UpdatedOrSame, Zenon
    <2>2. /\ u = Parts(m, n, st, en) /\ Good(heap, m, n, st, en) /\ Content(heap, m, st, en) = Now
          /\ en.index + 1 < n /\ en.cur = end.cur /\ m[en.index] = map[end.index]
      BY <2>1, <2>00, Zenon DEF Left
    <2>3. a \in Addr /\ heap[a] = << >>
      BY MallocFree
    <2>4. heap' = Put(Write(heap, map[end.index], end.cur, v), a, NewBlock)
      BY <1>3 DEF Put, Write
    <2>5. /\ heap' = Put(Write(heap, m[en.index], en.cur, v), a, NewBlock)
          /\ en.cur + 1 = unit_num
      <3>1. m[en.index] = map[end.index] /\ en.cur = end.cur /\ end.cur + 1 = unit_num
        BY <1>3, <2>2, Zenon
      <3>2. QED
        BY <2>4, <3>1
    <2>6. /\ map_size' = n /\ start' = st
          /\ end' = Pos(en.index + 1, 0) /\ map' = Put(m, en.index + 1, a)
      BY <1>3, <2>2 DEF Install, Parts, Put
    <2>7. /\ Good(heap', map', n, st, end')
          /\ Content(heap', map', st, end') = Append(Content(heap, m, st, en), v)
      <3>1. Good(heap, m, n, st, en) /\ en.index + 1 < n
        BY <2>2, Zenon
      <3>2. AddedBehind(m, en, a, v)
        BY <2>3, <2>5, <2>6, Zenon DEF AddedBehind
      <3>3. QED
        BY <1>0, <3>1, <3>2, PushBackBlock
    <2>8. QED
      <3>1. out' = Junk /\ Content(heap, m, st, en) = Now
        BY <1>3, <2>2, Zenon
      <3>2. QED
        BY <1>0, <2>6, <2>7, <3>1, Zenon DEF DequeStep, SeqStep
  <1>4. QED
    BY <1>1, <1>2, <1>3 DEF deque_push_back

\* A deque that is not empty has its end after its start.
LEMMA NotEmpty ==
  ASSUME DequeAssumption, GoodNow
  PROVE  /\ Now \in Seq(Elems)
         /\ ~deque_empty => Num(start) < Num(end) /\ Cell(heap, map, start) \in Elems
  <1>1. /\ start \in Cells /\ end \in Cells /\ Num(start) <= Num(end)
        /\ Num(start) \in Nat /\ Num(end) \in Nat
    BY NumType DEF GoodNow, Good
  <1>2. Now \in Seq(Elems)
    BY GoodFilled, ContentElements DEF GoodNow, Now, Filled
  <1>3. ~deque_empty => Num(start) # Num(end)
    BY <1>1, NumOrder DEF deque_empty
  <1>4. Cell(heap, map, start) \in Elems
    BY <1>1, GoodCells DEF GoodNow
  <1>5. QED
    BY <1>1, <1>2, <1>3, <1>4

LEMMA PopNothingStep ==
  ASSUME DequeAssumption, GoodNow, pop_nothing
  PROVE  DequeStep
  BY DEF pop_nothing, GoodNow, Now, DequeStep, SeqStep, Elems

LEMMA PopFrontStep ==
  ASSUME DequeAssumption, GoodNow, deque_pop_front
  PROVE  DequeStep
  <1>1. CASE pop_nothing
    BY <1>1, PopNothingStep
  <1>2. CASE ~pop_nothing
    <2> DEFINE x == Cell(heap, map, start)
               t == Content(heap', map', start', end')
    <2>0. Num(start) < Num(end)
      BY <1>2, NotEmpty DEF deque_pop_front
    <2>1. x \in Elems /\ out' = x /\ end' = end /\ map_size' = map_size
      BY <1>2, NotEmpty DEF deque_pop_front, Cell
    <2>2. Good(heap', map', map_size', start', end') /\ Now = <<x>> \o t
      <3>1. CASE start.cur + 1 = unit_num
        <4>1. /\ start' = Pos(start.index + 1, 0) /\ heap' = Put(heap, map[start.index], << >>)
              /\ map' = Put(map, start.index, Junk)
          BY <1>2, <3>1 DEF deque_pop_front, Put
        <4>2. /\ Good(heap', map', map_size, start', end)
              /\ Now = <<x>> \o Content(heap', map', start', end)
          BY <2>0, <3>1, <4>1, PopFrontBlock
        <4>3. QED
          BY <2>1, <4>2
      <3>2. CASE start.cur + 1 # unit_num
        <4>1. start' = Pos(start.index, start.cur + 1) /\ heap' = heap /\ map' = map
          BY <1>2, <3>2 DEF deque_pop_front
        <4>2. Good(heap, map, map_size, start', end) /\ Now = <<x>> \o Content(heap, map, start', end)
          BY <2>0, <3>2, <4>1, PopFrontInside
        <4>3. QED
          BY <2>1, <4>1, <4>2
      <3>3. QED
        BY <3>1, <3>2
    <2>3. t \in Seq(Elems)
      BY <2>2, GoodFilled, ContentElements DEF Filled
    <2> HIDE DEF x, t
    <2>4. Now # << >> /\ Head(Now) = x /\ Tail(Now) = t
      BY <2>1, <2>2, <2>3, WithoutFirst
    <2>5. QED
      BY <2>1, <2>2, <2>4, Zenon DEF DequeStep, SeqStep, t
  <1>3. QED
    BY <1>1, <1>2

LEMMA PopBackStep ==
  ASSUME DequeAssumption, GoodNow, deque_pop_back
  PROVE  DequeStep
  <1>1. CASE pop_nothing
    BY <1>1, PopNothingStep
  <1>2. CASE ~pop_nothing
    <2> DEFINE x == Cell(heap, map, end')
               t == Content(heap', map', start', end')
    <2>1. Num(start) < Num(end) /\ start' = start /\ map_size' = map_size
      BY <1>2, NotEmpty DEF deque_pop_back
    <2>2. out' = x /\ Good(heap', map', map_size', start', end') /\ Now = Append(t, x)
      <3>1. CASE end.cur = 0
        <4>1. /\ end' = Pos(end.index - 1, unit_num - 1) /\ heap' = Put(heap, map[end.index], << >>)
              /\ map' = Put(map, end.index, Junk) /\ out' = heap[map[end.index - 1]][unit_num - 1]
          BY <1>2, <3>1 DEF deque_pop_back, Put
        <4>2. /\ Good(heap', map', map_size, start, end')
              /\ Now = Append(Content(heap', map', start, end'), x)
          BY <2>1, <3>1, <4>1, PopBackBlock, Zenon
        <4>3. QED
          BY <2>1, <4>1, <4>2 DEF Cell, Pos
      <3>2. CASE end.cur # 0
        <4>1. /\ end' = Pos(end.index, end.cur - 1) /\ heap' = heap /\ map' = map
              /\ out' = heap[map[end.index]][end.cur - 1]
          BY <1>2, <3>2 DEF deque_pop_back
        <4>2. /\ Good(heap, map, map_size, start, end')
              /\ Now = Append(Content(heap, map, start, end'), x)
          BY <2>1, <3>2, <4>1, PopBackInside
        <4>3. QED
          BY <2>1, <4>1, <4>2 DEF Cell, Pos
      <3>3. QED
        BY <3>1, <3>2
    <2>3. t \in Seq(Elems)
      BY <2>2, GoodFilled, ContentElements DEF Filled
    <2>4. x \in Elems
      <3>1. Now \in Seq(Elems) /\ Len(t) \in Nat
        BY <2>3, NotEmpty, SeqType
      <3> HIDE DEF x, t
      <3>2. Len(Now) = Len(t) + 1 /\ Now[Len(t) + 1] = x
        BY <2>2, <2>3
      <3>3. QED
        BY <3>1, <3>2, SeqType
    <2> HIDE DEF x, t
    <2>5. Now # << >> /\ Now[Len(Now)] = x /\ SubSeq(Now, 1, Len(Now) - 1) = t
      BY <2>2, <2>3, <2>4, WithoutLast
    <2>6. QED
      BY <2>1, <2>2, <2>4, <2>5, Zenon DEF DequeStep, SeqStep, t
  <1>3. QED
    BY <1>1, <1>2


(***************************************************************************)
(* The theorems                                                            *)
(***************************************************************************)
LEMMA InvGood ==
  ASSUME DequeAssumption, DequeInv, live
  PROVE  GoodNow
  <1>1. /\ start \in Cells /\ end \in Cells /\ start.index <= end.index
        /\ start.index = end.index => start.cur <= end.cur
    BY DEF DequeInv, TypeOK, InsideMap, Cells
  <1>2. Num(start) <= Num(end)
    <2>1. Num(start) \in Nat /\ Num(end) \in Nat /\ start.index \in Nat /\ end.index \in Nat
          /\ start.cur \in Nat /\ end.cur \in Nat
      BY <1>1, NumType
    <2>2. ~(Num(end) < Num(start))
      BY <1>1, <2>1, NumOrder
    <2>3. QED
      BY <2>1, <2>2
  <1>3. QED
    BY <1>1, <1>2
       DEF DequeInv, TypeOK, InsideMap, BlocksOwned, GoodNow, Good, Used, Blocks, Elems

\* The other way round, for the parts before or after a step.
LEMMA GoodShape ==
  ASSUME DequeAssumption, NEW h, NEW m, NEW n, NEW st, NEW en, Good(h, m, n, st, en)
  PROVE  /\ n \in Nat /\ n > 1 /\ m \in [0 .. n - 1 -> Addr \cup {Junk}]
         /\ {st, en} \subseteq [index : Nat, cur : 0 .. unit_num - 1]
         /\ h \in [Addr -> [0 .. unit_num - 1 -> Values \cup {Junk}] \cup {<< >>}]
         /\ st.index <= en.index /\ en.index < n
         /\ st.index = en.index => st.cur <= en.cur
         /\ \A i, j \in st.index .. en.index : m[i] = m[j] => i = j
         /\ {a \in Addr : h[a] # << >>} = {m[i] : i \in st.index .. en.index}
  <1>1. st \in Cells /\ en \in Cells /\ Num(st) <= Num(en)
    BY DEF Good
  <1>2. /\ Num(st) \in Nat /\ Num(en) \in Nat /\ st.cur \in Nat /\ en.cur \in Nat
        /\ st.index <= en.index
    BY <1>1, NumType, GoodCells
  <1>3. st.index = en.index => st.cur <= en.cur
    <2>1. ~(Num(en) < Num(st))
      BY <1>1, <1>2
    <2>2. QED
      BY <1>1, <1>2, <2>1, NumOrder
  <1>4. {st, en} \subseteq [index : Nat, cur : 0 .. unit_num - 1]
    BY <1>1 DEF Cells
  <1>5. QED
    BY <1>2, <1>3, <1>4 DEF Good, Used, Blocks, Elems

\* One operation or none.
LEMMA OperationStep ==
  ASSUME DequeAssumption, GoodNow, Operation
  PROVE  DequeStep
  <1>1. ASSUME NEW v \in Values, deque_push_front(v) PROVE DequeStep
    BY <1>1, PushFrontStep
  <1>2. ASSUME NEW v \in Values, deque_push_back(v) PROVE DequeStep
    BY <1>2, PushBackStep
  <1>3. CASE deque_pop_front
    BY <1>3, PopFrontStep
  <1>4. CASE deque_pop_back
    BY <1>4, PopBackStep
  <1>5. QED
    BY <1>1, <1>2, <1>3, <1>4 DEF Operation

LEMMA InitGood ==
  ASSUME DequeAssumption, init_size >= 2, Init
  PROVE  GoodNow /\ start = end /\ live = TRUE /\ out = Junk
  <1> DEFINE i == map_size \div 2
  <1>1. PICK a \in Addr :
          /\ heap = [x \in Addr |-> IF x = a THEN NewBlock ELSE << >>]
          /\ map = [k \in 0 .. map_size - 1 |-> IF k = start.index THEN a ELSE Junk]
    BY Zenon DEF Init
  <1>2. map_size \in Nat /\ map_size > 1 /\ i \in Nat /\ i < map_size
    BY DEF Init, DequeAssumption
  <1>3. /\ start = end /\ start \in Cells /\ start.index = i /\ end.index = i
        /\ live = TRUE /\ out = Junk
    BY <1>2, Unit DEF Init, Pos, Cells
  <1>4. NewBlock \in Blocks /\ NewBlock # << >>
    <2>1. NewBlock \in Blocks
      BY DEF NewBlock, Blocks, Elems
    <2>2. QED
      BY <2>1, NotFree
  <1>5. heap \in [Addr -> Blocks \cup {<< >>}] /\ {x \in Addr : heap[x] # << >>} = {a}
    BY <1>1, <1>4
  <1> HIDE DEF i
  <1>6. Used(start, end) = {i}
    BY <1>2, <1>3 DEF Used
  <1>7. map \in [0 .. map_size - 1 -> Addr \cup {Junk}] /\ map[i] = a
    BY <1>1, <1>2, <1>3
  <1>8. {map[k] : k \in Used(start, end)} = {a}
    BY <1>6, <1>7
  <1>9. Num(start) <= Num(end)
    BY <1>3, NumType
  <1>10. QED
    BY <1>2, <1>3, <1>5, <1>6, <1>7, <1>8, <1>9 DEF GoodNow, Good

LEMMA InvInit ==
  ASSUME DequeAssumption, init_size >= 2, Init
  PROVE  DequeInv
  <1>1. Good(heap, map, map_size, start, end) /\ live = TRUE /\ out = Junk
    BY InitGood DEF GoodNow
  <1>2. QED
    BY <1>1, GoodShape DEF DequeInv, TypeOK, InsideMap, BlocksOwned

LEMMA InvStep ==
  ASSUME DequeAssumption, DequeInv, [Next]_vars
  PROVE  DequeInv'
  <1>1. CASE live /\ Operation /\ UNCHANGED live
    <2>1. DequeStep
      BY <1>1, InvGood, OperationStep
    <2>2. Good(heap', map', map_size', start', end') /\ live' = TRUE /\ out' \in Values \cup {Junk}
      BY <1>1, <2>1 DEF DequeStep, Elems, DequeInv, TypeOK
    <2>3. /\ map_size' \in Nat /\ map_size' > 1 /\ map' \in [0 .. map_size' - 1 -> Addr \cup {Junk}]
          /\ {start', end'} \subseteq [index : Nat, cur : 0 .. unit_num - 1]
          /\ heap' \in [Addr -> [0 .. unit_num - 1 -> Values \cup {Junk}] \cup {<< >>}]
          /\ start'.index <= end'.index /\ end'.index < map_size'
          /\ start'.index = end'.index => start'.cur <= end'.cur
          /\ \A i, j \in start'.index .. end'.index : map'[i] = map'[j] => i = j
          /\ {a \in Addr : heap'[a] # << >>} = {map'[i] : i \in start'.index .. end'.index}
      BY <2>2, GoodShape
    <2>4. QED
      BY <2>2, <2>3, Zenon DEF DequeInv, TypeOK, InsideMap, BlocksOwned
  <1>2. CASE live /\ _deque_uninit
    <2>1. /\ \A a \in Addr : heap[a] # << >> => \E i \in start.index .. end.index : map[i] = a
          /\ heap \in [Addr -> [0 .. unit_num - 1 -> Values \cup {Junk}] \cup {<< >>}]
      BY <1>2 DEF DequeInv, TypeOK, BlocksOwned
    <2>2. heap' = [a \in Addr |-> << >>]
      BY <1>2, <2>1 DEF _deque_uninit
    <2>3. QED
      <3>1. map' \in [0 .. map_size' - 1 -> Addr \cup {Junk}] /\ map_size' = map_size
        BY <1>2 DEF _deque_uninit
      <3>2. heap' \in [Addr -> [0 .. unit_num - 1 -> Values \cup {Junk}] \cup {<< >>}]
        BY <2>2
      <3>3. BlocksOwned'
        <4>1. live' = FALSE
          BY <1>2, Zenon DEF _deque_uninit
        <4>2. {a \in Addr : heap'[a] # << >>} = {}
          BY <2>2
        <4>3. QED
          BY <4>1, <4>2 DEF BlocksOwned
      <3>4. QED
        BY <1>2, <3>1, <3>2, <3>3, Zenon DEF _deque_uninit, DequeInv, TypeOK, InsideMap
  <1>3. CASE UNCHANGED vars
    BY <1>3 DEF vars, DequeInv, TypeOK, InsideMap, BlocksOwned
  <1>4. QED
    BY <1>1, <1>2, <1>3 DEF Next

\* The deque stays inside its map and every block has its place there, whatever is pushed
\* and popped, and whichever allocation fails.
THEOREM InvCorrect == ASSUME DequeAssumption, init_size >= 2 PROVE Spec => []DequeInv
  <1>1. Init => DequeInv
    BY InvInit
  <1>2. DequeInv /\ [Next]_vars => DequeInv'
    BY InvStep
  <1>3. QED
    BY <1>1, <1>2, PTL DEF Spec

\* No block is freed twice, used after it was freed, or leaked, and none is left once
\* _deque_uninit is done.
THEOREM OneBlockEach == ASSUME DequeAssumption, init_size >= 2 PROVE Spec => []BlocksOwned
  <1>1. DequeInv => BlocksOwned
    BY DEF DequeInv
  <1>2. QED
    BY <1>1, InvCorrect, PTL

\* What deque_at reads is the content of the parts.
Reading(h, m, st, en) ==
  [k \in 1 .. (en.index - st.index) * unit_num + en.cur - st.cur |->
     LET p == (k - 1) + st.cur IN h[m[st.index + p \div unit_num]][p % unit_num]]

LEMMA Read ==
  ASSUME DequeAssumption, NEW h, NEW m, NEW n, NEW st, NEW en, Good(h, m, n, st, en)
  PROVE  Reading(h, m, st, en) = Content(h, m, st, en)
  <1>1. (en.index - st.index) * unit_num + en.cur - st.cur = Num(en) - Num(st)
    BY SizeIs DEF Good
  <1>2. QED
    BY <1>1, Zenon DEF Reading, Content, At

LEMMA ElementsRead ==
  ASSUME DequeAssumption, GoodNow, live
  PROVE  Elements = Now
  <1>1. Elements = Reading(heap, map, start, end)
    BY Zenon DEF Elements, Size, deque_at, Reading
  <1>2. QED
    BY <1>1, Read DEF GoodNow, Now

LEMMA ElementsReadNext ==
  ASSUME DequeAssumption, Good(heap', map', map_size', start', end'), live'
  PROVE  Elements' = Content(heap', map', start', end')
  <1>1. Elements' = Reading(heap', map', start', end')
    BY Zenon DEF Elements, Size, deque_at, Reading
  <1>2. QED
    BY <1>1, Read

\* deque_front and deque_back, which find their element without a division, return the
\* first and the last one.
THEOREM FrontAndBack == ASSUME DequeAssumption, init_size >= 2 PROVE Spec => []EndsAgree
  <1>1. DequeInv => EndsAgree
    <2> SUFFICES ASSUME DequeInv, live, ~deque_empty
                 PROVE  deque_front = deque_at(0) /\ deque_back = deque_at(Size - 1)
      BY DEF EndsAgree
    <2>1. GoodNow /\ start \in Cells /\ end \in Cells /\ Num(start) < Num(end)
      BY InvGood, NotEmpty DEF GoodNow, Good
    <2>2. /\ Num(start) \in Nat /\ Num(end) \in Nat /\ Num(start) = Num(start) + 0
          /\ start.index \in Nat /\ end.index \in Nat /\ start.cur \in Nat /\ end.cur \in Nat
          /\ start.index <= end.index
      <3>1. /\ Num(start) \in Nat /\ Num(end) \in Nat /\ start.cur \in Nat /\ end.cur \in Nat
        BY <2>1, NumType
      <3>2. start.index \in Nat /\ end.index \in Nat /\ start.index <= end.index
        BY <2>1, GoodCells DEF GoodNow
      <3>3. QED
        BY <3>1, <3>2
    <2>3. \A k : deque_at(k) = At(heap, map, start, k)
      BY DEF deque_at, At
    <2>4. deque_front = deque_at(0)
      <3>1. At(heap, map, start, 0) = Cell(heap, map, start)
        BY <2>1, <2>2, AtIsCell
      <3>2. QED
        BY <2>3, <3>1 DEF deque_front, Cell
    <2>5. Size = Num(end) - Num(start) /\ Size - 1 \in Nat
      BY <2>1, <2>2, SizeIs DEF Size
    <2>6. ASSUME NEW c \in Cells, Num(end) = Num(c) + 1
          PROVE  deque_at(Size - 1) = Cell(heap, map, c)
      <3>1. Num(c) \in Nat
        BY NumType
      <3>2. Num(c) = Num(start) + (Size - 1)
        BY <2>2, <2>5, <2>6, <3>1
      <3>3. QED
        BY <2>1, <2>3, <2>5, <3>2, AtIsCell
    <2>7. CASE end.cur # 0
      <3> DEFINE c == Pos(end.index, end.cur - 1)
      <3>1. c \in Cells /\ Num(end) = Num(c) + 1
        BY <2>1, <2>7, NextCell
      <3>2. deque_back = Cell(heap, map, c)
        BY <2>7 DEF deque_back, Cell, Pos
      <3>3. QED
        BY <2>4, <2>6, <3>1, <3>2
    <2>8. CASE end.cur = 0
      <3> DEFINE c == Pos(end.index - 1, unit_num - 1)
      <3>1. end.index > 0
        <4>1. start.index < end.index \/ start.cur < end.cur
          BY <2>1, NumOrder
        <4>2. QED
          BY <2>2, <2>8, <4>1
      <3>2. c \in Cells /\ Num(end) = Num(c) + 1
        BY <2>1, <2>8, <3>1, NextCell
      <3>3. deque_back = Cell(heap, map, c)
        BY <2>8 DEF deque_back, Cell, Pos
      <3>4. QED
        BY <2>4, <2>6, <3>2, <3>3
    <2>9. QED
      BY <2>7, <2>8
  <1>2. QED
    BY <1>1, InvCorrect, PTL


LEMMA SequenceStep ==
  ASSUME DequeAssumption, DequeInv, [Next]_vars
  PROVE  [Abstract!Next]_(Abstract!vars)
  <1>1. CASE live /\ Operation /\ UNCHANGED live
    <2>1. GoodNow /\ live /\ live'
      BY <1>1, InvGood
    <2>2. DequeStep
      BY <1>1, <2>1, OperationStep
    <2>3. Elements = Now
      BY <2>1, ElementsRead
    <2>4. Elements' = Content(heap', map', start', end')
      BY <2>1, <2>2, ElementsReadNext DEF DequeStep
    <2>5. SeqStep(Elements, Elements', out')
      BY <2>2, <2>3, <2>4 DEF DequeStep
    <2>6. QED
      BY <2>5, Zenon DEF SeqStep, Abstract!Next, Abstract!PushFront, Abstract!PushBack,
                  Abstract!PushFails, Abstract!PopFront, Abstract!PopBack
  <1>2. CASE live /\ _deque_uninit
    <2>1. Elements' = << >> /\ out' = Junk
      BY <1>2 DEF _deque_uninit, Elements
    <2>2. QED
      BY <2>1 DEF Abstract!Next, Abstract!Destroy
  <1>3. CASE UNCHANGED vars
    <2>1. Elements' = Elements /\ out' = out
      BY <1>3 DEF vars, Elements, Size, deque_at
    <2>2. QED
      BY <2>1 DEF Abstract!vars
  <1>4. QED
    BY <1>1, <1>2, <1>3 DEF Next

\* Pushes and pops at both ends, over blocks of any size that are added, freed and moved
\* in the map, and with pushes that fail, are those of a sequence.
THEOREM DequeIsSequence == ASSUME DequeAssumption, init_size >= 2 PROVE Spec => ImplementsDeque
  <1>1. Init => Abstract!Init
    <2> SUFFICES ASSUME Init PROVE Abstract!Init
      OBVIOUS
    <2>1. GoodNow /\ start = end /\ live /\ out = Junk
      BY InitGood
    <2>2. start \in Cells /\ Num(start) \in Nat
      BY <2>1, NumType DEF GoodNow, Good
    <2>3. Now \in Seq(Elems) /\ Len(Now) = 0
      <3>1. Now \in Seq(Elems) /\ Len(Now) = Num(end) - Num(start)
        BY <2>1, GoodFilled, ContentElements DEF GoodNow, Now, Filled
      <3>2. QED
        BY <2>1, <2>2, <3>1
    <2>4. Elements = << >>
      BY <2>1, <2>3, ElementsRead, SeqType
    <2>5. QED
      BY <2>1, <2>4 DEF Abstract!Init
  <1>2. DequeInv /\ [Next]_vars => [Abstract!Next]_(Abstract!vars)
    BY SequenceStep
  <1>3. QED
    BY <1>1, <1>2, InvCorrect, PTL DEF Spec, ImplementsDeque, Abstract!Spec
=============================================================================
