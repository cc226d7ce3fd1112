--------------------------- MODULE OperatorLemmas ---------------------------
(***************************************************************************)
(* Facts about the operators that the components are built from; no state  *)
(* is involved.                                                            *)
(***************************************************************************)
EXTENDS Pool, TuFifo, TLAPS

(***************************************************************************)
(* What keeps an allocation table sound: placing an allocation where it    *)
(* fits, releasing one, and raising the mark of what was uploaded.         *)
(***************************************************************************)
(* Placing a buffer where it fits keeps the table sound.                   *)
LEMMA PlaceSound ==
  ASSUME NEW t \in [Handles -> Allocation], Sound(t),
         NEW h \in Handles, ~t[h].live,
         NEW c \in 0 .. PoolBytes, NEW n \in 1 .. PoolBytes,
         c % 4 = 0, n % 4 = 0, FitsAt(t, c, n),
         NEW u, u = [t EXCEPT ![h] =
               [offset |-> c, size |-> n, uploaded |-> 0, live |-> TRUE]]
  PROVE  Sound(u)
  <1>1. \A g \in Handles \ {h} : u[g] = t[g]
    OBVIOUS
  <1>2. u[h] = [offset |-> c, size |-> n, uploaded |-> 0, live |-> TRUE]
    OBVIOUS
  <1>3. InPool(u[h])
    BY <1>2 DEF InPool, End, FitsAt
  <1>4. \A g \in Handles : u[g].live => InPool(u[g])
    BY <1>1, <1>3 DEF Sound
  <1>5. ASSUME NEW f \in Handles, NEW g \in Handles, f # g, u[f].live
        PROVE  ~Overlaps(u[g], u[f].offset, u[f].size)
    <2>1. CASE f # h /\ g # h
      BY <1>1, <1>5, <2>1 DEF Sound
    <2>2. CASE f = h
      BY <1>1, <1>2, <1>5, <2>2 DEF FitsAt
    <2>3. CASE g = h
      <3>1. ~Overlaps(t[f], c, n)
        BY DEF FitsAt
      <3>2. t[f] \in Allocation /\ u[f] = t[f]
        BY <1>1, <1>5, <2>3
      <3> QED
        BY <1>2, <1>5, <2>3, <3>1, <3>2 DEF Overlaps, End, Allocation, Word
    <2> QED
      BY <2>1, <2>2, <2>3
  <1> QED
    BY <1>4, <1>5 DEF Sound

(* Freeing a buffer keeps the table sound.                                 *)
LEMMA ReleaseSound ==
  ASSUME NEW t \in [Handles -> Allocation], Sound(t), NEW h \in Handles
  PROVE  /\ Release(t, h) \in [Handles -> Allocation]
         /\ Sound(Release(t, h))
  <1> DEFINE u == Release(t, h)
  <1>1. \A g \in Handles \ {h} : u[g] = t[g]
    BY DEF Release
  <1>2. u[h] = Freed(t[h])
    BY DEF Release
  <1>3. t[h] \in Allocation
    OBVIOUS
  <1>4. u[h] \in Allocation /\ ~u[h].live
    BY <1>2, <1>3, PoolAssumption DEF Allocation, Word, Freed
  <1>5. u \in [Handles -> Allocation]
    BY <1>4 DEF Release
  <1>6. Sound(u)
    BY <1>1, <1>4 DEF Sound, Overlaps
  <1> QED
    BY <1>5, <1>6

(* The lowest offset at which a request fits is aligned: it is 0 or where  *)
(* an allocation ends.                                                     *)
LEMMA FirstFitAligned ==
  ASSUME NEW t \in [Handles -> Allocation], Sound(t),
         NEW c \in 0 .. PoolBytes, NEW n \in Nat, IsFirstFit(t, c, n)
  PROVE  c % 4 = 0
  <1>1. SUFFICES ASSUME c # 0
                 PROVE  c % 4 = 0
    BY PoolAssumption
  <1>2. PoolBytes \in Nat /\ c \in Nat /\ c - 1 \in 0 .. (c - 1)
    BY <1>1, PoolAssumption
  <1>3. ~FitsAt(t, c - 1, n) /\ FitsAt(t, c, n)
    BY <1>2 DEF IsFirstFit
  <1>4. PICK h \in Handles : Overlaps(t[h], c - 1, n)
    BY <1>2, <1>3 DEF FitsAt
  <1>5. t[h] \in Allocation /\ ~Overlaps(t[h], c, n)
    BY <1>3 DEF FitsAt
  <1>6. t[h].live /\ InPool(t[h])
    BY <1>4 DEF Overlaps, Sound
  <1>7. End(t[h]) = c
    BY <1>2, <1>4, <1>5, <1>6 DEF Overlaps, End, Allocation, Word
  <1> QED
    BY <1>5, <1>6, <1>7 DEF InPool, End, Allocation, Word

(* An ALLOC that is granted leaves the table sound.                        *)
LEMMA GrantSound ==
  ASSUME NEW t \in [Handles -> Allocation], Sound(t),
         NEW h \in Handles, ~t[h].live,
         NEW c \in 0 .. PoolBytes, NEW n \in Nat \ {0},
         IsFirstFit(t, c, Rounded(n))
  PROVE  /\ Place(t, h, c, n) \in [Handles -> Allocation]
         /\ Sound(Place(t, h, c, n))
  <1>1. Rounded(n) \in Nat /\ Rounded(n) >= 1 /\ Rounded(n) % 4 = 0
    BY DEF Rounded
  <1>2. FitsAt(t, c, Rounded(n)) /\ Rounded(n) \in 1 .. PoolBytes
    BY <1>1, PoolAssumption DEF IsFirstFit, FitsAt
  <1>3. c % 4 = 0
    BY <1>1, FirstFitAligned
  <1>4. Place(t, h, c, n) =
          [t EXCEPT ![h] = [offset |-> c, size |-> Rounded(n),
                            uploaded |-> 0, live |-> TRUE]]
    BY DEF Place
  <1>5. Sound(Place(t, h, c, n))
    BY <1>1, <1>2, <1>3, <1>4, PlaceSound
  <1>6. [offset |-> c, size |-> Rounded(n), uploaded |-> 0, live |-> TRUE]
          \in Allocation
    BY <1>2, PoolAssumption DEF Allocation, Word
  <1> QED
    BY <1>4, <1>5, <1>6

(* Raising an allocation's mark, up to its size, leaves the table sound.   *)
LEMMA MarkSound ==
  ASSUME NEW t \in [Handles -> Allocation], Sound(t), NEW h \in Handles,
         NEW m \in 0 .. t[h].size,
         NEW u, u = [t EXCEPT ![h] =
               [offset |-> t[h].offset, size |-> t[h].size,
                live |-> t[h].live, uploaded |-> m]]
  PROVE  u \in [Handles -> Allocation] /\ Sound(u)
  <1>1. \A g \in Handles \ {h} : u[g] = t[g]
    OBVIOUS
  <1>2. /\ u[h].offset = t[h].offset /\ u[h].size = t[h].size
        /\ u[h].live = t[h].live /\ u[h].uploaded = m
    OBVIOUS
  <1>3. t[h] \in Allocation
    OBVIOUS
  <1>4. m \in Word
    BY <1>3, PoolAssumption DEF Allocation, Word
  <1>5. u[h] \in Allocation
    BY <1>3, <1>4 DEF Allocation
  <1>6. u \in [Handles -> Allocation]
    BY <1>5
  <1>7. \A g \in Handles :
          u[g].offset = t[g].offset /\ u[g].size = t[g].size /\ u[g].live = t[g].live
    BY <1>1, <1>2
  <1>8. \A g \in Handles : u[g].live => InPool(u[g])
    <2> TAKE g \in Handles
    <2> HAVE u[g].live
    <2>1. InPool(t[g])
      BY <1>7 DEF Sound
    <2>2. u[g].uploaded <= u[g].size
      BY <1>1, <1>2, <1>3, <2>1 DEF InPool, Allocation, Word
    <2> QED
      BY <1>7, <2>1, <2>2 DEF InPool, End
  <1>9. \A f \in Handles : \A g \in Handles :
          f # g /\ u[f].live => ~Overlaps(u[g], u[f].offset, u[f].size)
    BY <1>7 DEF Sound, Overlaps, End
  <1> QED
    BY <1>6, <1>8, <1>9 DEF Sound
-----------------------------------------------------------------------------
(***************************************************************************)
(* The index arithmetic of the ring buffer, for every depth it may have.   *)
(* Indices are 16-bit words in 0 .. 2 * depth - 1; advance_index skips the *)
(* rest of the word by letting the addition wrap, which has two ways to    *)
(* happen: past 2 * depth, and, from a depth of 21846 on, past 65535.      *)
(***************************************************************************)
Depths == 1 .. 32768
Indices(depth) == 0 .. 2 * depth - 1

(* The ranges of depths and indices as inequalities, both ways.            *)
LEMMA InBounds ==
  \A d, i :
    d \in Depths /\ i \in Indices(d) <=>
      /\ d \in Int /\ 1 <= d /\ d <= 32768
      /\ i \in Int /\ 0 <= i /\ i < 2 * d
<1> SUFFICES ASSUME NEW d, NEW i
             PROVE d \in Depths /\ i \in Indices(d) <=>
                     /\ d \in Int /\ 1 <= d /\ d <= 32768
                     /\ i \in Int /\ 0 <= i /\ i < 2 * d
  OBVIOUS
<1>1. d \in Depths => d \in Int
  BY DEF Depths
<1>2. CASE d \in Int
  <2>1. d \in Depths <=> 1 <= d /\ d <= 32768
    BY <1>2 DEF Depths
  <2>2. i \in Indices(d) <=> i \in Int /\ 0 <= i /\ i < 2 * d
    BY <1>2 DEF Indices
  <2> QED BY <1>2, <2>1, <2>2
<1> QED BY <1>1, <1>2

IsWordSum(x) == x \in Int /\ 0 <= x /\ x < 2 * IdxMod
Wrapped(x) == IF x < IdxMod THEN x ELSE x - IdxMod

(* The sum of two words wraps once.                                        *)
LEMMA WordWraps ==
  \A x : IsWordSum(x) => x % IdxMod = Wrapped(x)
<1> SUFFICES ASSUME NEW x, IsWordSum(x) PROVE x % IdxMod = Wrapped(x)
  OBVIOUS
<1> QED
  BY DEF IsWordSum, Wrapped, IdxMod

(* advance_index is addition modulo 2 * depth, also where its 16-bit sum   *)
(* wraps (tusb_fifo.c:356-369).                                            *)
THEOREM AdvanceWraps ==
  ASSUME NEW depth \in Depths, NEW idx \in Indices(depth), NEW offset \in 0 .. depth
  PROVE  AdvanceIndex(depth, idx, offset) =
           IF idx + offset < 2 * depth THEN idx + offset ELSE idx + offset - 2 * depth
<1> DEFINE new == (idx + offset) % IdxMod
           far == new + (IdxMod - 1 - (2 * depth - 1))
           sum == far % IdxMod
<1>1. /\ depth \in Int /\ 1 <= depth /\ depth <= 32768
      /\ idx \in Int /\ 0 <= idx /\ idx < 2 * depth
      /\ offset \in Int /\ 0 <= offset /\ offset <= depth
  BY DEF Depths, Indices
<1>2. IdxMod \in Int /\ IdxMod = 65536
  BY DEF IdxMod
<1>3. AdvanceIndex(depth, idx, offset) = IF idx > new \/ new >= 2 * depth THEN sum ELSE new
  BY DEF AdvanceIndex
<1>4. IsWordSum(idx + offset)
  BY <1>1, <1>2 DEF IsWordSum
<1>5. new = Wrapped(idx + offset)
  BY <1>4, WordWraps, Zenon
<1> HIDE DEF new
<1>6. new \in Int /\ 0 <= new /\ new < IdxMod
  BY <1>1, <1>2, <1>5 DEF Wrapped
<1>7. far \in Int /\ far = new + 65536 - 2 * depth /\ 0 <= far /\ far < 2 * IdxMod
  BY <1>1, <1>2, <1>6
<1> HIDE DEF far
<1>8. IsWordSum(far)
  BY <1>7 DEF IsWordSum
<1>9. sum = Wrapped(far)
  BY <1>8, WordWraps, Zenon
<1> HIDE DEF sum
<1> QED
  BY <1>1, <1>2, <1>3, <1>5, <1>6, <1>7, <1>9 DEF Wrapped

(* A buffer whose indices are in range and which holds what it can hold.   *)
Consistent(f) ==
  /\ f.depth \in Depths
  /\ f.wr \in Indices(f.depth) /\ f.rd \in Indices(f.depth)
  /\ RawCount(f) <= f.depth

(* The indices after n items more were written.                            *)
Moved(f, wr, rd) == [depth |-> f.depth, wr |-> wr, rd |-> rd]

(* Writing n items that there is room for makes the buffer hold n more and *)
(* leaves it consistent: a full buffer is never taken for an empty one     *)
(* (tusb_fifo.c:330-348, 540-548).                                         *)
THEOREM WriteCounts ==
  ASSUME NEW f, Consistent(f), NEW n \in 0 .. FifoRemaining(f)
  PROVE  LET g == Moved(f, AdvanceIndex(f.depth, f.wr, n), f.rd)
         IN Consistent(g) /\ RawCount(g) = RawCount(f) + n
<1> DEFINE g == Moved(f, AdvanceIndex(f.depth, f.wr, n), f.rd)
<1>1. /\ f.depth \in Int /\ 1 <= f.depth /\ f.depth <= 32768
      /\ f.wr \in Int /\ 0 <= f.wr /\ f.wr < 2 * f.depth
      /\ f.rd \in Int /\ 0 <= f.rd /\ f.rd < 2 * f.depth
  BY InBounds DEF Consistent
<1>2. RawCount(f) = IF f.wr >= f.rd THEN f.wr - f.rd ELSE 2 * f.depth - (f.rd - f.wr)
  BY DEF RawCount
<1>3. n \in 0 .. f.depth /\ RawCount(f) + n <= f.depth
  BY <1>1, <1>2 DEF FifoRemaining, Consistent
<1>4. AdvanceIndex(f.depth, f.wr, n) =
        IF f.wr + n < 2 * f.depth THEN f.wr + n ELSE f.wr + n - 2 * f.depth
  BY <1>3, AdvanceWraps DEF Consistent
<1>5. g.depth = f.depth /\ g.rd = f.rd /\ g.wr = AdvanceIndex(f.depth, f.wr, n)
  BY DEF Moved
<1> HIDE DEF g
<1>6. RawCount(g) = IF g.wr >= g.rd THEN g.wr - g.rd ELSE 2 * g.depth - (g.rd - g.wr)
  BY DEF RawCount
<1>7. RawCount(g) = RawCount(f) + n
  BY <1>1, <1>2, <1>3, <1>4, <1>5, <1>6
<1>8. Consistent(g)
  <2>1. /\ g.depth \in Int /\ 1 <= g.depth /\ g.depth <= 32768
        /\ g.wr \in Int /\ 0 <= g.wr /\ g.wr < 2 * g.depth
        /\ g.rd \in Int /\ 0 <= g.rd /\ g.rd < 2 * g.depth
    BY <1>1, <1>3, <1>4, <1>5
  <2>2. RawCount(g) <= g.depth
    BY <1>1, <1>3, <1>5, <1>7
  <2> QED
    BY <2>1, <2>2, InBounds DEF Consistent
<1> QED
  BY <1>7, <1>8 DEF g

(* Reading n items that it holds makes it hold n fewer and leaves it       *)
(* consistent (tusb_fifo.c:330-341, 556-569).                              *)
THEOREM ReadCounts ==
  ASSUME NEW f, Consistent(f), NEW n \in 0 .. FifoCount(f)
  PROVE  LET g == Moved(f, f.wr, AdvanceIndex(f.depth, ReadFrom(f), n))
         IN Consistent(g) /\ RawCount(g) = RawCount(f) - n
<1> DEFINE g == Moved(f, f.wr, AdvanceIndex(f.depth, ReadFrom(f), n))
<1>1. /\ f.depth \in Int /\ 1 <= f.depth /\ f.depth <= 32768
      /\ f.wr \in Int /\ 0 <= f.wr /\ f.wr < 2 * f.depth
      /\ f.rd \in Int /\ 0 <= f.rd /\ f.rd < 2 * f.depth
  BY InBounds DEF Consistent
<1>2. RawCount(f) = IF f.wr >= f.rd THEN f.wr - f.rd ELSE 2 * f.depth - (f.rd - f.wr)
  BY DEF RawCount
<1>3. RawCount(f) \in Int /\ RawCount(f) <= f.depth
  BY <1>1, <1>2 DEF Consistent
<1>4. ReadFrom(f) = f.rd /\ n \in 0 .. f.depth /\ n <= RawCount(f)
  BY <1>1, <1>3 DEF ReadFrom, FifoCount, Lesser
<1>5. AdvanceIndex(f.depth, f.rd, n) =
        IF f.rd + n < 2 * f.depth THEN f.rd + n ELSE f.rd + n - 2 * f.depth
  BY <1>4, AdvanceWraps DEF Consistent
<1>6. g.depth = f.depth /\ g.wr = f.wr /\ g.rd = AdvanceIndex(f.depth, f.rd, n)
  BY <1>4 DEF Moved
<1> HIDE DEF g
<1>7. RawCount(g) = IF g.wr >= g.rd THEN g.wr - g.rd ELSE 2 * g.depth - (g.rd - g.wr)
  BY DEF RawCount
<1>8. RawCount(g) = RawCount(f) - n
  BY <1>1, <1>2, <1>4, <1>5, <1>6, <1>7
<1>9. Consistent(g)
  <2>1. /\ g.depth \in Int /\ 1 <= g.depth /\ g.depth <= 32768
        /\ g.wr \in Int /\ 0 <= g.wr /\ g.wr < 2 * g.depth
        /\ g.rd \in Int /\ 0 <= g.rd /\ g.rd < 2 * g.depth
    BY <1>1, <1>4, <1>5, <1>6
  <2>2. RawCount(g) <= g.depth
    BY <1>1, <1>3, <1>4, <1>6, <1>8
  <2> QED
    BY <2>1, <2>2, InBounds DEF Consistent
<1> QED
  BY <1>8, <1>9 DEF g

(* An overwritable buffer that was written past its end by less than its   *)
(* depth is full when it is read: the corrected read index is in range and *)
(* exactly depth items behind the writer (tusb_fifo.c:402-416).            *)
THEOREM CorrectionFills ==
  ASSUME NEW f, f.depth \in Depths, f.wr \in Indices(f.depth)
  PROVE  LET g == Moved(f, f.wr, CorrectedRead(f))
         IN Consistent(g) /\ RawCount(g) = f.depth
<1> DEFINE g == Moved(f, f.wr, CorrectedRead(f))
<1>1. /\ f.depth \in Int /\ 1 <= f.depth /\ f.depth <= 32768
      /\ f.wr \in Int /\ 0 <= f.wr /\ f.wr < 2 * f.depth
  BY InBounds
<1>2. CorrectedRead(f) = IF f.wr >= f.depth THEN f.wr - f.depth ELSE f.wr + f.depth
  BY DEF CorrectedRead
<1>3. g.depth = f.depth /\ g.wr = f.wr /\ g.rd = CorrectedRead(f)
  BY DEF Moved
<1> HIDE DEF g
<1>4. RawCount(g) = IF g.wr >= g.rd THEN g.wr - g.rd ELSE 2 * g.depth - (g.rd - g.wr)
  BY DEF RawCount
<1>5. RawCount(g) = f.depth
  BY <1>1, <1>2, <1>3, <1>4
<1>6. Consistent(g)
  <2>1. /\ g.depth \in Int /\ 1 <= g.depth /\ g.depth <= 32768
        /\ g.wr \in Int /\ 0 <= g.wr /\ g.wr < 2 * g.depth
        /\ g.rd \in Int /\ 0 <= g.rd /\ g.rd < 2 * g.depth
    BY <1>1, <1>2, <1>3
  <2>2. RawCount(g) <= g.depth
    BY <1>1, <1>3, <1>5
  <2> QED
    BY <2>1, <2>2, InBounds DEF Consistent
<1> QED
  BY <1>5, <1>6 DEF g
=============================================================================
