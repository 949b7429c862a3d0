-------------------------- MODULE SyncFifoProofs --------------------------
(***************************************************************************)
(* What a clock makes of the contents of a sync_fifo, for every depth: the *)
(* lemmas the proofs about its users need.                                 *)
(***************************************************************************)
EXTENDS SyncFifo, TLAPS

USE DepthAssumption

\* The write pointer is as far ahead of the read pointer as the counter says.
Wf(f) == f.wr_ptr = (f.rd_ptr + f.counter) % DATA_DEPTH

\* The place of the i-th word, the oldest first, and the word.
Slot(f, i) == (f.rd_ptr + i - 1) % DATA_DEPTH
Word(f, i) == f.data[Slot(f, i)]

\* How many words leave at a clock, and how many come.
Left(f, rd_en) == IF rd_en /\ ~empty(f) THEN 1 ELSE 0
Came(wr_en) == IF wr_en THEN 1 ELSE 0

-----------------------------------------------------------------------------
\* A pointer wraps at most once, however deep the ring is.
LEMMA Wraps ==
    ASSUME NEW D \in Nat \ {0}, NEW x \in Nat, x < 2 * D
    PROVE  /\ x % D = IF x < D THEN x ELSE x - D
           /\ x % D \in 0..(D - 1)
OBVIOUS

\* A place of the ring is a remainder.
LEMMA Placed ==
    ASSUME NEW D \in Nat \ {0}, NEW r \in 0..(D - 1)
    PROVE  r % D = r
BY Wraps

\* A ring of depth D with c words from r on, d of which leave and k come, has R
\* and W for its ends: the words that stay and the one that comes keep their
\* places.
RingKeeps(D, r, c, d, k, R, W) ==
    /\ (W + k) % D = (R + (c - d + k)) % D
    /\ \A i \in 1..(c - d) : (R + i - 1) % D = (r + (i + d) - 1) % D
    /\ c < D => \A i \in 1..c : (r + i - 1) % D # W
    /\ k = 1 => (R + (c - d + k) - 1) % D = W

LEMMA Ring ==
    ASSUME NEW D \in Nat \ {0}, NEW r \in 0..(D - 1), NEW c \in 0..D,
           NEW d \in 0..1, NEW k \in 0..1, d <= c, k = 1 => c < D,
           NEW R, R = (r + d) % D, NEW W, W = (r + c) % D
    PROVE  RingKeeps(D, r, c, d, k, R, W)
<1> DEFINE w(x) == x % D
<1>1. \A x \in Nat : x < 2 * D =>
          w(x) = IF x < D THEN x ELSE x - D
  BY Wraps
<1>2. R = w(r + d) /\ W = w(r + c)
  OBVIOUS
<1> HIDE DEF w
<1>3. /\ R = IF r + d < D THEN r + d ELSE r + d - D
      /\ W = IF r + c < D THEN r + c ELSE r + c - D
  BY <1>1, <1>2
<1>4. R \in 0..(D - 1) /\ W \in 0..(D - 1)
  BY <1>3
<1>5. w(W + k) = w(R + (c - d + k))
  <2>1. /\ W + k \in Nat /\ W + k < 2 * D
        /\ R + (c - d + k) \in Nat /\ R + (c - d + k) < 2 * D
    BY <1>4
  <2>2. /\ w(W + k) = IF W + k < D THEN W + k ELSE W + k - D
        /\ w(R + (c - d + k)) = IF R + (c - d + k) < D THEN R + (c - d + k)
                                ELSE R + (c - d + k) - D
    BY <1>1, <2>1
  <2> QED
    BY <1>3, <1>4, <2>2
<1>6. ASSUME NEW i \in 1..(c - d)
      PROVE  w(R + i - 1) = w(r + (i + d) - 1)
  <2>1. /\ R + i - 1 \in Nat /\ R + i - 1 < 2 * D
        /\ r + (i + d) - 1 \in Nat /\ r + (i + d) - 1 < 2 * D
    BY <1>4
  <2>2. /\ w(R + i - 1) = IF R + i - 1 < D THEN R + i - 1
                          ELSE R + i - 1 - D
        /\ w(r + (i + d) - 1) = IF r + (i + d) - 1 < D THEN r + (i + d) - 1
                                ELSE r + (i + d) - 1 - D
    BY <1>1, <2>1
  <2> QED
    BY <1>3, <1>4, <2>2
<1>7. ASSUME c < D, NEW i \in 1..c PROVE w(r + i - 1) # W
  <2>1. r + i - 1 \in Nat /\ r + i - 1 < 2 * D
    OBVIOUS
  <2>2. w(r + i - 1) = IF r + i - 1 < D THEN r + i - 1 ELSE r + i - 1 - D
    BY <1>1, <2>1
  <2> QED
    BY <1>3, <1>7, <2>2
<1>8. ASSUME k = 1 PROVE w(R + (c - d + k) - 1) = W
  <2>1. R + (c - d + k) - 1 \in Nat /\ R + (c - d + k) - 1 < 2 * D
    BY <1>4, <1>8
  <2>2. w(R + (c - d + k) - 1)
          = IF R + (c - d + k) - 1 < D THEN R + (c - d + k) - 1
            ELSE R + (c - d + k) - 1 - D
    BY <1>1, <2>1
  <2> QED
    BY <1>3, <1>4, <1>8, <2>2
<1> QED
  BY <1>5, <1>6, <1>7, <1>8 DEF w, RingKeeps

\* Every word has a place.
LEMMA SlotTyped ==
    ASSUME NEW V, NEW f \in Fifos(V), NEW i \in 1..DATA_DEPTH
    PROVE  Slot(f, i) \in Slots /\ Word(f, i) \in V
<1>1. f.rd_ptr \in Slots /\ f.data \in [Slots -> V]
  BY DEF Fifos
<1>2. Slot(f, i) \in Slots
  BY <1>1, Wraps DEF Slot, Slots
<1> QED
  BY <1>1, <1>2 DEF Word

\* The content is the words in the order of their places.
LEMMA ContentWords ==
    ASSUME NEW V, NEW f \in Fifos(V)
    PROVE  /\ f.counter \in 0..DATA_DEPTH
           /\ DOMAIN Content(f) = 1..f.counter
           /\ \A i \in 1..f.counter : Content(f)[i] = Word(f, i)
BY DEF Fifos, Content, Word, Slot

\* What the read port shows is the oldest word.
LEMMA OldestShown ==
    ASSUME NEW V, NEW f \in Fifos(V)
    PROVE  rd_data(f) = Word(f, 1) /\ rd_data(f) \in V
<1>1. f.rd_ptr \in Slots /\ f.data \in [Slots -> V]
  BY DEF Fifos
<1>2. Slot(f, 1) = f.rd_ptr
  <2>1. f.rd_ptr \in 0..(DATA_DEPTH - 1) /\ f.rd_ptr + 1 - 1 = f.rd_ptr
    BY <1>1 DEF Slots
  <2> QED
    BY <2>1, Placed DEF Slot
<1> QED
  BY <1>1, <1>2 DEF rd_data, Word

\* An empty memory, of the first clock or after a reset.
LEMMA ResetTyped ==
    ASSUME NEW V, NEW f \in Fifos(V)
    PROVE  Reset(f) \in Fifos(V) /\ Wf(Reset(f)) /\ empty(Reset(f)) /\ Reset(f).data = f.data
<1>1. 0 \in Slots /\ 0 \in 0..DATA_DEPTH /\ 0 % DATA_DEPTH = 0 /\ 0 + 0 = 0
  BY Placed DEF Slots
<1>2. /\ Reset(f).data = f.data /\ Reset(f).wr_ptr = 0 /\ Reset(f).rd_ptr = 0
      /\ Reset(f).counter = 0
  BY DEF Reset, Fifos
<1> QED
  BY <1>1, <1>2 DEF Reset, Fifos, Wf, empty

LEMMA InitFifoTyped ==
    ASSUME NEW V, NEW v \in V
    PROVE  InitFifo(v) \in Fifos(V) /\ Wf(InitFifo(v)) /\ empty(InitFifo(v))
<1>1. 0 \in Slots /\ 0 \in 0..DATA_DEPTH /\ 0 % DATA_DEPTH = 0 /\ 0 + 0 = 0
  BY Placed DEF Slots
<1> QED
  BY <1>1 DEF InitFifo, Fifos, Wf, empty

\* A clock keeps the types, whatever is asked of the memory.
LEMMA ClockedTyped ==
    ASSUME NEW V, NEW f \in Fifos(V), NEW v \in V, NEW rd \in BOOLEAN, NEW wr \in BOOLEAN
    PROVE  Clocked(f, rd, wr, v) \in Fifos(V)
<1>1. /\ f.rd_ptr \in Slots /\ f.wr_ptr \in Slots /\ f.data \in [Slots -> V]
      /\ f.counter \in 0..DATA_DEPTH
  BY DEF Fifos
<1>2. \A ptr \in Slots : Succ(ptr) \in Slots
  BY Wraps DEF Succ, Slots
<1>3. Counted(f, rd, wr) \in 0..DATA_DEPTH
  BY <1>1 DEF Counted, full, empty
<1>4. [f.data EXCEPT ![f.wr_ptr] = v] \in [Slots -> V]
  BY <1>1
<1> QED
  BY <1>1, <1>2, <1>3, <1>4 DEF Clocked, Fifos

\* As long as no write meets a full memory the counter is the number of words,
\* and the words stay in order.
LEMMA ClockedWords ==
    ASSUME NEW V, NEW f \in Fifos(V), NEW v \in V, NEW rd \in BOOLEAN, NEW wr \in BOOLEAN,
           Wf(f), wr => ~full(f), NEW g, g = Clocked(f, rd, wr, v)
    PROVE  /\ g \in Fifos(V) /\ Wf(g)
           /\ g.counter = f.counter - Left(f, rd) + Came(wr)
           /\ \A i \in 1..(f.counter - Left(f, rd)) : Word(g, i) = Word(f, i + Left(f, rd))
           /\ wr => Word(g, g.counter) = v
<1> DEFINE d == Left(f, rd)
<1>1. /\ f.rd_ptr \in Slots /\ f.wr_ptr \in Slots /\ f.data \in [Slots -> V]
      /\ f.counter \in 0..DATA_DEPTH
  BY DEF Fifos
<1> DEFINE k == Came(wr)
<1>2. d \in 0..1 /\ d <= f.counter /\ k \in 0..1
  BY <1>1 DEF Left, Came, empty
<1>3. g.counter = f.counter - d + k
  <2>1. g.counter = Counted(f, rd, wr)
    BY DEF Clocked
  <2>2. Counted(f, rd, wr) = f.counter - d + k
    BY <1>1 DEF Counted, Left, Came, full, empty
  <2> QED
    BY <2>1, <2>2
<1>4. g.rd_ptr = (f.rd_ptr + d) % DATA_DEPTH
  <2>1. g.rd_ptr = IF rd /\ ~empty(f) THEN Succ(f.rd_ptr) ELSE f.rd_ptr
    BY DEF Clocked
  <2>2. f.rd_ptr = f.rd_ptr % DATA_DEPTH /\ f.rd_ptr + 0 = f.rd_ptr
    BY <1>1, Placed DEF Slots
  <2> QED
    BY <2>1, <2>2 DEF Left, Succ
<1>5. g.wr_ptr = (f.wr_ptr + k) % DATA_DEPTH
  <2>1. g.wr_ptr = IF wr /\ ~full(f) THEN Succ(f.wr_ptr) ELSE f.wr_ptr
    BY DEF Clocked
  <2>2. f.wr_ptr = f.wr_ptr % DATA_DEPTH /\ f.wr_ptr + 0 = f.wr_ptr
    BY <1>1, Placed DEF Slots
  <2> QED
    BY <2>1, <2>2 DEF Came, Succ
<1>6. g.data = IF wr THEN [f.data EXCEPT ![f.wr_ptr] = v] ELSE f.data
  BY DEF Clocked
<1>7. f.wr_ptr = (f.rd_ptr + f.counter) % DATA_DEPTH
  BY DEF Wf
<1>8. k = 1 => f.counter < DATA_DEPTH
  BY <1>1 DEF Came, full
<1>9. /\ (f.wr_ptr + k) % DATA_DEPTH = (g.rd_ptr + (f.counter - d + k)) % DATA_DEPTH
      /\ \A i \in 1..(f.counter - d) : Slot(g, i) = Slot(f, i + d)
      /\ f.counter < DATA_DEPTH => \A i \in 1..f.counter : Slot(f, i) # f.wr_ptr
      /\ k = 1 => Slot(g, f.counter - d + k) = f.wr_ptr
  <2>1. f.rd_ptr \in 0..(DATA_DEPTH - 1) /\ f.counter \in 0..DATA_DEPTH
    BY <1>1 DEF Slots
  <2> HIDE DEF d, k
  <2>2. RingKeeps(DATA_DEPTH, f.rd_ptr, f.counter, d, k, g.rd_ptr, f.wr_ptr)
    BY <2>1, <1>2, <1>4, <1>7, <1>8, Ring
  <2> QED
    BY <2>2, Zenon DEF Slot, RingKeeps
<1>10. Wf(g)
  BY <1>3, <1>5, <1>9 DEF Wf
<1>11. ASSUME NEW i \in 1..(f.counter - d)
       PROVE  Word(g, i) = Word(f, i + d)
  <2>1. i + d \in 1..f.counter /\ i + d \in 1..DATA_DEPTH
    <3> HIDE DEF d
    <3> QED
      BY <1>1, <1>2
  <2>2. Slot(f, i + d) \in Slots
    BY <2>1, SlotTyped
  <2>3. wr => Slot(f, i + d) # f.wr_ptr
    BY <1>8, <1>9, <2>1 DEF Came
  <2> QED
    BY <1>1, <1>6, <1>9, <2>2, <2>3 DEF Word
<1>12. ASSUME wr PROVE Word(g, g.counter) = v
  <2>1. Slot(g, g.counter) = f.wr_ptr
    BY <1>3, <1>9, <1>12 DEF Came
  <2> QED
    BY <1>1, <1>6, <1>12, <2>1 DEF Word
<1> QED
  BY <1>3, <1>10, <1>11, <1>12, ClockedTyped

\* A word that meets a full memory is dropped, and what is read with it stays
\* counted: all the places are contents, as they were.
LEMMA ClockedFull ==
    ASSUME NEW V, NEW f \in Fifos(V), NEW v \in V, NEW rd \in BOOLEAN, full(f)
    PROVE  Clocked(f, rd, TRUE, v).data = f.data /\ Clocked(f, rd, TRUE, v).counter = DATA_DEPTH
BY DEF Clocked, Counted, full, empty, Fifos

\* Every place of a full memory is that of a word.
LEMMA FullSlots ==
    ASSUME NEW V, NEW f \in Fifos(V), NEW s \in Slots
    PROVE  \E i \in 1..DATA_DEPTH : Slot(f, i) = s
<1>1. f.rd_ptr \in Slots
  BY DEF Fifos
<1> DEFINE i == IF s >= f.rd_ptr THEN s - f.rd_ptr + 1 ELSE s + DATA_DEPTH - f.rd_ptr + 1
<1>2. i \in 1..DATA_DEPTH
  BY <1>1 DEF Slots
<1> DEFINE x == f.rd_ptr + i - 1
<1>3. x \in Nat /\ x < 2 * DATA_DEPTH
  BY <1>1, <1>2 DEF Slots
<1>4. (IF x < DATA_DEPTH THEN x ELSE x - DATA_DEPTH) = s
  BY <1>1 DEF Slots
<1>5. Slot(f, i) = x % DATA_DEPTH
  BY DEF Slot
<1> HIDE DEF x, i
<1>6. x % DATA_DEPTH = IF x < DATA_DEPTH THEN x ELSE x - DATA_DEPTH
  BY <1>3, Wraps
<1> QED
  BY <1>2, <1>4, <1>5, <1>6
=============================================================================
