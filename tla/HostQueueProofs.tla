-------------------------- MODULE HostQueueProofs --------------------------
(***************************************************************************)
(* HostSignalQueue, for any number of callers and any capacity above one.  *)
(***************************************************************************)
EXTENDS HostQueue, TLAPS

-----------------------------------------------------------------------------
(* Cells: two positions share one only if they are a capacity apart.       *)

\* A position has a cell.
LEMMA CellRange == \A n \in Nat : cell(n) \in 0..(Cap-1)
  BY QueueAssumption DEF cell

\* The same, by name.
LEMMA CellIn == \A n \in Nat : cell(n) \in Cells
  BY CellRange DEF Cells

\* The first round of positions.
LEMMA CellSmall == \A n \in 0..(Cap-1) : cell(n) = n
  BY QueueAssumption DEF cell

\* A position is a number of rounds and a cell.
LEMMA Rounds == \A n \in Nat : \E q \in Int : n = Cap * q + cell(n)
<1> SUFFICES ASSUME NEW n \in Nat PROVE n = Cap * (n \div Cap) + (n % Cap) /\ (n \div Cap) \in Int
  BY DEF cell
<1> QED BY QueueAssumption

\* Rounds are a capacity long.
LEMMA Apart == \A a, b \in Int : a < b => Cap * b >= Cap * a + Cap
<1> SUFFICES ASSUME NEW a \in Int, NEW b \in Int, a < b PROVE Cap * b >= Cap * a + Cap
  OBVIOUS
<1>1. Cap * (b - a) >= Cap
  BY QueueAssumption
<1>2. Cap * (b - a) = Cap * b - Cap * a
  BY QueueAssumption
<1> QED BY <1>1, <1>2, QueueAssumption

\* Positions of one cell are at least a round apart.
LEMMA CellDistinct == \A m, n \in Nat : cell(m) = cell(n) /\ m < n => n >= m + Cap
<1> SUFFICES ASSUME NEW m \in Nat, NEW n \in Nat, cell(m) = cell(n), m < n PROVE n >= m + Cap
  OBVIOUS
<1>1. PICK a \in Int : m = Cap * a + cell(m)  BY Rounds
<1>2. PICK b \in Int : n = Cap * b + cell(m)  BY Rounds
<1>. DEFINE x == Cap * a  y == Cap * b
<1>3. x \in Int /\ y \in Int  BY QueueAssumption
<1>4. cell(m) \in Int  BY CellRange, QueueAssumption
<1>5. a < b
  <2> SUFFICES ASSUME ~(a < b) PROVE FALSE OBVIOUS
  <2>1. CASE a = b  BY <2>1, <1>1, <1>2
  <2>2. CASE b < a
    <3>1. x >= y + Cap  BY <2>2, Apart
    <3> QED BY <3>1, <1>1, <1>2, <1>3, <1>4, QueueAssumption
  <2> QED BY <2>1, <2>2
<1>6. y >= x + Cap  BY <1>5, Apart
<1>7. m = x + cell(m) /\ n = y + cell(m)  BY <1>1, <1>2
<1> HIDE DEF x, y
<1> QED BY <1>6, <1>7, <1>3, <1>4, QueueAssumption

\* A round later the cell is the same.
LEMMA CellNext == \A n \in Nat : cell(n + Cap) = cell(n)
<1> SUFFICES ASSUME NEW n \in Nat PROVE cell(n + Cap) = cell(n)
  OBVIOUS
<1>1. PICK a \in Int : n = Cap * a + cell(n)  BY Rounds
<1>2. PICK b \in Int : n + Cap = Cap * b + cell(n + Cap)  BY Rounds, QueueAssumption
<1>. DEFINE x == Cap * (a + 1)  y == Cap * b
<1>3. x = Cap * a + Cap  BY QueueAssumption
<1>4. x \in Int /\ y \in Int  BY QueueAssumption
<1>5. cell(n) \in 0..(Cap - 1) /\ cell(n + Cap) \in 0..(Cap - 1)  BY CellRange, QueueAssumption
<1>6. n + Cap = x + cell(n) /\ n + Cap = y + cell(n + Cap)
  <2>1. Cap * a \in Int  BY QueueAssumption
  <2> DEFINE z == Cap * a
  <2>2. n = z + cell(n) /\ x = z + Cap BY <1>1, <1>3
  <2> HIDE DEF z, x
  <2>3. n + Cap = x + cell(n) BY <2>1, <2>2, <1>5, QueueAssumption DEF z
  <2> QED BY <2>3, <1>2
<1>7. a + 1 = b
  <2>1. CASE a + 1 < b
    <3>1. y >= x + Cap  BY <2>1, Apart
    <3> HIDE DEF x, y
    <3> QED BY <3>1, <1>4, <1>5, <1>6, QueueAssumption
  <2>2. CASE b < a + 1
    <3>1. x >= y + Cap  BY <2>2, Apart
    <3> HIDE DEF x, y
    <3> QED BY <3>1, <1>4, <1>5, <1>6, QueueAssumption
  <2> QED BY <2>1, <2>2
<1>8. x = y  BY <1>7
<1> HIDE DEF x, y
<1> QED BY <1>8, <1>4, <1>5, <1>6, QueueAssumption

-----------------------------------------------------------------------------
(* The inductive invariant. *)

Writing(p) == at[p] \in {"write", "publish"}

Reading(c) == at[c] \in {"read", "release"}

Locals ==
    /\ \A p \in Producers : at[p] \in {"idle", "look", "claim", "write", "publish"} /\ pos[p] <= tail
    /\ \A c \in Consumers : at[c] \in {"idle", "look", "claim", "read", "release"} /\ pos[c] <= head

\* A position a producer has claimed is its own, and its cell not published.
Writers ==
    \A p \in Producers : Writing(p) =>
        /\ head <= pos[p] /\ pos[p] < tail
        /\ seq[cell(pos[p])] = pos[p] /\ val[pos[p]] = arg[p]
        /\ at[p] = "publish" => sig[cell(pos[p])] = arg[p]
        /\ \A q \in Producers : Writing(q) /\ q # p => pos[q] # pos[p]

\* A position a consumer has claimed is its own, and its cell not released.
Readers ==
    \A c \in Consumers : Reading(c) =>
        /\ pos[c] < head
        /\ seq[cell(pos[c])] = pos[c] + 1 /\ sig[cell(pos[c])] = val[pos[c]]
        /\ \A d \in Consumers : Reading(d) /\ d # c => pos[d] # pos[c]

\* The sequence number of a cell tells how far its latest position has come.
CellStates ==
    /\ \A n \in Positions : head <= n /\ n < tail =>
            \/ seq[cell(n)] = n
            \/ seq[cell(n)] = n + 1 /\ sig[cell(n)] = val[n]
    /\ \A n \in Positions : n < head /\ tail <= n + Cap => seq[cell(n)] \in {n + 1, n + Cap}
    /\ \A n \in Cells : tail <= n => seq[n] = n

\* What a caller saw before its compare-exchange still holds if that succeeds.
Claims ==
    /\ \A p \in Producers : at[p] = "claim" /\ pos[p] = tail => seq[cell(tail)] = tail
    /\ \A c \in Consumers : at[c] = "claim" /\ pos[c] = head =>
            head < tail /\ seq[cell(head)] = head + 1 /\ sig[cell(head)] = val[head]

Takings ==
    /\ ExactlyOnce
    /\ \A c \in Consumers : at[c] = "read" => taken[pos[c]] = {}

IInv == TypeOK /\ Locals /\ Writers /\ Readers /\ CellStates /\ Claims /\ Takings

-----------------------------------------------------------------------------
(* Each step keeps it. *)

\* The cell of the next position to claim: in the first round, or released,
\* or one the queue still holds or a pop still reads.
LEMMA NextCell ==
    ASSUME TypeOK, CellStates
    PROVE  /\ seq[cell(tail)] <= tail
           /\ seq[cell(tail)] = tail => tail < head + Cap
<1> USE QueueAssumption DEF TypeOK
<1>1. CASE tail < Cap
  <2>1. tail \in Cells /\ cell(tail) = tail
    BY <1>1, CellSmall DEF Cells
  <2> QED BY <1>1, <2>1 DEF CellStates
<1>2. CASE tail >= Cap
  <2> DEFINE n == tail - Cap
  <2>1. n \in Positions /\ n \in Nat /\ n + Cap = tail
    BY <1>2 DEF Positions
  <2>2. cell(n) = cell(tail)
    BY <2>1, CellNext
  <2>3. CASE head <= n
    BY <2>1, <2>2, <2>3 DEF CellStates
  <2>4. CASE n < head
    BY <2>1, <2>2, <2>4 DEF CellStates
  <2> QED BY <2>1, <2>3, <2>4
<1> QED BY <1>1, <1>2

\* A push begins.
LEMMA StartPush ==
    ASSUME IInv, NEW p \in Producers, NEW v \in Values, PushStart(p, v)
    PROVE  IInv'
<1> USE DEF IInv, Goto, Reload, Callers, Places
<1>1. TypeOK'
  BY QueueAssumption, CellRange DEF PushStart, TypeOK
<1>2. Locals'
  BY QueueAssumption, CellRange DEF PushStart, TypeOK, Locals
<1>3. Writers'
  BY QueueAssumption, CellRange DEF PushStart, TypeOK, Writers, Writing
<1>4. Readers'
  BY QueueAssumption, CellRange DEF PushStart, TypeOK, Readers, Reading
<1>5. CellStates'
  BY QueueAssumption, CellRange DEF PushStart, TypeOK, CellStates
<1>6. Claims'
  BY QueueAssumption, CellRange DEF PushStart, TypeOK, Claims
<1>7. Takings'
  BY QueueAssumption, CellRange DEF PushStart, TypeOK, Takings, ExactlyOnce
<1> QED BY <1>1, <1>2, <1>3, <1>4, <1>5, <1>6, <1>7

\* A push finds its cell ready.
LEMMA ReadyPush ==
    ASSUME IInv, NEW p \in Producers, PushReady(p)
    PROVE  IInv'
<1> USE DEF IInv, Goto, Reload, Callers, Places
<1>1. TypeOK'
  BY QueueAssumption, CellRange DEF PushReady, TypeOK
<1>2. Locals'
  BY QueueAssumption, CellRange DEF PushReady, TypeOK, Locals
<1>3. Writers'
  BY QueueAssumption, CellRange DEF PushReady, TypeOK, Writers, Writing
<1>4. Readers'
  BY QueueAssumption, CellRange DEF PushReady, TypeOK, Readers, Reading
<1>5. CellStates'
  BY QueueAssumption, CellRange DEF PushReady, TypeOK, CellStates
<1>6. Claims'
  BY QueueAssumption, CellRange DEF PushReady, TypeOK, Claims
<1>7. Takings'
  BY QueueAssumption, CellRange DEF PushReady, TypeOK, Takings, ExactlyOnce
<1> QED BY <1>1, <1>2, <1>3, <1>4, <1>5, <1>6, <1>7

\* A push reloads the tail.
LEMMA StalePush ==
    ASSUME IInv, NEW p \in Producers, PushStale(p)
    PROVE  IInv'
<1> USE DEF IInv, Goto, Reload, Callers, Places
<1>1. TypeOK'
  BY QueueAssumption, CellRange DEF PushStale, TypeOK
<1>2. Locals'
  BY QueueAssumption, CellRange DEF PushStale, TypeOK, Locals
<1>3. Writers'
  BY QueueAssumption, CellRange DEF PushStale, TypeOK, Writers, Writing
<1>4. Readers'
  BY QueueAssumption, CellRange DEF PushStale, TypeOK, Readers, Reading
<1>5. CellStates'
  BY QueueAssumption, CellRange DEF PushStale, TypeOK, CellStates
<1>6. Claims'
  BY QueueAssumption, CellRange DEF PushStale, TypeOK, Claims
<1>7. Takings'
  BY QueueAssumption, CellRange DEF PushStale, TypeOK, Takings, ExactlyOnce
<1> QED BY <1>1, <1>2, <1>3, <1>4, <1>5, <1>6, <1>7

\* A push gives up.
LEMMA FullPush ==
    ASSUME IInv, NEW p \in Producers, PushFull(p)
    PROVE  IInv'
<1> USE DEF IInv, Goto, Reload, Callers, Places
<1>1. TypeOK'
  BY QueueAssumption, CellRange DEF PushFull, TypeOK
<1>2. Locals'
  BY QueueAssumption, CellRange DEF PushFull, TypeOK, Locals
<1>3. Writers'
  BY QueueAssumption, CellRange DEF PushFull, TypeOK, Writers, Writing
<1>4. Readers'
  BY QueueAssumption, CellRange DEF PushFull, TypeOK, Readers, Reading
<1>5. CellStates'
  BY QueueAssumption, CellRange DEF PushFull, TypeOK, CellStates
<1>6. Claims'
  BY QueueAssumption, CellRange DEF PushFull, TypeOK, Claims
<1>7. Takings'
  BY QueueAssumption, CellRange DEF PushFull, TypeOK, Takings, ExactlyOnce
<1> QED BY <1>1, <1>2, <1>3, <1>4, <1>5, <1>6, <1>7

\* A push loses its compare-exchange.
LEMMA MissPush ==
    ASSUME IInv, NEW p \in Producers, PushMiss(p)
    PROVE  IInv'
<1> USE DEF IInv, Goto, Reload, Callers, Places
<1>1. TypeOK'
  BY QueueAssumption, CellRange DEF PushMiss, TypeOK
<1>2. Locals'
  BY QueueAssumption, CellRange DEF PushMiss, TypeOK, Locals
<1>3. Writers'
  BY QueueAssumption, CellRange DEF PushMiss, TypeOK, Writers, Writing
<1>4. Readers'
  BY QueueAssumption, CellRange DEF PushMiss, TypeOK, Readers, Reading
<1>5. CellStates'
  BY QueueAssumption, CellRange DEF PushMiss, TypeOK, CellStates
<1>6. Claims'
  BY QueueAssumption, CellRange DEF PushMiss, TypeOK, Claims
<1>7. Takings'
  BY QueueAssumption, CellRange DEF PushMiss, TypeOK, Takings, ExactlyOnce
<1> QED BY <1>1, <1>2, <1>3, <1>4, <1>5, <1>6, <1>7

\* A pop begins.
LEMMA StartPop ==
    ASSUME IInv, NEW c \in Consumers, PopStart(c)
    PROVE  IInv'
<1> USE DEF IInv, Goto, Reload, Callers, Places
<1>1. TypeOK'
  BY QueueAssumption, CellRange DEF PopStart, TypeOK
<1>2. Locals'
  BY QueueAssumption, CellRange DEF PopStart, TypeOK, Locals
<1>3. Writers'
  BY QueueAssumption, CellRange DEF PopStart, TypeOK, Writers, Writing
<1>4. Readers'
  BY QueueAssumption, CellRange DEF PopStart, TypeOK, Readers, Reading
<1>5. CellStates'
  BY QueueAssumption, CellRange DEF PopStart, TypeOK, CellStates
<1>6. Claims'
  BY QueueAssumption, CellRange DEF PopStart, TypeOK, Claims
<1>7. Takings'
  BY QueueAssumption, CellRange DEF PopStart, TypeOK, Takings, ExactlyOnce
<1> QED BY <1>1, <1>2, <1>3, <1>4, <1>5, <1>6, <1>7

\* A pop finds its cell published.
LEMMA ReadyPop ==
    ASSUME IInv, NEW c \in Consumers, PopReady(c)
    PROVE  IInv'
<1> USE DEF IInv, Goto, Reload, Callers, Places
<1>1. TypeOK'
  BY QueueAssumption, CellRange DEF PopReady, TypeOK
<1>2. Locals'
  BY QueueAssumption, CellRange DEF PopReady, TypeOK, Locals
<1>3. Writers'
  BY QueueAssumption, CellRange DEF PopReady, TypeOK, Writers, Writing
<1>4. Readers'
  BY QueueAssumption, CellRange DEF PopReady, TypeOK, Readers, Reading
<1>5. CellStates'
  BY QueueAssumption, CellRange DEF PopReady, TypeOK, CellStates
<1>6. Claims'
  <2>1. ASSUME pos[c] = head
        PROVE  head < tail /\ seq[cell(head)] = head + 1 /\ sig[cell(head)] = val[head]
    <3>1. seq[cell(head)] = head + 1
      BY <2>1 DEF PopReady
    <3>2. head # tail
      BY <3>1, NextCell, QueueAssumption DEF TypeOK
    <3>3. head < tail /\ head \in Positions
      BY <3>2, QueueAssumption DEF TypeOK, Positions
    <3> QED BY <3>1, <3>3, QueueAssumption DEF CellStates, TypeOK
  <2> QED BY <2>1, QueueAssumption DEF PopReady, TypeOK, Claims
<1>7. Takings'
  BY QueueAssumption, CellRange DEF PopReady, TypeOK, Takings, ExactlyOnce
<1> QED BY <1>1, <1>2, <1>3, <1>4, <1>5, <1>6, <1>7

\* A pop reloads the head.
LEMMA StalePop ==
    ASSUME IInv, NEW c \in Consumers, PopStale(c)
    PROVE  IInv'
<1> USE DEF IInv, Goto, Reload, Callers, Places
<1>1. TypeOK'
  BY QueueAssumption, CellRange DEF PopStale, TypeOK
<1>2. Locals'
  BY QueueAssumption, CellRange DEF PopStale, TypeOK, Locals
<1>3. Writers'
  BY QueueAssumption, CellRange DEF PopStale, TypeOK, Writers, Writing
<1>4. Readers'
  BY QueueAssumption, CellRange DEF PopStale, TypeOK, Readers, Reading
<1>5. CellStates'
  BY QueueAssumption, CellRange DEF PopStale, TypeOK, CellStates
<1>6. Claims'
  BY QueueAssumption, CellRange DEF PopStale, TypeOK, Claims
<1>7. Takings'
  BY QueueAssumption, CellRange DEF PopStale, TypeOK, Takings, ExactlyOnce
<1> QED BY <1>1, <1>2, <1>3, <1>4, <1>5, <1>6, <1>7

\* A pop finds nothing.
LEMMA EmptyPop ==
    ASSUME IInv, NEW c \in Consumers, PopEmpty(c)
    PROVE  IInv'
<1> USE DEF IInv, Goto, Reload, Callers, Places
<1>1. TypeOK'
  BY QueueAssumption, CellRange DEF PopEmpty, TypeOK
<1>2. Locals'
  BY QueueAssumption, CellRange DEF PopEmpty, TypeOK, Locals
<1>3. Writers'
  BY QueueAssumption, CellRange DEF PopEmpty, TypeOK, Writers, Writing
<1>4. Readers'
  BY QueueAssumption, CellRange DEF PopEmpty, TypeOK, Readers, Reading
<1>5. CellStates'
  BY QueueAssumption, CellRange DEF PopEmpty, TypeOK, CellStates
<1>6. Claims'
  BY QueueAssumption, CellRange DEF PopEmpty, TypeOK, Claims
<1>7. Takings'
  BY QueueAssumption, CellRange DEF PopEmpty, TypeOK, Takings, ExactlyOnce
<1> QED BY <1>1, <1>2, <1>3, <1>4, <1>5, <1>6, <1>7

\* A pop loses its compare-exchange.
LEMMA MissPop ==
    ASSUME IInv, NEW c \in Consumers, PopMiss(c)
    PROVE  IInv'
<1> USE DEF IInv, Goto, Reload, Callers, Places
<1>1. TypeOK'
  BY QueueAssumption, CellRange DEF PopMiss, TypeOK
<1>2. Locals'
  BY QueueAssumption, CellRange DEF PopMiss, TypeOK, Locals
<1>3. Writers'
  BY QueueAssumption, CellRange DEF PopMiss, TypeOK, Writers, Writing
<1>4. Readers'
  BY QueueAssumption, CellRange DEF PopMiss, TypeOK, Readers, Reading
<1>5. CellStates'
  BY QueueAssumption, CellRange DEF PopMiss, TypeOK, CellStates
<1>6. Claims'
  BY QueueAssumption, CellRange DEF PopMiss, TypeOK, Claims
<1>7. Takings'
  BY QueueAssumption, CellRange DEF PopMiss, TypeOK, Takings, ExactlyOnce
<1> QED BY <1>1, <1>2, <1>3, <1>4, <1>5, <1>6, <1>7

\* A push claims the tail: no cell of the queue or of a pop is lost.
LEMMA ClaimPush ==
    ASSUME IInv, NEW p \in Producers, PushClaim(p)
    PROVE  IInv'
<1> USE QueueAssumption DEF IInv, Goto, Callers, Places
<1>1. seq[cell(tail)] = tail /\ tail < head + Cap /\ tail \in Positions /\ tail \in Nat /\ head \in Nat
  BY NextCell DEF PushClaim, Claims, TypeOK, Positions
<1>2. \A c \in Consumers : Reading(c) => tail + 1 <= pos[c] + Cap
  <2> SUFFICES ASSUME NEW c \in Consumers, Reading(c), pos[c] + Cap = tail PROVE FALSE
    BY <1>1 DEF TypeOK, Reading
  <2>1. pos[c] \in Nat
    BY DEF TypeOK
  <2>2. cell(pos[c]) = cell(tail)
    BY <2>1, CellNext
  <2> QED BY <1>1, <2>1, <2>2 DEF Readers
<1>3. TypeOK'
  BY <1>1, <1>2, CellRange DEF PushClaim, TypeOK, Reading
<1>4. Locals'
  BY <1>1 DEF PushClaim, TypeOK, Locals
<1>5. Writers'
  BY <1>1, CellRange DEF PushClaim, TypeOK, Locals, Writers, Writing
<1>6. Readers'
  BY <1>1 DEF PushClaim, TypeOK, Readers, Reading
<1>7. CellStates'
  BY <1>1 DEF PushClaim, TypeOK, CellStates, Positions, Cells
<1>8. Claims'
  BY <1>1 DEF PushClaim, TypeOK, Claims, Locals
<1>9. Takings'
  BY <1>1 DEF PushClaim, TypeOK, Takings, ExactlyOnce
<1> QED BY <1>3, <1>4, <1>5, <1>6, <1>7, <1>8, <1>9

\* A pop claims the head: no push is at work there.
LEMMA ClaimPop ==
    ASSUME IInv, NEW c \in Consumers, PopClaim(c)
    PROVE  IInv'
<1> USE QueueAssumption DEF IInv, Goto, Callers, Places
<1>1. head < tail /\ seq[cell(head)] = head + 1 /\ sig[cell(head)] = val[head] /\ head \in Positions
      /\ pos[c] = head /\ head' = head + 1 /\ head \in Nat /\ tail \in Nat
  BY DEF PopClaim, Claims, TypeOK, Positions
<1>2. \A p \in Producers : Writing(p) => pos[p] >= head + 1
  <2> SUFFICES ASSUME NEW p \in Producers, Writing(p), pos[p] = head PROVE FALSE
    BY <1>1 DEF Writers, TypeOK
  <2> QED BY <1>1 DEF Writers
<1>3. TypeOK'
  BY <1>1 DEF PopClaim, TypeOK
<1>4. Locals'
  BY <1>1 DEF PopClaim, TypeOK, Locals
<1>5. Writers'
  BY <1>1, <1>2 DEF PopClaim, TypeOK, Writers, Writing
<1>6. Readers'
  BY <1>1 DEF PopClaim, TypeOK, Readers, Reading
<1>7. CellStates'
  BY <1>1 DEF PopClaim, TypeOK, CellStates, Positions
<1>8. Claims'
  BY <1>1 DEF PopClaim, TypeOK, Claims, Locals
<1>9. Takings'
  BY <1>1 DEF PopClaim, TypeOK, Takings, ExactlyOnce, Positions
<1> QED BY <1>3, <1>4, <1>5, <1>6, <1>7, <1>8, <1>9

\* A push at work shares its cell with no other position in the queue and no
\* pop at work.
LEMMA WriterAlone ==
    ASSUME IInv, NEW p \in Producers, Writing(p)
    PROVE  /\ pos[p] \in Positions /\ head <= pos[p] /\ pos[p] < tail /\ seq[cell(pos[p])] = pos[p]
           /\ \A n \in Nat : head <= n /\ n < tail /\ cell(n) = cell(pos[p]) => n = pos[p]
           /\ \A n \in Nat : n < head /\ tail <= n + Cap => cell(n) # cell(pos[p])
           /\ \A n \in Cells : tail <= n => n # cell(pos[p])
           /\ \A c \in Consumers : Reading(c) => cell(pos[c]) # cell(pos[p])
<1> USE QueueAssumption DEF IInv
<1>1. pos[p] \in Nat /\ head <= pos[p] /\ pos[p] < tail /\ seq[cell(pos[p])] = pos[p]
      /\ head \in Nat /\ tail \in Nat /\ tail <= head + Cap /\ pos[p] \in Positions
  BY DEF TypeOK, Writers, Positions, Callers
<1>2. \A n \in Nat : head <= n /\ n < tail /\ cell(n) = cell(pos[p]) => n = pos[p]
  BY <1>1, CellDistinct
<1>3. \A n \in Nat : n < head /\ tail <= n + Cap => cell(n) # cell(pos[p])
  BY <1>1, CellDistinct
<1>4. \A n \in Cells : tail <= n => n # cell(pos[p])
  BY <1>1, CellSmall DEF Cells
<1>5. ASSUME NEW c \in Consumers, Reading(c)
      PROVE  cell(pos[c]) # cell(pos[p])
  <2>1. pos[c] \in Nat /\ pos[c] < head /\ tail <= pos[c] + Cap
    BY <1>5 DEF TypeOK, Readers, Reading, Callers
  <2> QED BY <1>3, <2>1
<1> QED BY <1>1, <1>2, <1>3, <1>4, <1>5

\* A push fills its cell.
LEMMA WritePush ==
    ASSUME IInv, NEW p \in Producers, PushWrite(p)
    PROVE  IInv'
<1>a. Writing(p)
  BY DEF PushWrite, Goto, Writing, Reading
<1>b. pos[p] \in Positions /\ head <= pos[p] /\ pos[p] < tail /\ seq[cell(pos[p])] = pos[p]
      /\ (\A n \in Nat : head <= n /\ n < tail /\ cell(n) = cell(pos[p]) => n = pos[p])
      /\ (\A n \in Nat : n < head /\ tail <= n + Cap => cell(n) # cell(pos[p]))
      /\ (\A n \in Cells : tail <= n => n # cell(pos[p]))
      /\ (\A c \in Consumers : Reading(c) => cell(pos[c]) # cell(pos[p]))
  BY <1>a, WriterAlone
<1>c. pos[p] \in Nat /\ cell(pos[p]) \in Cells /\ head \in Nat /\ tail \in Nat /\ Cap \in Nat
  BY <1>b, CellIn, QueueAssumption DEF IInv, TypeOK, Positions, Callers
<1>d. \A i \in Cells : sig'[i] = IF i = cell(pos[p]) THEN arg[p] ELSE sig[i]
  BY <1>c DEF PushWrite, IInv, TypeOK
<1> USE CellIn, QueueAssumption DEF IInv, Goto, Callers, Places
<1>1. TypeOK'
  BY <1>c DEF PushWrite, TypeOK
<1>2. Locals'
  BY DEF PushWrite, TypeOK, Locals
<1>3. Writers'
  <2> SUFFICES ASSUME NEW q \in Producers, Writing(q)'
               PROVE  /\ (head <= pos[q])' /\ (pos[q] < tail)'
                      /\ (seq[cell(pos[q])] = pos[q])' /\ (val[pos[q]] = arg[q])'
                      /\ (at[q] = "publish" => sig[cell(pos[q])] = arg[q])'
                      /\ (\A r \in Producers : Writing(r) /\ r # q => pos[r] # pos[q])'
    BY DEF Writers
  <2>1. Writing(q) /\ pos' = pos /\ pos[q] \in Nat /\ cell(pos[q]) \in Cells
    BY DEF PushWrite, TypeOK, Writing
  <2>2. \A r \in Producers : Writing(r)' => Writing(r)
    BY DEF PushWrite, TypeOK, Writing
  <2>3. pos[q] \in Nat /\ head <= pos[q] /\ pos[q] < tail
    BY <2>1 DEF Writers, TypeOK
  <2>4. (seq[cell(pos[q])] = pos[q])'
    BY <1>a, <1>b, <1>d, <2>1, <2>3 DEF PushWrite, Writers, TypeOK, Writing
  <2>5. (at[q] = "publish" => sig[cell(pos[q])] = arg[q])'
    BY <1>a, <1>b, <1>d, <2>1, <2>3 DEF PushWrite, Writers, TypeOK, Writing
  <2> QED BY <2>1, <2>2, <2>3, <2>4, <2>5 DEF PushWrite, Writers
<1>4. Readers'
  <2> SUFFICES ASSUME NEW d \in Consumers, Reading(d)'
               PROVE  /\ (pos[d] < head)'
                      /\ (seq[cell(pos[d])] = pos[d] + 1)' /\ (sig[cell(pos[d])] = val[pos[d]])'
                      /\ (\A e \in Consumers : Reading(e) /\ e # d => pos[e] # pos[d])'
    BY DEF Readers
  <2>1. Reading(d) /\ pos' = pos /\ pos[d] \in Nat /\ cell(pos[d]) \in Cells
    BY DEF PushWrite, TypeOK, Reading
  <2>2. \A e \in Consumers : Reading(e)' => Reading(e)
    BY DEF PushWrite, TypeOK, Reading
  <2>3. pos[d] < head /\ tail <= pos[d] + Cap
    BY <2>1 DEF Readers, TypeOK, Reading
  <2>4. cell(pos[d]) # cell(pos[p])
    BY <1>a, <1>b, <2>1, <2>3 DEF PushWrite, Readers, Reading, TypeOK
  <2> QED BY <1>d, <2>1, <2>2, <2>3, <2>4 DEF PushWrite, Readers
<1>5. CellStates'
  <2>1. ASSUME NEW n \in Positions, head <= n, n < tail
        PROVE  (seq[cell(n)] = n \/ (seq[cell(n)] = n + 1 /\ sig[cell(n)] = val[n]))'
    <3>1. n \in Nat /\ cell(n) \in Cells
      BY DEF Positions
    <3> QED BY <1>a, <1>b, <1>c, <1>d, <2>1, <3>1 DEF PushWrite, CellStates, Writers, Writing
  <2>2. ASSUME NEW n \in Positions, n < head, tail <= n + Cap
        PROVE  (seq[cell(n)] \in {n + 1, n + Cap})'
    <3>1. n \in Nat /\ cell(n) \in Cells
      BY DEF Positions
    <3> QED BY <1>b, <1>c, <1>d, <2>2, <3>1 DEF PushWrite, CellStates
  <2>3. ASSUME NEW n \in Cells, tail <= n
        PROVE  (seq[n] = n)'
    BY <1>b, <1>c, <1>d, <2>3 DEF PushWrite, CellStates
  <2> QED BY <2>1, <2>2, <2>3 DEF PushWrite, CellStates
<1>6. Claims'
  <2>1. cell(tail) \in Cells /\ cell(head) \in Cells
    BY <1>c
  <2>2. seq[cell(tail)] = tail => seq'[cell(tail)] = tail
    BY <1>b, <1>c, <1>d, <2>1 DEF PushWrite
  <2>3. head < tail /\ seq[cell(head)] = head + 1 => seq'[cell(head)] = head + 1 /\ sig'[cell(head)] = sig[cell(head)]
    BY <1>b, <1>c, <1>d, <2>1 DEF PushWrite
  <2> QED BY <2>2, <2>3 DEF PushWrite, Claims, TypeOK
<1>7. Takings'
  BY DEF PushWrite, TypeOK, Takings, ExactlyOnce
<1> QED BY <1>1, <1>2, <1>3, <1>4, <1>5, <1>6, <1>7

\* A push publishes its cell.
LEMMA PublishPush ==
    ASSUME IInv, NEW p \in Producers, PushPublish(p)
    PROVE  IInv'
<1>a. Writing(p)
  BY DEF PushPublish, Goto, Writing, Reading
<1>b. pos[p] \in Positions /\ head <= pos[p] /\ pos[p] < tail /\ seq[cell(pos[p])] = pos[p]
      /\ (\A n \in Nat : head <= n /\ n < tail /\ cell(n) = cell(pos[p]) => n = pos[p])
      /\ (\A n \in Nat : n < head /\ tail <= n + Cap => cell(n) # cell(pos[p]))
      /\ (\A n \in Cells : tail <= n => n # cell(pos[p]))
      /\ (\A c \in Consumers : Reading(c) => cell(pos[c]) # cell(pos[p]))
  BY <1>a, WriterAlone
<1>c. pos[p] \in Nat /\ cell(pos[p]) \in Cells /\ head \in Nat /\ tail \in Nat /\ Cap \in Nat
  BY <1>b, CellIn, QueueAssumption DEF IInv, TypeOK, Positions, Callers
<1>d. \A i \in Cells : seq'[i] = IF i = cell(pos[p]) THEN pos[p] + 1 ELSE seq[i]
  BY <1>c DEF PushPublish, IInv, TypeOK
<1> USE CellIn, QueueAssumption DEF IInv, Goto, Callers, Places
<1>1. TypeOK'
  BY <1>c DEF PushPublish, TypeOK
<1>2. Locals'
  BY DEF PushPublish, TypeOK, Locals
<1>3. Writers'
  <2> SUFFICES ASSUME NEW q \in Producers, Writing(q)'
               PROVE  /\ (head <= pos[q])' /\ (pos[q] < tail)'
                      /\ (seq[cell(pos[q])] = pos[q])' /\ (val[pos[q]] = arg[q])'
                      /\ (at[q] = "publish" => sig[cell(pos[q])] = arg[q])'
                      /\ (\A r \in Producers : Writing(r) /\ r # q => pos[r] # pos[q])'
    BY DEF Writers
  <2>1. Writing(q) /\ pos' = pos /\ pos[q] \in Nat /\ cell(pos[q]) \in Cells
    BY DEF PushPublish, TypeOK, Writing
  <2>2. \A r \in Producers : Writing(r)' => Writing(r)
    BY DEF PushPublish, TypeOK, Writing
  <2>3. pos[q] \in Nat /\ head <= pos[q] /\ pos[q] < tail
    BY <2>1 DEF Writers, TypeOK
  <2>4. (seq[cell(pos[q])] = pos[q])'
    BY <1>a, <1>b, <1>d, <2>1, <2>3 DEF PushPublish, Writers, TypeOK, Writing
  <2>5. (at[q] = "publish" => sig[cell(pos[q])] = arg[q])'
    BY <1>a, <1>b, <1>d, <2>1, <2>3 DEF PushPublish, Writers, TypeOK, Writing
  <2> QED BY <2>1, <2>2, <2>3, <2>4, <2>5 DEF PushPublish, Writers
<1>4. Readers'
  <2> SUFFICES ASSUME NEW d \in Consumers, Reading(d)'
               PROVE  /\ (pos[d] < head)'
                      /\ (seq[cell(pos[d])] = pos[d] + 1)' /\ (sig[cell(pos[d])] = val[pos[d]])'
                      /\ (\A e \in Consumers : Reading(e) /\ e # d => pos[e] # pos[d])'
    BY DEF Readers
  <2>1. Reading(d) /\ pos' = pos /\ pos[d] \in Nat /\ cell(pos[d]) \in Cells
    BY DEF PushPublish, TypeOK, Reading
  <2>2. \A e \in Consumers : Reading(e)' => Reading(e)
    BY DEF PushPublish, TypeOK, Reading
  <2>3. pos[d] < head /\ tail <= pos[d] + Cap
    BY <2>1 DEF Readers, TypeOK, Reading
  <2>4. cell(pos[d]) # cell(pos[p])
    BY <1>a, <1>b, <2>1, <2>3 DEF PushPublish, Readers, Reading, TypeOK
  <2> QED BY <1>d, <2>1, <2>2, <2>3, <2>4 DEF PushPublish, Readers
<1>5. CellStates'
  <2>1. ASSUME NEW n \in Positions, head <= n, n < tail
        PROVE  (seq[cell(n)] = n \/ (seq[cell(n)] = n + 1 /\ sig[cell(n)] = val[n]))'
    <3>1. n \in Nat /\ cell(n) \in Cells
      BY DEF Positions
    <3> QED BY <1>a, <1>b, <1>c, <1>d, <2>1, <3>1 DEF PushPublish, CellStates, Writers, Writing
  <2>2. ASSUME NEW n \in Positions, n < head, tail <= n + Cap
        PROVE  (seq[cell(n)] \in {n + 1, n + Cap})'
    <3>1. n \in Nat /\ cell(n) \in Cells
      BY DEF Positions
    <3> QED BY <1>b, <1>c, <1>d, <2>2, <3>1 DEF PushPublish, CellStates
  <2>3. ASSUME NEW n \in Cells, tail <= n
        PROVE  (seq[n] = n)'
    BY <1>b, <1>c, <1>d, <2>3 DEF PushPublish, CellStates
  <2> QED BY <2>1, <2>2, <2>3 DEF PushPublish, CellStates
<1>6. Claims'
  <2>1. cell(tail) \in Cells /\ cell(head) \in Cells
    BY <1>c
  <2>2. seq[cell(tail)] = tail => seq'[cell(tail)] = tail
    BY <1>b, <1>c, <1>d, <2>1 DEF PushPublish
  <2>3. head < tail /\ seq[cell(head)] = head + 1 => seq'[cell(head)] = head + 1 /\ sig'[cell(head)] = sig[cell(head)]
    BY <1>b, <1>c, <1>d, <2>1 DEF PushPublish
  <2> QED BY <2>2, <2>3 DEF PushPublish, Claims, TypeOK
<1>7. Takings'
  BY DEF PushPublish, TypeOK, Takings, ExactlyOnce
<1> QED BY <1>1, <1>2, <1>3, <1>4, <1>5, <1>6, <1>7

\* A pop reads its cell.
LEMMA ReadPop ==
    ASSUME IInv, NEW c \in Consumers, PopRead(c)
    PROVE  IInv'
<1> USE QueueAssumption, CellRange DEF IInv, Goto, Callers, Places
<1>a. Reading(c) /\ pos[c] \in Nat /\ cell(pos[c]) \in Cells
  BY CellIn DEF PopRead, Reading, TypeOK
<1>0. Reading(c) /\ pos[c] < head /\ pos[c] \in Positions /\ sig[cell(pos[c])] = val[pos[c]] /\ taken[pos[c]] = {}
      /\ sig[cell(pos[c])] \in Values \cup {NoSignal}
      /\ (\A d \in Consumers : Reading(d) /\ d # c => pos[d] # pos[c])
  <2>1. pos[c] < head /\ sig[cell(pos[c])] = val[pos[c]]
        /\ (\A d \in Consumers : Reading(d) /\ d # c => pos[d] # pos[c])
    BY <1>a DEF Readers
  <2>2. pos[c] \in Positions
    BY <1>a, <2>1 DEF TypeOK, Positions
  <2>3. taken[pos[c]] = {}
    BY DEF PopRead, Takings
  <2> QED BY <1>a, <2>1, <2>2, <2>3 DEF TypeOK
<1>1. TypeOK'
  BY <1>0 DEF PopRead, TypeOK
<1>2. Locals'
  BY DEF PopRead, TypeOK, Locals
<1>3. Writers'
  BY DEF PopRead, TypeOK, Writers, Writing
<1>4. Readers'
  BY DEF PopRead, TypeOK, Readers, Reading
<1>5. CellStates'
  BY DEF PopRead, TypeOK, CellStates
<1>6. Claims'
  BY DEF PopRead, TypeOK, Claims
<1>7. Takings'
  BY <1>0 DEF PopRead, TypeOK, Takings, ExactlyOnce, Reading
<1> QED BY <1>1, <1>2, <1>3, <1>4, <1>5, <1>6, <1>7

\* A pop at work shares its cell with no position in the queue.
LEMMA ReaderAlone ==
    ASSUME IInv, NEW c \in Consumers, Reading(c)
    PROVE  /\ pos[c] \in Positions /\ pos[c] < head /\ tail <= pos[c] + Cap /\ seq[cell(pos[c])] = pos[c] + 1
           /\ \A n \in Nat : head <= n /\ n < tail => cell(n) # cell(pos[c])
           /\ \A n \in Nat : n < head /\ tail <= n + Cap /\ cell(n) = cell(pos[c]) => n = pos[c]
           /\ \A n \in Cells : tail <= n => n # cell(pos[c])
           /\ \A p \in Producers : Writing(p) => cell(pos[p]) # cell(pos[c])
           /\ cell(tail) = cell(pos[c]) => seq[cell(tail)] # tail
<1> USE QueueAssumption DEF IInv
<1>1. pos[c] \in Nat /\ pos[c] < head /\ tail <= pos[c] + Cap /\ seq[cell(pos[c])] = pos[c] + 1
      /\ head \in Nat /\ tail \in Nat /\ head <= tail /\ pos[c] \in Positions
  BY DEF TypeOK, Readers, Reading, Positions, Callers
<1>2. \A n \in Nat : head <= n /\ n < tail => cell(n) # cell(pos[c])
  BY <1>1, CellDistinct
<1>3. \A n \in Nat : n < head /\ tail <= n + Cap /\ cell(n) = cell(pos[c]) => n = pos[c]
  BY <1>1, CellDistinct
<1>4. \A n \in Cells : tail <= n => n # cell(pos[c])
  BY <1>1, CellSmall DEF Cells
<1>5. \A p \in Producers : Writing(p) => cell(pos[p]) # cell(pos[c])
  BY <1>1, <1>2 DEF Writers, TypeOK, Callers
<1>6. cell(tail) = cell(pos[c]) => seq[cell(tail)] # tail
  BY <1>1, CellDistinct
<1> QED BY <1>1, <1>2, <1>3, <1>4, <1>5, <1>6

\* A pop releases its cell to the position a round later.
LEMMA ReleasePop ==
    ASSUME IInv, NEW c \in Consumers, PopRelease(c)
    PROVE  IInv'
<1>a. Reading(c)
  BY DEF PopRelease, Goto, Writing, Reading
<1>b. pos[c] \in Positions /\ pos[c] < head /\ tail <= pos[c] + Cap /\ seq[cell(pos[c])] = pos[c] + 1
      /\ (\A n \in Nat : head <= n /\ n < tail => cell(n) # cell(pos[c]))
      /\ (\A n \in Nat : n < head /\ tail <= n + Cap /\ cell(n) = cell(pos[c]) => n = pos[c])
      /\ (\A n \in Cells : tail <= n => n # cell(pos[c]))
      /\ (\A p \in Producers : Writing(p) => cell(pos[p]) # cell(pos[c]))
      /\ (cell(tail) = cell(pos[c]) => seq[cell(tail)] # tail)
  BY <1>a, ReaderAlone
<1>c. pos[c] \in Nat /\ cell(pos[c]) \in Cells /\ head \in Nat /\ tail \in Nat /\ Cap \in Nat
  BY <1>b, CellIn, QueueAssumption DEF IInv, TypeOK, Positions, Callers
<1>d. \A i \in Cells : seq'[i] = IF i = cell(pos[c]) THEN pos[c] + Cap ELSE seq[i]
  BY <1>c DEF PopRelease, IInv, TypeOK
<1> USE CellIn, QueueAssumption DEF IInv, Goto, Callers, Places
<1>1. TypeOK'
  BY <1>c DEF PopRelease, TypeOK
<1>2. Locals'
  BY DEF PopRelease, TypeOK, Locals
<1>3. Writers'
  <2> SUFFICES ASSUME NEW q \in Producers, Writing(q)'
               PROVE  /\ (head <= pos[q])' /\ (pos[q] < tail)'
                      /\ (seq[cell(pos[q])] = pos[q])' /\ (val[pos[q]] = arg[q])'
                      /\ (at[q] = "publish" => sig[cell(pos[q])] = arg[q])'
                      /\ (\A r \in Producers : Writing(r) /\ r # q => pos[r] # pos[q])'
    BY DEF Writers
  <2>1. Writing(q) /\ pos' = pos /\ pos[q] \in Nat /\ cell(pos[q]) \in Cells
    BY DEF PopRelease, TypeOK, Writing
  <2>2. \A r \in Producers : Writing(r)' => Writing(r)
    BY DEF PopRelease, TypeOK, Writing
  <2>3. pos[q] \in Nat /\ head <= pos[q] /\ pos[q] < tail
    BY <2>1 DEF Writers, TypeOK
  <2>4. (seq[cell(pos[q])] = pos[q])'
    BY <1>a, <1>b, <1>d, <2>1, <2>3 DEF PopRelease, Writers, TypeOK, Writing
  <2>5. (at[q] = "publish" => sig[cell(pos[q])] = arg[q])'
    BY <1>a, <1>b, <1>d, <2>1, <2>3 DEF PopRelease, Writers, TypeOK, Writing
  <2> QED BY <2>1, <2>2, <2>3, <2>4, <2>5 DEF PopRelease, Writers
<1>4. Readers'
  <2> SUFFICES ASSUME NEW d \in Consumers, Reading(d)'
               PROVE  /\ (pos[d] < head)'
                      /\ (seq[cell(pos[d])] = pos[d] + 1)' /\ (sig[cell(pos[d])] = val[pos[d]])'
                      /\ (\A e \in Consumers : Reading(e) /\ e # d => pos[e] # pos[d])'
    BY DEF Readers
  <2>1. Reading(d) /\ pos' = pos /\ pos[d] \in Nat /\ cell(pos[d]) \in Cells
    BY DEF PopRelease, TypeOK, Reading
  <2>2. \A e \in Consumers : Reading(e)' => Reading(e)
    BY DEF PopRelease, TypeOK, Reading
  <2>3. pos[d] < head /\ tail <= pos[d] + Cap
    BY <2>1 DEF Readers, TypeOK, Reading
  <2>4. cell(pos[d]) # cell(pos[c])
    BY <1>a, <1>b, <2>1, <2>3 DEF PopRelease, Readers, Reading, TypeOK
  <2> QED BY <1>d, <2>1, <2>2, <2>3, <2>4 DEF PopRelease, Readers
<1>5. CellStates'
  <2>1. ASSUME NEW n \in Positions, head <= n, n < tail
        PROVE  (seq[cell(n)] = n \/ (seq[cell(n)] = n + 1 /\ sig[cell(n)] = val[n]))'
    <3>1. n \in Nat /\ cell(n) \in Cells
      BY DEF Positions
    <3> QED BY <1>a, <1>b, <1>c, <1>d, <2>1, <3>1 DEF PopRelease, CellStates, Writers, Writing
  <2>2. ASSUME NEW n \in Positions, n < head, tail <= n + Cap
        PROVE  (seq[cell(n)] \in {n + 1, n + Cap})'
    <3>1. n \in Nat /\ cell(n) \in Cells
      BY DEF Positions
    <3> QED BY <1>b, <1>c, <1>d, <2>2, <3>1 DEF PopRelease, CellStates
  <2>3. ASSUME NEW n \in Cells, tail <= n
        PROVE  (seq[n] = n)'
    BY <1>b, <1>c, <1>d, <2>3 DEF PopRelease, CellStates
  <2> QED BY <2>1, <2>2, <2>3 DEF PopRelease, CellStates
<1>6. Claims'
  <2>1. cell(tail) \in Cells /\ cell(head) \in Cells
    BY <1>c
  <2>2. seq[cell(tail)] = tail => seq'[cell(tail)] = tail
    BY <1>b, <1>c, <1>d, <2>1 DEF PopRelease
  <2>3. head < tail /\ seq[cell(head)] = head + 1 => seq'[cell(head)] = head + 1 /\ sig'[cell(head)] = sig[cell(head)]
    BY <1>b, <1>c, <1>d, <2>1 DEF PopRelease
  <2> QED BY <2>2, <2>3 DEF PopRelease, Claims, TypeOK
<1>7. Takings'
  BY DEF PopRelease, TypeOK, Takings, ExactlyOnce
<1> QED BY <1>1, <1>2, <1>3, <1>4, <1>5, <1>6, <1>7

-----------------------------------------------------------------------------
(* The theorems. *)

\* The constructor establishes it.
LEMMA InitInv == Init => IInv
<1> SUFFICES ASSUME Init PROVE IInv
  OBVIOUS
<1>1. \A n \in Cells : cell(n) = n
  BY CellSmall DEF Cells
<1>2. TypeOK
  BY QueueAssumption DEF Init, TypeOK, Callers, Places, Cells
<1>3. Locals /\ Writers /\ Readers /\ Takings
  BY QueueAssumption DEF Init, Locals, Writers, Writing, Readers, Reading, Takings, ExactlyOnce, Callers
<1>4. CellStates /\ Claims
  BY QueueAssumption DEF Init, CellStates, Claims, Callers, Positions, Cells
<1> QED BY <1>2, <1>3, <1>4 DEF IInv

\* A step of nothing keeps it.
LEMMA StutterInv == IInv /\ UNCHANGED vars => IInv'
<1> SUFFICES ASSUME IInv, UNCHANGED vars PROVE IInv'
  OBVIOUS
<1> USE DEF vars, IInv
<1>1. TypeOK'  BY DEF TypeOK
<1>2. Locals' /\ Claims'  BY DEF Locals, Claims
<1>3. Writers'  BY DEF Writers, Writing
<1>4. Readers'  BY DEF Readers, Reading
<1>5. CellStates'  BY DEF CellStates
<1>6. Takings'  BY DEF Takings, ExactlyOnce
<1> QED BY <1>1, <1>2, <1>3, <1>4, <1>5, <1>6

\* The invariant holds of every behaviour of the queue.
THEOREM Invariance == Spec => []IInv
<1>1. IInv /\ [Next]_vars => IInv'
  <2> SUFFICES ASSUME IInv, [Next]_vars PROVE IInv'
    OBVIOUS
  <2>1. ASSUME NEW p \in Producers, PushSteps(p) PROVE IInv'
    BY <2>1, ReadyPush, StalePush, FullPush, ClaimPush, MissPush, WritePush, PublishPush DEF PushSteps
  <2>2. ASSUME NEW p \in Producers, NEW v \in Values, PushStart(p, v) PROVE IInv'
    BY <2>2, StartPush
  <2>3. ASSUME NEW c \in Consumers, PopSteps(c) PROVE IInv'
    BY <2>3, StartPop, ReadyPop, StalePop, EmptyPop, ClaimPop, MissPop, ReadPop, ReleasePop DEF PopSteps
  <2>4. CASE UNCHANGED vars
    BY <2>4, StutterInv
  <2> QED BY <2>1, <2>2, <2>3, <2>4 DEF Next
<1> QED BY InitInv, <1>1, PTL DEF Spec

\* Types, and the bound on what the queue and the pops at work hold.
THEOREM QueueTypes == Spec => []TypeOK
<1>1. IInv => TypeOK
  BY DEF IInv
<1> QED BY <1>1, Invariance, PTL

\* Cell::sig is never written while another caller writes or reads it.
THEOREM RaceFree == Spec => []NoRace
<1>1. IInv => NoRace
  <2> SUFFICES ASSUME IInv, NEW p \in Producers, NEW c \in Callers, at[p] = "write", c # p,
                      at[c] \in {"write", "read"}, cell(pos[p]) = cell(pos[c])
               PROVE  FALSE
    BY DEF NoRace
  <2>1. Writing(p)
    BY DEF Writing
  <2>2. CASE c \in Producers
    <3>1. at[c] = "write" /\ Writing(c)
      BY <2>2 DEF IInv, Locals, Writing
    <3>2. pos[c] \in Nat /\ head <= pos[c] /\ pos[c] < tail /\ pos[c] # pos[p]
      BY <2>1, <2>2, <3>1 DEF IInv, Writers, TypeOK
    <3> QED BY <2>1, <3>2, WriterAlone
  <2>3. CASE c \in Consumers
    <3>1. Reading(c)
      BY <2>3 DEF IInv, Locals, Reading
    <3> QED BY <2>1, <2>3, <3>1, WriterAlone
  <2> QED BY <2>2, <2>3 DEF Callers
<1> QED BY <1>1, Invariance, PTL

\* Each signal that is popped is popped once, with the value that was pushed.
THEOREM Exact == Spec => []ExactlyOnce
<1>1. IInv => ExactlyOnce
  BY DEF IInv, Takings
<1> QED BY <1>1, Invariance, PTL
=============================================================================
