------------------------ MODULE PostgresStorageProofs ------------------------
(***************************************************************************)
(* Proofs about PostgresStorage, for any number of tasks, users, volumes   *)
(* and connections and for any width of the integers.                      *)
(*                                                                         *)
(* Both handlers lock the row of supply_state with their first statement.  *)
(* LockOrder says what follows for every other statement: a transaction    *)
(* that has locked or written anything holds that row.                     *)
(***************************************************************************)
EXTENDS PostgresStorage, BookTheorems

\* No statement that locks or writes was executed yet.
Fresh == {"idle", "begin", "lock", "add"}

\* What each task has locked and written, by its place in the handler.
LockOrder ==
    /\ DOMAIN locks = Workers /\ DOMAIN draft = Workers /\ DOMAIN pc = Workers
    /\ \A w \in Workers :
        /\ pc[w] \in Fresh \/ pc[w] \in (Working \ Fresh) \cup {"aborted"}
        /\ pc[w] \in Fresh => locks[w] = {} /\ DOMAIN draft[w] = {}
        /\ pc[w] \in Working \ Fresh => SupplyRow \in locks[w]
        /\ Busy(w) => SupplyRow \in locks[w]
    /\ \A v, w \in Workers :
        SupplyRow \in locks[v] /\ SupplyRow \in locks[w] => v = w

-----------------------------------------------------------------------------
\* Nothing is locked or written before the first call.
LEMMA InitLockOrder == Init => LockOrder
  BY DEF Init, LockOrder, Fresh, Working, Busy

\* A statement that gets its row keeps the order, whatever it writes.
LEMMA UpdateKeeps ==
    ASSUME LockOrder, NEW w \in Workers, NEW row, NEW value, NEW n,
           NEW next \in Working \ Fresh,
           pc[w] \in Working,
           row = SupplyRow \/ pc[w] \notin Fresh,
           Update(w, row, value, n, next)
    PROVE  LockOrder'
<1>1. CASE FitsBigint(n)
  <2>1. /\ locks' = [locks EXCEPT ![w] = @ \cup {row}]
        /\ draft' = [draft EXCEPT ![w] = Over([r \in {row} |-> value], @)]
        /\ pc' = [pc EXCEPT ![w] = next]
    BY <1>1 DEF Update, Holding, Goto
  <2>2. SupplyRow \in locks'[w]
    BY <2>1 DEF LockOrder
  <2>3. \A v \in Workers \ {w} : SupplyRow \notin locks[v]
    BY DEF LockOrder, Update, Available
  <2>. QED
    BY <2>1, <2>2, <2>3 DEF LockOrder, Busy, Fresh, Working
<1>2. CASE ~FitsBigint(n)
  BY <1>2 DEF Update, session, LockOrder, Goto, Busy, Fresh, Working
<1>. QED
  BY <1>1, <1>2

\* The end of a transaction frees all it has.
LEMMA EndKeeps ==
    ASSUME LockOrder, NEW w \in Workers, EndTransaction(w)
    PROVE  LockOrder'
  BY DEF LockOrder, EndTransaction, Goto, Busy, Fresh, Working

\* A step that locks and writes nothing, from one label to another.
LEMMA MoveKeeps ==
    ASSUME LockOrder, NEW w \in Workers, NEW next, UNCHANGED session,
           Goto(w, next),
           \/ pc[w] \in Fresh /\ next \in Fresh
           \/ pc[w] \in Working \ Fresh /\ next \in Working \ Fresh
           \/ next = "aborted"
    PROVE  LockOrder'
  BY DEF LockOrder, Goto, session, Busy, Fresh, Working

\* Every statement keeps the lock order: the first one of each handler locks
\* the row of supply_state.
LEMMA NextLockOrder == LockOrder /\ [Next]_vars => LockOrder'
<1>. SUFFICES ASSUME LockOrder, [Next]_vars
              PROVE  LockOrder'
  OBVIOUS
<1>1. ASSUME NEW w \in Workers, Call(w)
      PROVE  LockOrder'
  BY <1>1, MoveKeeps DEF Call, At, Fresh
<1>2. ASSUME NEW w \in Workers, Begin(w)
      PROVE  LockOrder'
  <2>1. PICK next \in {"lock", "add"} : Goto(w, next)
    BY <1>2 DEF Begin
  <2>. QED
    BY <1>2, <2>1, MoveKeeps DEF Begin, At, Fresh
<1>3. ASSUME NEW w \in Workers, BeginFails(w)
      PROVE  LockOrder'
  BY <1>3, MoveKeeps DEF BeginFails, At, Fresh
<1>4. ASSUME NEW w \in Workers, LockSupply(w)
      PROVE  LockOrder'
  <2>1. PICK next \in {"insert", "take"} : Goto(w, next)
    BY <1>4 DEF LockSupply
  <2>2. /\ locks' = [locks EXCEPT ![w] = @ \cup {SupplyRow}]
        /\ UNCHANGED draft
    BY <1>4 DEF LockSupply, Holding
  <2>3. \A v \in Workers \ {w} : SupplyRow \notin locks[v]
    BY <1>4 DEF LockSupply, Available
  <2>. QED
    BY <2>1, <2>2, <2>3 DEF LockOrder, Goto, Busy, Fresh, Working
<1>5. ASSUME NEW w \in Workers, AddSupply(w)
      PROVE  LockOrder'
  BY <1>5, UpdateKeeps DEF AddSupply, At, Fresh, Working
<1>6. ASSUME NEW w \in Workers, SelectBids(w)
      PROVE  LockOrder'
  <2>1. PICK rows : locks' = [locks EXCEPT ![w] = @ \cup rows]
    BY <1>6 DEF SelectBids, Holding
  <2>2. /\ pc[w] = "select" /\ pc' = [pc EXCEPT ![w] = "next"]
        /\ UNCHANGED draft
    BY <1>6 DEF SelectBids, At, Goto
  <2>3. \A v \in Workers \ {w} : SupplyRow \notin locks[v]
    BY <2>2 DEF LockOrder, Fresh, Working
  <2>4. SupplyRow \in locks'[w]
    BY <2>1, <2>2 DEF LockOrder, Fresh, Working
  <2>5. /\ DOMAIN locks' = Workers /\ DOMAIN draft' = Workers
        /\ DOMAIN pc' = Workers
        /\ \A v \in Workers \ {w} :
            locks'[v] = locks[v] /\ draft'[v] = draft[v] /\ pc'[v] = pc[v]
    BY <2>1, <2>2 DEF LockOrder
  <2>. QED
    BY <2>2, <2>3, <2>4, <2>5 DEF LockOrder, Busy, Fresh, Working
<1>7. ASSUME NEW w \in Workers, NextBid(w)
      PROVE  LockOrder'
  <2>1. PICK next \in {"commit", "take"} : Goto(w, next)
    BY <1>7 DEF NextBid
  <2>2. /\ locks' = [locks EXCEPT ![w] = @ \cup {SupplyRow}]
        /\ UNCHANGED draft /\ pc[w] = "next"
    BY <1>7 DEF NextBid, Holding, At
  <2>. QED
    BY <2>1, <2>2 DEF LockOrder, Goto, Busy, Fresh, Working
<1>8. ASSUME NEW w \in Workers, EndLoop(w)
      PROVE  LockOrder'
  BY <1>8, MoveKeeps DEF EndLoop, At, Fresh, Working
<1>9. ASSUME NEW w \in Workers, Take(w)
      PROVE  LockOrder'
  <2>1. \E value, n : \E next \in {"give", "mark"} :
            Update(w, SupplyRow, value, n, next)
    BY <1>9, Zenon DEF Take
  <2>. QED
    BY <1>9, <2>1, UpdateKeeps DEF Take, At, Fresh, Working
<1>10. ASSUME NEW w \in Workers, MarkBid(w)
       PROVE  LockOrder'
  <2>1. PICK row, value, n : Update(w, row, value, n, "give")
    BY <1>10 DEF MarkBid
  <2>. QED
    BY <1>10, <2>1, UpdateKeeps DEF MarkBid, At, Fresh, Working
<1>11. ASSUME NEW w \in Workers, UpsertAllocation(w)
       PROVE  LockOrder'
  <2>1. \E row, value : \E next \in {"next", "bump", "insert"} :
            Update(w, row, value, value, next)
    BY <1>11 DEF UpsertAllocation
  <2>. QED
    BY <1>11, <2>1, UpdateKeeps DEF UpsertAllocation, At, Fresh, Working
<1>12. ASSUME NEW w \in Workers, InsertBid(w)
       PROVE  LockOrder'
  <2>1. PICK row : draft' = [draft EXCEPT ![w] = row]
    BY <1>12 DEF InsertBid
  <2>2. /\ pc[w] = "insert" /\ pc' = [pc EXCEPT ![w] = "bump"]
        /\ UNCHANGED locks
    BY <1>12 DEF InsertBid, At, Goto
  <2>. QED
    BY <2>1, <2>2 DEF LockOrder, Busy, Fresh, Working
<1>13. ASSUME NEW w \in Workers, BumpSeq(w)
       PROVE  LockOrder'
  BY <1>13, UpdateKeeps DEF BumpSeq, At, Fresh, Working
<1>14. ASSUME NEW w \in Workers, Commit(w) \/ CommitAnswerLost(w) \/ Rollback(w)
       PROVE  LockOrder'
  BY <1>14, EndKeeps DEF Commit, CommitAnswerLost, Rollback, Committed
<1>15. ASSUME NEW w \in Workers, LoseConnection(w)
       PROVE  LockOrder'
  BY <1>15, MoveKeeps DEF LoseConnection
<1>16. CASE UNCHANGED vars
  BY <1>16 DEF vars, session, locals, LockOrder, Busy
<1>. QED
  BY <1>1, <1>2, <1>3, <1>4, <1>5, <1>6, <1>7, <1>8, <1>9, <1>10, <1>11,
     <1>12, <1>13, <1>14, <1>15, <1>16
  DEF Next, Step, BuyStep, SellStep, Finished

\* The order in which both handlers lock their rows, for every interleaving,
\* failure and timeout (upsert_allocation, and the SELECT .. FOR UPDATE and
\* UPDATE statements of buy and sell).
THEOREM LocksInOrder == Spec => []LockOrder
<1>1. LockOrder /\ [Next]_vars => LockOrder'
  BY NextLockOrder
<1>. QED
  BY InitLockOrder, <1>1, PTL DEF Spec

\* At most one transaction has locked or written a row: none waits for a row
\* while it holds another, so no deadlock between buys and sells is possible.
THEOREM NoDeadlockOfRows == Spec => []OneWriter
<1>1. LockOrder => OneWriter
  BY DEF LockOrder, OneWriter
<1>. QED
  BY LocksInOrder, <1>1, PTL

-----------------------------------------------------------------------------
(* Rows: what a statement that writes one row does to the sums of a view. *)

\* A row is of one table, and known by its key there.
LEMMA RowKinds ==
    /\ SupplyRow[1] = "supply_state"
    /\ \A u : AllocationRow(u)[1] = "allocations"
    /\ \A i : BidRow(i)[1] = "bids"
    /\ \A u, v : AllocationRow(u) = AllocationRow(v) => u = v
    /\ \A i, j : BidRow(i) = BidRow(j) => i = j
BY DEF SupplyRow, AllocationRow, BidRow

\* The rows after one of them was written.
Put(rows, row, value) ==
    [r \in DOMAIN rows \cup {row} |-> IF r = row THEN value ELSE rows[r]]

\* A statement that writes a row puts it into the view of its transaction.
LEMMA ViewPut ==
    ASSUME NEW w \in Workers, NEW row, NEW value, DOMAIN draft = Workers,
           draft' = [draft EXCEPT ![w] = Over([r \in {row} |-> value], @)],
           table' = table
    PROVE  View(w)' = Put(View(w), row, value)
<1>1. draft'[w] = Over([r \in {row} |-> value], draft[w])  OBVIOUS
<1>2. View(w)' = Over(draft'[w], table)  BY DEF View
<1> QED  BY <1>1, <1>2 DEF View, Over, Put

\* The keys and values of a well-formed set of rows.
LEMMA RowValues ==
    ASSUME NEW rows, NEW ids \in Nat, NEW last \in Nat,
           WellFormed(rows, ids, last)
    PROVE  /\ SupplyRow \in DOMAIN rows
           /\ rows[SupplyRow].supply \in Int /\ rows[SupplyRow].buy_seq \in Nat
           /\ \A u : AllocationRow(u) \in DOMAIN rows =>
                        u \in Users /\ rows[AllocationRow(u)] \in Int
           /\ \A u : HeldIn(rows, u) \in Int
           /\ \A r \in BidRows(rows) : \E i \in 1 .. ids :
                /\ r = BidRow(i)
                /\ rows[r] \in [id : {i}, user : Users, volume : Int,
                                price : I64, seq : 1 .. last]
           /\ \A r \in {q \in DOMAIN rows : q[1] = "allocations"} :
                rows[r] \in Int
<1>1. rows[SupplyRow].supply \in Int /\ rows[SupplyRow].buy_seq \in Nat
  BY DEF WellFormed
<1>2. ASSUME NEW u, AllocationRow(u) \in DOMAIN rows
      PROVE  u \in Users /\ rows[AllocationRow(u)] \in Int
  BY <1>2, RowKinds DEF WellFormed
<1>3. \A u : HeldIn(rows, u) \in Int  BY <1>2 DEF HeldIn
<1>4. ASSUME NEW r \in BidRows(rows)
      PROVE  \E i \in 1 .. ids :
                /\ r = BidRow(i)
                /\ rows[r] \in [id : {i}, user : Users, volume : Int,
                                price : I64, seq : 1 .. last]
  BY RowKinds DEF WellFormed, BidRows
<1>5. ASSUME NEW r \in DOMAIN rows, r[1] = "allocations"
      PROVE  rows[r] \in Int
  BY <1>5, RowKinds DEF WellFormed
<1> QED  BY <1>1, <1>2, <1>3, <1>4, <1>5 DEF WellFormed

\* The values of the bids are told apart by their rows.
LEMMA BidValues ==
    ASSUME NEW rows, NEW ids \in Nat, NEW last \in Nat,
           WellFormed(rows, ids, last)
    PROVE  /\ \A r \in BidRows(rows) :
                /\ r = BidRow(rows[r].id) /\ rows[r].id \in 1 .. ids
                /\ rows[r].user \in Users /\ rows[r].volume \in Int
                /\ rows[r].price \in I64 /\ rows[r].seq \in 1 .. last
           /\ \A b \in BidsOf(rows) :
                /\ BidRow(b.id) \in BidRows(rows) /\ rows[BidRow(b.id)] = b
                /\ b.user \in Users /\ b.volume \in Int /\ b.price \in I64
                /\ b.seq \in 1 .. last
           /\ \A b, c \in BidsOf(rows) : b.seq = c.seq \/ b.id = c.id => b = c
<1>1. ASSUME NEW r \in BidRows(rows)
      PROVE  /\ r = BidRow(rows[r].id) /\ rows[r].id \in 1 .. ids
             /\ rows[r].user \in Users /\ rows[r].volume \in Int
             /\ rows[r].price \in I64 /\ rows[r].seq \in 1 .. last
  <2>1. PICK i \in 1 .. ids :
            /\ r = BidRow(i)
            /\ rows[r] \in [id : {i}, user : Users, volume : Int,
                            price : I64, seq : 1 .. last]
    BY RowValues
  <2> QED  BY <2>1
<1>2. ASSUME NEW b \in BidsOf(rows)
      PROVE  /\ BidRow(b.id) \in BidRows(rows) /\ rows[BidRow(b.id)] = b
             /\ b.user \in Users /\ b.volume \in Int /\ b.price \in I64
             /\ b.seq \in 1 .. last
  <2>1. PICK r \in BidRows(rows) : b = rows[r]  BY DEF BidsOf
  <2> QED  BY <1>1, <2>1
<1>3. ASSUME NEW b \in BidsOf(rows), NEW c \in BidsOf(rows),
             b.seq = c.seq \/ b.id = c.id
      PROVE  b = c
  <2>1. /\ BidRow(b.id) \in BidRows(rows) /\ rows[BidRow(b.id)] = b
        /\ BidRow(c.id) \in BidRows(rows) /\ rows[BidRow(c.id)] = c
    BY <1>2
  <2>2. CASE b.id = c.id  BY <2>1, <2>2
  <2>3. CASE b.seq = c.seq
    <3>1. BidRow(b.id) = BidRow(c.id)  BY <2>1, <2>3 DEF WellFormed
    <3> QED  BY <2>1, <3>1
  <2> QED  BY <1>3, <2>2, <2>3
<1> QED  BY <1>1, <1>2, <1>3

\* The rows of a table are finitely many.
LEMMA RowsFinite ==
    ASSUME NEW rows, NEW ids \in Nat, NEW last \in Nat,
           WellFormed(rows, ids, last)
    PROVE  /\ IsFiniteSet(BidRows(rows))
           /\ IsFiniteSet({r \in DOMAIN rows : r[1] = "allocations"})
           /\ TotalIn(rows) \in Int
<1>1. IsFiniteSet(DOMAIN rows)  BY DEF WellFormed
<1>2. IsFiniteSet(BidRows(rows))
  <2>1. BidRows(rows) \subseteq DOMAIN rows  BY DEF BidRows
  <2> QED  BY <1>1, <2>1, FS_Subset
<1> DEFINE given == {r \in DOMAIN rows : r[1] = "allocations"}
<1>3. given \subseteq DOMAIN rows /\ \A r \in given : rows[r] \in Int
  BY RowValues
<1>4. TotalIn(rows) = SumFunctionOnSet(rows, given)  BY DEF TotalIn
<1>5. IsFiniteSet(given)  BY <1>1, <1>3, FS_Subset
<1>6. TotalIn(rows) \in Int
  <2> HIDE DEF given
  <2> QED  BY <1>3, <1>4, <1>5, SumInt
<1> QED  BY <1>2, <1>5, <1>6

\* More ids and sequence numbers may be in use.
LEMMA WellFormedUpTo ==
    ASSUME NEW rows, NEW ids \in Nat, NEW last \in Nat,
           WellFormed(rows, ids, last),
           NEW more \in Nat, ids <= more, NEW later \in Nat, last <= later
    PROVE  WellFormed(rows, more, later)
<1>1. ASSUME NEW r \in DOMAIN rows, NEW i \in 1 .. ids, r = BidRow(i),
             rows[r] \in [id : {i}, user : Users, volume : Int,
                          price : I64, seq : 1 .. last]
      PROVE  \E j \in 1 .. more :
                /\ r = BidRow(j)
                /\ rows[r] \in [id : {j}, user : Users, volume : Int,
                                price : I64, seq : 1 .. later]
  BY <1>1
<1> QED  BY <1>1 DEF WellFormed

\* UPDATE supply_state changes no allocation and no bid.
LEMMA PutSupply ==
    ASSUME NEW rows, NEW ids \in Nat, NEW last \in Nat,
           WellFormed(rows, ids, last), NEW value \in [supply : Int, buy_seq : Nat]
    PROVE  LET new == Put(rows, SupplyRow, value) IN
           /\ WellFormed(new, ids, last)
           /\ new[SupplyRow] = value
           /\ BidsOf(new) = BidsOf(rows) /\ OpenBids(new) = OpenBids(rows)
           /\ BidRows(new) = BidRows(rows)
           /\ \A r \in BidRows(rows) : new[r] = rows[r]
           /\ TotalIn(new) = TotalIn(rows)
           /\ \A u : HeldIn(new, u) = HeldIn(rows, u)
           /\ \A u : OpenIn(new, u) = OpenIn(rows, u)
<1> DEFINE new == Put(rows, SupplyRow, value)
           given == {r \in DOMAIN rows : r[1] = "allocations"}
<1>1. /\ DOMAIN new = DOMAIN rows /\ new[SupplyRow] = value
      /\ \A r \in DOMAIN rows : r # SupplyRow => new[r] = rows[r]
  BY DEF Put, WellFormed
<1> HIDE DEF new
<1>2. BidRows(new) = BidRows(rows) /\ \A r \in BidRows(rows) : new[r] = rows[r]
  BY <1>1, RowKinds DEF BidRows
<1>3. BidsOf(new) = BidsOf(rows)  BY <1>2 DEF BidsOf
<1>4. OpenBids(new) = OpenBids(rows)  BY <1>3 DEF OpenBids
<1>5. ASSUME NEW u  PROVE HeldIn(new, u) = HeldIn(rows, u)
  BY <1>1, RowKinds DEF HeldIn
<1>6. ASSUME NEW u  PROVE OpenIn(new, u) = OpenIn(rows, u)
  <2>1. [r \in BidRows(new) |-> new[r].volume]
          = [r \in BidRows(rows) |-> rows[r].volume]
    BY <1>2
  <2>2. {r \in BidRows(new) : new[r].user = u /\ new[r].volume > 0}
          = {r \in BidRows(rows) : rows[r].user = u /\ rows[r].volume > 0}
    BY <1>2
  <2> QED  BY <2>1, <2>2 DEF OpenIn
<1>7. TotalIn(new) = TotalIn(rows)
  <2>1. /\ TotalIn(rows) = SumFunctionOnSet(rows, given)
        /\ TotalIn(new) = SumFunctionOnSet(new, given)
    BY <1>1 DEF TotalIn
  <2>2. \A r \in given : new[r] = rows[r]  BY <1>1, RowKinds
  <2>3. IsFiniteSet(given)  BY RowsFinite
  <2> HIDE DEF given
  <2> QED  BY <2>1, <2>2, <2>3, SumSame
<1>8. WellFormed(new, ids, last)
  <2>1. /\ IsFiniteSet(DOMAIN new) /\ SupplyRow \in DOMAIN new
        /\ new[SupplyRow] \in [supply : Int, buy_seq : Nat]
    BY <1>1 DEF WellFormed
  <2>2. \A r, q \in BidRows(new) : new[r].seq = new[q].seq => r = q
    BY <1>2 DEF WellFormed
  <2>3. ASSUME NEW r \in DOMAIN new, r # SupplyRow
        PROVE  \/ \E u \in Users : r = AllocationRow(u) /\ new[r] \in Int
               \/ \E i \in 1 .. ids :
                    /\ r = BidRow(i)
                    /\ new[r] \in [id : {i}, user : Users, volume : Int,
                                   price : I64, seq : 1 .. last]
    <3>1. r \in DOMAIN rows /\ new[r] = rows[r]  BY <1>1, <2>3
    <3> QED  BY <2>3, <3>1 DEF WellFormed
  <2> QED  BY <2>1, <2>2, <2>3 DEF WellFormed
<1> QED  BY <1>1, <1>2, <1>3, <1>4, <1>5, <1>6, <1>7, <1>8 DEF new

\* An upsert into allocations changes one user's row and nothing else.
LEMMA PutAllocation ==
    ASSUME NEW rows, NEW ids \in Nat, NEW last \in Nat,
           WellFormed(rows, ids, last), NEW u \in Users, NEW value \in Int
    PROVE  LET new == Put(rows, AllocationRow(u), value) IN
           /\ WellFormed(new, ids, last)
           /\ new[SupplyRow] = rows[SupplyRow]
           /\ BidsOf(new) = BidsOf(rows) /\ OpenBids(new) = OpenBids(rows)
           /\ TotalIn(new) = TotalIn(rows) + value - HeldIn(rows, u)
           /\ HeldIn(new, u) = value
           /\ \A v : v # u => HeldIn(new, v) = HeldIn(rows, v)
           /\ \A v : OpenIn(new, v) = OpenIn(rows, v)
<1> DEFINE row == AllocationRow(u)
           new == Put(rows, row, value)
           given == {r \in DOMAIN rows : r[1] = "allocations"}
<1>1. /\ DOMAIN new = DOMAIN rows \cup {row} /\ new[row] = value
      /\ \A r \in DOMAIN rows : r # row => new[r] = rows[r]
      /\ SupplyRow \in DOMAIN rows
  BY DEF Put, WellFormed
<1> HIDE DEF new
<1>k. row # SupplyRow /\ row[1] = "allocations" /\ \A v : AllocationRow(v) = row => v = u
  BY RowKinds
<1>2. BidRows(new) = BidRows(rows) /\ \A r \in BidRows(rows) : new[r] = rows[r]
  BY <1>1, <1>k, RowKinds DEF BidRows
<1>3. BidsOf(new) = BidsOf(rows)  BY <1>2 DEF BidsOf
<1>4. OpenBids(new) = OpenBids(rows)  BY <1>3 DEF OpenBids
<1>5. HeldIn(new, u) = value  BY <1>1 DEF HeldIn
<1>5a. ASSUME NEW v, v # u  PROVE HeldIn(new, v) = HeldIn(rows, v)
  <2>1. AllocationRow(v) # row  BY <1>k, <1>5a
  <2> HIDE DEF row
  <2> QED  BY <1>1, <2>1 DEF HeldIn
<1>6. ASSUME NEW v  PROVE OpenIn(new, v) = OpenIn(rows, v)
  <2>1. [r \in BidRows(new) |-> new[r].volume]
          = [r \in BidRows(rows) |-> rows[r].volume]
    BY <1>2
  <2>2. {r \in BidRows(new) : new[r].user = v /\ new[r].volume > 0}
          = {r \in BidRows(rows) : rows[r].user = v /\ rows[r].volume > 0}
    BY <1>2
  <2> QED  BY <2>1, <2>2 DEF OpenIn
<1>7. TotalIn(new) = TotalIn(rows) + value - HeldIn(rows, u)
  <2>1. /\ TotalIn(rows) = SumFunctionOnSet(rows, given)
        /\ TotalIn(new) = SumFunctionOnSet(new, given \cup {row})
    <3>1. {r \in DOMAIN new : r[1] = "allocations"} = given \cup {row}
      BY <1>1, <1>k
    <3> QED  BY <3>1 DEF TotalIn
  <2>2. IsFiniteSet(given) /\ \A r \in given : rows[r] \in Int
    BY RowsFinite, RowValues
  <2>3. \A r \in given \ {row} : new[r] = rows[r]  BY <1>1
  <2>4. row \in given <=> row \in DOMAIN rows  BY <1>k
  <2>5. HeldIn(rows, u) = IF row \in DOMAIN rows THEN rows[row] ELSE 0
    BY DEF HeldIn
  <2>6. TotalIn(rows) \in Int  BY RowsFinite
  <2> HIDE DEF given, row
  <2>7. CASE row \in given
    <3>1. given \cup {row} = given  BY <2>7
    <3>2. \A r \in given : new[r] \in Int  BY <1>1, <2>2, <2>3
    <3>3. SumFunctionOnSet(new, given)
            = SumFunctionOnSet(rows, given) + new[row] - rows[row]
      BY <2>2, <2>3, <2>7, <3>2, SumChange
    <3> QED  BY <1>1, <2>1, <2>4, <2>5, <2>7, <3>1, <3>3
  <2>8. CASE row \notin given
    <3>1. \A r \in given \cup {row} : new[r] \in Int  BY <1>1, <2>2, <2>3
    <3>2. SumFunctionOnSet(new, given \cup {row})
            = new[row] + SumFunctionOnSet(new, given)
      BY <2>2, <2>8, <3>1, SumAdd
    <3>3. SumFunctionOnSet(new, given) = SumFunctionOnSet(rows, given)
      BY <2>2, <2>3, <2>8, SumSame
    <3>4. TotalIn(new) = value + TotalIn(rows) /\ HeldIn(rows, u) = 0
      BY <1>1, <2>1, <2>4, <2>5, <2>8, <3>2, <3>3
    <3> QED  BY <2>6, <3>4
  <2> QED  BY <2>7, <2>8
<1>8. WellFormed(new, ids, last)
  <2>1. /\ IsFiniteSet(DOMAIN new) /\ SupplyRow \in DOMAIN new
        /\ new[SupplyRow] \in [supply : Int, buy_seq : Nat]
    <3>1. IsFiniteSet(DOMAIN rows)  BY DEF WellFormed
    <3>2. IsFiniteSet(DOMAIN rows \cup {row})  BY <3>1, FS_AddElement
    <3> QED  BY <1>1, <1>k, <3>2 DEF WellFormed
  <2>2. \A r, q \in BidRows(new) : new[r].seq = new[q].seq => r = q
    BY <1>2 DEF WellFormed
  <2>3. ASSUME NEW r \in DOMAIN new, r # SupplyRow
        PROVE  \/ \E v \in Users : r = AllocationRow(v) /\ new[r] \in Int
               \/ \E i \in 1 .. ids :
                    /\ r = BidRow(i)
                    /\ new[r] \in [id : {i}, user : Users, volume : Int,
                                   price : I64, seq : 1 .. last]
    <3>1. CASE r = row  BY <1>1, <3>1
    <3>2. CASE r # row
      <4>1. r \in DOMAIN rows /\ new[r] = rows[r]  BY <1>1, <3>2
      <4> QED  BY <2>3, <4>1 DEF WellFormed
    <3> QED  BY <3>1, <3>2
  <2> QED  BY <2>1, <2>2, <2>3 DEF WellFormed
<1>9. new[SupplyRow] = rows[SupplyRow]  BY <1>1, <1>k
<1> QED  BY <1>3, <1>4, <1>5, <1>5a, <1>6, <1>7, <1>8, <1>9 DEF new

\* What a bid adds to the open volume of a user.
OpenOf(b, u) == IF b.user = u /\ b.volume > 0 THEN b.volume ELSE 0

\* The open volume of a user, as a sum over all the bids.
LEMMA OpenFlat ==
    ASSUME NEW rows, NEW ids \in Nat, NEW last \in Nat,
           WellFormed(rows, ids, last), NEW u
    PROVE  /\ OpenIn(rows, u)
                = SumFunctionOnSet([r \in BidRows(rows) |-> OpenOf(rows[r], u)],
                                   BidRows(rows))
           /\ OpenIn(rows, u) \in Int
           /\ \A r \in BidRows(rows) : OpenOf(rows[r], u) \in Int
<1> DEFINE S == BidRows(rows)
           T == {r \in S : rows[r].user = u /\ rows[r].volume > 0}
           f == [r \in S |-> rows[r].volume]
           g == [r \in S |-> OpenOf(rows[r], u)]
<1>1. IsFiniteSet(S)  BY RowsFinite
<1>2. \A r \in S : rows[r].volume \in Int  BY BidValues
<1>3. \A r \in S : OpenOf(rows[r], u) \in Int  BY <1>2 DEF OpenOf
<1>4. T \subseteq S  OBVIOUS
<1>5. \A r \in T : g[r] = f[r]  BY DEF OpenOf
<1>6. \A r \in S \ T : g[r] = 0  BY DEF OpenOf
<1>7. \A r \in S : g[r] \in Int  BY <1>3
<1>8. SumFunctionOnSet(f, T) = OpenIn(rows, u)  BY DEF OpenIn
<1>9. SumFunctionOnSet(g, S) \in Int
  <2> HIDE DEF g, S
  <2> QED  BY <1>1, <1>7, SumInt
<1>10. SumFunctionOnSet(g, S) = SumFunctionOnSet(f, T)
  <2> HIDE DEF f, g, S, T
  <2> QED  BY <1>1, <1>4, <1>5, <1>6, <1>7, SumSupport
<1> QED  BY <1>3, <1>8, <1>9, <1>10

\* No other bid has the sequence number n.
Unnumbered(rows, row, n) ==
    \A r \in BidRows(rows) \ {row} : rows[r].seq # n

\* `new` is `rows` with the bid i put in its place.
BidPut(new, rows, i, value) ==
    /\ new[SupplyRow] = rows[SupplyRow]
    /\ TotalIn(new) = TotalIn(rows)
    /\ \A u : HeldIn(new, u) = HeldIn(rows, u)
    /\ BidsOf(new) = {b \in BidsOf(rows) : b.id # i} \cup {value}
    /\ \A u : OpenIn(new, u) = OpenIn(rows, u) + OpenOf(value, u)
                 - (IF BidRow(i) \in DOMAIN rows
                    THEN OpenOf(rows[BidRow(i)], u) ELSE 0)

\* INSERT INTO bids and UPDATE bids change one bid and nothing else.
LEMMA PutBid ==
    ASSUME NEW rows, NEW ids \in Nat, NEW last \in Nat,
           WellFormed(rows, ids, last),
           NEW more \in Nat, ids <= more, NEW later \in Nat, last <= later,
           NEW i \in 1 .. more,
           NEW value \in [id : {i}, user : Users, volume : Int, price : I64,
                          seq : 1 .. later],
           Unnumbered(rows, BidRow(i), value.seq)
    PROVE  /\ WellFormed(Put(rows, BidRow(i), value), more, later)
           /\ BidPut(Put(rows, BidRow(i), value), rows, i, value)
<1> DEFINE row == BidRow(i)
           new == Put(rows, row, value)
           S == BidRows(rows)
<1>1. /\ DOMAIN new = DOMAIN rows \cup {row} /\ new[row] = value
      /\ \A r \in DOMAIN rows : r # row => new[r] = rows[r]
      /\ SupplyRow \in DOMAIN rows
  BY DEF Put, WellFormed
<1> HIDE DEF new
<1>k. row # SupplyRow /\ row[1] = "bids" /\ row[1] # "allocations"
  BY RowKinds
<1>2. /\ BidRows(new) = S \cup {row} /\ (row \in S <=> row \in DOMAIN rows)
      /\ \A r \in S : r # row => new[r] = rows[r]
  BY <1>1, <1>k DEF BidRows
<1>3. new[SupplyRow] = rows[SupplyRow]  BY <1>1, <1>k
<1>4. ASSUME NEW u  PROVE HeldIn(new, u) = HeldIn(rows, u)
  <2>1. AllocationRow(u) # row  BY RowKinds
  <2> HIDE DEF row
  <2> QED  BY <1>1, <2>1 DEF HeldIn
<1>5. TotalIn(new) = TotalIn(rows)
  <2> DEFINE given == {r \in DOMAIN rows : r[1] = "allocations"}
  <2>1. {r \in DOMAIN new : r[1] = "allocations"} = given  BY <1>1, <1>k
  <2>2. \A r \in given : new[r] = rows[r]  BY <1>1, <1>k
  <2>3. IsFiniteSet(given)  BY RowsFinite
  <2>4. /\ TotalIn(rows) = SumFunctionOnSet(rows, given)
        /\ TotalIn(new) = SumFunctionOnSet(new, given)
    BY <2>1 DEF TotalIn
  <2> HIDE DEF given
  <2> QED  BY <2>2, <2>3, <2>4, SumSame
<1>6. WellFormed(new, more, later)
  <2>1. IsFiniteSet(DOMAIN new)
    <3>1. IsFiniteSet(DOMAIN rows)  BY DEF WellFormed
    <3>2. IsFiniteSet(DOMAIN rows \cup {row})  BY <3>1, FS_AddElement
    <3> QED  BY <1>1, <3>2
  <2>2. SupplyRow \in DOMAIN new /\ new[SupplyRow] \in [supply : Int, buy_seq : Nat]
    BY <1>1, <1>3 DEF WellFormed
  <2>3. WellFormed(rows, more, later)  BY WellFormedUpTo
  <2>4. ASSUME NEW r \in DOMAIN new, r # SupplyRow
        PROVE  \/ \E v \in Users : r = AllocationRow(v) /\ new[r] \in Int
               \/ \E j \in 1 .. more :
                    /\ r = BidRow(j)
                    /\ new[r] \in [id : {j}, user : Users, volume : Int,
                                   price : I64, seq : 1 .. later]
    <3>1. CASE r = row  BY <1>1, <3>1
    <3>2. CASE r # row
      <4>1. r \in DOMAIN rows /\ new[r] = rows[r]  BY <1>1, <3>2
      <4> QED  BY <2>3, <2>4, <4>1 DEF WellFormed
    <3> QED  BY <3>1, <3>2
  <2>5. ASSUME NEW r \in BidRows(new), NEW q \in BidRows(new),
               new[r].seq = new[q].seq
        PROVE  r = q
    <3>1. CASE r # row /\ q # row
      <4>1. r \in S /\ q \in S /\ new[r] = rows[r] /\ new[q] = rows[q]
        BY <1>2, <3>1
      <4> QED  BY <2>5, <4>1 DEF WellFormed
    <3>2. CASE r = row /\ q # row
      <4>1. q \in S \ {row} /\ new[q] = rows[q] /\ new[r] = value
        BY <1>1, <1>2, <3>2
      <4> QED  BY <2>5, <4>1 DEF Unnumbered
    <3>3. CASE r # row /\ q = row
      <4>1. r \in S \ {row} /\ new[r] = rows[r] /\ new[q] = value
        BY <1>1, <1>2, <3>3
      <4> QED  BY <2>5, <4>1 DEF Unnumbered
    <3> QED  BY <3>1, <3>2, <3>3
  <2> QED  BY <2>1, <2>2, <2>4, <2>5 DEF WellFormed
<1>7. BidsOf(new) = {b \in BidsOf(rows) : b.id # i} \cup {value}
  <2>0. ASSUME NEW r \in S
        PROVE  rows[r].id # i <=> r # row
    <3>1. r = BidRow(rows[r].id)  BY BidValues
    <3> QED  BY <3>1, RowKinds
  <2>1. ASSUME NEW b \in BidsOf(new)
        PROVE  b \in {c \in BidsOf(rows) : c.id # i} \cup {value}
    <3>1. PICK r \in BidRows(new) : b = new[r]  BY DEF BidsOf
    <3>2. CASE r = row  BY <1>1, <3>1, <3>2
    <3>3. CASE r # row
      <4>1. r \in S /\ b = rows[r]  BY <1>2, <3>1, <3>3
      <4> QED  BY <2>0, <3>3, <4>1 DEF BidsOf
    <3> QED  BY <3>2, <3>3
  <2>2. value \in BidsOf(new)  BY <1>1, <1>2 DEF BidsOf
  <2>3. ASSUME NEW b \in BidsOf(rows), b.id # i
        PROVE  b \in BidsOf(new)
    <3>1. PICK r \in S : b = rows[r]  BY DEF BidsOf
    <3>2. r \in BidRows(new) /\ new[r] = b  BY <1>2, <2>0, <2>3, <3>1
    <3> QED  BY <3>2 DEF BidsOf
  <2> QED  BY <2>1, <2>2, <2>3
<1>8. ASSUME NEW u
      PROVE  OpenIn(new, u) = OpenIn(rows, u) + OpenOf(value, u)
                - (IF row \in DOMAIN rows THEN OpenOf(rows[row], u) ELSE 0)
  <2> DEFINE f == [r \in S |-> OpenOf(rows[r], u)]
             g == [r \in BidRows(new) |-> OpenOf(new[r], u)]
  <2>1. /\ OpenIn(rows, u) = SumFunctionOnSet(f, S) /\ OpenIn(rows, u) \in Int
        /\ \A r \in S : f[r] \in Int
    BY OpenFlat
  <2>2. /\ OpenIn(new, u) = SumFunctionOnSet(g, BidRows(new))
        /\ \A r \in BidRows(new) : g[r] \in Int
    BY <1>6, OpenFlat
  <2>3. IsFiniteSet(S) /\ BidRows(new) = S \cup {row}  BY <1>2, RowsFinite
  <2>4. \A r \in S \ {row} : g[r] = f[r]  BY <1>2
  <2>5. g[row] = OpenOf(value, u)  BY <1>1, <1>2
  <2>6. row \in S => f[row] = OpenOf(rows[row], u)  OBVIOUS
  <2>7. OpenOf(value, u) \in Int  BY DEF OpenOf
  <2> HIDE DEF f, g, S, row
  <2>8. CASE row \in S
    <3>1. S \cup {row} = S  BY <2>8
    <3>2. SumFunctionOnSet(g, S) = SumFunctionOnSet(f, S) + g[row] - f[row]
      BY <2>1, <2>2, <2>3, <2>4, <2>8, <3>1, SumChange
    <3> QED  BY <1>2, <2>1, <2>2, <2>3, <2>5, <2>6, <2>8, <3>1, <3>2
  <2>9. CASE row \notin S
    <3>1. SumFunctionOnSet(g, S \cup {row}) = g[row] + SumFunctionOnSet(g, S)
      BY <2>2, <2>3, <2>9, SumAdd
    <3>2. SumFunctionOnSet(g, S) = SumFunctionOnSet(f, S)
      BY <2>3, <2>4, <2>9, SumSame
    <3>3. OpenIn(new, u) = OpenOf(value, u) + OpenIn(rows, u)
      BY <2>1, <2>2, <2>3, <2>5, <3>1, <3>2
    <3> QED  BY <1>2, <2>1, <2>7, <2>9, <3>3
  <2> QED  BY <2>8, <2>9
<1>9. BidPut(new, rows, i, value)
  BY <1>3, <1>4, <1>5, <1>7, <1>8 DEF BidPut
<1> QED  BY <1>6, <1>9 DEF new

\* The value of a row of bids with the best price, and of these the oldest,
\* is one of the rows.
LEMMA FirstIsOne ==
    ASSUME NEW rows, NEW ids \in Nat, NEW last \in Nat,
           WellFormed(rows, ids, last),
           NEW some \in SUBSET BidsOf(rows), some # {}
    PROVE  First(some) \in some /\ \A c \in some : c = First(some) \/ Precedes(First(some), c)
<1>1. \A b \in some : b.price \in I64 /\ b.seq \in Nat
  BY BidValues
<1>2. \A b, c \in some : b.seq = c.seq => b = c
  BY BidValues
<1>3. PICK top \in Int : \A b \in some : b.price \in Int /\ b.price <= top
  <2>1. (Modulus + 1) \div 2 - 1 \in Int /\ -(Modulus \div 2) \in Int
    BY PostgresAssumption
  <2> QED  BY <1>1, <2>1 DEF I64
<1>4. \E b \in some : \A c \in some :
          \/ c = b \/ b.price > c.price
          \/ b.price = c.price /\ b.seq < c.seq
  BY <1>1, <1>2, <1>3, BestBid
<1> QED  BY <1>4 DEF First, Precedes

-----------------------------------------------------------------------------
(* What each statement makes of a transaction. *)

\* The tables and the locals are functions; the history counts volumes.
Typed ==
    /\ table = [r \in DOMAIN table |-> table[r]]
    /\ DOMAIN req = Workers /\ DOMAIN supply = Workers /\ DOMAIN seq = Workers
    /\ DOMAIN bid = Workers /\ DOMAIN fetched = Workers
    /\ confirmed \in [sold : Int, bought : [Users -> Int]]

\* The parts of IInv about the committed rows, and about one transaction.
Base ==
    /\ lastId \in Nat
    /\ WellFormed(table, lastId, table[SupplyRow].buy_seq)
    /\ BooksBalance /\ NoIdleSupply
    /\ NoNegatives => Amounts(table) /\ ConfirmedIsKept /\ confirmed.sold <= sold

Task(w) ==
    /\ InPlace(w) /\ Balances(w) /\ PassesNone(w)
    /\ NoNegatives => Accounts(w)

\* The whole invariant.
Invariant == LockOrder /\ Typed /\ Base /\ \A w \in Workers : Task(w)

\* What a task has for itself.
Mine(w) == <<pc[w], req[w], supply[w], seq[w], bid[w], fetched[w], draft[w]>>

\* What a step of w shows about all but the lock order.
Kept(w) ==
    /\ \A v \in Workers \ {w} : Mine(v)' = Mine(v)
    /\ Writing(w) \/ UNCHANGED <<table, lastId, sold>>
    /\ Typed' /\ Base' /\ Task(w)'

\* A number cast to i64 fits it, and one below half the modulus is the same.
LEMMA Casts ==
    /\ I64 \subseteq Int
    /\ \A n \in 0 .. Modulus - 1 :
        /\ AsI64(n) \in I64 /\ AsI64(n) \in Int
        /\ n \in I64 => AsI64(n) = n
<1>1. /\ Modulus \in Nat /\ (Modulus + 1) \div 2 \in Int /\ Modulus \div 2 \in Int
      /\ Modulus = (Modulus + 1) \div 2 + Modulus \div 2
  BY PostgresAssumption
<1>2. I64 \subseteq Int  BY <1>1 DEF I64
<1>3. ASSUME NEW n \in 0 .. Modulus - 1  PROVE AsI64(n) \in I64
  <2>1. CASE n \in I64  BY <2>1 DEF AsI64
  <2>2. CASE n \notin I64
    <3>1. n >= (Modulus + 1) \div 2  BY <1>1, <2>2 DEF I64
    <3>2. AsI64(n) = n - Modulus  BY <2>2 DEF AsI64
    <3>3. n - Modulus >= -(Modulus \div 2) /\ n - Modulus <= -1
      BY <1>1, <3>1
    <3>4. (Modulus + 1) \div 2 - 1 >= -1  BY <1>1
    <3> QED  BY <1>1, <3>2, <3>3, <3>4 DEF I64
  <2> QED  BY <2>1, <2>2
<1> QED  BY <1>2, <1>3 DEF AsI64

\* What a request carries.
LEMMA RequestValues ==
    ASSUME NEW r \in BuyRequest \cup SellRequest
    PROVE  /\ r.op \in {"buy", "sell"}
           /\ r.volume \in Nat /\ AsI64(r.volume) \in Int
           /\ NoNegatives => AsI64(r.volume) = r.volume
           /\ r.op = "buy" => r.user \in Users /\ AsI64(r.price) \in I64
<1>1. r.volume \in Volumes /\ r.op \in {"buy", "sell"}
  BY DEF BuyRequest, SellRequest
<1>2. r.op = "buy" => r.user \in Users /\ r.price \in Prices
  BY DEF BuyRequest, SellRequest
<1>3. /\ Volumes \subseteq 0 .. Modulus - 1 /\ Prices \subseteq 0 .. Modulus - 1
      /\ Modulus \in Nat
  BY PostgresAssumption
<1>4. r.volume \in 0 .. Modulus - 1  BY <1>1, <1>3
<1>4a. \A n \in 0 .. Modulus - 1 : n \in Nat  BY <1>3
<1>5. r.op = "buy" => r.price \in 0 .. Modulus - 1  BY <1>2, <1>3
<1>6. NoNegatives => r.volume \in I64  BY <1>1 DEF NoNegatives
<1> QED  BY <1>1, <1>2, <1>4, <1>4a, <1>5, <1>6, Casts

\* The rows that a transaction sees, and the numbers in them.
LEMMA WritingValues ==
    ASSUME Base, NEW w \in Workers, InPlace(w), Writing(w)
    PROVE  LET V == View(w)
               last == IF pc[w] = "bump" THEN seq[w] ELSE V[SupplyRow].buy_seq
           IN
           /\ last \in Nat /\ WellFormed(V, lastId, last) /\ lastId \in Nat
           /\ V[SupplyRow] \in [supply : Int, buy_seq : Nat]
           /\ TotalIn(V) \in Int /\ sold \in Int
           /\ req[w] \in BuyRequest \cup SellRequest
           /\ req[w].op \in {"buy", "sell"} /\ AsI64(req[w].volume) \in Int
           /\ Buying(w) => AsI64(req[w].price) \in I64 /\ req[w].user \in Users
<1> DEFINE V == View(w)
           last == IF pc[w] = "bump" THEN seq[w] ELSE V[SupplyRow].buy_seq
<1>1. WellFormed(V, lastId, last) /\ lastId \in Nat  BY DEF InPlace, Base
<1>2. V[SupplyRow] \in [supply : Int, buy_seq : Nat]
  BY <1>1 DEF WellFormed
<1>3. pc[w] \notin {"idle", "aborted"}  BY DEF Writing, Working
<1>4. req[w] \in BuyRequest \cup SellRequest  BY <1>3 DEF InPlace
<1>5. /\ req[w].op \in {"buy", "sell"} /\ AsI64(req[w].volume) \in Int
      /\ req[w].op = "buy" => req[w].user \in Users /\ AsI64(req[w].price) \in I64
  BY <1>4, RequestValues
<1>6. last \in Nat
  <2>1. CASE pc[w] = "bump"
    <3>1. Buying(w)  BY <1>5, <2>1 DEF InPlace, Buying, Selling
    <3> QED  BY <1>2, <2>1, <3>1 DEF InPlace
  <2> QED  BY <1>2, <2>1
<1>7. TotalIn(V) \in Int
  <2> HIDE DEF V, last
  <2> QED  BY <1>1, <1>6, RowsFinite
<1>8. sold \in Int
  <2>1. table[SupplyRow] \in [supply : Int, buy_seq : Nat]
    BY DEF Base, WellFormed
  <2>2. TotalIn(table) \in Int  BY <2>1, RowsFinite DEF Base
  <2> QED  BY <2>1, <2>2 DEF Base, BooksBalance, Balance, SupplyLeft
<1> QED  BY <1>1, <1>2, <1>4, <1>5, <1>6, <1>7, <1>8 DEF Buying

\* The committed rows, and the numbers in them.
LEMMA TableValues ==
    ASSUME Base
    PROVE  /\ table[SupplyRow] \in [supply : Int, buy_seq : Nat]
           /\ TotalIn(table) \in Int /\ sold \in Int
           /\ sold = table[SupplyRow].supply + TotalIn(table)
           /\ \A u : HeldIn(table, u) \in Int /\ OpenIn(table, u) \in Int
<1>1. /\ table[SupplyRow] \in [supply : Int, buy_seq : Nat] /\ lastId \in Nat
      /\ WellFormed(table, lastId, table[SupplyRow].buy_seq)
  BY DEF Base, WellFormed
<1>2. TotalIn(table) \in Int  BY <1>1, RowsFinite
<1>3. sold = table[SupplyRow].supply + TotalIn(table)
  BY DEF Base, BooksBalance, Balance, SupplyLeft
<1>4. table[SupplyRow].buy_seq \in Nat  BY <1>1
<1>5. \A u : HeldIn(table, u) \in Int  BY <1>1, <1>4, RowValues
<1>6. \A u : OpenIn(table, u) \in Int  BY <1>1, <1>4, OpenFlat
<1> QED  BY <1>1, <1>2, <1>3, <1>5, <1>6

\* Before its first statement that writes, a transaction sees what is committed.
LEMMA FreshView ==
    ASSUME LockOrder, Typed, NEW w \in Workers, pc[w] \in Fresh
    PROVE  View(w) = table
<1>1. DOMAIN draft[w] = {}  BY DEF LockOrder
<1>2. View(w) = [r \in DOMAIN table |-> table[r]]
  BY <1>1 DEF View, Over
<1>3. table = [r \in DOMAIN table |-> table[r]]
  BY DEF Typed
<1> QED  BY <1>2, <1>3

\* A step of another task changes nothing for one that has not begun to write,
\* and nothing that touches no row and no sum changes any.
LEMMA Bystander ==
    ASSUME NEW v \in Workers, Task(v), Mine(v)' = Mine(v),
           ~Writing(v) \/ UNCHANGED <<table, lastId, sold>>
    PROVE  Task(v)'
<1>1. /\ pc'[v] = pc[v] /\ req'[v] = req[v] /\ supply'[v] = supply[v]
      /\ seq'[v] = seq[v] /\ bid'[v] = bid[v] /\ fetched'[v] = fetched[v]
      /\ draft'[v] = draft[v]
  BY DEF Mine
<1>2. (Writing(v)' <=> Writing(v)) /\ (Buying(v)' <=> Buying(v))
      /\ (Selling(v)' <=> Selling(v))
  BY <1>1 DEF Writing, Buying, Selling
<1>3. CASE ~Writing(v)
  <2>1. pc[v] \notin {"take", "mark", "give", "insert"} /\ ~Buying(v) /\ ~Selling(v)
    BY <1>3 DEF Writing, Working, Buying, Selling
  <2>2. InPlace(v)'  BY <1>1, <1>2, <1>3, <2>1 DEF Task, InPlace
  <2>3. Balances(v)'  BY <1>1, <1>2, <1>3, <2>1 DEF Balances
  <2>4. PassesNone(v)'  BY <1>1, <1>2, <1>3, <2>1 DEF PassesNone
  <2>5. Accounts(v)'  BY <1>1, <1>2, <1>3, <2>1 DEF Accounts
  <2> QED  BY <2>2, <2>3, <2>4, <2>5 DEF Task
<1>4. CASE UNCHANGED <<table, lastId, sold>>
  <2>1. View(v)' = View(v)  BY <1>1, <1>4 DEF View
  <2>2. InPlace(v)'
    BY <1>1, <1>2, <1>4, <2>1 DEF Task, InPlace, Fetched
  <2>3. Balances(v)'
    BY <1>1, <1>2, <1>4, <2>1 DEF Task, Balances, InHand, Fill, Full
  <2>4. PassesNone(v)'
    BY <1>1, <1>2, <1>4, <2>1 DEF Task, PassesNone, Full
  <2>5. ASSUME NoNegatives  PROVE Accounts(v)'
    <3>1. \A u : Owed(v, u)' = Owed(v, u) /\ Asked(v, u)' = Asked(v, u)
      BY <1>1, <1>2 DEF Owed, Asked, Fill, Full
    <3>2. Accounts(v)  BY <2>5 DEF Task
    <3> QED  BY <1>1, <1>2, <1>4, <2>1, <3>1, <3>2 DEF Accounts
  <2> QED  BY <2>2, <2>3, <2>4, <2>5 DEF Task
<1> QED  BY <1>3, <1>4

\* What is committed is as it was.
LEMMA BaseUnmoved ==
    ASSUME Base, UNCHANGED <<table, lastId, sold, confirmed>>
    PROVE  Base'
  BY DEF Base, BooksBalance, Balance, NoIdleSupply, SupplyLeft, ConfirmedIsKept,
         Holds

\* Outside its transaction a task has only its request.
LEMMA Outside ==
    ASSUME NEW w \in Workers, ~(Writing(w)'),
           /\ pc'[w] \notin {"idle", "aborted"} =>
                req'[w] \in BuyRequest \cup SellRequest
           /\ pc'[w] = "lock" => req'[w].op = "buy"
           /\ pc'[w] = "add" => req'[w].op = "sell"
    PROVE  Task(w)'
<1>1. /\ pc'[w] \notin {"take", "mark", "give", "insert"}
      /\ ~(Buying(w)') /\ ~(Selling(w)')
  BY DEF Writing, Working, Buying, Selling
<1>2. InPlace(w)'  BY <1>1 DEF InPlace
<1>3. Balances(w)'  BY <1>1 DEF Balances
<1>4. PassesNone(w)'  BY <1>1 DEF PassesNone
<1>5. Accounts(w)'  BY <1>1 DEF Accounts
<1> QED  BY <1>2, <1>3, <1>4, <1>5 DEF Task

\* A request arrives, gets a connection or none, or loses it, or is rolled back.
LEMMA OutsideKept ==
    ASSUME Invariant, NEW w \in Workers,
           Call(w) \/ Begin(w) \/ BeginFails(w) \/ LoseConnection(w)
             \/ Rollback(w)
    PROVE  Kept(w)
<1>1. /\ UNCHANGED <<table, lastId, sold, confirmed>>
      /\ \E label : pc' = [pc EXCEPT ![w] = label]
  BY DEF Call, Begin, BeginFails, LoseConnection, Rollback, database, ghosts,
         Goto, EndTransaction
<1>2. Typed'
  BY <1>1 DEF Invariant, Typed, Call, Begin, BeginFails, LoseConnection,
     Rollback, EndTransaction
<1>d. /\ DOMAIN pc = Workers /\ DOMAIN draft = Workers /\ DOMAIN req = Workers
      /\ DOMAIN supply = Workers /\ DOMAIN seq = Workers /\ DOMAIN bid = Workers
      /\ DOMAIN fetched = Workers
  BY DEF Invariant, LockOrder, Typed
<1>3. ASSUME NEW v \in Workers \ {w}  PROVE Mine(v)' = Mine(v)
  <2>1. pc'[v] = pc[v]  BY <1>1, <1>d
  <2>2. /\ req'[v] = req[v] /\ supply'[v] = supply[v] /\ seq'[v] = seq[v]
        /\ bid'[v] = bid[v] /\ fetched'[v] = fetched[v] /\ draft'[v] = draft[v]
    BY <1>d DEF Call, Begin, BeginFails, LoseConnection, Rollback,
       EndTransaction, session
  <2> QED  BY <2>1, <2>2 DEF Mine
<1>4. Base'  BY <1>1, BaseUnmoved DEF Invariant
<1>5. Task(w)'
  <2>1. /\ DOMAIN pc = Workers /\ DOMAIN req = Workers
        /\ pc[w] \notin {"idle", "aborted"} => req[w] \in BuyRequest \cup SellRequest
    BY DEF Invariant, LockOrder, Typed, Task, InPlace
  <2>2. CASE Call(w)
    <3>1. pc'[w] = "begin" /\ req'[w] \in BuyRequest \cup SellRequest
      BY <2>1, <2>2 DEF Call, Goto
    <3>2. ~(Writing(w)')  BY <3>1 DEF Writing, Working
    <3> QED  BY <3>1, <3>2, Outside
  <2>3. CASE Begin(w)
    <3>1. /\ pc[w] = "begin" /\ req'[w] = req[w]
          /\ pc'[w] = IF req[w].op = "buy" THEN "lock" ELSE "add"
      BY <2>1, <2>3 DEF Begin, Goto, At
    <3>2. req[w] \in BuyRequest \cup SellRequest /\ req[w].op \in {"buy", "sell"}
      BY <2>1, <3>1, RequestValues
    <3>3. ~(Writing(w)')  BY <3>1 DEF Writing, Working
    <3> QED  BY <3>1, <3>2, <3>3, Outside
  <2>4. CASE BeginFails(w) \/ LoseConnection(w) \/ Rollback(w)
    <3>1. pc'[w] \in {"idle", "aborted"}
      BY <2>1, <2>4 DEF BeginFails, LoseConnection, Rollback, EndTransaction, Goto
    <3>2. ~(Writing(w)')  BY <3>1 DEF Writing, Working
    <3> QED  BY <3>1, <3>2, Outside
  <2> QED  BY <2>2, <2>3, <2>4
<1> QED  BY <1>1, <1>2, <1>3, <1>4, <1>5 DEF Kept

\* A statement that waits for its row and then fails or writes it: it fails and
\* nothing but the place of the task changes, or the view has the row's value.
LEMMA UpdateEffect ==
    ASSUME Invariant, NEW w \in Workers, NEW row, NEW value, NEW n, NEW next,
           Update(w, row, value, n, next),
           UNCHANGED <<table, lastId, req, supply, seq, bid, fetched, sold, confirmed>>
    PROVE  /\ \A v \in Workers \ {w} : Mine(v)' = Mine(v)
           /\ Typed' /\ Base'
           /\ \/ Task(w)'
              \/ /\ n \in I64 /\ pc'[w] = next
                 /\ View(w)' = Put(View(w), row, value)
<1>1. DOMAIN pc = Workers /\ DOMAIN draft = Workers /\ DOMAIN locks = Workers
  BY DEF Invariant, LockOrder
<1>2. \A v \in Workers \ {w} : Mine(v)' = Mine(v)
  BY <1>1 DEF Update, Mine, session, Goto
<1>3. Typed' /\ Base'  BY BaseUnmoved DEF Invariant, Typed
<1>4. CASE FitsBigint(n)
  BY <1>1, <1>2, <1>3, <1>4, ViewPut DEF Update, Goto, FitsBigint
<1>5. CASE ~FitsBigint(n)
  <2>1. pc'[w] = "aborted"  BY <1>1, <1>5 DEF Update, Goto
  <2>2. ~(Writing(w)')  BY <2>1 DEF Writing, Working
  <2>3. Task(w)'  BY <2>1, <2>2, Outside
  <2> QED  BY <1>2, <1>3, <2>3
<1> QED  BY <1>4, <1>5

\* buy reads the supply and knows what it wants.
LEMMA LockSupplyKept ==
    ASSUME Invariant, NEW w \in Workers, LockSupply(w)
    PROVE  Kept(w)
<1>d. /\ DOMAIN pc = Workers /\ DOMAIN supply = Workers /\ DOMAIN seq = Workers
      /\ DOMAIN bid = Workers /\ Base /\ Task(w)
  BY DEF Invariant, LockOrder, Typed
<1>1. /\ pc[w] = "lock" /\ UNCHANGED <<table, lastId, draft, req, fetched, sold,
                                        confirmed>>
      /\ View(w)' = View(w)
  BY DEF LockSupply, At, database, ghosts, View
<1>2. View(w) = table  BY <1>1, FreshView DEF Invariant, Fresh
<1>3. /\ supply'[w] = table[SupplyRow].supply
      /\ seq'[w] = table[SupplyRow].buy_seq + 1
      /\ bid'[w] = [user |-> req[w].user, price |-> AsI64(req[w].price),
                    volume |-> AsI64(req[w].volume)]
      /\ pc'[w] = IF table[SupplyRow].supply <= 0 THEN "insert" ELSE "take"
  BY <1>d, <1>2 DEF LockSupply, Goto
<1>4. \A v \in Workers \ {w} : Mine(v)' = Mine(v)
  BY <1>d, <1>1 DEF LockSupply, Goto, Mine
<1>5. Typed' /\ Base'
  <2>1. Typed'  BY <1>1 DEF LockSupply, Invariant, Typed
  <2> QED  BY <1>1, <1>d, <2>1, BaseUnmoved
<1>6. /\ req[w] \in BuyRequest \cup SellRequest /\ req[w].op = "buy"
  BY <1>d, <1>1 DEF Task, InPlace
<1>7. /\ Writing(w)' /\ Buying(w)' /\ ~(Selling(w)')
      /\ pc'[w] \in {"insert", "take"}
  BY <1>1, <1>3, <1>6 DEF Writing, Buying, Selling, Working
<1>8. /\ AsI64(req[w].volume) \in Int /\ table[SupplyRow].supply \in Int
      /\ table[SupplyRow].buy_seq \in Nat /\ TotalIn(table) \in Int
      /\ sold = table[SupplyRow].supply + TotalIn(table)
      /\ \A u : HeldIn(table, u) \in Int /\ OpenIn(table, u) \in Int
      /\ NoNegatives => AsI64(req[w].volume) >= 0
  BY <1>6, <1>d, RequestValues, TableValues
<1>9. WellFormed(table, lastId, table[SupplyRow].buy_seq)  BY <1>d DEF Base
<1>10. InPlace(w)'
  BY <1>1, <1>2, <1>3, <1>6, <1>7, <1>8, <1>9 DEF InPlace
<1>11. Balances(w)'
  BY <1>1, <1>2, <1>3, <1>6, <1>7, <1>8 DEF Balances, InHand
<1>12. PassesNone(w)'
  <2>1. table[SupplyRow].supply > 0 => OpenBids(table) = {}
    BY <1>d DEF Base, NoIdleSupply, SupplyLeft
  <2>2. /\ pc'[w] = "insert" => table[SupplyRow].supply <= 0
        /\ pc'[w] = "take" => table[SupplyRow].supply > 0
    BY <1>3, <1>8
  <2> QED  BY <1>1, <1>2, <1>7, <2>1, <2>2 DEF PassesNone
<1>13. ASSUME NoNegatives  PROVE Accounts(w)'
  <2>1. Amounts(table) /\ table[SupplyRow].supply >= 0
    BY <1>13, <1>d DEF Base, Amounts
  <2>2. bid'[w].volume = AsI64(req[w].volume)  BY <1>3
  <2>3. ASSUME NEW u
        PROVE  Owed(w, u)' = IF req[w].user = u THEN bid'[w].volume ELSE 0
    <3>1. CASE pc'[w] = "take"
      BY <1>1, <1>7, <3>1 DEF Owed
    <3>2. CASE pc'[w] = "insert"
      <4>1. supply'[w] <= 0  BY <1>3, <1>8, <3>2
      <4> QED  BY <1>1, <1>7, <3>2, <4>1 DEF Owed
    <3> QED  BY <1>7, <3>1, <3>2
  <2>4. \A u : Asked(w, u)' = IF req[w].user = u THEN AsI64(req[w].volume) ELSE 0
    BY <1>1, <1>7 DEF Asked
  <2>5. \A u : Asked(w, u)' = Owed(w, u)' /\ Owed(w, u)' \in Int
    BY <1>8, <2>2, <2>3, <2>4
  <2>6. pc'[w] = "insert" => supply'[w] = 0
    BY <1>3, <1>8, <2>1
  <2>7. supply'[w] >= 0 /\ bid'[w].volume >= 0  BY <1>3, <1>8, <1>13, <2>1
  <2> QED
    BY <1>1, <1>2, <1>8, <2>1, <2>5, <2>6, <2>7 DEF Accounts
<1> QED
  BY <1>1, <1>4, <1>5, <1>10, <1>11, <1>12, <1>13 DEF Kept, Task

\* sell adds its volume to the supply.
LEMMA AddSupplyKept ==
    ASSUME Invariant, NEW w \in Workers, AddSupply(w)
    PROVE  Kept(w)
<1> DEFINE total == View(w)[SupplyRow].supply + AsI64(req[w].volume)
           value == [View(w)[SupplyRow] EXCEPT !.supply = total]
<1>1. /\ pc[w] = "add" /\ Base /\ Task(w)
      /\ UNCHANGED <<table, lastId, req, supply, seq, bid, fetched, sold, confirmed>>
  BY DEF AddSupply, At, database, ghosts, Invariant
<1>u. Update(w, SupplyRow, value, total, "select")
  BY Zenon DEF AddSupply
<1> HIDE DEF total, value
<1>2. /\ \A v \in Workers \ {w} : Mine(v)' = Mine(v)
      /\ Typed' /\ Base'
      /\ \/ Task(w)'
         \/ pc'[w] = "select" /\ View(w)' = Put(View(w), SupplyRow, value)
  BY <1>1, <1>u, UpdateEffect
<1>3. CASE Task(w)'  BY <1>1, <1>2, <1>3 DEF Kept
<1>4. CASE pc'[w] = "select" /\ View(w)' = Put(View(w), SupplyRow, value)
  <2>1. View(w) = table  BY <1>1, FreshView DEF Invariant, Fresh
  <2>2. req[w] \in BuyRequest \cup SellRequest /\ req[w].op = "sell"
    BY <1>1 DEF Task, InPlace
  <2>3. /\ AsI64(req[w].volume) \in Int /\ table[SupplyRow].supply \in Int
        /\ table[SupplyRow] \in [supply : Int, buy_seq : Nat]
        /\ TotalIn(table) \in Int
        /\ sold = table[SupplyRow].supply + TotalIn(table)
        /\ \A u : HeldIn(table, u) \in Int /\ OpenIn(table, u) \in Int
        /\ NoNegatives => AsI64(req[w].volume) >= 0
    BY <1>1, <2>2, RequestValues, TableValues
  <2>4. /\ value \in [supply : Int, buy_seq : Nat] /\ value.supply = total
        /\ value.buy_seq = table[SupplyRow].buy_seq
        /\ total = table[SupplyRow].supply + AsI64(req[w].volume)
    BY <2>1, <2>3 DEF value, total
  <2>5. WellFormed(table, lastId, table[SupplyRow].buy_seq) /\ lastId \in Nat
    BY <1>1 DEF Base
  <2>6. /\ WellFormed(View(w)', lastId, table[SupplyRow].buy_seq)
        /\ View(w)'[SupplyRow] = value
        /\ BidsOf(View(w)') = BidsOf(table)
        /\ TotalIn(View(w)') = TotalIn(table)
        /\ \A u : HeldIn(View(w)', u) = HeldIn(table, u)
        /\ \A u : OpenIn(View(w)', u) = OpenIn(table, u)
    BY <1>4, <2>1, <2>3, <2>4, <2>5, PutSupply
  <2>7. Writing(w)' /\ ~(Buying(w)') /\ Selling(w)'
    BY <1>1, <1>4, <2>2 DEF Writing, Buying, Selling, Working
  <2>8. InPlace(w)'
    BY <1>1, <1>4, <2>2, <2>4, <2>6, <2>7 DEF InPlace
  <2>9. Balances(w)'
    BY <1>1, <1>4, <2>2, <2>3, <2>4, <2>6 DEF Balances, InHand
  <2>10. PassesNone(w)'
    BY <1>4, <2>7 DEF PassesNone
  <2>11. ASSUME NoNegatives  PROVE Accounts(w)'
    <3>1. Amounts(table)  BY <1>1, <2>11 DEF Base
    <3>2. Amounts(View(w)')  BY <2>3, <2>4, <2>6, <2>11, <3>1 DEF Amounts
    <3>3. \A u : Owed(w, u)' = 0 /\ Asked(w, u)' = 0
      BY <1>4, <2>7 DEF Owed, Asked
    <3> QED  BY <1>1, <1>4, <2>3, <2>6, <3>2, <3>3 DEF Accounts
  <2> QED
    BY <1>1, <1>2, <2>8, <2>9, <2>10, <2>11 DEF Kept, Task
<1> QED  BY <1>2, <1>3, <1>4

\* What a selling transaction has in its view, and in its books.
LEMMA SellingValues ==
    ASSUME Invariant, NEW w \in Workers,
           pc[w] \in {"select", "next", "mark"}
    PROVE  /\ Base /\ Task(w) /\ Writing(w) /\ Selling(w) /\ ~Buying(w)
           /\ req[w].op = "sell" /\ req[w] \in BuyRequest \cup SellRequest
           /\ View(w)[SupplyRow] \in [supply : Int, buy_seq : Nat]
           /\ WellFormed(View(w), lastId, View(w)[SupplyRow].buy_seq)
           /\ lastId \in Nat
           /\ TotalIn(View(w)) \in Int /\ sold \in Int
           /\ AsI64(req[w].volume) \in Int
           /\ \A u : Asked(w, u) = 0
<1>1. Base /\ Task(w) /\ InPlace(w)  BY DEF Invariant, Task
<1>2. Writing(w)  BY DEF Writing, Working
<1>3. req[w].op = "sell"
  <2>1. req[w].op \in {"buy", "sell"}  BY <1>1, <1>2, WritingValues
  <2> QED  BY <1>1, <1>2, <2>1 DEF InPlace, Buying
<1>4. Selling(w) /\ ~Buying(w)  BY <1>2, <1>3 DEF Buying, Selling
<1>5. \A u : Asked(w, u) = 0  BY <1>4 DEF Asked
<1>6. pc[w] # "bump"  OBVIOUS
<1> QED  BY <1>1, <1>2, <1>3, <1>4, <1>5, <1>6, WritingValues

\* sell fetches the open bids it sees.
LEMMA SelectBidsKept ==
    ASSUME Invariant, NEW w \in Workers, SelectBids(w)
    PROVE  Kept(w)
<1>d. DOMAIN pc = Workers /\ DOMAIN fetched = Workers
  BY DEF Invariant, LockOrder, Typed
<1>1. /\ pc[w] = "select" /\ pc'[w] = "next"
      /\ UNCHANGED <<table, lastId, draft, req, supply, seq, bid, sold, confirmed>>
      /\ View(w)' = View(w) /\ fetched'[w] = OpenBids(View(w))
  BY <1>d DEF SelectBids, At, Goto, database, ghosts, View
<1>2. \A v \in Workers \ {w} : Mine(v)' = Mine(v)
  BY <1>d, <1>1 DEF SelectBids, Goto, Mine
<1>3. Typed'
  BY <1>1 DEF SelectBids, Invariant, Typed
<1>4. /\ Base /\ Task(w) /\ Writing(w) /\ Selling(w) /\ ~Buying(w)
      /\ req[w].op = "sell" /\ req[w] \in BuyRequest \cup SellRequest
      /\ WellFormed(View(w), lastId, View(w)[SupplyRow].buy_seq)
  BY <1>1, SellingValues
<1>5. Base'  BY <1>1, <1>4, BaseUnmoved
<1>6. Writing(w)' /\ ~(Buying(w)') /\ Selling(w)'
  BY <1>1, <1>4 DEF Writing, Buying, Selling, Working
<1>7. InPlace(w)'
  BY <1>1, <1>4, <1>6 DEF InPlace, Fetched
<1>8. Balances(w)'
  BY <1>1, <1>4 DEF Balances, InHand, Task
<1>9. PassesNone(w)'
  BY <1>1, <1>6 DEF PassesNone
<1>10. ASSUME NoNegatives  PROVE Accounts(w)'
  <2>1. \A u : Owed(w, u)' = 0 /\ Asked(w, u)' = 0 /\ Owed(w, u) = 0 /\ Asked(w, u) = 0
    BY <1>1, <1>4, <1>6 DEF Owed, Asked
  <2>2. Accounts(w)  BY <1>4, <1>10 DEF Task
  <2> QED  BY <1>1, <1>4, <2>1, <2>2 DEF Accounts
<1> QED
  BY <1>2, <1>3, <1>4, <1>5, <1>7, <1>8, <1>9, <1>10 DEF Kept, Task

\* sell takes the best of the bids it has fetched.
LEMMA NextBidKept ==
    ASSUME Invariant, NEW w \in Workers, NextBid(w)
    PROVE  Kept(w)
<1>d. /\ DOMAIN pc = Workers /\ DOMAIN fetched = Workers
      /\ DOMAIN supply = Workers /\ DOMAIN bid = Workers
  BY DEF Invariant, LockOrder, Typed
<1> DEFINE b == First(fetched[w])
<1>1. /\ pc[w] = "next" /\ fetched[w] # {}
      /\ UNCHANGED <<table, lastId, draft, req, seq, sold, confirmed>>
      /\ View(w)' = View(w)
  BY DEF NextBid, At, database, ghosts, View
<1>1a. /\ supply'[w] = View(w)[SupplyRow].supply
       /\ bid'[w] = b /\ fetched'[w] = fetched[w] \ {b}
       /\ pc'[w] = IF supply'[w] = 0 THEN "commit" ELSE "take"
  BY <1>d DEF NextBid, Goto
<1>2. \A v \in Workers \ {w} : Mine(v)' = Mine(v)
  BY <1>d, <1>1 DEF NextBid, Goto, Mine
<1>3. Typed'
  BY <1>1 DEF NextBid, Invariant, Typed
<1>4. /\ Base /\ Task(w) /\ Writing(w) /\ Selling(w) /\ ~Buying(w)
      /\ req[w].op = "sell" /\ req[w] \in BuyRequest \cup SellRequest
      /\ View(w)[SupplyRow] \in [supply : Int, buy_seq : Nat]
      /\ WellFormed(View(w), lastId, View(w)[SupplyRow].buy_seq)
      /\ lastId \in Nat
  BY <1>1, SellingValues
<1>5. Base'  BY <1>1, <1>4, BaseUnmoved
<1>6. Writing(w)' /\ ~(Buying(w)') /\ Selling(w)'
  BY <1>1, <1>1a, <1>4 DEF Writing, Buying, Selling, Working
<1>7. fetched[w] \subseteq OpenBids(View(w))
  BY <1>1, <1>4 DEF Task, InPlace, Fetched
<1>8. b \in fetched[w]
  <2>1. fetched[w] \in SUBSET BidsOf(View(w))  BY <1>7 DEF OpenBids
  <2>2. View(w)[SupplyRow].buy_seq \in Nat  BY <1>4
  <2> QED  BY <1>1, <1>4, <2>1, <2>2, FirstIsOne
<1> HIDE DEF b
<1>9. b \in BidsOf(View(w)) /\ b.volume > 0  BY <1>7, <1>8 DEF OpenBids
<1>10. b.user \in Users /\ b.volume \in Int
  <2>2. View(w)[SupplyRow].buy_seq \in Nat  BY <1>4
  <2> QED  BY <1>4, <1>9, <2>2, BidValues
<1>11. supply'[w] \in Int  BY <1>1a, <1>4
<1>12. InPlace(w)'
  <2>1. Fetched(w)'  BY <1>1, <1>1a, <1>7, <1>8 DEF Fetched
  <2> QED
    BY <1>1, <1>1a, <1>4, <1>6, <1>10, <1>11, <2>1 DEF InPlace
<1>13. Balances(w)'
  BY <1>1, <1>1a, <1>4 DEF Balances, InHand, Task
<1>14. PassesNone(w)'
  <2>1. View(w)[SupplyRow].supply > 0 => OpenBids(View(w)) = fetched[w]
    BY <1>1, <1>4 DEF Task, PassesNone
  <2>2. View(w)[SupplyRow].supply > 0 =>
            /\ OpenBids(View(w)) = fetched'[w] \cup {bid'[w]}
            /\ pc'[w] = "take"
    BY <1>1a, <1>8, <2>1
  <2> QED  BY <1>1, <1>1a, <1>6, <2>2 DEF PassesNone
<1>15. ASSUME NoNegatives  PROVE Accounts(w)'
  <2>1. \A u : Owed(w, u)' = 0 /\ Asked(w, u)' = 0 /\ Owed(w, u) = 0 /\ Asked(w, u) = 0
    BY <1>1, <1>1a, <1>4, <1>6 DEF Owed, Asked
  <2>2. Accounts(w)  BY <1>4, <1>15 DEF Task
  <2>3. supply'[w] >= 0  BY <1>1a, <1>4, <2>2 DEF Accounts, Amounts
  <2>4. bid'[w].volume >= 0  BY <1>1a, <1>9, <1>10
  <2> QED  BY <1>1, <1>1a, <1>4, <2>1, <2>2, <2>3, <2>4 DEF Accounts
<1> QED
  BY <1>2, <1>3, <1>4, <1>5, <1>12, <1>13, <1>14, <1>15 DEF Kept, Task

\* sell has visited all the bids it fetched.
LEMMA EndLoopKept ==
    ASSUME Invariant, NEW w \in Workers, EndLoop(w)
    PROVE  Kept(w)
<1>d. DOMAIN pc = Workers
  BY DEF Invariant, LockOrder
<1>1. /\ pc[w] = "next" /\ pc'[w] = "commit" /\ fetched[w] = {}
      /\ UNCHANGED <<table, lastId, draft, req, supply, seq, bid, fetched, sold,
                     confirmed>>
      /\ View(w)' = View(w)
  BY <1>d DEF EndLoop, At, Goto, database, ghosts, session, View
<1>2. \A v \in Workers \ {w} : Mine(v)' = Mine(v)
  BY <1>d, <1>1 DEF EndLoop, Goto, Mine
<1>3. Typed'
  BY <1>1 DEF Invariant, Typed
<1>4. /\ Base /\ Task(w) /\ Writing(w) /\ Selling(w) /\ ~Buying(w)
      /\ req[w].op = "sell" /\ req[w] \in BuyRequest \cup SellRequest
      /\ WellFormed(View(w), lastId, View(w)[SupplyRow].buy_seq)
  BY <1>1, SellingValues
<1>5. Base'  BY <1>1, <1>4, BaseUnmoved
<1>6. Writing(w)' /\ ~(Buying(w)') /\ Selling(w)'
  BY <1>1, <1>4 DEF Writing, Buying, Selling, Working
<1>7. InPlace(w)'
  BY <1>1, <1>4, <1>6 DEF InPlace
<1>8. Balances(w)'
  BY <1>1, <1>4 DEF Balances, InHand, Task
<1>9. PassesNone(w)'
  <2>1. View(w)[SupplyRow].supply > 0 => OpenBids(View(w)) = fetched[w]
    BY <1>1, <1>4 DEF Task, PassesNone
  <2> QED  BY <1>1, <1>6, <2>1 DEF PassesNone
<1>10. ASSUME NoNegatives  PROVE Accounts(w)'
  <2>1. \A u : Owed(w, u)' = 0 /\ Asked(w, u)' = 0 /\ Owed(w, u) = 0 /\ Asked(w, u) = 0
    BY <1>1, <1>4, <1>6 DEF Owed, Asked
  <2>2. Accounts(w)  BY <1>4, <1>10 DEF Task
  <2> QED  BY <1>1, <1>4, <2>1, <2>2 DEF Accounts
<1> QED
  BY <1>2, <1>3, <1>4, <1>5, <1>7, <1>8, <1>9, <1>10 DEF Kept, Task

\* The fill of a bid takes what Fill says from the supply and from the bid.
LEMMA FillParts ==
    ASSUME NEW w \in Workers, supply[w] \in Int, bid[w].volume \in Int
    PROVE  /\ Fill(w) \in Int
           /\ Full(w) => Fill(w) = bid[w].volume
           /\ ~Full(w) => Fill(w) = supply[w] /\ supply[w] < bid[w].volume
  BY DEF Fill, Full

\* UPDATE supply_state, by either handler, takes the fill from the supply.
LEMMA TakeKept ==
    ASSUME Invariant, NEW w \in Workers, Take(w)
    PROVE  Kept(w)
<1> DEFINE V == View(w)
           left == IF Full(w) THEN V[SupplyRow].supply - bid[w].volume ELSE 0
           value == [V[SupplyRow] EXCEPT !.supply = left]
           next == IF req[w].op = "buy" THEN "give" ELSE "mark"
<1>1. /\ pc[w] = "take" /\ Base /\ Task(w) /\ Writing(w) /\ InPlace(w)
      /\ UNCHANGED <<table, lastId, req, supply, seq, bid, fetched, sold, confirmed>>
  BY DEF Take, At, database, ghosts, Invariant, Task, Writing, Working
<1>u. Update(w, SupplyRow, value, left, next)
  BY DEF Take
<1>2. /\ WellFormed(V, lastId, V[SupplyRow].buy_seq) /\ lastId \in Nat
      /\ V[SupplyRow] \in [supply : Int, buy_seq : Nat]
      /\ TotalIn(V) \in Int /\ sold \in Int
      /\ req[w] \in BuyRequest \cup SellRequest
      /\ req[w].op \in {"buy", "sell"} /\ AsI64(req[w].volume) \in Int
  <2>1. pc[w] # "bump"  BY <1>1
  <2> QED  BY <1>1, <2>1, WritingValues
<1>3. supply[w] \in Int /\ bid[w].volume \in Int
  <2>1. Buying(w) \/ Selling(w)  BY <1>1, <1>2 DEF Buying, Selling
  <2> QED  BY <1>1, <1>2, <2>1 DEF InPlace
<1>4. supply[w] = V[SupplyRow].supply  BY <1>1 DEF Task, Balances
<1>5. left = V[SupplyRow].supply - Fill(w) /\ left \in Int /\ Fill(w) \in Int
      /\ (~Full(w) => left = 0)
  BY <1>2, <1>3, <1>4, FillParts
<1>6. /\ value \in [supply : Int, buy_seq : Nat] /\ value.supply = left
      /\ value.buy_seq = V[SupplyRow].buy_seq
  BY <1>2, <1>5
<1>s. V = View(w)  OBVIOUS
<1> HIDE DEF left, value, next, V
<1>7. /\ \A v \in Workers \ {w} : Mine(v)' = Mine(v)
      /\ Typed' /\ Base'
      /\ \/ Task(w)'
         \/ pc'[w] = next /\ View(w)' = Put(V, SupplyRow, value)
  BY <1>1, <1>u, <1>s, UpdateEffect
<1>8. CASE Task(w)'  BY <1>1, <1>7, <1>8 DEF Kept
<1>9. CASE pc'[w] = next /\ View(w)' = Put(V, SupplyRow, value)
  <2>1. /\ WellFormed(View(w)', lastId, V[SupplyRow].buy_seq)
        /\ View(w)'[SupplyRow] = value
        /\ BidsOf(View(w)') = BidsOf(V)
        /\ OpenBids(View(w)') = OpenBids(V)
        /\ TotalIn(View(w)') = TotalIn(V)
        /\ \A u : HeldIn(View(w)', u) = HeldIn(V, u)
        /\ \A u : OpenIn(View(w)', u) = OpenIn(V, u)
    <3>1. V[SupplyRow].buy_seq \in Nat  BY <1>2
    <3> QED  BY <1>2, <1>6, <1>9, <3>1, PutSupply
  <2>2. /\ pc'[w] \in {"give", "mark"}
        /\ pc'[w] = "give" <=> req[w].op = "buy"
    BY <1>9 DEF next
  <2>3. /\ Writing(w)' /\ (Buying(w)' <=> Buying(w)) /\ (Selling(w)' <=> Selling(w))
        /\ (Buying(w) <=> req[w].op = "buy") /\ (Selling(w) <=> req[w].op = "sell")
    BY <1>1, <2>2 DEF Writing, Buying, Selling, Working
  <2>4. /\ Fill(w)' = Fill(w) /\ (Full(w)' <=> Full(w))
    BY <1>1 DEF Fill, Full
  <2>5. InPlace(w)'
    <3>1. Selling(w) => Fetched(w)'
      BY <1>1, <1>s, <2>1 DEF InPlace, Fetched
    <3> QED  BY <1>1, <1>2, <1>6, <1>s, <2>1, <2>2, <2>3, <3>1 DEF InPlace
  <2>6. Balances(w)'
    <3>1. V[SupplyRow].supply + TotalIn(V)
            = sold + (IF req[w].op = "sell" THEN AsI64(req[w].volume) ELSE 0)
      BY <1>1, <1>2, <1>s DEF Task, Balances, InHand
    <3>2. InHand(w)' = Fill(w)  BY <2>2, <2>4 DEF InHand
    <3>3. View(w)'[SupplyRow].supply = V[SupplyRow].supply - Fill(w)
      BY <1>5, <1>6, <2>1
    <3>4. View(w)'[SupplyRow].supply + TotalIn(View(w)') + InHand(w)'
            = V[SupplyRow].supply + TotalIn(V)
      BY <1>2, <1>5, <2>1, <3>2, <3>3
    <3>5. pc'[w] # "take"  BY <2>2
    <3> QED  BY <1>1, <3>1, <3>4, <3>5 DEF Balances
  <2>7. PassesNone(w)'
    <3>1. ~(Full(w)') => View(w)'[SupplyRow].supply = 0
      BY <1>5, <1>6, <2>1, <2>4
    <3>2. View(w)'[SupplyRow].supply > 0 => V[SupplyRow].supply > 0
      <4>1. CASE Buying(w)  BY <1>1, <1>s, <4>1 DEF Task, PassesNone
      <4>2. CASE Selling(w)
        <5>1. bid[w].volume > 0
          BY <1>1, <4>2 DEF InPlace, Fetched, OpenBids
        <5>2. Full(w) => left < V[SupplyRow].supply
          BY <1>2, <1>3, <1>5, <5>1, FillParts
        <5> QED  BY <1>2, <1>5, <1>6, <2>1, <5>2
      <4> QED  BY <1>2, <2>3, <4>1, <4>2
    <3>3. V[SupplyRow].supply > 0 =>
            /\ Buying(w) => OpenBids(V) = {}
            /\ Selling(w) => OpenBids(V) = fetched[w] \cup {bid[w]}
      BY <1>1, <1>s DEF Task, PassesNone
    <3>4. pc'[w] = "give" => Buying(w) /\ ~Selling(w)  BY <2>2, <2>3
    <3>5. pc'[w] = "mark" => ~Buying(w)  BY <2>2, <2>3
    <3> QED  BY <1>1, <2>1, <2>2, <2>3, <3>1, <3>2, <3>3, <3>4, <3>5 DEF PassesNone
  <2>8. ASSUME NoNegatives  PROVE Accounts(w)'
    <3>1. Accounts(w) /\ Amounts(V)  BY <1>1, <1>s, <2>8 DEF Task, Accounts
    <3>2. left >= 0  BY <1>2, <1>3, <1>4, <1>5, FillParts DEF Full
    <3>3. Amounts(View(w)')  BY <1>6, <2>1, <3>1, <3>2 DEF Amounts
    <3>4. ASSUME NEW u  PROVE Owed(w, u)' = Owed(w, u) /\ Asked(w, u)' = Asked(w, u)
      <4>1. Asked(w, u)' = Asked(w, u)  BY <1>1, <2>3 DEF Asked
      <4>2. CASE Buying(w)
        <5>1. pc'[w] = "give"  BY <2>2, <2>3, <4>2
        <5> QED  BY <1>1, <2>3, <4>1, <4>2, <5>1 DEF Owed
      <4>3. CASE ~Buying(w)
        <5>1. pc'[w] = "mark"  BY <1>2, <2>2, <2>3, <4>3
        <5> QED  BY <1>1, <2>3, <4>1, <4>3, <5>1 DEF Owed
      <4> QED  BY <4>2, <4>3
    <3> QED  BY <1>1, <1>s, <2>1, <2>2, <3>1, <3>3, <3>4 DEF Accounts
  <2> QED  BY <1>1, <1>7, <2>5, <2>6, <2>7, <2>8 DEF Kept, Task
<1> QED  BY <1>7, <1>8, <1>9

\* UPDATE bids takes the fill from the bid that sell visits.
LEMMA MarkBidKept ==
    ASSUME Invariant, NEW w \in Workers, MarkBid(w)
    PROVE  Kept(w)
<1> DEFINE V == View(w)
           b == bid[w]
           row == BidRow(b.id)
           left == IF Full(w) THEN 0 ELSE V[row].volume - supply[w]
           value == [V[row] EXCEPT !.volume = left]
<1>1. /\ pc[w] = "mark"
      /\ UNCHANGED <<table, lastId, req, supply, seq, bid, fetched, sold, confirmed>>
  BY DEF MarkBid, At, database, ghosts
<1>u. Update(w, row, value, left, "give")
  BY DEF MarkBid
<1>2. /\ Base /\ Task(w) /\ Writing(w) /\ Selling(w) /\ ~Buying(w)
      /\ req[w].op = "sell" /\ req[w] \in BuyRequest \cup SellRequest
      /\ V[SupplyRow] \in [supply : Int, buy_seq : Nat]
      /\ WellFormed(V, lastId, V[SupplyRow].buy_seq)
      /\ lastId \in Nat
      /\ TotalIn(V) \in Int /\ sold \in Int
      /\ AsI64(req[w].volume) \in Int
      /\ \A u : Asked(w, u) = 0
  BY <1>1, SellingValues
<1>3. /\ fetched[w] \subseteq OpenBids(V) /\ b \notin fetched[w]
      /\ b \in OpenBids(V) /\ supply[w] \in Int
      /\ b.user \in Users /\ b.volume \in Int
  BY <1>1, <1>2 DEF Task, InPlace, Fetched
<1>s. V = View(w) /\ V[SupplyRow].buy_seq \in Nat  BY <1>2
<1> DEFINE last == V[SupplyRow].buy_seq
<1>4. b \in BidsOf(V) /\ b.volume > 0  BY <1>3 DEF OpenBids
<1>h. last \in Nat /\ WellFormed(V, lastId, last) /\ last = V[SupplyRow].buy_seq
  BY <1>2, <1>s
<1> HIDE DEF V, b, last
<1>5. /\ row \in BidRows(V) /\ V[row] = b /\ row \in DOMAIN V
      /\ \A c \in BidsOf(V) : c.id = b.id => c = b
  BY <1>2, <1>4, <1>h, BidValues DEF BidRows
<1>6. \E i \in 1 .. lastId :
        /\ row = BidRow(i)
        /\ V[row] \in [id : {i}, user : Users, volume : Int, price : I64,
                       seq : 1 .. last]
  BY <1>2, <1>5, <1>h, RowValues
<1>7. /\ b.id \in 1 .. lastId
      /\ b \in [id : {b.id}, user : Users, volume : Int, price : I64, seq : 1 .. last]
  BY <1>5, <1>6
<1>8. left = b.volume - Fill(w) /\ left \in Int /\ Fill(w) \in Int
  BY <1>3, <1>5, FillParts DEF b
<1>9. /\ value \in [id : {b.id}, user : Users, volume : Int, price : I64, seq : 1 .. last]
      /\ value.volume = left /\ value.user = b.user /\ value.id = b.id
      /\ value.seq = b.seq
  BY <1>5, <1>7, <1>8
<1>10. \A r \in BidRows(V) \ {row} : V[r].seq # value.seq
  BY <1>2, <1>5, <1>9 DEF WellFormed
<1> HIDE DEF left, value
<1>11. /\ \A v \in Workers \ {w} : Mine(v)' = Mine(v)
       /\ Typed' /\ Base'
       /\ \/ Task(w)'
          \/ pc'[w] = "give" /\ View(w)' = Put(V, row, value)
  BY <1>1, <1>u, <1>s, UpdateEffect
<1>12. CASE Task(w)'  BY <1>2, <1>11, <1>12 DEF Kept
<1>13. CASE pc'[w] = "give" /\ View(w)' = Put(V, row, value)
  <2> DEFINE W == View(w)'
  <2>1. /\ WellFormed(W, lastId, last)
        /\ W[SupplyRow] = V[SupplyRow]
        /\ TotalIn(W) = TotalIn(V)
        /\ \A u : HeldIn(W, u) = HeldIn(V, u)
        /\ BidsOf(W) = {c \in BidsOf(V) : c.id # b.id} \cup {value}
        /\ \A u : OpenIn(W, u) = OpenIn(V, u) + OpenOf(value, u) - OpenOf(b, u)
    <3>1. lastId <= lastId /\ last <= last  BY <1>2, <1>h
    <3>2. /\ WellFormed(Put(V, row, value), lastId, last)
          /\ BidPut(Put(V, row, value), V, b.id, value)
      <4> DEFINE i == b.id
      <4>1. i \in 1 .. lastId /\ row = BidRow(i)  BY <1>7
      <4>2. value \in [id : {i}, user : Users, volume : Int, price : I64, seq : 1 .. last]
        BY <1>9
      <4> HIDE DEF i, row
      <4>3. Unnumbered(V, BidRow(i), value.seq)
        BY <1>10, <4>1 DEF Unnumbered
      <4>4. /\ WellFormed(Put(V, BidRow(i), value), lastId, last)
            /\ BidPut(Put(V, BidRow(i), value), V, i, value)
        BY <1>2, <1>h, <3>1, <4>1, <4>2, <4>3, PutBid
      <4> QED  BY <4>1, <4>4 DEF i
    <3>3. row = BidRow(b.id)  OBVIOUS
    <3>4. BidPut(W, V, b.id, value) /\ WellFormed(W, lastId, last)
      BY <1>13, <3>2
    <3> HIDE DEF row, W
    <3> QED  BY <1>5, <3>3, <3>4 DEF BidPut
  <2> HIDE DEF W
  <2>w. W = View(w)'  BY DEF W
  <2>2. Writing(w)' /\ ~(Buying(w)') /\ Selling(w)'
    BY <1>1, <1>2, <1>13 DEF Writing, Buying, Selling, Working
  <2>3. /\ Fill(w)' = Fill(w) /\ (Full(w)' <=> Full(w))
    BY <1>1 DEF Fill, Full
  <2>4. ASSUME NEW c \in OpenBids(V), c # b  PROVE c \in OpenBids(W)
    BY <1>5, <2>1, <2>4 DEF OpenBids
  <2>5. InPlace(w)'
    <3>1. fetched[w] \subseteq OpenBids(W)  BY <1>3, <2>4
    <3>2. Fetched(w)'  BY <1>1, <1>3, <1>13, <2>w, <3>1 DEF Fetched, b
    <3> QED  BY <1>1, <1>2, <1>3, <1>13, <1>h, <2>1, <2>2, <2>w, <3>2 DEF InPlace, b
  <2>6. Balances(w)'
    <3>1. V[SupplyRow].supply + TotalIn(V) + Fill(w)
            = sold + (IF req[w].op = "sell" THEN AsI64(req[w].volume) ELSE 0)
      BY <1>1, <1>2, <1>s DEF Task, Balances, InHand
    <3> QED  BY <1>1, <1>13, <2>1, <2>3, <2>w, <3>1 DEF Balances, InHand
  <2>7. PassesNone(w)'
    <3>1. ~Full(w) => V[SupplyRow].supply = 0
      BY <1>1, <1>2, <1>s DEF Task, PassesNone
    <3>2. V[SupplyRow].supply > 0 => OpenBids(V) = fetched[w] \cup {b}
      BY <1>1, <1>2, <1>s DEF Task, PassesNone, b
    <3>3. V[SupplyRow].supply > 0 => OpenBids(W) = fetched[w]
      <4>1. SUFFICES ASSUME V[SupplyRow].supply > 0
                     PROVE  OpenBids(W) = fetched[w]
        OBVIOUS
      <4>2. Full(w)  BY <1>2, <3>1, <4>1
      <4>3. left = 0  BY <4>2 DEF left
      <4>4. OpenBids(W) \subseteq OpenBids(V) \ {b}
        BY <1>9, <2>1, <4>3 DEF OpenBids
      <4> QED  BY <1>3, <2>4, <3>2, <4>1, <4>4
    <3> QED
      BY <1>1, <1>13, <2>1, <2>2, <2>3, <2>w, <3>1, <3>3 DEF PassesNone
  <2>8. ASSUME NoNegatives  PROVE Accounts(w)'
    <3>1. Accounts(w) /\ Amounts(V)  BY <1>2, <1>s, <2>8 DEF Task, Accounts
    <3>2. left >= 0 /\ supply[w] >= 0
      <4>1. supply[w] >= 0  BY <1>1, <3>1 DEF Accounts
      <4> QED  BY <1>3, <1>8, <4>1, FillParts DEF b
    <3>3. Amounts(W)  BY <1>9, <2>1, <3>1, <3>2 DEF Amounts
    <3>4. ASSUME NEW u
          PROVE  /\ Owed(w, u) = 0 /\ Asked(w, u)' = 0
                 /\ Owed(w, u)' = IF b.user = u THEN Fill(w) ELSE 0
      <4>1. Owed(w, u) = 0  BY <1>1, <1>2 DEF Owed
      <4>2. Asked(w, u)' = 0  BY <2>2 DEF Asked
      <4>3. Owed(w, u)' = IF b.user = u THEN Fill(w) ELSE 0
        BY <1>1, <1>13, <2>2, <2>3 DEF Owed, b
      <4> QED  BY <4>1, <4>2, <4>3
    <3>5. ASSUME NEW u \in Users
          PROVE  /\ HeldIn(W, u) >= HeldIn(table, u)
                 /\ HeldIn(W, u) + OpenIn(W, u) + Owed(w, u)'
                      = HeldIn(table, u) + OpenIn(table, u) + Asked(w, u)'
      <4>1. /\ HeldIn(V, u) >= HeldIn(table, u)
            /\ HeldIn(V, u) + OpenIn(V, u) + 0 = HeldIn(table, u) + OpenIn(table, u) + 0
        BY <1>2, <1>s, <3>1, <3>4 DEF Accounts
      <4>2. /\ HeldIn(V, u) \in Int /\ OpenIn(V, u) \in Int
            /\ HeldIn(table, u) \in Int /\ OpenIn(table, u) \in Int
        BY <1>2, <1>h, RowValues, OpenFlat, TableValues
      <4>3. OpenOf(b, u) = IF b.user = u THEN b.volume ELSE 0
        BY <1>4 DEF OpenOf
      <4>4. OpenOf(value, u) = IF b.user = u THEN left ELSE 0
        BY <1>8, <1>9, <3>2 DEF OpenOf
      <4>5. OpenIn(W, u) = OpenIn(V, u) - (IF b.user = u THEN Fill(w) ELSE 0)
        BY <1>3, <1>8, <2>1, <4>2, <4>3, <4>4
      <4>6. HeldIn(W, u) = HeldIn(V, u)  BY <2>1
      <4> QED  BY <1>8, <3>4, <4>1, <4>2, <4>5, <4>6
    <3>6. supply'[w] >= 0 /\ bid'[w].volume >= 0
      BY <1>1, <1>3, <1>4, <3>2 DEF b
    <3> QED  BY <1>1, <1>13, <2>w, <3>3, <3>5, <3>6 DEF Accounts
  <2> QED  BY <1>2, <1>11, <2>5, <2>6, <2>7, <2>8 DEF Kept, Task
<1> QED  BY <1>11, <1>12, <1>13

\* upsert_allocation gives the fill to the user of the bid.
LEMMA UpsertAllocationKept ==
    ASSUME Invariant, NEW w \in Workers, UpsertAllocation(w)
    PROVE  Kept(w)
<1> DEFINE V == View(w)
           user == bid[w].user
           row == AllocationRow(user)
           value == Upserted(V, row, Fill(w))
           next == CASE req[w].op = "sell" -> "next"
                     [] req[w].op = "buy" /\ Full(w) -> "bump"
                     [] OTHER -> "insert"
<1>1. /\ pc[w] = "give" /\ Base /\ Task(w) /\ Writing(w) /\ InPlace(w)
      /\ UNCHANGED <<table, lastId, req, supply, seq, bid, fetched, sold, confirmed>>
  BY DEF UpsertAllocation, At, database, ghosts, Invariant, Task, Writing, Working
<1>u. Update(w, row, value, value, next)
  BY DEF UpsertAllocation
<1>2. /\ WellFormed(V, lastId, V[SupplyRow].buy_seq) /\ lastId \in Nat
      /\ V[SupplyRow] \in [supply : Int, buy_seq : Nat]
      /\ TotalIn(V) \in Int /\ sold \in Int
      /\ req[w] \in BuyRequest \cup SellRequest
      /\ req[w].op \in {"buy", "sell"} /\ AsI64(req[w].volume) \in Int
      /\ Buying(w) => req[w].user \in Users
  <2>1. pc[w] # "bump"  BY <1>1
  <2> QED  BY <1>1, <2>1, WritingValues
<1>k. /\ Buying(w) <=> req[w].op = "buy"
      /\ Selling(w) <=> req[w].op = "sell"
      /\ Buying(w) \/ Selling(w)
      /\ ~(Buying(w) /\ Selling(w))
  BY <1>1, <1>2 DEF Buying, Selling
<1>b. Buying(w) => /\ user = req[w].user /\ bid[w].volume = AsI64(req[w].volume)
                   /\ bid[w] = [user |-> req[w].user, price |-> AsI64(req[w].price),
                                volume |-> AsI64(req[w].volume)]
                   /\ seq[w] = V[SupplyRow].buy_seq + 1
  BY <1>1 DEF InPlace
<1>3. supply[w] \in Int /\ bid[w].volume \in Int /\ user \in Users
  <2>1. CASE Buying(w)  BY <1>1, <1>2, <1>b, <2>1 DEF InPlace
  <2>2. CASE Selling(w)  BY <1>1, <2>2 DEF InPlace
  <2> QED  BY <1>k, <2>1, <2>2
<1>4. Fill(w) \in Int  BY <1>3, FillParts
<1>5. \A u : HeldIn(V, u) \in Int /\ OpenIn(V, u) \in Int
  BY <1>2, RowValues, OpenFlat
<1>6. value = HeldIn(V, user) + Fill(w) /\ value \in Int
  BY <1>4, <1>5 DEF Upserted, HeldIn
<1>n. /\ Selling(w) => next = "next"
      /\ Buying(w) /\ Full(w) => next = "bump"
      /\ Buying(w) /\ ~Full(w) => next = "insert"
  <2>1. req[w].op = "sell" => next = "next"  OBVIOUS
  <2>2. req[w].op = "buy" /\ Full(w) => next = "bump"  OBVIOUS
  <2>3. req[w].op = "buy" /\ ~Full(w) => next = "insert"  OBVIOUS
  <2> HIDE DEF next
  <2> QED  BY <1>k, <2>1, <2>2, <2>3
<1>s. V = View(w) /\ V[SupplyRow].buy_seq \in Nat  BY <1>2
<1> HIDE DEF value, next, V, user
<1>7. /\ \A v \in Workers \ {w} : Mine(v)' = Mine(v)
      /\ Typed' /\ Base'
      /\ \/ Task(w)'
         \/ value \in I64 /\ pc'[w] = next /\ View(w)' = Put(V, row, value)
  BY <1>1, <1>u, <1>s, UpdateEffect
<1>8. CASE Task(w)'  BY <1>1, <1>7, <1>8 DEF Kept
<1>9. CASE value \in I64 /\ pc'[w] = next /\ View(w)' = Put(V, row, value)
  <2> DEFINE W == View(w)'
  <2>1. /\ WellFormed(W, lastId, V[SupplyRow].buy_seq)
        /\ W[SupplyRow] = V[SupplyRow]
        /\ BidsOf(W) = BidsOf(V) /\ OpenBids(W) = OpenBids(V)
        /\ TotalIn(W) = TotalIn(V) + value - HeldIn(V, user)
        /\ HeldIn(W, user) = value
        /\ \A v : v # user => HeldIn(W, v) = HeldIn(V, v)
        /\ \A v : OpenIn(W, v) = OpenIn(V, v)
    <3>1. user \in Users /\ value \in Int /\ V[SupplyRow].buy_seq \in Nat
      BY <1>3, <1>6, <1>s DEF user
    <3> DEFINE new == Put(V, AllocationRow(user), value)
    <3>2. /\ WellFormed(new, lastId, V[SupplyRow].buy_seq)
          /\ new[SupplyRow] = V[SupplyRow]
          /\ BidsOf(new) = BidsOf(V) /\ OpenBids(new) = OpenBids(V)
          /\ TotalIn(new) = TotalIn(V) + value - HeldIn(V, user)
          /\ HeldIn(new, user) = value
          /\ \A v : v # user => HeldIn(new, v) = HeldIn(V, v)
          /\ \A v : OpenIn(new, v) = OpenIn(V, v)
      <4>1. PICK last \in Nat : last = V[SupplyRow].buy_seq  BY <3>1
      <4>2. WellFormed(V, lastId, last) /\ lastId \in Nat  BY <1>2, <4>1
      <4> QED  BY <3>1, <4>1, <4>2, PutAllocation
    <3>3. W = new  BY <1>9 DEF user
    <3> HIDE DEF new, W
    <3> QED  BY <3>2, <3>3
  <2> HIDE DEF W
  <2>w. W = View(w)'  BY DEF W
  <2>2. /\ pc'[w] \in {"next", "bump", "insert"}
        /\ pc'[w] = "next" <=> Selling(w)
        /\ pc'[w] = "bump" <=> Buying(w) /\ Full(w)
        /\ pc'[w] = "insert" <=> Buying(w) /\ ~Full(w)
    BY <1>9, <1>n, <1>k
  <2>3. /\ Writing(w)' /\ (Buying(w)' <=> Buying(w)) /\ (Selling(w)' <=> Selling(w))
    BY <1>1, <2>2 DEF Writing, Buying, Selling, Working
  <2>4. /\ Fill(w)' = Fill(w) /\ (Full(w)' <=> Full(w))
    BY <1>1 DEF Fill, Full
  <2>5. InPlace(w)'
    <3>1. Selling(w) => Fetched(w)'
      BY <1>1, <1>s, <2>1, <2>2, <2>w DEF InPlace, Fetched
    <3>2. WellFormed(W, lastId, IF pc'[w] = "bump" THEN seq'[w] ELSE W[SupplyRow].buy_seq)
      <4>1. CASE pc'[w] = "bump"
        <5>1. /\ seq'[w] = V[SupplyRow].buy_seq + 1 /\ seq'[w] \in Nat
              /\ V[SupplyRow].buy_seq <= seq'[w] /\ lastId <= lastId
          BY <1>1, <1>2, <1>b, <1>s, <2>2, <4>1
        <5>2. WellFormed(W, lastId, seq'[w])
          BY <1>2, <1>s, <2>1, <5>1, WellFormedUpTo
        <5> QED  BY <4>1, <5>2
      <4>2. CASE pc'[w] # "bump"  BY <2>1, <4>2
      <4> QED  BY <4>1, <4>2
    <3>3. Buying(w) => seq'[w] = W[SupplyRow].buy_seq + 1  BY <1>1, <1>b, <2>1
    <3>4. lastId' = lastId /\ req'[w] \in BuyRequest \cup SellRequest  BY <1>1, <1>2
    <3>5. Buying(w) => pc'[w] \in {"bump", "insert"}  BY <1>k, <2>2
    <3>6. pc'[w] \notin {"take", "mark", "give", "lock", "add"}  BY <2>2
    <3> QED
      BY <1>1, <1>3, <1>b, <2>2, <2>3, <2>w, <3>1, <3>2, <3>3, <3>4, <3>5, <3>6
      DEF InPlace
  <2>6. Balances(w)'
    <3>1. V[SupplyRow].supply + TotalIn(V) + Fill(w)
            = sold + (IF req[w].op = "sell" THEN AsI64(req[w].volume) ELSE 0)
      BY <1>1, <1>2, <1>s DEF Task, Balances, InHand
    <3>2. W[SupplyRow].supply + TotalIn(W) + 0
            = V[SupplyRow].supply + TotalIn(V) + Fill(w)
      BY <1>2, <1>4, <1>5, <1>6, <2>1
    <3>3. InHand(w)' = 0 /\ pc'[w] # "take"  BY <2>2 DEF InHand
    <3> QED  BY <1>1, <2>w, <3>1, <3>2, <3>3 DEF Balances
  <2>7. PassesNone(w)'
    <3>1. ~Full(w) => V[SupplyRow].supply = 0
      BY <1>1, <1>s DEF Task, PassesNone
    <3>2. V[SupplyRow].supply > 0 =>
            /\ Buying(w) => OpenBids(V) = {}
            /\ Selling(w) => OpenBids(V) = fetched[w]
      BY <1>1, <1>s DEF Task, PassesNone
    <3>3. pc'[w] = "insert" => W[SupplyRow].supply <= 0
      BY <1>2, <2>1, <2>2, <3>1
    <3>4. Selling(w) => pc'[w] = "next"  BY <2>2
    <3>5. pc'[w] \notin {"take", "mark", "give"}  BY <2>2
    <3> QED
      BY <1>1, <2>1, <2>3, <2>w, <3>2, <3>3, <3>4, <3>5 DEF PassesNone
  <2>8. ASSUME NoNegatives  PROVE Accounts(w)'
    <3>1. /\ Accounts(w) /\ Amounts(V) /\ supply[w] >= 0 /\ bid[w].volume >= 0
      BY <1>1, <1>s, <2>8 DEF Task, Accounts
    <3>2. Fill(w) >= 0 /\ (~Full(w) => bid[w].volume >= supply[w])
      BY <1>3, <3>1, FillParts
    <3>3. HeldIn(V, user) >= 0 /\ value >= 0
      BY <1>3, <1>4, <1>5, <1>6, <3>1, <3>2 DEF Amounts
    <3>4. Amounts(W)
      <4>1. \A u \in Users : HeldIn(W, u) >= 0 /\ HeldIn(W, u) \in I64
        BY <1>9, <2>1, <3>1, <3>3 DEF Amounts
      <4> QED  BY <2>1, <3>1, <4>1 DEF Amounts
    <3>5. ASSUME NEW u
          PROVE  /\ Asked(w, u)' = Asked(w, u) /\ Asked(w, u) \in Int
                 /\ Owed(w, u) = Owed(w, u)' + (IF u = user THEN Fill(w) ELSE 0)
                 /\ Owed(w, u)' \in Int
      <4>1. Asked(w, u)' = Asked(w, u) /\ Asked(w, u) \in Int
        BY <1>1, <1>2, <2>3 DEF Asked
      <4>2. CASE Selling(w)
        <5>1. Owed(w, u) = IF u = user THEN Fill(w) ELSE 0
          BY <1>1, <1>k, <4>2 DEF Owed, user
        <5>2. Owed(w, u)' = 0
          BY <1>k, <2>2, <2>3, <4>2 DEF Owed
        <5> QED  BY <1>4, <4>1, <5>1, <5>2
      <4>3. CASE Buying(w) /\ u # user
        <5>1. Owed(w, u) = 0
          BY <1>1, <1>k, <1>b, <4>3 DEF Owed
        <5>2. Owed(w, u)' = 0
          BY <1>1, <1>k, <1>b, <2>3, <4>3 DEF Owed
        <5> QED  BY <4>1, <4>3, <5>1, <5>2
      <4>4. CASE Buying(w) /\ u = user
        <5>1. Owed(w, u) = bid[w].volume
          BY <1>1, <1>k, <1>b, <4>4 DEF Owed
        <5>2. CASE Full(w)
          <6>1. pc'[w] = "bump"  BY <2>2, <4>4, <5>2
          <6>2. Owed(w, u)' = 0  BY <1>k, <2>3, <4>4, <6>1 DEF Owed
          <6>3. Fill(w) = bid[w].volume  BY <1>3, <5>2, FillParts
          <6> QED  BY <1>3, <4>1, <4>4, <5>1, <6>2, <6>3
        <5>3. CASE ~Full(w)
          <6>1. pc'[w] = "insert"  BY <2>2, <4>4, <5>3
          <6>2. Owed(w, u)' = IF supply[w] <= 0 THEN bid[w].volume
                                                ELSE bid[w].volume - supply[w]
            BY <1>1, <1>k, <1>b, <2>3, <4>4, <6>1 DEF Owed
          <6>3. Fill(w) = supply[w]  BY <1>3, <5>3, FillParts
          <6>4. Owed(w, u)' = bid[w].volume - supply[w]
            BY <1>3, <3>1, <6>2
          <6> QED  BY <1>3, <4>1, <4>4, <5>1, <6>3, <6>4
        <5> QED  BY <5>2, <5>3
      <4> QED  BY <1>k, <4>2, <4>3, <4>4
    <3>6. ASSUME NEW u \in Users
          PROVE  /\ HeldIn(W, u) >= HeldIn(table, u)
                 /\ HeldIn(W, u) + OpenIn(W, u) + Owed(w, u)'
                      = HeldIn(table, u) + OpenIn(table, u) + Asked(w, u)'
      <4>1. /\ HeldIn(V, u) >= HeldIn(table, u)
            /\ HeldIn(V, u) + OpenIn(V, u) + Owed(w, u)
                 = HeldIn(table, u) + OpenIn(table, u) + Asked(w, u)
        BY <1>1, <1>s, <3>1 DEF Accounts
      <4>2. /\ HeldIn(V, u) \in Int /\ OpenIn(V, u) \in Int
            /\ HeldIn(table, u) \in Int /\ OpenIn(table, u) \in Int
        BY <1>1, <1>5, TableValues
      <4>3. HeldIn(W, u) = HeldIn(V, u) + (IF u = user THEN Fill(w) ELSE 0)
        BY <1>4, <1>6, <2>1, <4>2
      <4>4. OpenIn(W, u) = OpenIn(V, u)  BY <2>1
      <4>5. CASE u = user
        BY <1>4, <3>2, <3>5, <4>1, <4>2, <4>3, <4>4, <4>5
      <4>6. CASE u # user
        BY <3>5, <4>1, <4>2, <4>3, <4>4, <4>6
      <4> QED  BY <4>5, <4>6
    <3>7. supply'[w] >= 0 /\ bid'[w].volume >= 0 /\ UNCHANGED table  BY <1>1, <3>1
    <3>8. pc'[w] = "insert" => bid'[w].volume >= supply'[w]
      BY <1>1, <2>2, <3>2
    <3> QED  BY <2>3, <2>w, <3>4, <3>6, <3>7, <3>8 DEF Accounts
  <2> QED  BY <1>1, <1>7, <2>5, <2>6, <2>7, <2>8 DEF Kept, Task
<1> QED  BY <1>7, <1>8, <1>9

\* What a buying transaction has, once it does not touch the supply any more.
LEMMA BuyingValues ==
    ASSUME Invariant, NEW w \in Workers, pc[w] \in {"insert", "bump"}
    PROVE  /\ Base /\ Task(w) /\ Writing(w) /\ Buying(w) /\ ~Selling(w)
           /\ req[w].op = "buy" /\ req[w] \in BuyRequest \cup SellRequest
           /\ req[w].user \in Users /\ AsI64(req[w].price) \in I64
           /\ AsI64(req[w].volume) \in Int
           /\ View(w)[SupplyRow] \in [supply : Int, buy_seq : Nat]
           /\ bid[w] = [user |-> req[w].user, price |-> AsI64(req[w].price),
                        volume |-> AsI64(req[w].volume)]
           /\ seq[w] = View(w)[SupplyRow].buy_seq + 1
           /\ supply[w] \in Int /\ lastId \in Nat
           /\ TotalIn(View(w)) \in Int /\ sold \in Int
<1>1. Base /\ Task(w) /\ InPlace(w)  BY DEF Invariant, Task
<1>2. Writing(w)  BY DEF Writing, Working
<1>3. req[w].op = "buy"
  <2>1. req[w].op \in {"buy", "sell"}  BY <1>1, <1>2, WritingValues
  <2> QED  BY <1>1, <1>2, <2>1 DEF InPlace, Selling
<1>4. Buying(w) /\ ~Selling(w)  BY <1>2, <1>3 DEF Buying, Selling
<1>5. /\ bid[w] = [user |-> req[w].user, price |-> AsI64(req[w].price),
                   volume |-> AsI64(req[w].volume)]
      /\ seq[w] = View(w)[SupplyRow].buy_seq + 1
      /\ supply[w] \in Int
  BY <1>1, <1>4 DEF InPlace
<1> QED  BY <1>1, <1>2, <1>3, <1>4, <1>5, WritingValues

\* buy stores what is left of its bid, under a new id.
LEMMA InsertBidKept ==
    ASSUME Invariant, NEW w \in Workers, InsertBid(w)
    PROVE  Kept(w)
<1> DEFINE V == View(w)
           want == IF supply[w] <= 0 THEN bid[w].volume ELSE bid[w].volume - supply[w]
           i == lastId + 1
           last == V[SupplyRow].buy_seq
           value == [id |-> i, user |-> bid[w].user, volume |-> want,
                     price |-> bid[w].price, seq |-> seq[w]]
<1>d. DOMAIN pc = Workers /\ DOMAIN draft = Workers
  BY DEF Invariant, LockOrder
<1>1. /\ pc[w] = "insert" /\ pc'[w] = "bump" /\ lastId' = i
      /\ UNCHANGED <<table, req, supply, seq, bid, fetched, sold, confirmed>>
      /\ draft' = [draft EXCEPT ![w] = Over([r \in {BidRow(i)} |-> value], @)]
  BY <1>d DEF InsertBid, At, Goto, ghosts
<1>2. View(w)' = Put(V, BidRow(i), value)
  <2> HIDE DEF value, i
  <2> QED  BY <1>d, <1>1, ViewPut
<1>3. /\ Base /\ Task(w) /\ Writing(w) /\ Buying(w) /\ ~Selling(w)
      /\ req[w].op = "buy" /\ req[w] \in BuyRequest \cup SellRequest
      /\ req[w].user \in Users /\ AsI64(req[w].price) \in I64
      /\ AsI64(req[w].volume) \in Int
      /\ V[SupplyRow] \in [supply : Int, buy_seq : Nat]
      /\ bid[w] = [user |-> req[w].user, price |-> AsI64(req[w].price),
                   volume |-> AsI64(req[w].volume)]
      /\ seq[w] = last + 1
      /\ supply[w] \in Int /\ lastId \in Nat
      /\ TotalIn(V) \in Int /\ sold \in Int
  BY <1>1, BuyingValues
<1>4. /\ \A v \in Workers \ {w} : Mine(v)' = Mine(v)
      /\ Typed'
  BY <1>d, <1>1 DEF InsertBid, Goto, Mine, Invariant, Typed
<1>s. V = View(w)  OBVIOUS
<1>5. last \in Nat /\ WellFormed(V, lastId, last) /\ last = V[SupplyRow].buy_seq
  <2>1. pc[w] # "bump"  BY <1>1
  <2> QED  BY <1>3, <2>1 DEF Task, InPlace
<1>6. /\ want \in Int
      /\ bid[w].user = req[w].user /\ bid[w].volume = AsI64(req[w].volume)
      /\ bid[w].price = AsI64(req[w].price)
  BY <1>3
<1>7. /\ i \in 1 .. i /\ i \in Nat /\ lastId <= i /\ i > lastId
      /\ seq[w] \in Nat /\ last <= seq[w] /\ seq[w] \in 1 .. seq[w]
      /\ seq[w] > last
  BY <1>3, <1>5
<1>8. /\ value \in [id : {i}, user : Users, volume : Int, price : I64, seq : 1 .. seq[w]]
      /\ value.user = req[w].user /\ value.volume = want /\ value.seq = seq[w]
  BY <1>3, <1>6, <1>7
<1>9. \A r \in BidRows(V) : V[r].seq \in 1 .. last /\ r = BidRow(V[r].id) /\ V[r].id \in 1 .. lastId
  <2> HIDE DEF V, last
  <2> QED  BY <1>3, <1>5, BidValues
<1>10. BidRow(i) \notin DOMAIN V
  <2>1. SUFFICES ASSUME BidRow(i) \in DOMAIN V  PROVE FALSE
    OBVIOUS
  <2>2. BidRow(i) \in BidRows(V)  BY <2>1, RowKinds DEF BidRows
  <2>3. V[BidRow(i)].id = i  BY <1>9, <2>2, RowKinds
  <2>4. i \in 1 .. lastId  BY <1>9, <2>2, <2>3
  <2> QED  BY <1>3, <1>7, <2>4
<1>11. \A r \in BidRows(V) \ {BidRow(i)} : V[r].seq # value.seq
  BY <1>5, <1>7, <1>8, <1>9
<1> HIDE DEF V, want, i, value, last
<1> DEFINE W == View(w)'
<1>12. /\ WellFormed(W, i, seq[w])
       /\ W[SupplyRow] = V[SupplyRow]
       /\ TotalIn(W) = TotalIn(V)
       /\ \A u : HeldIn(W, u) = HeldIn(V, u)
       /\ BidsOf(W) = {b \in BidsOf(V) : b.id # i} \cup {value}
       /\ \A u : OpenIn(W, u) = OpenIn(V, u) + OpenOf(value, u) - 0
  <2> DEFINE new == Put(V, BidRow(i), value)
             later == seq[w]
  <2>1. /\ later \in Nat /\ last <= later
        /\ value \in [id : {i}, user : Users, volume : Int, price : I64, seq : 1 .. later]
    BY <1>7, <1>8
  <2> HIDE DEF later
  <2>2. /\ WellFormed(new, i, later)
        /\ new[SupplyRow] = V[SupplyRow]
        /\ TotalIn(new) = TotalIn(V)
        /\ \A u : HeldIn(new, u) = HeldIn(V, u)
        /\ BidsOf(new) = {b \in BidsOf(V) : b.id # i} \cup {value}
        /\ \A u : OpenIn(new, u) = OpenIn(V, u) + OpenOf(value, u) - 0
    <3>1. /\ lastId \in Nat /\ last \in Nat /\ WellFormed(V, lastId, last)
          /\ i \in Nat /\ lastId <= i /\ i \in 1 .. i
      BY <1>3, <1>5, <1>7
    <3>2. Unnumbered(V, BidRow(i), value.seq)  BY <1>11 DEF Unnumbered
    <3>3. WellFormed(Put(V, BidRow(i), value), i, later)
          /\ BidPut(Put(V, BidRow(i), value), V, i, value)
      BY <2>1, <3>1, <3>2, PutBid
    <3>4. WellFormed(new, i, later) /\ BidPut(new, V, i, value)
      BY <3>3
    <3> HIDE DEF new
    <3> QED  BY <1>10, <3>4 DEF BidPut
  <2>3. W = new  BY <1>2
  <2> HIDE DEF new, W
  <2> QED  BY <2>2, <2>3 DEF later
<1> HIDE DEF W
<1>w. W = View(w)'  BY DEF W
<1>13. Writing(w)' /\ Buying(w)' /\ ~(Selling(w)')
  BY <1>1, <1>3 DEF Writing, Buying, Selling, Working
<1>14. Base'
  <2>1. WellFormed(table, i, table[SupplyRow].buy_seq) /\ i \in Nat
    <3>1. table[SupplyRow].buy_seq \in Nat /\ WellFormed(table, lastId, table[SupplyRow].buy_seq)
      BY <1>3, TableValues DEF Base
    <3>2. PICK k \in Nat : k = table[SupplyRow].buy_seq  BY <3>1
    <3>3. WellFormed(table, i, k)
      BY <1>3, <1>7, <3>1, <3>2, WellFormedUpTo
    <3> QED  BY <1>7, <3>2, <3>3
  <2> QED
    BY <1>1, <1>3, <2>1 DEF Base, BooksBalance, Balance, NoIdleSupply, SupplyLeft,
       ConfirmedIsKept, Holds
<1>15. InPlace(w)'
  BY <1>1, <1>3, <1>12, <1>13, <1>w, <1>5 DEF InPlace
<1>16. Balances(w)'
  BY <1>1, <1>3, <1>12, <1>w, <1>s DEF Balances, InHand, Task
<1>17. PassesNone(w)'
  <2>1. V[SupplyRow].supply <= 0  BY <1>1, <1>3, <1>s DEF Task, PassesNone
  <2>2. ~(W[SupplyRow].supply > 0)  BY <1>3, <1>12, <2>1
  <2> QED  BY <1>1, <1>w, <2>2 DEF PassesNone
<1>18. ASSUME NoNegatives  PROVE Accounts(w)'
  <2>1. /\ Accounts(w) /\ Amounts(V) /\ supply[w] >= 0 /\ bid[w].volume >= 0
        /\ bid[w].volume >= supply[w]
    BY <1>1, <1>3, <1>s, <1>18 DEF Task, Accounts
  <2>2. want >= 0  BY <1>3, <1>6, <2>1 DEF want
  <2>3. Amounts(W)  BY <1>8, <1>12, <2>1, <2>2 DEF Amounts
  <2>4. ASSUME NEW u
        PROVE  /\ Asked(w, u)' = Asked(w, u) /\ Owed(w, u)' = 0
               /\ Owed(w, u) = IF req[w].user = u THEN want ELSE 0
               /\ Asked(w, u) \in Int
    <3>1. Asked(w, u)' = Asked(w, u) /\ Asked(w, u) \in Int
      BY <1>1, <1>3, <1>13 DEF Asked
    <3>2. Owed(w, u)' = 0  BY <1>1, <1>13 DEF Owed
    <3>3. Owed(w, u) = IF req[w].user = u THEN want ELSE 0
      BY <1>1, <1>3 DEF Owed, want
    <3> QED  BY <3>1, <3>2, <3>3
  <2>5. ASSUME NEW u \in Users
        PROVE  /\ HeldIn(W, u) >= HeldIn(table, u)
               /\ HeldIn(W, u) + OpenIn(W, u) + Owed(w, u)'
                    = HeldIn(table, u) + OpenIn(table, u) + Asked(w, u)'
    <3>1. /\ HeldIn(V, u) >= HeldIn(table, u)
          /\ HeldIn(V, u) + OpenIn(V, u) + Owed(w, u)
               = HeldIn(table, u) + OpenIn(table, u) + Asked(w, u)
      BY <1>3, <1>s, <2>1 DEF Accounts
    <3>2. /\ HeldIn(V, u) \in Int /\ OpenIn(V, u) \in Int
          /\ HeldIn(table, u) \in Int /\ OpenIn(table, u) \in Int
      BY <1>3, <1>5, RowValues, OpenFlat, TableValues
    <3>3. OpenOf(value, u) = IF req[w].user = u THEN want ELSE 0
      BY <1>6, <1>8, <2>2 DEF OpenOf
    <3>4. OpenIn(W, u) = OpenIn(V, u) + (IF req[w].user = u THEN want ELSE 0)
      BY <1>6, <1>12, <3>2, <3>3
    <3>5. HeldIn(W, u) = HeldIn(V, u)  BY <1>12
    <3> QED  BY <1>6, <2>4, <3>1, <3>2, <3>4, <3>5
  <2> QED  BY <1>1, <1>w, <2>3, <2>5 DEF Accounts
<1> QED
  BY <1>3, <1>4, <1>14, <1>15, <1>16, <1>17, <1>18 DEF Kept, Task

\* buy stores the number it has used up.
LEMMA BumpSeqKept ==
    ASSUME Invariant, NEW w \in Workers, BumpSeq(w)
    PROVE  Kept(w)
<1> DEFINE V == View(w)
           value == [V[SupplyRow] EXCEPT !.buy_seq = seq[w]]
<1>1. /\ pc[w] = "bump"
      /\ UNCHANGED <<table, lastId, req, supply, seq, bid, fetched, sold, confirmed>>
  BY DEF BumpSeq, At, database, ghosts
<1>u. Update(w, SupplyRow, value, seq[w], "commit")
  BY DEF BumpSeq
<1>2. /\ Base /\ Task(w) /\ Writing(w) /\ Buying(w) /\ ~Selling(w)
      /\ req[w].op = "buy" /\ req[w] \in BuyRequest \cup SellRequest
      /\ V[SupplyRow] \in [supply : Int, buy_seq : Nat]
      /\ seq[w] = V[SupplyRow].buy_seq + 1
      /\ lastId \in Nat
      /\ TotalIn(V) \in Int /\ sold \in Int
  BY <1>1, BuyingValues
<1>3. /\ value \in [supply : Int, buy_seq : Nat] /\ value.supply = V[SupplyRow].supply
      /\ value.buy_seq = seq[w] /\ seq[w] \in Nat
  BY <1>2
<1>4. WellFormed(V, lastId, seq[w])  BY <1>1, <1>2 DEF Task, InPlace
<1>s. V = View(w)  OBVIOUS
<1> HIDE DEF V, value
<1>5. /\ \A v \in Workers \ {w} : Mine(v)' = Mine(v)
      /\ Typed' /\ Base'
      /\ \/ Task(w)'
         \/ pc'[w] = "commit" /\ View(w)' = Put(V, SupplyRow, value)
  BY <1>1, <1>u, <1>s, UpdateEffect
<1>6. CASE Task(w)'  BY <1>2, <1>5, <1>6 DEF Kept
<1>7. CASE pc'[w] = "commit" /\ View(w)' = Put(V, SupplyRow, value)
  <2>1. /\ WellFormed(View(w)', lastId, seq[w])
        /\ View(w)'[SupplyRow] = value
        /\ BidsOf(View(w)') = BidsOf(V)
        /\ OpenBids(View(w)') = OpenBids(V)
        /\ TotalIn(View(w)') = TotalIn(V)
        /\ \A u : HeldIn(View(w)', u) = HeldIn(V, u)
        /\ \A u : OpenIn(View(w)', u) = OpenIn(V, u)
    BY <1>2, <1>3, <1>4, <1>7, PutSupply
  <2>2. Writing(w)' /\ Buying(w)' /\ ~(Selling(w)')
    BY <1>1, <1>2, <1>7 DEF Writing, Buying, Selling, Working
  <2>3. InPlace(w)'
    BY <1>1, <1>2, <1>3, <1>7, <2>1, <2>2 DEF InPlace
  <2>4. Balances(w)'
    BY <1>1, <1>2, <1>3, <1>7, <1>s, <2>1 DEF Balances, InHand, Task
  <2>5. PassesNone(w)'
    <3>1. V[SupplyRow].supply > 0 => OpenBids(V) = {}
      BY <1>1, <1>2, <1>s DEF Task, PassesNone
    <3> QED  BY <1>3, <1>7, <2>1, <2>2, <3>1 DEF PassesNone
  <2>6. ASSUME NoNegatives  PROVE Accounts(w)'
    <3>1. Accounts(w) /\ Amounts(V)  BY <1>2, <1>s, <2>6 DEF Task, Accounts
    <3>2. Amounts(View(w)')  BY <1>3, <2>1, <3>1 DEF Amounts
    <3>3. \A u : Owed(w, u)' = 0 /\ Owed(w, u) = 0 /\ Asked(w, u)' = Asked(w, u)
      BY <1>1, <1>2, <1>7, <2>2 DEF Owed, Asked
    <3> QED  BY <1>1, <1>2, <1>7, <1>s, <2>1, <3>1, <3>2, <3>3 DEF Accounts
  <2> QED  BY <1>2, <1>5, <2>3, <2>4, <2>5, <2>6 DEF Kept, Task
<1> QED  BY <1>5, <1>6, <1>7

\* What a transaction that is about to commit has made of the rows.
LEMMA CommitValues ==
    ASSUME Invariant, NEW w \in Workers, pc[w] = "commit"
    PROVE  LET V == View(w)
               added == IF req[w].op = "sell" THEN AsI64(req[w].volume) ELSE 0
           IN
           /\ Base /\ Writing(w) /\ req[w] \in BuyRequest \cup SellRequest
           /\ req[w].op \in {"buy", "sell"} /\ added \in Int
           /\ WellFormed(V, lastId, V[SupplyRow].buy_seq)
           /\ V[SupplyRow].supply + TotalIn(V) = sold + added
           /\ V[SupplyRow].supply > 0 => OpenBids(V) = {}
           /\ NoNegatives =>
                /\ Amounts(V)
                /\ \A u \in Users :
                    /\ HeldIn(V, u) >= HeldIn(table, u)
                    /\ HeldIn(V, u) + OpenIn(V, u)
                         = HeldIn(table, u) + OpenIn(table, u)
                             + (IF req[w].op = "buy" /\ req[w].user = u
                                THEN req[w].volume ELSE 0)
<1> DEFINE V == View(w)
           added == IF req[w].op = "sell" THEN AsI64(req[w].volume) ELSE 0
<1>1. Base /\ Task(w) /\ InPlace(w) /\ Writing(w)
  BY DEF Invariant, Task, Writing, Working
<1>2. /\ req[w] \in BuyRequest \cup SellRequest /\ req[w].op \in {"buy", "sell"}
      /\ AsI64(req[w].volume) \in Int /\ TotalIn(V) \in Int /\ sold \in Int
      /\ WellFormed(V, lastId, V[SupplyRow].buy_seq)
      /\ V[SupplyRow] \in [supply : Int, buy_seq : Nat] /\ lastId \in Nat
  <2>1. pc[w] # "bump"  OBVIOUS
  <2> QED  BY <1>1, <2>1, WritingValues
<1>3. /\ Buying(w) <=> req[w].op = "buy"
      /\ Selling(w) <=> req[w].op = "sell"
  BY <1>1 DEF Buying, Selling
<1>4. V[SupplyRow].supply + TotalIn(V) = sold + added
  BY <1>1, <1>2 DEF Task, Balances, InHand
<1>5. V[SupplyRow].supply > 0 => OpenBids(V) = {}
  BY <1>1, <1>2, <1>3 DEF Task, PassesNone
<1>6. ASSUME NoNegatives
      PROVE  /\ Amounts(V)
             /\ \A u \in Users :
                    /\ HeldIn(V, u) >= HeldIn(table, u)
                    /\ HeldIn(V, u) + OpenIn(V, u)
                         = HeldIn(table, u) + OpenIn(table, u)
                             + (IF req[w].op = "buy" /\ req[w].user = u
                                THEN req[w].volume ELSE 0)
  <2>1. Accounts(w) /\ Amounts(V)  BY <1>1, <1>6 DEF Task, Accounts
  <2>2. AsI64(req[w].volume) = req[w].volume  BY <1>2, <1>6, RequestValues
  <2>3. ASSUME NEW u \in Users
        PROVE  /\ HeldIn(V, u) >= HeldIn(table, u)
               /\ HeldIn(V, u) + OpenIn(V, u)
                    = HeldIn(table, u) + OpenIn(table, u)
                        + (IF req[w].op = "buy" /\ req[w].user = u
                           THEN req[w].volume ELSE 0)
    <3>1. Owed(w, u) = 0  BY DEF Owed
    <3>2. Asked(w, u) = IF req[w].op = "buy" /\ req[w].user = u
                        THEN req[w].volume ELSE 0
      BY <1>3, <2>2 DEF Asked
    <3>3. HeldIn(V, u) \in Int /\ OpenIn(V, u) \in Int
      <4>1. PICK last \in Nat : last = V[SupplyRow].buy_seq  BY <1>2
      <4> QED  BY <1>2, <4>1, RowValues, OpenFlat
    <3>4. /\ HeldIn(V, u) >= HeldIn(table, u)
          /\ HeldIn(V, u) + OpenIn(V, u) + Owed(w, u)
               = HeldIn(table, u) + OpenIn(table, u) + Asked(w, u)
      BY <1>1, <2>1 DEF Accounts
    <3> QED  BY <3>1, <3>2, <3>3, <3>4
  <2> QED  BY <2>1, <2>3
<1> QED  BY <1>1, <1>2, <1>4, <1>5, <1>6

\* The server commits, and the caller is told so or not.
LEMMA CommitKept ==
    ASSUME Invariant, NEW w \in Workers, Commit(w) \/ CommitAnswerLost(w)
    PROVE  Kept(w)
<1> DEFINE V == View(w)
           added == IF req[w].op = "sell" THEN AsI64(req[w].volume) ELSE 0
<1>d. /\ DOMAIN pc = Workers /\ DOMAIN draft = Workers /\ DOMAIN req = Workers
      /\ DOMAIN supply = Workers /\ DOMAIN seq = Workers /\ DOMAIN bid = Workers
      /\ DOMAIN fetched = Workers
  BY DEF Invariant, LockOrder, Typed
<1>1. /\ pc[w] = "commit" /\ table' = V /\ EndTransaction(w) /\ lastId' = lastId
      /\ sold' = IF req[w].op = "sell" THEN sold + AsI64(req[w].volume) ELSE sold
  BY DEF Commit, CommitAnswerLost, Committed, At
<1>2. /\ Base /\ Writing(w) /\ req[w] \in BuyRequest \cup SellRequest
      /\ req[w].op \in {"buy", "sell"} /\ added \in Int
      /\ WellFormed(V, lastId, V[SupplyRow].buy_seq)
      /\ V[SupplyRow].supply + TotalIn(V) = sold + added
      /\ V[SupplyRow].supply > 0 => OpenBids(V) = {}
      /\ NoNegatives =>
            /\ Amounts(V)
            /\ \A u \in Users :
                /\ HeldIn(V, u) >= HeldIn(table, u)
                /\ HeldIn(V, u) + OpenIn(V, u)
                     = HeldIn(table, u) + OpenIn(table, u)
                         + (IF req[w].op = "buy" /\ req[w].user = u
                            THEN req[w].volume ELSE 0)
  BY <1>1, CommitValues
<1>3. ASSUME NEW v \in Workers \ {w}  PROVE Mine(v)' = Mine(v)
  BY <1>1, <1>d DEF Mine, EndTransaction, Goto
<1>4. Task(w)'
  <2>1. pc'[w] = "idle"  BY <1>1, <1>d DEF EndTransaction, Goto
  <2>2. ~(Writing(w)')  BY <2>1 DEF Writing, Working
  <2> QED  BY <2>1, <2>2, Outside
<1>5. /\ req[w].volume \in Nat /\ sold \in Int
      /\ NoNegatives => AsI64(req[w].volume) = req[w].volume
      /\ req[w].op = "buy" => req[w].user \in Users
      /\ confirmed \in [sold : Int, bought : [Users -> Int]]
  BY <1>2, RequestValues, TableValues DEF Invariant, Typed
<1>c. \/ confirmed' = confirmed
      \/ /\ req[w].op = "sell"
         /\ confirmed' = [confirmed EXCEPT !.sold = @ + req[w].volume]
      \/ /\ req[w].op = "buy"
         /\ confirmed' = [confirmed EXCEPT !.bought[req[w].user] = @ + req[w].volume]
  BY <1>2 DEF Commit, CommitAnswerLost
<1>6. Typed'
  <2>1. table' = [r \in DOMAIN table' |-> table'[r]]  BY <1>1 DEF View, Over
  <2>2. confirmed' \in [sold : Int, bought : [Users -> Int]]  BY <1>5, <1>c
  <2>3. /\ DOMAIN req' = Workers
        /\ DOMAIN supply' = Workers /\ DOMAIN seq' = Workers /\ DOMAIN bid' = Workers
        /\ DOMAIN fetched' = Workers
    BY <1>1, <1>d DEF EndTransaction
  <2> QED  BY <2>1, <2>2, <2>3 DEF Typed
<1>s. V = View(w)  OBVIOUS
<1> HIDE DEF V
<1>7. sold' = sold + added  BY <1>5, <1>2, <1>1
<1>8. BooksBalance'
  BY <1>1, <1>2, <1>7 DEF BooksBalance, Balance, SupplyLeft
<1>9. NoIdleSupply'
  BY <1>1, <1>2 DEF NoIdleSupply, SupplyLeft
<1>10. ASSUME NoNegatives
       PROVE  Amounts(table)' /\ ConfirmedIsKept' /\ (confirmed.sold <= sold)'
  <2>1. Amounts(table)'  BY <1>1, <1>2, <1>10
  <2>2. confirmed.sold <= sold /\ ConfirmedIsKept  BY <1>2, <1>10 DEF Base
  <2>3. confirmed'.sold <= sold'
    <3>1. added >= 0  BY <1>5, <1>10
    <3>2. confirmed'.sold = confirmed.sold
            \/ (req[w].op = "sell" /\ confirmed'.sold = confirmed.sold + req[w].volume)
      BY <1>5, <1>c
    <3>3. req[w].op = "sell" => added = req[w].volume  BY <1>5, <1>10
    <3>4. confirmed.sold \in Int  BY <1>5
    <3> HIDE DEF added
    <3> QED  BY <1>2, <1>5, <1>7, <2>2, <3>1, <3>2, <3>3, <3>4
  <2>4. sold' = Balance'  BY <1>8 DEF BooksBalance
  <2>5. ASSUME NEW u \in Users
        PROVE  confirmed'.bought[u] <= HeldIn(V, u) + OpenIn(V, u)
    <3>1. confirmed.bought[u] <= HeldIn(table, u) + OpenIn(table, u)
      BY <2>2 DEF ConfirmedIsKept, Holds
    <3>2. /\ HeldIn(table, u) \in Int /\ OpenIn(table, u) \in Int
          /\ confirmed.bought[u] \in Int
      BY <1>2, <1>5, TableValues
    <3>3. \/ confirmed'.bought[u] = confirmed.bought[u]
          \/ /\ req[w].op = "buy" /\ req[w].user = u
             /\ confirmed'.bought[u] = confirmed.bought[u] + req[w].volume
      BY <1>5, <1>c
    <3>4. HeldIn(V, u) + OpenIn(V, u)
            = HeldIn(table, u) + OpenIn(table, u)
                + (IF req[w].op = "buy" /\ req[w].user = u THEN req[w].volume ELSE 0)
      BY <1>2, <1>10
    <3> QED  BY <1>5, <3>1, <3>2, <3>3, <3>4
  <2> QED
    BY <1>1, <2>1, <2>3, <2>4, <2>5 DEF ConfirmedIsKept, Holds
<1>11. Base'
  BY <1>1, <1>2, <1>8, <1>9, <1>10 DEF Base
<1> QED  BY <1>2, <1>3, <1>4, <1>6, <1>11 DEF Kept

-----------------------------------------------------------------------------
(* The invariant. *)

\* Nothing is sold, stored or begun.
LEMMA InitInvariant == Init => Invariant
<1>1. SUFFICES ASSUME Init  PROVE Invariant
  OBVIOUS
<1> DEFINE row == [supply |-> 0, buy_seq |-> 0]
<1>2. /\ DOMAIN table = {SupplyRow} /\ table[SupplyRow] = row
      /\ table = [r \in DOMAIN table |-> table[r]]
  BY <1>1 DEF Init
<1>3. BidRows(table) = {} /\ {r \in DOMAIN table : r[1] = "allocations"} = {}
  BY <1>2, RowKinds DEF BidRows
<1>4. /\ BidsOf(table) = {} /\ OpenBids(table) = {}
  BY <1>3 DEF BidsOf, OpenBids
<1>5. TotalIn(table) = 0
  BY <1>3, SumEmpty DEF TotalIn
<1>6. \A u : HeldIn(table, u) = 0
  BY <1>2, RowKinds DEF HeldIn
<1>7. \A u : OpenIn(table, u) = 0
  <2>1. \A u : {r \in BidRows(table) : table[r].user = u /\ table[r].volume > 0} = {}
    BY <1>3
  <2> QED  BY <2>1, SumEmpty DEF OpenIn
<1>8. WellFormed(table, lastId, table[SupplyRow].buy_seq) /\ lastId \in Nat
  <2>1. IsFiniteSet(DOMAIN table)  BY <1>2, FS_Singleton
  <2>2. row \in [supply : Int, buy_seq : Nat]  OBVIOUS
  <2>3. lastId \in Nat  BY <1>1 DEF Init
  <2> QED  BY <1>2, <1>3, <2>1, <2>2, <2>3 DEF WellFormed
<1>9. Typed  BY <1>1, <1>2 DEF Init, Typed
<1>10. BooksBalance /\ NoIdleSupply
  BY <1>1, <1>2, <1>5 DEF Init, BooksBalance, Balance, NoIdleSupply, SupplyLeft
<1>11. Amounts(table)
  <2>1. 0 \in I64
    <3>1. Modulus \in Nat \ {0}  BY PostgresAssumption
    <3>2. Modulus \div 2 >= 0 /\ (Modulus + 1) \div 2 >= 1 /\ Modulus \div 2 \in Int
          /\ (Modulus + 1) \div 2 \in Int
      BY <3>1
    <3> QED  BY <3>2 DEF I64
  <2> QED  BY <1>2, <1>4, <1>6, <2>1 DEF Amounts
<1>12. ConfirmedIsKept /\ confirmed.sold <= sold
  BY <1>1, <1>2, <1>5, <1>6, <1>7 DEF Init, ConfirmedIsKept, Balance, SupplyLeft, Holds
<1>13. Base  BY <1>8, <1>10, <1>11, <1>12 DEF Base
<1>14. ASSUME NEW w \in Workers  PROVE Task(w)
  <2>1. pc[w] = "idle"  BY <1>1 DEF Init
  <2>2. ~Writing(w) /\ ~Buying(w) /\ ~Selling(w)
    BY <2>1 DEF Writing, Working, Buying, Selling
  <2> QED  BY <2>1, <2>2 DEF Task, InPlace, Balances, PassesNone, Accounts
<1> QED  BY <1>1, <1>9, <1>13, <1>14, InitLockOrder DEF Invariant

\* Only the holder of the row of supply_state disturbs what is shared.
LEMMA KeptByAll ==
    ASSUME Invariant, LockOrder', NEW w \in Workers, Kept(w)
    PROVE  Invariant'
<1>1. ASSUME NEW v \in Workers \ {w}, Writing(w)  PROVE ~Writing(v)
  <2>1. SUFFICES ASSUME Writing(v)  PROVE FALSE
    OBVIOUS
  <2>2. pc[v] \in Working \ Fresh /\ pc[w] \in Working \ Fresh
    BY <1>1, <2>1 DEF Writing, Fresh, Working
  <2> QED  BY <2>2 DEF Invariant, LockOrder
<1>2. ASSUME NEW v \in Workers \ {w}  PROVE Task(v)'
  <2>1. Task(v) /\ Mine(v)' = Mine(v)  BY DEF Invariant, Kept
  <2>2. ~Writing(v) \/ UNCHANGED <<table, lastId, sold>>  BY <1>1 DEF Kept
  <2> QED  BY <2>1, <2>2, Bystander
<1> QED  BY <1>2 DEF Invariant, Kept

\* Every step keeps the invariant.
LEMMA NextInvariant == Invariant /\ [Next]_vars => Invariant'
<1> SUFFICES ASSUME Invariant, [Next]_vars
             PROVE  Invariant'
  OBVIOUS
<1>1. LockOrder'  BY NextLockOrder DEF Invariant
<1>2. CASE UNCHANGED vars
  <2>1. UNCHANGED <<table, lastId, sold, confirmed, draft, pc, req, supply, seq,
                    bid, fetched>>
    BY <1>2 DEF vars, database, session, locals, ghosts
  <2>2. Typed'  BY <2>1 DEF Invariant, Typed
  <2>3. Base'  BY <2>1, BaseUnmoved DEF Invariant
  <2>4. ASSUME NEW v \in Workers  PROVE Task(v)'
    <3>1. Mine(v)' = Mine(v)  BY <2>1 DEF Mine
    <3> QED  BY <2>1, <3>1, Bystander DEF Invariant
  <2> QED  BY <1>1, <2>2, <2>3, <2>4 DEF Invariant
<1>3. ASSUME NEW w \in Workers,
             \/ Call(w) \/ Step(w) \/ BeginFails(w)
             \/ LoseConnection(w) \/ CommitAnswerLost(w)
      PROVE  Kept(w)
  BY <1>3, OutsideKept, LockSupplyKept, InsertBidKept, BumpSeqKept, AddSupplyKept,
     SelectBidsKept, NextBidKept, EndLoopKept, MarkBidKept, TakeKept,
     UpsertAllocationKept, CommitKept
  DEF Step, BuyStep, SellStep
<1> QED  BY <1>1, <1>2, <1>3, KeptByAll DEF Next, Finished

\* The invariant holds in every behaviour.
LEMMA AlwaysInvariant == Spec => []Invariant
<1>1. Init => Invariant  BY InitInvariant
<1>2. Invariant /\ [Next]_vars => Invariant'  BY NextInvariant
<1> QED  BY <1>1, <1>2, PTL DEF Spec

\* IInv, which TLC evaluates on the runs, is this invariant but for the locks.
THEOREM StatementsKeepTheBooks == Spec => []IInv
<1>1. Invariant => IInv
  BY DEF Invariant, IInv, Drafts, Base, Task
<1> QED  BY <1>1, AlwaysInvariant, PTL

\* Whatever statement fails and whichever handlers run at once, what was sold
\* by the committed sells is in the supply or in an allocation (the updates of
\* supply_state and allocations in buy and sell, and the rollback of both).
THEOREM BooksAlwaysBalance == Spec => []BooksBalance
<1>1. Invariant => BooksBalance  BY DEF Invariant, Base
<1> QED  BY <1>1, AlwaysInvariant, PTL

\* No reader sees supply beside an open bid: sell fills until one of them is
\* used up, and buy stores a bid only when no supply is left.
THEOREM SupplyIsNeverIdle == Spec => []NoIdleSupply
<1>1. Invariant => NoIdleSupply  BY DEF Invariant, Base
<1> QED  BY <1>1, AlwaysInvariant, PTL

\* What a caller was told is done stays done, if no request carries a volume
\* that `as i64` makes negative.
THEOREM ConfirmedStaysDone ==
    ASSUME NoNegatives
    PROVE  Spec => []ConfirmedIsKept
<1>1. Invariant => ConfirmedIsKept  BY DEF Invariant, Base
<1> QED  BY <1>1, AlwaysInvariant, PTL

\* What a commit gives is never taken back: GET /allocation, which reads the
\* committed row as a u64, never returns less than before, if no request
\* carries a volume that `as i64` makes negative.
THEOREM AllocationsOnlyGrow ==
    ASSUME NoNegatives
    PROVE  Spec => AllocationNeverDecreases
<1>1. \A i \in I64 : i >= 0 => AsU64(i) = i /\ i \in Int
  <2>1. Modulus \in Nat \ {0}  BY PostgresAssumption
  <2>2. (Modulus + 1) \div 2 <= Modulus /\ (Modulus + 1) \div 2 \in Int
    BY <2>1
  <2>3. \A i \in I64 : i \in Int /\ i < Modulus  BY <2>1, <2>2 DEF I64
  <2>4. \A i \in 0 .. Modulus - 1 : i % Modulus = i  BY <2>1
  <2> QED  BY <2>1, <2>3, <2>4 DEF AsU64
<1>2. ASSUME Invariant, [Next]_vars, NEW u \in Users
      PROVE  Allocation(u)' >= Allocation(u)
  <2>1. HeldIn(table, u) \in I64 /\ HeldIn(table, u) >= 0
    BY <1>2 DEF Invariant, Base, Amounts
  <2>2. CASE table' = table
    <3>1. Allocation(u)' = Allocation(u) BY <2>2 DEF Allocation, Holds
    <3>2. Allocation(u) \in Int  BY <1>1, <2>1 DEF Allocation, Holds
    <3> QED  BY <3>1, <3>2
  <2>3. ASSUME NEW w \in Workers, Commit(w) \/ CommitAnswerLost(w)
        PROVE  Allocation(u)' >= Allocation(u)
    <3>1. pc[w] = "commit" /\ table' = View(w)
      BY <2>3 DEF Commit, CommitAnswerLost, Committed, At
    <3>2. /\ HeldIn(View(w), u) >= HeldIn(table, u)
          /\ HeldIn(View(w), u) >= 0 /\ HeldIn(View(w), u) \in I64
      BY <1>2, <3>1, CommitValues DEF Amounts
    <3>3. /\ Allocation(u) = HeldIn(table, u)
          /\ Allocation(u)' = HeldIn(View(w), u)
      BY <1>1, <2>1, <3>1, <3>2 DEF Allocation, Holds
    <3> QED  BY <3>2, <3>3
  <2>4. \/ table' = table
        \/ \E w \in Workers : Commit(w) \/ CommitAnswerLost(w)
    <3>1. CASE UNCHANGED vars  BY <3>1 DEF vars, database
    <3>2. ASSUME NEW w \in Workers,
                 \/ Call(w) \/ Step(w) \/ BeginFails(w)
                 \/ LoseConnection(w)
          PROVE  table' = table \/ Commit(w)
      BY <3>2 DEF Step, BuyStep, SellStep, Call, BeginFails, LoseConnection,
         Begin, LockSupply, InsertBid, BumpSeq, AddSupply, SelectBids, NextBid,
         EndLoop, MarkBid, Take, UpsertAllocation, Rollback, database
    <3> QED  BY <1>2, <3>1, <3>2 DEF Next, Finished
  <2> QED  BY <2>2, <2>3, <2>4
<1>3. Invariant /\ [Next]_vars =>
        [\A u \in Users : Allocation(u)' >= Allocation(u)]_vars
  BY <1>2
<1> QED  BY <1>3, AlwaysInvariant, PTL DEF Spec, AllocationNeverDecreases

-----------------------------------------------------------------------------
(* The refinement: how far a transaction is from the match it carries out.  *)

\* A bid of the table as an order of the abstract engine.
Plain(b) == [user |-> b.user, volume |-> b.volume, price |-> b.price, seq |-> b.seq]
Orders(some) == {Plain(b) : b \in some}
Book(rows) == Orders(OpenBids(rows))

\* What users have by the rows.
GivenIn(rows) ==
    [u \in {v \in Users : AllocationRow(v) \in DOMAIN rows} |-> HeldIn(rows, u)]

\* The view of w is the tables after `total` met `book`.
Reached(w, book, total) ==
    /\ Book(View(w)) = OrdersAfter(book, total)
    /\ View(w)[SupplyRow].supply = OfferAfter(book, total)
    /\ GivenIn(View(w)) = GivenAfter(GivenIn(table), book, total)

\* The order of the buy that task w runs.
OrderOf(w) == [user |-> req[w].user, volume |-> req[w].volume,
               price |-> req[w].price, seq |-> table[SupplyRow].buy_seq + 1]

\* Nobody has been served or stored yet.
Untouched(w) == Book(View(w)) = Book(table) /\ GivenIn(View(w)) = GivenIn(table)

\* A buy: the supply is taken, then given, then the rest of the bid is stored,
\* and at last its number is.
BuyProgress(w) ==
    LET left == View(w)[SupplyRow].supply
        had  == table[SupplyRow].supply
    IN
    /\ View(w)[SupplyRow].buy_seq
         = table[SupplyRow].buy_seq + (IF pc[w] = "commit" THEN 1 ELSE 0)
    /\ pc[w] \in {"take", "give", "insert"} => supply[w] = had
    /\ pc[w] \in {"take", "give"} => Untouched(w) /\ had > 0
    /\ pc[w] = "take" => left = had
    /\ pc[w] = "give" => left = had - Fill(w)
    /\ pc[w] = "insert" /\ had = 0 => Untouched(w) /\ left = had
    /\ pc[w] = "insert" /\ had > 0 =>
        /\ had < bid[w].volume /\ left = 0 /\ Book(View(w)) = {}
        /\ GivenIn(View(w)) = Credit(GivenIn(table), req[w].user, had)
    /\ pc[w] \in {"bump", "commit"} => Reached(w, Book(table) \cup {OrderOf(w)}, had)

\* What a sell has left to do is to match `some` of the bids, with `given` and
\* `offer` in place of what users have and what is on offer; the other bids
\* are as it leaves them.
LeftToMatch(w, given, some, offer) ==
    LET total == table[SupplyRow].supply + req[w].volume
    IN  /\ OrdersAfter(Book(table), total)
             = (Book(View(w)) \ Orders(some)) \cup OrdersAfter(Orders(some), offer)
        /\ OfferAfter(Book(table), total) = OfferAfter(Orders(some), offer)
        /\ GivenAfter(GivenIn(table), Book(table), total)
             = GivenAfter(given, Orders(some), offer)

\* A sell: each round of its loop takes the first bid off what is to match.
SellProgress(w) ==
    LET left  == View(w)[SupplyRow].supply
        given == GivenIn(View(w))
        some  == fetched[w] \cup {bid[w]}
        total == table[SupplyRow].supply + req[w].volume
    IN
    /\ View(w)[SupplyRow].buy_seq = table[SupplyRow].buy_seq
    /\ pc[w] = "select" => Untouched(w) /\ left = total
    /\ pc[w] = "next" => LeftToMatch(w, given, fetched[w], left)
    /\ pc[w] \in {"take", "mark"} =>
        /\ supply[w] > 0 /\ IsFirst(Plain(bid[w]), Orders(some))
        /\ LeftToMatch(w, given, some, supply[w])
    /\ pc[w] = "mark" => left = supply[w] - Fill(w)
    /\ pc[w] = "give" =>
        LeftToMatch(w, Credit(given, bid[w].user, Fill(w)), fetched[w], left)
    /\ pc[w] = "commit" => Reached(w, Book(table), total)

Progress(w) ==
    /\ Buying(w) => BuyProgress(w)
    /\ Selling(w) => SellProgress(w)

RefInv == \A w \in Workers : Progress(w)

\* No request has a number that `as i64` changes, and no buy is for nothing:
\* Postgres stores such a bid but never opens it.
PlainRequests == Volumes \subseteq I64 \ {0} /\ Prices \subseteq I64

-----------------------------------------------------------------------------
(* Rows as a book of orders and an account of what was given. *)

\* The engine matches by the rule of Matching.
LEMMA EngineRule ==
    \A book, total, some :
        /\ Engine!OrdersAfter(book, total) = OrdersAfter(book, total)
        /\ Engine!OfferAfter(book, total) = OfferAfter(book, total)
        /\ Engine!GivenAfter(some, book, total) = GivenAfter(some, book, total)
<1> SUFFICES ASSUME NEW book, NEW total, NEW some
             PROVE  /\ Engine!OrdersAfter(book, total) = OrdersAfter(book, total)
                    /\ Engine!OfferAfter(book, total) = OfferAfter(book, total)
                    /\ Engine!GivenAfter(some, book, total) = GivenAfter(some, book, total)
  OBVIOUS
<1>1. \A f : Engine!SumFunction(f) = SumFunction(f)
  BY Zenon DEF Engine!SumFunction, Engine!SumFunctionOnSet, Engine!FoldFunctionOnSet,
     Engine!MapThenFoldSet, SumFunction, SumFunctionOnSet, FoldFunctionOnSet, MapThenFoldSet
<1>2. \A o : Engine!Ahead(book, o) = Ahead(book, o)
  BY <1>1, Zenon DEF Engine!Ahead, Ahead, Engine!Wanted, Wanted, Engine!Before, Before
<1>3. Engine!Served(book, total) = Served(book, total)
  BY <1>2 DEF Engine!Served, Served
<1>4. \A o : Engine!Portion(book, total, o) = Portion(book, total, o)
  BY <1>2 DEF Engine!Portion, Portion
<1>5. \A S : Engine!Portions(book, total, S) = Portions(book, total, S)
  <2>1. \A S : [o \in S |-> Engine!Portion(book, total, o)] = [o \in S |-> Portion(book, total, o)]
    BY <1>4
  <2> QED  BY <1>1, <2>1, Zenon DEF Engine!Portions, Portions
<1>6. \A u : Engine!GivenTo(some, u) = GivenTo(some, u)
  BY Zenon DEF Engine!GivenTo, GivenTo
<1>7. Engine!GivenAfter(some, book, total) = GivenAfter(some, book, total)
  BY <1>3, <1>5, <1>6 DEF Engine!GivenAfter, GivenAfter
<1>8. Engine!OrdersAfter(book, total) = OrdersAfter(book, total)
  BY <1>3, <1>4 DEF Engine!OrdersAfter, OrdersAfter
<1>9. Engine!OfferAfter(book, total) = OfferAfter(book, total)
  BY <1>3, <1>5, Zenon DEF Engine!OfferAfter, OfferAfter
<1> QED  BY <1>7, <1>8, <1>9

\* Open bids are a book, in which no two bids are the same order.
LEMMA OrdersAreABook ==
    ASSUME NEW rows, NEW ids \in Nat, NEW last \in Nat,
           WellFormed(rows, ids, last), NEW some \in SUBSET OpenBids(rows)
    PROVE  /\ IsBook(Orders(some), Users)
           /\ \A b, c \in OpenBids(rows) : Plain(b) = Plain(c) => b = c
           /\ \A b \in some : Orders(some \ {b}) = Orders(some) \ {Plain(b)}
           /\ \A o \in Orders(some) : o.volume > 0 /\ o.seq <= last
<1>1. ASSUME NEW b \in OpenBids(rows)
      PROVE  /\ b.user \in Users /\ b.volume \in Nat /\ b.volume > 0
             /\ b.price \in Int /\ b.seq \in 1 .. last /\ b.seq \in Nat
  <2>1. b \in BidsOf(rows) /\ b.volume > 0  BY DEF OpenBids
  <2>2. /\ b.user \in Users /\ b.volume \in Int /\ b.price \in I64
        /\ b.seq \in 1 .. last
    BY <2>1, BidValues
  <2>3. b.price \in Int  BY <2>2, Casts
  <2>4. b.volume \in Nat  BY <2>1, <2>2
  <2>5. b.seq \in Nat  BY <2>2
  <2> QED  BY <2>1, <2>2, <2>3, <2>4, <2>5
<1>2. \A b, c \in OpenBids(rows) : b.seq = c.seq => b = c
  BY BidValues DEF OpenBids
<1>3. \A b, c \in OpenBids(rows) : Plain(b) = Plain(c) => b = c
  <2> SUFFICES ASSUME NEW b \in OpenBids(rows), NEW c \in OpenBids(rows),
                      Plain(b) = Plain(c)
               PROVE  b = c
    OBVIOUS
  <2>1. Plain(b).seq = b.seq /\ Plain(c).seq = c.seq  BY DEF Plain
  <2> QED  BY <1>2, <2>1
<1>4. IsFiniteSet(Orders(some))
  <2> DEFINE S == {r \in BidRows(rows) : rows[r] \in some}
             f == [r \in S |-> Plain(rows[r])]
  <2>1. IsFiniteSet(S)  BY RowsFinite, FS_Subset
  <2>2. f \in Surjection(S, Orders(some))
    <3>1. \A r \in S : f[r] \in Orders(some)  BY DEF Orders
    <3>2. ASSUME NEW o \in Orders(some)  PROVE \E r \in S : f[r] = o
      <4>1. PICK b \in some : o = Plain(b)  BY DEF Orders
      <4>2. PICK r \in BidRows(rows) : b = rows[r]  BY DEF OpenBids, BidsOf
      <4> QED  BY <4>1, <4>2
    <3> HIDE DEF S
    <3> QED  BY <3>1, <3>2 DEF Surjection
  <2> HIDE DEF S, f
  <2> QED  BY <2>1, <2>2, FS_Surjection
<1>5. IsBook(Orders(some), Users)
  <2>1. Orders(some) \subseteq [user : Users, volume : Nat, price : Int, seq : Nat]
    BY <1>1 DEF Orders, Plain
  <2>2. \A o, p \in Orders(some) : o.seq = p.seq => o = p
    BY <1>2 DEF Orders, Plain
  <2> QED  BY <1>4, <2>1, <2>2 DEF IsBook
<1>6. \A b \in some : Orders(some \ {b}) = Orders(some) \ {Plain(b)}
  BY <1>3 DEF Orders
<1>7. \A o \in Orders(some) : o.volume > 0 /\ o.seq <= last
  BY <1>1 DEF Orders, Plain
<1> QED  BY <1>3, <1>5, <1>6, <1>7

\* Rows without a negative volume are an account.
LEMMA GivenIsAccount ==
    ASSUME NEW rows, NEW ids \in Nat, NEW last \in Nat,
           WellFormed(rows, ids, last), Amounts(rows)
    PROVE  IsAccount(GivenIn(rows))
<1>1. \A u \in Users : HeldIn(rows, u) \in Int /\ HeldIn(rows, u) >= 0
  BY RowValues DEF Amounts
<1>2. \A u \in Users : HeldIn(rows, u) \in Nat  BY <1>1
<1> QED  BY <1>2 DEF IsAccount, GivenIn

\* A statement that writes no row of allocations gives nobody anything.
LEMMA GivenElsewhere ==
    ASSUME NEW rows, NEW row, NEW value, \A u : row # AllocationRow(u)
    PROVE  GivenIn(Put(rows, row, value)) = GivenIn(rows)
<1> DEFINE new == Put(rows, row, value)
<1>1. ASSUME NEW u
      PROVE  /\ AllocationRow(u) \in DOMAIN new <=> AllocationRow(u) \in DOMAIN rows
             /\ HeldIn(new, u) = HeldIn(rows, u)
  <2>1. AllocationRow(u) # row  OBVIOUS
  <2>2. DOMAIN new = DOMAIN rows \cup {row}  BY DEF Put
  <2>3. AllocationRow(u) \in DOMAIN rows => new[AllocationRow(u)] = rows[AllocationRow(u)]
    BY <2>1 DEF Put
  <2> HIDE DEF new
  <2> QED  BY <2>1, <2>2, <2>3 DEF HeldIn
<1> HIDE DEF new
<1>2. GivenIn(new) = GivenIn(rows)  BY <1>1 DEF GivenIn
<1> QED  BY <1>2 DEF new

\* upsert_allocation credits the user.
LEMMA UpsertCredits ==
    ASSUME NEW rows, NEW u \in Users, NEW n \in Int
    PROVE  GivenIn(Put(rows, AllocationRow(u), Upserted(rows, AllocationRow(u), n)))
             = Credit(GivenIn(rows), u, n)
<1> DEFINE row == AllocationRow(u)
           value == Upserted(rows, row, n)
           new == Put(rows, row, value)
           given == GivenIn(rows)
<1>1. /\ DOMAIN new = DOMAIN rows \cup {row} /\ new[row] = value
      /\ \A r \in DOMAIN rows : r # row => new[r] = rows[r]
  BY DEF Put
<1>2. DOMAIN given = {v \in Users : AllocationRow(v) \in DOMAIN rows}
  BY DEF GivenIn
<1>3. value = GivenTo(given, u) + n
  <2>1. row \in DOMAIN rows => u \in DOMAIN given /\ given[u] = rows[row]
    BY DEF GivenIn, HeldIn
  <2>2. row \notin DOMAIN rows => u \notin DOMAIN given
    BY <1>2
  <2>3. u \notin DOMAIN given => GivenTo(given, u) + n = n  BY DEF GivenTo
  <2> HIDE DEF given, row
  <2> QED  BY <2>1, <2>2, <2>3 DEF Upserted, GivenTo
<1>4. \A v \in Users : AllocationRow(v) = row <=> v = u
  BY RowKinds
<1>5. ASSUME NEW v \in Users, AllocationRow(v) \in DOMAIN rows
      PROVE  given[v] = rows[AllocationRow(v)]
  BY <1>5 DEF GivenIn, HeldIn
<1> HIDE DEF new, value, row, given
<1>6. {v \in Users : AllocationRow(v) \in DOMAIN new} = DOMAIN given \cup {u}
  BY <1>1, <1>2, <1>4
<1>7. ASSUME NEW v \in DOMAIN given \cup {u}
      PROVE  HeldIn(new, v) = IF v = u THEN GivenTo(given, u) + n ELSE given[v]
  <2>1. AllocationRow(v) \in DOMAIN new /\ v \in Users  BY <1>6
  <2>2. HeldIn(new, v) = new[AllocationRow(v)]  BY <2>1 DEF HeldIn
  <2>3. CASE v = u
    <3>1. AllocationRow(v) = row  BY <1>4, <2>3
    <3> QED  BY <1>1, <1>3, <2>2, <2>3, <3>1
  <2>4. CASE v # u
    <3>1. AllocationRow(v) # row /\ AllocationRow(v) \in DOMAIN rows
      BY <1>1, <1>4, <2>1, <2>4
    <3> QED  BY <1>1, <1>5, <2>1, <2>2, <2>4, <3>1
  <2> QED  BY <2>3, <2>4
<1>8. GivenIn(new) = Credit(given, u, n)
  BY <1>6, <1>7 DEF GivenIn, Credit
<1> QED  BY <1>8 DEF new, value, row, given

\* What requests carry when the casts change nothing.
LEMMA PlainValues ==
    ASSUME PlainRequests, NEW r \in BuyRequest \cup SellRequest
    PROVE  /\ NoNegatives
           /\ r.volume \in Nat /\ r.volume > 0 /\ AsI64(r.volume) = r.volume
           /\ r.volume \in Volumes
           /\ r.op = "buy" => /\ r.user \in Users /\ r.price \in Prices
                              /\ AsI64(r.price) = r.price /\ r.price \in Int
<1>1. NoNegatives  BY DEF PlainRequests, NoNegatives
<1>2. r.volume \in Volumes  BY DEF BuyRequest, SellRequest
<1>3. r.volume \in Nat /\ AsI64(r.volume) = r.volume  BY <1>1, RequestValues
<1>4. r.volume # 0  BY <1>2 DEF PlainRequests
<1>5. r.op = "buy" => r.user \in Users /\ r.price \in Prices
  BY DEF BuyRequest, SellRequest
<1>6. r.price \in Prices => AsI64(r.price) = r.price /\ r.price \in Int
  BY PostgresAssumption, Casts DEF PlainRequests
<1> QED  BY <1>1, <1>2, <1>3, <1>4, <1>5, <1>6

-----------------------------------------------------------------------------
(* What each statement makes of the match. *)

\* A statement that waits for its row fails, or its view has the row's value.
LEMMA UpdateOutcome ==
    ASSUME Invariant, NEW w \in Workers, NEW row, NEW value, NEW n, NEW next,
           Update(w, row, value, n, next), table' = table
    PROVE  \/ ~(Writing(w)')
           \/ pc'[w] = next /\ View(w)' = Put(View(w), row, value)
<1>1. DOMAIN pc = Workers /\ DOMAIN draft = Workers
  BY DEF Invariant, LockOrder
<1>2. CASE FitsBigint(n)
  BY <1>1, <1>2, ViewPut DEF Update, Goto
<1>3. CASE ~FitsBigint(n)
  <2>1. pc'[w] = "aborted"  BY <1>1, <1>3 DEF Update, Goto
  <2> QED  BY <2>1 DEF Writing, Working
<1> QED  BY <1>2, <1>3

\* The rows of the other tables are none of allocations.
LEMMA RowsApart ==
    /\ \A u : SupplyRow # AllocationRow(u)
    /\ \A i, u : BidRow(i) # AllocationRow(u)
BY DEF SupplyRow, BidRow, AllocationRow

\* Outside its transaction a task has nothing to match.
LEMMA NothingToMatch ==
    ASSUME NEW w \in Workers, ~(Writing(w)')  PROVE Progress(w)'
  BY DEF Progress, Buying, Selling

\* A buy makes no progress as a sell does.
LEMMA AsBuyer ==
    ASSUME NEW w \in Workers, req'[w].op = "buy", BuyProgress(w)'  PROVE Progress(w)'
  BY DEF Progress, Selling

\* A sell makes none as a buy does.
LEMMA AsSeller ==
    ASSUME NEW w \in Workers, req'[w].op = "sell", SellProgress(w)'  PROVE Progress(w)'
  BY DEF Progress, Buying

\* A step of another task leaves a transaction where it is.
LEMMA BystanderProgress ==
    ASSUME NEW v \in Workers, Progress(v), Mine(v)' = Mine(v),
           ~Writing(v) \/ table' = table
    PROVE  Progress(v)'
<1>1. /\ pc'[v] = pc[v] /\ req'[v] = req[v] /\ supply'[v] = supply[v]
      /\ seq'[v] = seq[v] /\ bid'[v] = bid[v] /\ fetched'[v] = fetched[v]
      /\ draft'[v] = draft[v]
  BY DEF Mine
<1>2. (Writing(v)' <=> Writing(v)) /\ (Buying(v)' <=> Buying(v))
      /\ (Selling(v)' <=> Selling(v))
  BY <1>1 DEF Writing, Buying, Selling
<1>3. CASE ~Writing(v)  BY <1>2, <1>3, NothingToMatch
<1>4. CASE table' = table
  <2>1. View(v)' = View(v)  BY <1>1, <1>4 DEF View
  <2>2. Fill(v)' = Fill(v)  BY <1>1 DEF Fill, Full
  <2>3. /\ Book(View(v))' = Book(View(v)) /\ Book(table)' = Book(table)
        /\ GivenIn(View(v))' = GivenIn(View(v)) /\ GivenIn(table)' = GivenIn(table)
        /\ OrderOf(v)' = OrderOf(v) /\ (Untouched(v)' <=> Untouched(v))
    BY <1>1, <1>4, <2>1 DEF Untouched, OrderOf
  <2>4. \A book, total : Reached(v, book, total)' <=> Reached(v, book, total)
    BY <1>4, <2>1, <2>3 DEF Reached
  <2>5. BuyProgress(v)' <=> BuyProgress(v)
    BY <1>1, <1>4, <2>1, <2>2, <2>3, <2>4 DEF BuyProgress
  <2>6. SellProgress(v)' <=> SellProgress(v)
    BY <1>1, <1>4, <2>1, <2>2, <2>3, <2>4 DEF SellProgress, LeftToMatch
  <2> QED  BY <1>2, <2>5, <2>6 DEF Progress
<1> QED  BY <1>3, <1>4

\* The rows that are committed, as the abstract engine has them.
LEMMA CommittedValues ==
    ASSUME NoNegatives, Base
    PROVE  /\ table[SupplyRow].supply \in Nat /\ table[SupplyRow].buy_seq \in Nat
           /\ IsBook(Book(table), Users) /\ IsAccount(GivenIn(table))
           /\ \A o \in Book(table) : o.volume > 0 /\ o.seq <= table[SupplyRow].buy_seq
           /\ table[SupplyRow].supply > 0 => Book(table) = {}
<1>1. /\ WellFormed(table, lastId, table[SupplyRow].buy_seq) /\ lastId \in Nat
      /\ Amounts(table) /\ NoIdleSupply
  BY DEF Base
<1>2. table[SupplyRow].supply \in Nat /\ table[SupplyRow].buy_seq \in Nat
  <2>1. table[SupplyRow] \in [supply : Int, buy_seq : Nat]  BY <1>1 DEF WellFormed
  <2>2. table[SupplyRow].supply >= 0  BY <1>1 DEF Amounts
  <2> QED  BY <2>1, <2>2
<1>3. IsAccount(GivenIn(table))  BY <1>1, <1>2, GivenIsAccount
<1>4. /\ IsBook(Book(table), Users)
      /\ \A o \in Book(table) : o.volume > 0 /\ o.seq <= table[SupplyRow].buy_seq
  BY <1>1, <1>2, OrdersAreABook DEF Book
<1>5. table[SupplyRow].supply > 0 => Book(table) = {}
  BY <1>1 DEF NoIdleSupply, SupplyLeft, Book, Orders
<1> QED  BY <1>2, <1>3, <1>4, <1>5

\* The rows that a transaction sees, likewise.
LEMMA ViewValues ==
    ASSUME PlainRequests, Invariant, NEW w \in Workers, Writing(w)
    PROVE  LET V == View(w) IN
           /\ Base /\ Task(w) /\ NoNegatives
           /\ req[w] \in BuyRequest \cup SellRequest /\ req[w].op \in {"buy", "sell"}
           /\ V[SupplyRow].supply \in Nat /\ V[SupplyRow].buy_seq \in Nat
           /\ \E last \in Nat : WellFormed(V, lastId, last)
           /\ lastId \in Nat /\ IsAccount(GivenIn(V)) /\ IsBook(Book(V), Users)
           /\ \A some \in SUBSET OpenBids(V) :
                /\ IsBook(Orders(some), Users)
                /\ \A b \in some : Orders(some \ {b}) = Orders(some) \ {Plain(b)}
           /\ \A b, c \in OpenBids(V) : Plain(b) = Plain(c) => b = c
<1> DEFINE V == View(w)
           last == IF pc[w] = "bump" THEN seq[w] ELSE V[SupplyRow].buy_seq
<1>1. Base /\ Task(w) /\ InPlace(w)  BY DEF Invariant, Task
<1>2. NoNegatives  BY DEF PlainRequests, NoNegatives
<1>3. /\ last \in Nat /\ WellFormed(V, lastId, last) /\ lastId \in Nat
      /\ V[SupplyRow] \in [supply : Int, buy_seq : Nat]
      /\ req[w] \in BuyRequest \cup SellRequest /\ req[w].op \in {"buy", "sell"}
  BY <1>1, WritingValues
<1>4. Amounts(V)  BY <1>1, <1>2 DEF Task, Accounts
<1>5. V[SupplyRow].supply \in Nat /\ V[SupplyRow].buy_seq \in Nat
  BY <1>3, <1>4 DEF Amounts
<1> HIDE DEF V, last
<1>6. IsAccount(GivenIn(V))  BY <1>3, <1>4, GivenIsAccount
<1>7. ASSUME NEW some \in SUBSET OpenBids(V)
      PROVE  /\ IsBook(Orders(some), Users)
             /\ \A b \in some : Orders(some \ {b}) = Orders(some) \ {Plain(b)}
  BY <1>3, OrdersAreABook
<1>8. IsBook(Book(V), Users)
  <2>1. OpenBids(V) \in SUBSET OpenBids(V)  OBVIOUS
  <2> QED  BY <1>7, <2>1 DEF Book
<1>9. \A b, c \in OpenBids(V) : Plain(b) = Plain(c) => b = c
  <2>1. {} \in SUBSET OpenBids(V)  OBVIOUS
  <2> QED  BY <1>3, <2>1, OrdersAreABook
<1>v. V = View(w)  BY DEF V
<1>10. \E n \in Nat : WellFormed(V, lastId, n)  BY <1>3
<1> QED  BY <1>1, <1>2, <1>3, <1>5, <1>6, <1>7, <1>8, <1>9, <1>10, <1>v

\* A buy adds one order to the book.
LEMMA OrderJoins ==
    ASSUME PlainRequests, NEW w \in Workers, Base, req[w] \in BuyRequest \cup SellRequest,
           req[w].op = "buy"
    PROVE  /\ IsBook({OrderOf(w)}, Users)
           /\ IsBook(Book(table) \cup {OrderOf(w)}, Users)
           /\ OrderOf(w).volume = req[w].volume /\ OrderOf(w).user = req[w].user
           /\ req[w].volume \in Nat /\ req[w].volume > 0
<1> DEFINE o == OrderOf(w)
<1>1. NoNegatives  BY DEF PlainRequests, NoNegatives
<1>2. /\ req[w].volume \in Nat /\ req[w].volume > 0 /\ req[w].user \in Users
      /\ req[w].price \in Int
  BY PlainValues
<1>3. /\ table[SupplyRow].buy_seq \in Nat /\ IsBook(Book(table), Users)
      /\ \A p \in Book(table) : p.seq <= table[SupplyRow].buy_seq
  BY <1>1, CommittedValues
<1>4. /\ o \in [user : Users, volume : Nat, price : Int, seq : Nat]
      /\ o.seq = table[SupplyRow].buy_seq + 1
      /\ o.volume = req[w].volume /\ o.user = req[w].user
  BY <1>2, <1>3 DEF OrderOf
<1> HIDE DEF o
<1>5. \A p \in Book(table) : p.seq \in Nat /\ p.seq # o.seq
  <2>1. \A p \in Book(table) : p.seq \in Nat  BY <1>3 DEF IsBook
  <2> QED  BY <1>3, <1>4, <2>1
<1>6. IsFiniteSet({o}) /\ IsFiniteSet(Book(table) \cup {o})
  <2>1. IsFiniteSet(Book(table))  BY <1>3 DEF IsBook
  <2> QED  BY <2>1, FS_AddElement, FS_Singleton
<1>7. IsBook({o}, Users)  BY <1>4, <1>6 DEF IsBook
<1>8. IsBook(Book(table) \cup {o}, Users)  BY <1>3, <1>4, <1>5, <1>6 DEF IsBook
<1> QED  BY <1>2, <1>4, <1>7, <1>8 DEF o

\* buy has read the supply and changed nothing.
LEMMA LockSupplyProgress ==
    ASSUME PlainRequests, Invariant, NEW w \in Workers, LockSupply(w)
    PROVE  Progress(w)'
<1>d. /\ DOMAIN pc = Workers /\ DOMAIN supply = Workers /\ Base /\ Task(w)
  BY DEF Invariant, LockOrder, Typed
<1>1. /\ pc[w] = "lock" /\ table' = table /\ req' = req /\ View(w)' = View(w)
  BY DEF LockSupply, At, database, View
<1>2. View(w) = table  BY <1>1, FreshView DEF Invariant, Fresh
<1>3. /\ supply'[w] = table[SupplyRow].supply
      /\ pc'[w] = IF table[SupplyRow].supply <= 0 THEN "insert" ELSE "take"
  BY <1>d, <1>2 DEF LockSupply, Goto
<1>4. req[w].op = "buy"  BY <1>d, <1>1 DEF Task, InPlace
<1>5. table[SupplyRow].supply \in Nat /\ table[SupplyRow].buy_seq \in Nat
  BY <1>d, CommittedValues DEF PlainRequests, NoNegatives
<1>6. \/ pc'[w] = "insert" /\ table[SupplyRow].supply = 0
      \/ pc'[w] = "take" /\ table[SupplyRow].supply > 0
  BY <1>3, <1>5
<1>7. Untouched(w)'  BY <1>1, <1>2 DEF Untouched
<1>8. BuyProgress(w)'
  BY <1>1, <1>2, <1>3, <1>5, <1>6, <1>7 DEF BuyProgress
<1> QED  BY <1>1, <1>4, <1>8, AsBuyer

\* sell has put its volume on offer.
LEMMA AddSupplyProgress ==
    ASSUME PlainRequests, Invariant, NEW w \in Workers, AddSupply(w)
    PROVE  Progress(w)'
<1> DEFINE total == View(w)[SupplyRow].supply + AsI64(req[w].volume)
           value == [View(w)[SupplyRow] EXCEPT !.supply = total]
<1>1. /\ pc[w] = "add" /\ Base /\ Task(w) /\ table' = table /\ req' = req
  BY DEF AddSupply, At, database, Invariant
<1>u. Update(w, SupplyRow, value, total, "select")
  BY Zenon DEF AddSupply
<1>2. View(w) = table  BY <1>1, FreshView DEF Invariant, Fresh
<1>3. req[w] \in BuyRequest \cup SellRequest /\ req[w].op = "sell"
  BY <1>1 DEF Task, InPlace
<1>4. /\ WellFormed(table, lastId, table[SupplyRow].buy_seq) /\ lastId \in Nat
      /\ table[SupplyRow] \in [supply : Int, buy_seq : Nat]
  BY <1>1 DEF Base, WellFormed
<1>5. AsI64(req[w].volume) = req[w].volume /\ req[w].volume \in Nat
  BY <1>3, PlainValues
<1>6. /\ value \in [supply : Int, buy_seq : Nat]
      /\ value.supply = table[SupplyRow].supply + req[w].volume
      /\ value.buy_seq = table[SupplyRow].buy_seq
  BY <1>2, <1>4, <1>5
<1> HIDE DEF total, value
<1>7. \/ ~(Writing(w)')
      \/ pc'[w] = "select" /\ View(w)' = Put(View(w), SupplyRow, value)
  BY <1>1, <1>u, UpdateOutcome
<1>8. CASE pc'[w] = "select" /\ View(w)' = Put(View(w), SupplyRow, value)
  <2>1. /\ OpenBids(View(w)') = OpenBids(table) /\ View(w)'[SupplyRow] = value
    <3>1. table[SupplyRow].buy_seq \in Nat  BY <1>4
    <3>2. /\ OpenBids(Put(table, SupplyRow, value)) = OpenBids(table)
          /\ Put(table, SupplyRow, value)[SupplyRow] = value
      BY <1>4, <1>6, <3>1, PutSupply
    <3> QED  BY <1>2, <1>8, <3>2
  <2>2. GivenIn(View(w)') = GivenIn(table)
    BY <1>2, <1>8, RowsApart, GivenElsewhere
  <2>3. Untouched(w)'  BY <1>1, <2>1, <2>2 DEF Untouched, Book
  <2>4. SellProgress(w)'
    BY <1>1, <1>6, <1>8, <2>1, <2>3 DEF SellProgress
  <2> QED  BY <1>1, <1>3, <2>4, AsSeller
<1> QED  BY <1>7, <1>8, NothingToMatch

\* sell has all the open bids to match.
LEMMA SelectBidsProgress ==
    ASSUME PlainRequests, Invariant, RefInv, NEW w \in Workers, SelectBids(w)
    PROVE  Progress(w)'
<1>d. DOMAIN pc = Workers /\ DOMAIN fetched = Workers
  BY DEF Invariant, LockOrder, Typed
<1>1. /\ pc[w] = "select" /\ pc'[w] = "next" /\ table' = table /\ req' = req
      /\ View(w)' = View(w) /\ fetched'[w] = OpenBids(View(w))
  BY <1>d DEF SelectBids, At, Goto, database, View
<1>2. Selling(w) /\ req[w].op = "sell"  BY <1>1, SellingValues
<1>3. SellProgress(w)  BY <1>2 DEF RefInv, Progress
<1> DEFINE V == View(w)
           total == table[SupplyRow].supply + req[w].volume
<1>4. /\ Book(V) = Book(table) /\ GivenIn(V) = GivenIn(table)
      /\ V[SupplyRow].supply = total /\ V[SupplyRow].buy_seq = table[SupplyRow].buy_seq
  BY <1>1, <1>3 DEF SellProgress, Untouched
<1>5. Orders(fetched'[w]) = Book(table)  BY <1>1, <1>4 DEF Book
<1>6. LeftToMatch(w, GivenIn(V), fetched[w], V[SupplyRow].supply)'
  <2>1. (Book(V) \ Book(table)) \cup OrdersAfter(Book(table), total)
          = OrdersAfter(Book(table), total)
    BY <1>4
  <2> HIDE DEF V, total
  <2>2. V = View(w) /\ V' = V /\ total' = total  BY <1>1 DEF V, total
  <2> QED  BY <1>1, <1>4, <1>5, <2>1, <2>2 DEF LeftToMatch, total
<1>7. SellProgress(w)'  BY <1>1, <1>4, <1>6 DEF SellProgress
<1> QED  BY <1>1, <1>2, <1>7, AsSeller

\* sell takes the first of them, or nothing is left to match.
LEMMA NextBidProgress ==
    ASSUME PlainRequests, Invariant, RefInv, NEW w \in Workers, NextBid(w)
    PROVE  Progress(w)'
<1>d. /\ DOMAIN pc = Workers /\ DOMAIN fetched = Workers
      /\ DOMAIN supply = Workers /\ DOMAIN bid = Workers
  BY DEF Invariant, LockOrder, Typed
<1> DEFINE V == View(w)
           T == fetched[w]
           b == First(T)
           left == V[SupplyRow].supply
           total == table[SupplyRow].supply + req[w].volume
<1>1. /\ pc[w] = "next" /\ T # {} /\ table' = table /\ req' = req
      /\ View(w)' = V
  BY DEF NextBid, At, database, View
<1>2. /\ supply'[w] = left /\ bid'[w] = b /\ fetched'[w] = T \ {b}
      /\ pc'[w] = IF left = 0 THEN "commit" ELSE "take"
  BY <1>d DEF NextBid, Goto
<1>3. Selling(w) /\ req[w].op = "sell" /\ Task(w) /\ Writing(w)  BY <1>1, SellingValues
<1>4. T \subseteq OpenBids(V)  BY <1>1, <1>3 DEF Task, InPlace, Fetched
<1>5. /\ V[SupplyRow].supply \in Nat /\ lastId \in Nat
      /\ \E last \in Nat : WellFormed(V, lastId, last)
      /\ IsAccount(GivenIn(V)) /\ IsBook(Orders(T), Users)
  BY <1>3, <1>4, ViewValues
<1>6. /\ LeftToMatch(w, GivenIn(V), T, left)
      /\ V[SupplyRow].buy_seq = table[SupplyRow].buy_seq
  BY <1>1, <1>3 DEF SellProgress, RefInv, Progress
<1>v. V = View(w)  OBVIOUS
<1> HIDE DEF V
<1>7. b \in T /\ \A c \in T : c = b \/ Precedes(b, c)
  <2>1. T \in SUBSET BidsOf(V)  BY <1>4 DEF OpenBids
  <2> HIDE DEF T
  <2>2. First(T) \in T /\ \A c \in T : c = First(T) \/ Precedes(First(T), c)
    BY <1>1, <1>5, <2>1, FirstIsOne
  <2> QED  BY <2>2
<1>8. IsFirst(Plain(b), Orders(T))
  BY <1>7 DEF IsFirst, Orders, Plain, Precedes, Before
<1> HIDE DEF b, T
<1>9. (T \ {b}) \cup {b} = T  BY <1>7
<1>10. CASE left = 0
  <2>1. pc'[w] = "commit"  BY <1>2, <1>10
  <2>2. /\ OrdersAfter(Orders(T), 0) = Orders(T) /\ OfferAfter(Orders(T), 0) = 0
        /\ GivenAfter(GivenIn(V), Orders(T), 0) = GivenIn(V)
    BY <1>5, MatchIdle
  <2>3. Orders(T) \subseteq Book(V)  BY <1>4 DEF Orders, Book
  <2>4. /\ OrdersAfter(Book(table), total) = Book(V)
        /\ OfferAfter(Book(table), total) = left
        /\ GivenAfter(GivenIn(table), Book(table), total) = GivenIn(V)
    <3>1. (Book(V) \ Orders(T)) \cup Orders(T) = Book(V)  BY <2>3
    <3> QED  BY <1>6, <1>10, <1>v, <2>2, <3>1 DEF LeftToMatch
  <2>5. Reached(w, Book(table), total)'
    <3> HIDE DEF total
    <3>1. total' = total  BY <1>1 DEF total
    <3> QED  BY <1>1, <1>v, <2>4, <3>1 DEF Reached
  <2>6. SellProgress(w)'
    BY <1>1, <1>6, <1>v, <2>1, <2>5 DEF SellProgress
  <2> QED  BY <1>1, <1>3, <2>6, AsSeller
<1>11. CASE left # 0
  <2>1. pc'[w] = "take" /\ supply'[w] > 0  BY <1>2, <1>5, <1>11
  <2>2. fetched'[w] \cup {bid'[w]} = T  BY <1>2, <1>9
  <2>3. /\ OrdersAfter(Book(table), total)
             = (Book(V) \ Orders(T)) \cup OrdersAfter(Orders(T), left)
        /\ OfferAfter(Book(table), total) = OfferAfter(Orders(T), left)
        /\ GivenAfter(GivenIn(table), Book(table), total)
             = GivenAfter(GivenIn(V), Orders(T), left)
    BY <1>6, <1>v DEF LeftToMatch
  <2>4. SellProgress(w)'
    BY <1>1, <1>2, <1>6, <1>8, <1>v, <2>1, <2>2, <2>3 DEF SellProgress, LeftToMatch
  <2> QED  BY <1>1, <1>3, <2>4, AsSeller
<1> QED  BY <1>10, <1>11

\* sell has visited all the open bids.
LEMMA EndLoopProgress ==
    ASSUME PlainRequests, Invariant, RefInv, NEW w \in Workers, EndLoop(w)
    PROVE  Progress(w)'
<1>d. DOMAIN pc = Workers  BY DEF Invariant, LockOrder
<1> DEFINE V == View(w)
           left == V[SupplyRow].supply
           total == table[SupplyRow].supply + req[w].volume
<1>1. /\ pc[w] = "next" /\ pc'[w] = "commit" /\ fetched[w] = {}
      /\ table' = table /\ req' = req /\ View(w)' = V
  BY <1>d DEF EndLoop, At, Goto, database, session, View
<1>2. Selling(w) /\ req[w].op = "sell" /\ Writing(w)  BY <1>1, SellingValues
<1>3. left \in Nat /\ IsAccount(GivenIn(V)) /\ IsBook(Book(V), Users)
  BY <1>2, ViewValues
<1>4. /\ LeftToMatch(w, GivenIn(V), {}, left)
      /\ V[SupplyRow].buy_seq = table[SupplyRow].buy_seq
  BY <1>1, <1>2 DEF SellProgress, RefInv, Progress
<1>v. V = View(w)  OBVIOUS
<1> HIDE DEF V
<1>5. Orders({}) = {} /\ IsBook({}, Users)
  BY FS_EmptySet DEF Orders, IsBook
<1>6. /\ OrdersAfter({}, left) = {} /\ OfferAfter({}, left) = left
      /\ GivenAfter(GivenIn(V), {}, left) = GivenIn(V)
  BY <1>3, <1>5, MatchIdle
<1>7. /\ OrdersAfter(Book(table), total) = Book(V)
      /\ OfferAfter(Book(table), total) = left
      /\ GivenAfter(GivenIn(table), Book(table), total) = GivenIn(V)
  <2>1. (Book(V) \ {}) \cup {} = Book(V)  OBVIOUS
  <2> QED  BY <1>4, <1>5, <1>6, <1>v, <2>1 DEF LeftToMatch
<1>8. Reached(w, Book(table), total)'
  <2> HIDE DEF total
  <2>1. total' = total  BY <1>1 DEF total
  <2> QED  BY <1>1, <1>v, <1>7, <2>1 DEF Reached
<1>9. SellProgress(w)'  BY <1>1, <1>4, <1>v, <1>8 DEF SellProgress
<1> QED  BY <1>1, <1>2, <1>9, AsSeller

\* The supply of a fill is taken before anything else of it is entered.
LEMMA TakeProgress ==
    ASSUME PlainRequests, Invariant, RefInv, NEW w \in Workers, Take(w)
    PROVE  Progress(w)'
<1> DEFINE V == View(w)
           left == IF Full(w) THEN V[SupplyRow].supply - bid[w].volume ELSE 0
           value == [V[SupplyRow] EXCEPT !.supply = left]
           next == IF req[w].op = "buy" THEN "give" ELSE "mark"
<1>1. /\ pc[w] = "take" /\ Writing(w)
      /\ UNCHANGED <<table, req, supply, seq, bid, fetched>>
  BY DEF Take, At, database, Writing, Working
<1>u. Update(w, SupplyRow, value, left, next)
  BY DEF Take
<1>2. /\ Base /\ Task(w) /\ NoNegatives /\ req[w].op \in {"buy", "sell"}
      /\ V[SupplyRow].supply \in Nat /\ V[SupplyRow].buy_seq \in Nat
      /\ \E last \in Nat : WellFormed(V, lastId, last)
      /\ lastId \in Nat
  BY <1>1, ViewValues
<1>3. Progress(w)  BY DEF RefInv
<1>4. supply[w] = V[SupplyRow].supply  BY <1>1, <1>2 DEF Task, Balances
<1>5. /\ supply[w] \in Int /\ bid[w].volume \in Int
  <2>1. Buying(w) \/ Selling(w)  BY <1>1, <1>2 DEF Buying, Selling
  <2>2. Buying(w) => req[w] \in BuyRequest \cup SellRequest
    BY <1>1, ViewValues
  <2>3. Buying(w) => AsI64(req[w].volume) \in Int  BY <2>2, RequestValues
  <2> QED  BY <1>1, <1>2, <2>1, <2>3 DEF Task, InPlace
<1>6. left = V[SupplyRow].supply - Fill(w) /\ left \in Int
  BY <1>2, <1>4, <1>5, FillParts
<1>7. V[SupplyRow] \in [supply : Int, buy_seq : Nat]
  BY <1>2 DEF WellFormed
<1>8. /\ value \in [supply : Int, buy_seq : Nat]
      /\ value.supply = V[SupplyRow].supply - Fill(w)
      /\ value.buy_seq = V[SupplyRow].buy_seq
  BY <1>6, <1>7
<1>v. V = View(w)  OBVIOUS
<1> HIDE DEF left, value, next, V
<1>9. \/ ~(Writing(w)')
      \/ pc'[w] = next /\ View(w)' = Put(V, SupplyRow, value)
  BY <1>1, <1>u, <1>v, UpdateOutcome
<1>10. CASE pc'[w] = next /\ View(w)' = Put(V, SupplyRow, value)
  <2>1. /\ View(w)'[SupplyRow] = value
        /\ OpenBids(View(w)') = OpenBids(V)
    <3>1. PICK last \in Nat : WellFormed(V, lastId, last)  BY <1>2
    <3>2. /\ Put(V, SupplyRow, value)[SupplyRow] = value
          /\ OpenBids(Put(V, SupplyRow, value)) = OpenBids(V)
      BY <1>2, <1>8, <3>1, PutSupply
    <3> QED  BY <1>10, <3>2
  <2>2. GivenIn(View(w)') = GivenIn(V)
    BY <1>10, RowsApart, GivenElsewhere
  <2>3. Book(View(w)') = Book(V)  BY <2>1 DEF Book
  <2>4. Fill(w)' = Fill(w)  BY <1>1 DEF Fill, Full
  <2>5. CASE req[w].op = "buy"
    <3>1. BuyProgress(w)  BY <1>1, <1>3, <2>5 DEF Progress, Buying
    <3>2. /\ V[SupplyRow].buy_seq = table[SupplyRow].buy_seq + 0
          /\ supply[w] = table[SupplyRow].supply
          /\ V[SupplyRow].supply = table[SupplyRow].supply
          /\ Untouched(w) /\ table[SupplyRow].supply > 0
      BY <1>1, <1>v, <3>1 DEF BuyProgress
    <3>3. pc'[w] = "give"  BY <1>10, <2>5 DEF next
    <3>4. Untouched(w)'  BY <1>1, <1>v, <2>2, <2>3, <3>2 DEF Untouched
    <3>5. BuyProgress(w)'
      BY <1>1, <1>8, <2>1, <2>4, <3>2, <3>3, <3>4 DEF BuyProgress
    <3> QED  BY <1>1, <2>5, <3>5, AsBuyer
  <2>6. CASE req[w].op = "sell"
    <3>1. SellProgress(w)  BY <1>1, <1>3, <2>6 DEF Progress, Selling
    <3> DEFINE some == fetched[w] \cup {bid[w]}
    <3>2. /\ V[SupplyRow].buy_seq = table[SupplyRow].buy_seq
          /\ supply[w] > 0 /\ IsFirst(Plain(bid[w]), Orders(some))
          /\ LeftToMatch(w, GivenIn(V), some, supply[w])
      BY <1>1, <1>v, <3>1 DEF SellProgress
    <3>3. pc'[w] = "mark"  BY <1>10, <2>6 DEF next
    <3>4. some' = some  BY <1>1
    <3> HIDE DEF some
    <3>5. LeftToMatch(w, GivenIn(View(w)), some, supply[w])'
      BY <1>1, <1>v, <2>2, <2>3, <3>2, <3>4 DEF LeftToMatch
    <3>6. SellProgress(w)'
      BY <1>1, <1>4, <1>8, <2>1, <2>4, <3>2, <3>3, <3>4, <3>5 DEF SellProgress, some
    <3> QED  BY <1>1, <2>6, <3>6, AsSeller
  <2> QED  BY <1>2, <2>5, <2>6
<1> QED  BY <1>9, <1>10, NothingToMatch

\* UPDATE bids changes the volume of one order of the book, or closes it.
LEMMA PutOpenBid ==
    ASSUME NEW rows, NEW ids \in Nat, NEW last \in Nat,
           WellFormed(rows, ids, last), NEW b \in OpenBids(rows), NEW n \in Int
    PROVE  LET new == Put(rows, BidRow(b.id), [rows[BidRow(b.id)] EXCEPT !.volume = n])
           IN  /\ rows[BidRow(b.id)] = b
               /\ new[SupplyRow] = rows[SupplyRow]
               /\ GivenIn(new) = GivenIn(rows)
               /\ Book(new) = (Book(rows) \ {Plain(b)})
                    \cup (IF n > 0 THEN {[Plain(b) EXCEPT !.volume = n]} ELSE {})
<1> DEFINE i == b.id
           row == BidRow(i)
           value == [b EXCEPT !.volume = n]
           new == Put(rows, row, value)
<1>1. b \in BidsOf(rows) /\ b.volume > 0  BY DEF OpenBids
<1>2. /\ row \in BidRows(rows) /\ rows[row] = b
      /\ \A c \in BidsOf(rows) : c.id = i => c = b
  BY <1>1, BidValues
<1>3. \E j \in 1 .. ids :
        /\ row = BidRow(j)
        /\ b \in [id : {j}, user : Users, volume : Int, price : I64, seq : 1 .. last]
  BY <1>2, RowValues
<1>4. /\ i \in 1 .. ids
      /\ b \in [id : {i}, user : Users, volume : Int, price : I64, seq : 1 .. last]
  BY <1>3
<1>5. /\ value \in [id : {i}, user : Users, volume : Int, price : I64, seq : 1 .. last]
      /\ value.seq = b.seq /\ value.volume = n
      /\ Plain(value) = [Plain(b) EXCEPT !.volume = n]
  BY <1>4 DEF Plain
<1>6. Unnumbered(rows, row, value.seq)
  BY <1>2, <1>5 DEF WellFormed, Unnumbered
<1>7. BidPut(new, rows, i, value)
  <2>1. ids <= ids /\ last <= last  OBVIOUS
  <2> HIDE DEF i, value
  <2> QED  BY <1>4, <1>5, <1>6, <2>1, PutBid
<1>8. GivenIn(new) = GivenIn(rows)
  BY RowsApart, GivenElsewhere
<1> HIDE DEF new, value, row, i
<1>9. BidsOf(new) = (BidsOf(rows) \ {b}) \cup {value}
  <2>1. {c \in BidsOf(rows) : c.id # i} = BidsOf(rows) \ {b}
    BY <1>1, <1>2 DEF i
  <2> QED  BY <1>7, <2>1 DEF BidPut
<1>10. OpenBids(new) = (OpenBids(rows) \ {b}) \cup (IF n > 0 THEN {value} ELSE {})
  BY <1>5, <1>9 DEF OpenBids
<1>11. Orders(OpenBids(rows) \ {b}) = Book(rows) \ {Plain(b)}
  <2>1. OpenBids(rows) \in SUBSET OpenBids(rows)  OBVIOUS
  <2> QED  BY <2>1, OrdersAreABook DEF Book
<1>12. Book(new) = (Book(rows) \ {Plain(b)})
          \cup (IF n > 0 THEN {[Plain(b) EXCEPT !.volume = n]} ELSE {})
  <2>1. \A S, T : Orders(S \cup T) = Orders(S) \cup Orders(T)  BY DEF Orders
  <2>2. Orders({value}) = {Plain(value)} /\ Orders({}) = {}  BY DEF Orders
  <2>3. CASE n > 0
    <3>1. Book(new) = Orders((OpenBids(rows) \ {b}) \cup {value})
      BY <1>10, <2>3 DEF Book
    <3> QED  BY <1>5, <1>11, <2>1, <2>2, <2>3, <3>1
  <2>4. CASE ~(n > 0)
    <3>1. Book(new) = Orders(OpenBids(rows) \ {b})  BY <1>10, <2>4 DEF Book
    <3> QED  BY <1>11, <2>4, <3>1
  <2> QED  BY <2>3, <2>4
<1>13. new[SupplyRow] = rows[SupplyRow]  BY <1>7 DEF BidPut
<1> QED  BY <1>2, <1>8, <1>12, <1>13 DEF new, value, row, i

\* The first bid is off what sell has to match, once it is marked.
LEMMA MarkBidProgress ==
    ASSUME PlainRequests, Invariant, RefInv, NEW w \in Workers, MarkBid(w)
    PROVE  Progress(w)'
<1> DEFINE V == View(w)
           W == View(w)'
           b == bid[w]
           row == BidRow(b.id)
           left == IF Full(w) THEN 0 ELSE V[row].volume - supply[w]
           value == [V[row] EXCEPT !.volume = left]
           T == fetched[w]
           some == T \cup {b}
           sum == supply[w]
           given == GivenIn(V)
           total == table[SupplyRow].supply + req[w].volume
           o == Plain(b)
<1>1. /\ pc[w] = "mark"
      /\ UNCHANGED <<table, req, supply, seq, bid, fetched>>
  BY DEF MarkBid, At, database
<1>u. Update(w, row, value, left, "give")
  BY DEF MarkBid
<1>2. Selling(w) /\ req[w].op = "sell" /\ Task(w) /\ Writing(w)  BY <1>1, SellingValues
<1>3. /\ T \subseteq OpenBids(V) /\ b \notin T /\ b \in OpenBids(V)
      /\ sum \in Int /\ b.volume \in Int /\ b.user \in Users
  BY <1>1, <1>2 DEF Task, InPlace, Fetched
<1>4. /\ \E last \in Nat : WellFormed(V, lastId, last)
      /\ lastId \in Nat /\ IsAccount(given)
      /\ IsBook(Orders(some), Users) /\ IsBook(Orders(T), Users)
      /\ Orders(some \ {b}) = Orders(some) \ {o}
  <2>1. some \in SUBSET OpenBids(V) /\ T \in SUBSET OpenBids(V) /\ b \in some
    BY <1>3
  <2> HIDE DEF some, T
  <2> QED  BY <1>2, <2>1, ViewValues
<1>5. SellProgress(w)  BY <1>2 DEF RefInv, Progress
<1>6. /\ V[SupplyRow].buy_seq = table[SupplyRow].buy_seq
      /\ sum > 0 /\ IsFirst(o, Orders(some)) /\ LeftToMatch(w, given, some, sum)
      /\ V[SupplyRow].supply = sum - Fill(w)
  BY <1>1, <1>5 DEF SellProgress
<1>7. b.volume > 0 /\ o.volume = b.volume /\ o.user = b.user
  BY <1>3 DEF OpenBids, Plain
<1>8. /\ OrdersAfter(Book(table), total)
           = (Book(V) \ Orders(some)) \cup OrdersAfter(Orders(some), sum)
      /\ OfferAfter(Book(table), total) = OfferAfter(Orders(some), sum)
      /\ GivenAfter(GivenIn(table), Book(table), total)
           = GivenAfter(given, Orders(some), sum)
  BY <1>6 DEF LeftToMatch
<1>v. V = View(w) /\ W = View(w)' /\ b = bid[w] /\ T = fetched[w] /\ sum = supply[w]
  OBVIOUS
<1>p. Fill(w)' = Fill(w) /\ total' = total  BY <1>1 DEF Fill, Full
<1>f. /\ Full(w) => Fill(w) = b.volume /\ b.volume <= sum /\ left = 0
      /\ ~Full(w) => Fill(w) = sum /\ sum < b.volume
  BY <1>3 DEF Full, Fill
<1>g. V[row] = b /\ left \in Int /\ (~Full(w) => left = b.volume - sum)
  <2>1. V[row] = b
    <3> HIDE DEF V, b
    <3>1. PICK last \in Nat : WellFormed(V, lastId, last)  BY <1>4
    <3>2. b \in BidsOf(V)  BY <1>3 DEF OpenBids
    <3> QED  BY <1>4, <3>1, <3>2, BidValues
  <2>2. V[row].volume = b.volume  BY <2>1
  <2> QED  BY <1>3, <2>1, <2>2
<1> HIDE DEF V, W, b, T, sum, total, given
<1>9. some \ {b} = T /\ Orders(some) = Orders(T) \cup {o} /\ o \notin Orders(T)
      /\ Orders(T) = Orders(some) \ {o} /\ Orders(T) \subseteq Book(V) /\ o \in Book(V)
  <2>1. some \ {b} = T  BY <1>3
  <2>2. Orders(some) = Orders(T) \cup {o}  BY DEF Orders
  <2>3. Orders(T) \subseteq Book(V) /\ o \in Book(V)  BY <1>3 DEF Orders, Book
  <2> QED  BY <1>4, <2>1, <2>2, <2>3
<1> HIDE DEF some, row, left, value, o
<1>10. \/ ~(Writing(w)')
       \/ pc'[w] = "give" /\ W = Put(V, row, value)
  BY <1>1, <1>u, <1>v, UpdateOutcome
<1>11. CASE pc'[w] = "give" /\ W = Put(V, row, value)
  <2>1. /\ W[SupplyRow] = V[SupplyRow] /\ GivenIn(W) = given
        /\ Book(W) = (Book(V) \ {o})
              \cup (IF left > 0 THEN {[o EXCEPT !.volume = left]} ELSE {})
    <3>1. PICK last \in Nat : WellFormed(V, lastId, last)  BY <1>4
    <3> DEFINE r == BidRow(b.id)
               new == Put(V, r, [V[r] EXCEPT !.volume = left])
    <3>2. /\ new[SupplyRow] = V[SupplyRow] /\ GivenIn(new) = GivenIn(V)
          /\ Book(new) = (Book(V) \ {Plain(b)})
              \cup (IF left > 0 THEN {[Plain(b) EXCEPT !.volume = left]} ELSE {})
      BY <1>3, <1>4, <1>g, <3>1, PutOpenBid
    <3>3. new = W  BY <1>11 DEF row, value
    <3> HIDE DEF new
    <3> QED  BY <3>2, <3>3 DEF o, given
  <2>2. LET after == Credit(given, b.user, Fill(w))
            rest == sum - Fill(w)
        IN  /\ OrdersAfter(Book(table), total)
                 = (Book(W) \ Orders(T)) \cup OrdersAfter(Orders(T), rest)
            /\ OfferAfter(Book(table), total) = OfferAfter(Orders(T), rest)
            /\ GivenAfter(GivenIn(table), Book(table), total)
                 = GivenAfter(after, Orders(T), rest)
    <3>1. CASE Full(w)
      <4>1. /\ OrdersAfter(Orders(some), sum) = OrdersAfter(Orders(T), sum - b.volume)
            /\ OfferAfter(Orders(some), sum) = OfferAfter(Orders(T), sum - b.volume)
            /\ GivenAfter(given, Orders(some), sum)
                 = GivenAfter(Credit(given, b.user, b.volume), Orders(T), sum - b.volume)
        <5>1. sum \in Nat /\ o.volume <= sum  BY <1>3, <1>6, <1>7, <1>f, <3>1
        <5>2. /\ OrdersAfter(Orders(some), sum)
                   = OrdersAfter(Orders(some) \ {o}, sum - o.volume)
              /\ OfferAfter(Orders(some), sum)
                   = OfferAfter(Orders(some) \ {o}, sum - o.volume)
              /\ GivenAfter(given, Orders(some), sum)
                   = GivenAfter(Credit(given, o.user, o.volume),
                                Orders(some) \ {o}, sum - o.volume)
          BY <1>4, <1>6, <5>1, MatchFull
        <5> QED  BY <1>7, <1>9, <5>2
      <4>2. Book(W) = Book(V) \ {o}  BY <1>f, <2>1, <3>1
      <4>3. Book(W) \ Orders(T) = Book(V) \ Orders(some)  BY <1>9, <4>2
      <4> QED  BY <1>8, <1>f, <3>1, <4>1, <4>3
    <3>2. CASE ~Full(w)
      <4> DEFINE part == [o EXCEPT !.volume = left]
                 after == Credit(given, b.user, sum)
      <4>1. sum \in Nat /\ sum < o.volume /\ left = o.volume - sum /\ left > 0
        BY <1>3, <1>6, <1>7, <1>f, <1>g, <3>2
      <4>2. /\ OrdersAfter(Orders(some), sum) = Orders(T) \cup {part}
            /\ OfferAfter(Orders(some), sum) = 0
            /\ GivenAfter(given, Orders(some), sum) = after
        <5>1. /\ OrdersAfter(Orders(some), sum)
                   = (Orders(some) \ {o}) \cup {[o EXCEPT !.volume = @ - sum]}
              /\ OfferAfter(Orders(some), sum) = 0
              /\ GivenAfter(given, Orders(some), sum) = Credit(given, o.user, sum)
          BY <1>4, <1>6, <4>1, MatchPartial
        <5>2. [o EXCEPT !.volume = @ - sum] = part  BY <4>1
        <5> QED  BY <1>7, <1>9, <5>1, <5>2
      <4>3. Book(W) = (Book(V) \ {o}) \cup {part}  BY <2>1, <4>1
      <4>4. IsAccount(after)  BY <1>4, <4>1, CreditIsAccount
      <4> HIDE DEF part, after
      <4>5. /\ OrdersAfter(Orders(T), 0) = Orders(T) /\ OfferAfter(Orders(T), 0) = 0
            /\ GivenAfter(after, Orders(T), 0) = after
        BY <1>4, <4>4, MatchIdle
      <4>6. (Book(W) \ Orders(T)) \cup Orders(T)
              = (Book(V) \ Orders(some)) \cup (Orders(T) \cup {part})
        BY <1>9, <4>3
      <4>7. sum - Fill(w) = 0  BY <1>3, <1>f, <3>2
      <4>8. Credit(given, b.user, Fill(w)) = after  BY <1>f, <3>2 DEF after
      <4> QED  BY <1>8, <4>2, <4>5, <4>6, <4>7, <4>8
    <3> QED  BY <3>1, <3>2
  <2>3. SellProgress(w)'
    <3>1. /\ View(w)' = W /\ bid'[w] = b /\ fetched'[w] = T
          /\ table' = table /\ total' = total /\ Fill(w)' = Fill(w)
          /\ pc'[w] = "give"
      BY <1>1, <1>p, <1>v, <1>11
    <3>2. /\ View(w)'[SupplyRow].buy_seq = table'[SupplyRow].buy_seq
          /\ View(w)'[SupplyRow].supply = sum - Fill(w)
      BY <1>6, <2>1, <3>1
    <3>3. GivenIn(View(w)') = given  BY <2>1, <3>1
    <3>4. LeftToMatch(w, Credit(GivenIn(View(w)), bid[w].user, Fill(w)),
                      fetched[w], View(w)[SupplyRow].supply)'
      BY <2>2, <3>1, <3>2, <3>3 DEF LeftToMatch, total
    <3> QED  BY <3>1, <3>2, <3>4 DEF SellProgress
  <2> QED  BY <1>1, <1>2, <2>3, AsSeller
<1> QED  BY <1>10, <1>11, <1>v, NothingToMatch

\* The numbers of a buy, when the casts change none.
LEMMA BuyerValues ==
    ASSUME PlainRequests, Invariant, NEW w \in Workers, Buying(w)
    PROVE  /\ req[w] \in BuyRequest \cup SellRequest /\ req[w].op = "buy"
           /\ req[w].user \in Users /\ req[w].volume \in Nat /\ req[w].volume > 0
           /\ AsI64(req[w].price) = req[w].price
           /\ pc[w] # "commit" =>
                /\ bid[w] = [user |-> req[w].user, price |-> req[w].price,
                             volume |-> req[w].volume]
                /\ seq[w] = View(w)[SupplyRow].buy_seq + 1
<1>1. Writing(w) /\ req[w].op = "buy"  BY DEF Buying
<1>2. req[w] \in BuyRequest \cup SellRequest /\ Task(w)  BY <1>1, ViewValues
<1>3. /\ req[w].user \in Users /\ req[w].volume \in Nat /\ req[w].volume > 0
      /\ AsI64(req[w].price) = req[w].price /\ AsI64(req[w].volume) = req[w].volume
  BY <1>1, <1>2, PlainValues
<1>4. pc[w] # "commit" =>
        /\ bid[w] = [user |-> req[w].user, price |-> AsI64(req[w].price),
                     volume |-> AsI64(req[w].volume)]
        /\ seq[w] = View(w)[SupplyRow].buy_seq + 1
  BY <1>2 DEF Task, InPlace
<1> QED  BY <1>1, <1>2, <1>3, <1>4

\* The user is credited: sell has the rest of the bids left to match, and buy
\* what is left of its bid to store, if anything is.
LEMMA UpsertProgress ==
    ASSUME PlainRequests, Invariant, RefInv, NEW w \in Workers, UpsertAllocation(w)
    PROVE  Progress(w)'
<1> DEFINE V == View(w)
           W == View(w)'
           user == bid[w].user
           row == AllocationRow(user)
           value == Upserted(V, row, Fill(w))
           next == CASE req[w].op = "sell" -> "next"
                     [] req[w].op = "buy" /\ Full(w) -> "bump"
                     [] OTHER -> "insert"
<1>1. /\ pc[w] = "give" /\ Writing(w)
      /\ UNCHANGED <<table, req, supply, seq, bid, fetched>>
  BY DEF UpsertAllocation, At, database, Writing, Working
<1>u. Update(w, row, value, value, next)
  BY DEF UpsertAllocation
<1>2. /\ Base /\ Task(w) /\ NoNegatives /\ req[w].op \in {"buy", "sell"}
      /\ V[SupplyRow].supply \in Nat
      /\ \E last \in Nat : WellFormed(V, lastId, last)
      /\ lastId \in Nat
  BY <1>1, ViewValues
<1>3. Progress(w)  BY DEF RefInv
<1>4. supply[w] \in Int /\ bid[w].volume \in Int /\ user \in Users
  <2>1. CASE Buying(w)
    <3>1. /\ req[w].user \in Users /\ req[w].volume \in Nat
          /\ bid[w] = [user |-> req[w].user, price |-> req[w].price,
                       volume |-> req[w].volume]
      BY <1>1, <2>1, BuyerValues
    <3>2. supply[w] \in Int  BY <1>1, <1>2, <2>1 DEF Task, InPlace
    <3> QED  BY <3>1, <3>2
  <2>2. CASE Selling(w)  BY <1>1, <1>2, <2>2 DEF Task, InPlace
  <2> QED  BY <1>1, <1>2, <2>1, <2>2 DEF Buying, Selling
<1>5. Fill(w) \in Int  BY <1>4, FillParts
<1>n. /\ req[w].op = "sell" => next = "next"
      /\ req[w].op = "buy" /\ Full(w) => next = "bump"
      /\ req[w].op = "buy" /\ ~Full(w) => next = "insert"
  OBVIOUS
<1>v. V = View(w) /\ W = View(w)' /\ user = bid[w].user  OBVIOUS
<1> HIDE DEF value, next, V, W, user
<1>6. \/ ~(Writing(w)')
      \/ pc'[w] = next /\ W = Put(V, row, value)
  BY <1>1, <1>u, <1>v, UpdateOutcome
<1>7. CASE pc'[w] = next /\ W = Put(V, row, value)
  <2>1. GivenIn(W) = Credit(GivenIn(V), user, Fill(w))
    BY <1>4, <1>5, <1>7, UpsertCredits DEF value
  <2>2. W[SupplyRow] = V[SupplyRow] /\ OpenBids(W) = OpenBids(V)
    <3>1. PICK last \in Nat : WellFormed(V, lastId, last)  BY <1>2
    <3>2. value \in Int
      <4>1. HeldIn(V, user) \in Int  BY <1>2, <3>1, RowValues
      <4>2. value = HeldIn(V, user) + Fill(w)
        BY <1>5, <4>1 DEF value, Upserted, HeldIn
      <4> QED  BY <1>5, <4>1, <4>2
    <3>3. /\ Put(V, row, value)[SupplyRow] = V[SupplyRow]
          /\ OpenBids(Put(V, row, value)) = OpenBids(V)
      BY <1>2, <1>4, <3>1, <3>2, PutAllocation
    <3> QED  BY <1>7, <3>3
  <2>3. Book(W) = Book(V)  BY <2>2 DEF Book
  <2>4. CASE req[w].op = "sell"
    <3>1. SellProgress(w)  BY <1>1, <1>3, <2>4 DEF Progress, Selling
    <3>2. /\ V[SupplyRow].buy_seq = table[SupplyRow].buy_seq
          /\ LeftToMatch(w, Credit(GivenIn(V), user, Fill(w)), fetched[w],
                         V[SupplyRow].supply)
      BY <1>1, <1>v, <3>1 DEF SellProgress
    <3>3. LeftToMatch(w, GivenIn(View(w)), fetched[w], View(w)[SupplyRow].supply)'
      BY <1>1, <1>v, <2>1, <2>2, <2>3, <3>2 DEF LeftToMatch
    <3>4. pc'[w] = "next"  BY <1>7, <1>n, <2>4
    <3>5. View(w)'[SupplyRow].buy_seq = table'[SupplyRow].buy_seq
      BY <1>1, <1>v, <2>2, <3>2
    <3>6. SellProgress(w)'  BY <3>3, <3>4, <3>5 DEF SellProgress
    <3> QED  BY <1>1, <2>4, <3>6, AsSeller
  <2>5. CASE req[w].op = "buy"
    <3> DEFINE had == table[SupplyRow].supply
               o == OrderOf(w)
    <3>1. BuyProgress(w) /\ Buying(w)  BY <1>1, <1>3, <2>5 DEF Progress, Buying
    <3>2. /\ V[SupplyRow].buy_seq = table[SupplyRow].buy_seq + 0
          /\ supply[w] = had /\ had > 0
          /\ Book(V) = Book(table) /\ GivenIn(V) = GivenIn(table)
          /\ V[SupplyRow].supply = had - Fill(w)
      BY <1>1, <1>v, <3>1 DEF BuyProgress, Untouched
    <3>3. /\ req[w] \in BuyRequest \cup SellRequest
          /\ user = req[w].user /\ bid[w].volume = req[w].volume
          /\ req[w].volume \in Nat
      <4>1. /\ req[w] \in BuyRequest \cup SellRequest /\ req[w].volume \in Nat
            /\ bid[w] = [user |-> req[w].user, price |-> req[w].price,
                         volume |-> req[w].volume]
        BY <1>1, <3>1, BuyerValues
      <4> QED  BY <1>v, <4>1
    <3>4. had \in Nat /\ Book(table) = {} /\ IsAccount(GivenIn(table))
      BY <1>2, <3>2, CommittedValues
    <3>5. IsBook({o}, Users) /\ o.volume = req[w].volume /\ o.user = user
      BY <1>2, <2>5, <3>3, OrderJoins
    <3>6. Book(table) \cup {o} = {o}  BY <3>4
    <3>p. o' = o /\ Book(table)' = Book(table) /\ GivenIn(table)' = GivenIn(table)
      BY <1>1 DEF OrderOf
    <3>s. View(w)'[SupplyRow].buy_seq = table'[SupplyRow].buy_seq + 0
      BY <1>1, <1>v, <2>2, <3>2
    <3> HIDE DEF o
    <3>7. CASE Full(w)
      <4>1. Fill(w) = o.volume /\ o.volume <= had
        BY <3>2, <3>3, <3>5, <3>7 DEF Full, Fill
      <4>2. /\ OrdersAfter({o}, had) = {}
            /\ OfferAfter({o}, had) = had - o.volume
            /\ GivenAfter(GivenIn(table), {o}, had)
                 = Credit(GivenIn(table), o.user, o.volume)
        BY <3>2, <3>4, <3>5, <4>1, MatchAlone
      <4>3. /\ Book(W) = OrdersAfter(Book(table) \cup {o}, had)
            /\ W[SupplyRow].supply = OfferAfter(Book(table) \cup {o}, had)
            /\ GivenIn(W) = GivenAfter(GivenIn(table), Book(table) \cup {o}, had)
        BY <2>1, <2>2, <2>3, <3>2, <3>4, <3>5, <3>6, <4>1, <4>2
      <4>4. Reached(w, Book(table) \cup {OrderOf(w)}, table[SupplyRow].supply)'
        BY <1>1, <1>v, <3>p, <4>3 DEF Reached, o
      <4>5. pc'[w] = "bump"  BY <1>7, <1>n, <2>5, <3>7
      <4>6. BuyProgress(w)'  BY <3>s, <4>4, <4>5 DEF BuyProgress
      <4> QED  BY <1>1, <2>5, <4>6, AsBuyer
    <3>8. CASE ~Full(w)
      <4>1. Fill(w) = had /\ had < bid[w].volume
        BY <3>2, <3>3, <3>4, <3>8 DEF Full, Fill
      <4>2. W[SupplyRow].supply = 0  BY <2>2, <3>2, <3>4, <4>1
      <4>3. pc'[w] = "insert"  BY <1>7, <1>n, <2>5, <3>8
      <4>4. Book(W) = {} /\ GivenIn(W) = Credit(GivenIn(table), req[w].user, had)
        BY <2>1, <2>3, <3>2, <3>3, <3>4, <4>1
      <4>5. BuyProgress(w)'
        BY <1>1, <1>v, <3>2, <3>s, <4>1, <4>2, <4>3, <4>4 DEF BuyProgress
      <4> QED  BY <1>1, <2>5, <4>5, AsBuyer
    <3> QED  BY <3>7, <3>8
  <2> QED  BY <1>2, <2>4, <2>5
<1> QED  BY <1>6, <1>7, <1>v, NothingToMatch

\* INSERT INTO bids, under an id that is not in use, adds an order to the book.
LEMMA PutNewBid ==
    ASSUME NEW rows, NEW ids \in Nat, NEW last \in Nat,
           WellFormed(rows, ids, last), NEW later \in Nat, last < later,
           NEW value \in [id : {ids + 1}, user : Users, volume : Int, price : I64,
                          seq : {later}],
           value.volume > 0
    PROVE  LET new == Put(rows, BidRow(ids + 1), value)
           IN  /\ new[SupplyRow] = rows[SupplyRow]
               /\ GivenIn(new) = GivenIn(rows)
               /\ Book(new) = Book(rows) \cup {Plain(value)}
<1> DEFINE i == ids + 1
           new == Put(rows, BidRow(i), value)
<1>1. \A r \in BidRows(rows) : rows[r].seq \in 1 .. last
  BY BidValues
<1>2. \A b \in BidsOf(rows) : b.id # i
  <2>1. ASSUME NEW b \in BidsOf(rows)  PROVE b.id \in 1 .. ids
    <3>1. BidRow(b.id) \in BidRows(rows) /\ rows[BidRow(b.id)] = b  BY BidValues
    <3> QED  BY <3>1, BidValues
  <2> QED  BY <2>1
<1>3. i \in Nat /\ ids <= i /\ i \in 1 .. i /\ last <= later
  OBVIOUS
<1>4. /\ value \in [id : {i}, user : Users, volume : Int, price : I64, seq : 1 .. later]
      /\ value.seq = later
  OBVIOUS
<1>5. Unnumbered(rows, BidRow(i), value.seq)
  BY <1>1, <1>4 DEF Unnumbered
<1> HIDE DEF i
<1>6. BidPut(new, rows, i, value)
  BY <1>3, <1>4, <1>5, PutBid
<1>7. GivenIn(new) = GivenIn(rows)
  BY RowsApart, GivenElsewhere
<1> HIDE DEF new
<1>8. BidsOf(new) = BidsOf(rows) \cup {value} /\ new[SupplyRow] = rows[SupplyRow]
  BY <1>2, <1>6 DEF BidPut
<1>9. OpenBids(new) = OpenBids(rows) \cup {value}
  BY <1>8 DEF OpenBids
<1>10. Book(new) = Book(rows) \cup {Plain(value)}
  BY <1>9 DEF Book, Orders
<1> QED  BY <1>7, <1>8, <1>10 DEF new, i

\* What is left of the bid is stored, and the match of the buy is done.
LEMMA InsertBidProgress ==
    ASSUME PlainRequests, Invariant, RefInv, NEW w \in Workers, InsertBid(w)
    PROVE  Progress(w)'
<1> DEFINE V == View(w)
           W == View(w)'
           want == IF supply[w] <= 0 THEN bid[w].volume ELSE bid[w].volume - supply[w]
           i == lastId + 1
           value == [id |-> i, user |-> bid[w].user, volume |-> want,
                     price |-> bid[w].price, seq |-> seq[w]]
           had == table[SupplyRow].supply
           o == OrderOf(w)
<1>d. DOMAIN pc = Workers /\ DOMAIN draft = Workers
  BY DEF Invariant, LockOrder
<1>1. /\ pc[w] = "insert" /\ pc'[w] = "bump"
      /\ UNCHANGED <<table, req, supply, seq, bid, fetched>>
      /\ draft' = [draft EXCEPT ![w] = Over([r \in {BidRow(i)} |-> value], @)]
  BY <1>d DEF InsertBid, At, Goto
<1>2. W = Put(V, BidRow(i), value)
  <2> HIDE DEF value, i
  <2> QED  BY <1>d, <1>1, ViewPut
<1>3. /\ Base /\ Task(w) /\ Writing(w) /\ Buying(w) /\ req[w].op = "buy"
      /\ supply[w] \in Int /\ lastId \in Nat /\ AsI64(req[w].price) \in I64
      /\ V[SupplyRow] \in [supply : Int, buy_seq : Nat]
  BY <1>1, BuyingValues
<1>4. /\ req[w] \in BuyRequest \cup SellRequest
      /\ req[w].user \in Users /\ req[w].volume \in Nat /\ req[w].volume > 0
      /\ AsI64(req[w].price) = req[w].price
      /\ bid[w] = [user |-> req[w].user, price |-> req[w].price,
                   volume |-> req[w].volume]
      /\ seq[w] = V[SupplyRow].buy_seq + 1
  BY <1>1, <1>3, BuyerValues
<1>5. BuyProgress(w)  BY <1>3 DEF RefInv, Progress
<1>6. /\ V[SupplyRow].buy_seq = table[SupplyRow].buy_seq + 0
      /\ supply[w] = had
      /\ had = 0 => Untouched(w) /\ V[SupplyRow].supply = had
      /\ had > 0 => /\ had < bid[w].volume /\ V[SupplyRow].supply = 0
                    /\ Book(V) = {}
                    /\ GivenIn(V) = Credit(GivenIn(table), req[w].user, had)
  BY <1>1, <1>5 DEF BuyProgress
<1>7. /\ had \in Nat /\ table[SupplyRow].buy_seq \in Nat
      /\ IsBook(Book(table), Users) /\ IsAccount(GivenIn(table))
      /\ had > 0 => Book(table) = {}
  BY <1>3, CommittedValues DEF PlainRequests, NoNegatives
<1>8. /\ IsBook({o}, Users) /\ IsBook(Book(table) \cup {o}, Users)
      /\ o.volume = req[w].volume /\ o.user = req[w].user
  BY <1>3, <1>4, OrderJoins
<1>9. WellFormed(V, lastId, V[SupplyRow].buy_seq) /\ V[SupplyRow].buy_seq \in Nat
  <2>1. pc[w] # "bump"  BY <1>1
  <2> QED  BY <1>3, <2>1 DEF Task, InPlace
<1>10. /\ had = 0 => want = req[w].volume
       /\ had > 0 => want = req[w].volume - had
       /\ want \in Int /\ want > 0
  BY <1>4, <1>6, <1>7
<1>11. /\ value \in [id : {i}, user : Users, volume : Int, price : I64, seq : {seq[w]}]
       /\ value.volume = want
       /\ Plain(value) = [user |-> req[w].user, volume |-> want,
                          price |-> req[w].price, seq |-> seq[w]]
  BY <1>3, <1>4, <1>10 DEF Plain
<1>12. seq[w] \in Nat /\ V[SupplyRow].buy_seq < seq[w]
       /\ seq[w] = table[SupplyRow].buy_seq + 1
  BY <1>4, <1>6, <1>7, <1>9
<1>o. o = [user |-> req[w].user, volume |-> req[w].volume,
           price |-> req[w].price, seq |-> seq[w]]
  BY <1>12 DEF OrderOf
<1>v. V = View(w) /\ W = View(w)'  OBVIOUS
<1> HIDE DEF V, W, want, value, o
<1>13. /\ W[SupplyRow] = V[SupplyRow] /\ GivenIn(W) = GivenIn(V)
       /\ Book(W) = Book(V) \cup {Plain(value)}
  <2> DEFINE new == Put(V, BidRow(lastId + 1), value)
  <2>1. PICK last \in Nat : last = V[SupplyRow].buy_seq  BY <1>9
  <2>2. PICK later \in Nat : later = seq[w]  BY <1>12
  <2>3. /\ WellFormed(V, lastId, last) /\ last < later /\ value.volume > 0
        /\ value \in [id : {lastId + 1}, user : Users, volume : Int, price : I64,
                      seq : {later}]
    BY <1>9, <1>10, <1>11, <1>12, <2>1, <2>2
  <2>4. /\ new[SupplyRow] = V[SupplyRow] /\ GivenIn(new) = GivenIn(V)
        /\ Book(new) = Book(V) \cup {Plain(value)}
    BY <1>3, <2>3, PutNewBid
  <2>5. W = new  BY <1>2
  <2> HIDE DEF new
  <2> QED  BY <2>4, <2>5
<1>14. /\ Book(W) = OrdersAfter(Book(table) \cup {o}, had)
       /\ W[SupplyRow].supply = OfferAfter(Book(table) \cup {o}, had)
       /\ GivenIn(W) = GivenAfter(GivenIn(table), Book(table) \cup {o}, had)
  <2>1. CASE had = 0
    <3>1. Plain(value) = o  BY <1>10, <1>11, <1>o, <2>1
    <3>2. /\ Book(W) = Book(table) \cup {o} /\ GivenIn(W) = GivenIn(table)
          /\ W[SupplyRow].supply = had
      BY <1>6, <1>13, <1>v, <2>1, <3>1 DEF Untouched
    <3>3. /\ OrdersAfter(Book(table) \cup {o}, had) = Book(table) \cup {o}
          /\ OfferAfter(Book(table) \cup {o}, had) = had
          /\ GivenAfter(GivenIn(table), Book(table) \cup {o}, had) = GivenIn(table)
      BY <1>7, <1>8, <2>1, MatchIdle
    <3> QED  BY <3>2, <3>3
  <2>2. CASE had > 0
    <3>1. Plain(value) = [o EXCEPT !.volume = @ - had]
      BY <1>10, <1>11, <1>o, <2>2
    <3>2. bid[w].volume = req[w].volume  BY <1>4
    <3>3. o.volume > had /\ Book(table) \cup {o} = {o}
      BY <1>6, <1>7, <1>8, <2>2, <3>2
    <3>4. /\ OrdersAfter({o}, had) = {[o EXCEPT !.volume = @ - had]}
          /\ OfferAfter({o}, had) = 0
          /\ GivenAfter(GivenIn(table), {o}, had) = Credit(GivenIn(table), o.user, had)
      BY <1>7, <1>8, <2>2, <3>3, MatchAlone
    <3>5. Book(W) = {Plain(value)}  BY <1>6, <1>13, <2>2
    <3> QED  BY <1>6, <1>8, <1>13, <2>2, <3>1, <3>3, <3>4, <3>5
  <2> QED  BY <1>7, <2>1, <2>2
<1>15. Reached(w, Book(table) \cup {OrderOf(w)}, table[SupplyRow].supply)'
  <2>1. o' = o /\ Book(table)' = Book(table) /\ GivenIn(table)' = GivenIn(table)
    BY <1>1 DEF o, OrderOf
  <2> QED  BY <1>1, <1>14, <1>v, <2>1 DEF Reached, o
<1>16. View(w)'[SupplyRow].buy_seq = table'[SupplyRow].buy_seq + 0
  BY <1>1, <1>6, <1>13, <1>v
<1>17. BuyProgress(w)'  BY <1>1, <1>15, <1>16 DEF BuyProgress
<1> QED  BY <1>1, <1>3, <1>17, AsBuyer

\* The number of the bid is used up.
LEMMA BumpSeqProgress ==
    ASSUME PlainRequests, Invariant, RefInv, NEW w \in Workers, BumpSeq(w)
    PROVE  Progress(w)'
<1> DEFINE V == View(w)
           value == [V[SupplyRow] EXCEPT !.buy_seq = seq[w]]
           book == Book(table) \cup {OrderOf(w)}
           had == table[SupplyRow].supply
<1>1. /\ pc[w] = "bump" /\ Writing(w)
      /\ UNCHANGED <<table, req, supply, seq, bid, fetched>>
  BY DEF BumpSeq, At, database, Writing, Working
<1>u. Update(w, SupplyRow, value, seq[w], "commit")
  BY DEF BumpSeq
<1>2. /\ Base /\ Task(w) /\ Buying(w) /\ req[w].op = "buy" /\ lastId \in Nat
      /\ V[SupplyRow] \in [supply : Int, buy_seq : Nat]
      /\ seq[w] = V[SupplyRow].buy_seq + 1
  BY <1>1, BuyingValues
<1>3. BuyProgress(w)  BY <1>2 DEF RefInv, Progress
<1>4. /\ V[SupplyRow].buy_seq = table[SupplyRow].buy_seq + 0
      /\ Reached(w, book, had)
  BY <1>1, <1>3 DEF BuyProgress
<1>5. WellFormed(V, lastId, seq[w]) /\ seq[w] \in Nat
  BY <1>1, <1>2 DEF Task, InPlace
<1>6. /\ value \in [supply : Int, buy_seq : Nat]
      /\ value.supply = V[SupplyRow].supply
      /\ value.buy_seq = table[SupplyRow].buy_seq + 1
  <2>1. table[SupplyRow].buy_seq \in Int  BY <1>2, TableValues
  <2> QED  BY <1>2, <1>4, <1>5, <2>1
<1>v. V = View(w)  OBVIOUS
<1> HIDE DEF V, value
<1>7. \/ ~(Writing(w)')
      \/ pc'[w] = "commit" /\ View(w)' = Put(V, SupplyRow, value)
  BY <1>1, <1>u, <1>v, UpdateOutcome
<1>8. CASE pc'[w] = "commit" /\ View(w)' = Put(V, SupplyRow, value)
  <2>1. View(w)'[SupplyRow] = value /\ OpenBids(View(w)') = OpenBids(V)
    <3>1. PICK last \in Nat : WellFormed(V, lastId, last)  BY <1>5
    <3>2. /\ Put(V, SupplyRow, value)[SupplyRow] = value
          /\ OpenBids(Put(V, SupplyRow, value)) = OpenBids(V)
      BY <1>2, <1>6, <3>1, PutSupply
    <3> QED  BY <1>8, <3>2
  <2>2. GivenIn(View(w)') = GivenIn(V)
    BY <1>8, RowsApart, GivenElsewhere
  <2>3. Reached(w, Book(table) \cup {OrderOf(w)}, table[SupplyRow].supply)'
    <3>1. book' = book /\ had' = had /\ GivenIn(table)' = GivenIn(table)
      BY <1>1 DEF OrderOf
    <3>2. Book(View(w)') = Book(V)  BY <2>1 DEF Book
    <3>3. View(w)'[SupplyRow].supply = V[SupplyRow].supply  BY <1>6, <2>1
    <3> HIDE DEF had, book
    <3>4. Reached(w, book, had)'
      BY <1>4, <1>v, <2>2, <3>1, <3>2, <3>3 DEF Reached
    <3> QED  BY <3>4 DEF book, had
  <2>4. View(w)'[SupplyRow].buy_seq = table'[SupplyRow].buy_seq + 1
    BY <1>1, <1>6, <2>1
  <2>5. BuyProgress(w)'  BY <1>8, <2>3, <2>4 DEF BuyProgress
  <2> QED  BY <1>1, <1>2, <2>5, AsBuyer
<1> QED  BY <1>7, <1>8, NothingToMatch

-----------------------------------------------------------------------------
(* Every commit is one step of the abstract engine, and no other step is. *)

\* What is committed when a transaction that is about to commit does so is what
\* the engine makes of its request in one step.
LEMMA CommitIsEngineStep ==
    ASSUME PlainRequests, Invariant, RefInv, NEW w \in Workers,
           pc[w] = "commit", table' = View(w)
    PROVE  Engine!Next
<1> DEFINE had == table[SupplyRow].supply
           given == [u \in {v \in Users : AllocationRow(v) \in DOMAIN table} |-> Holds(u)]
           book == {[user |-> b.user, volume |-> b.volume, price |-> b.price,
                     seq |-> b.seq] : b \in OpenBids(table)}
<1>1. given = GivenIn(table) /\ book = Book(table) /\ SupplyLeft = had
  BY DEF GivenIn, Holds, Book, Orders, Plain, SupplyLeft
<1>2. given' = GivenIn(table)' /\ book' = Book(table)' /\ SupplyLeft' = had'
  BY DEF GivenIn, Holds, Book, Orders, Plain, SupplyLeft
<1>3. /\ Writing(w) /\ Progress(w)
      /\ req[w] \in BuyRequest \cup SellRequest /\ req[w].op \in {"buy", "sell"}
  <2>1. Writing(w)  BY DEF Writing, Working
  <2> QED  BY <2>1, ViewValues DEF RefInv
<1>m. ASSUME NEW all, NEW total, Reached(w, all, total)
      PROVE  /\ given' = Engine!GivenAfter(given, all, total)
             /\ book' = Engine!OrdersAfter(all, total)
             /\ SupplyLeft' = Engine!OfferAfter(all, total)
  <2> HIDE DEF given, book
  <2> QED  BY <1>m, <1>1, <1>2, EngineRule DEF Reached
<1>4. CASE req[w].op = "buy"
  <2>1. PICK u \in Users, v \in Volumes, p \in Prices :
            req[w].user = u /\ req[w].volume = v /\ req[w].price = p
    BY <1>3, <1>4, PlainValues
  <2> DEFINE o == [user |-> u, volume |-> v, price |-> p,
                   seq |-> table[SupplyRow].buy_seq + 1]
  <2>2. BuyProgress(w)  BY <1>3, <1>4 DEF Progress, Buying
  <2>3. /\ View(w)[SupplyRow].buy_seq = table[SupplyRow].buy_seq + 1
        /\ Reached(w, Book(table) \cup {OrderOf(w)}, had)
    BY <2>2 DEF BuyProgress
  <2>4. Reached(w, book \cup {o}, had)
    BY <1>1, <2>1, <2>3 DEF OrderOf
  <2>5. /\ given' = Engine!GivenAfter(given, book \cup {o}, had)
        /\ book' = Engine!OrdersAfter(book \cup {o}, had)
        /\ SupplyLeft' = Engine!OfferAfter(book \cup {o}, had)
    BY <2>4, <1>m
  <2>6. Engine!Match(book \cup {o}, SupplyLeft)
    BY <1>1, <2>5 DEF Engine!Match
  <2>7. table'[SupplyRow].buy_seq = table[SupplyRow].buy_seq + 1
    BY <2>3
  <2>8. Engine!Buy(u, v, p)
    BY <2>6, <2>7 DEF Engine!Buy
  <2> QED  BY <2>8 DEF Engine!Next
<1>5. CASE req[w].op = "sell"
  <2>1. PICK v \in Volumes \ {0} : req[w].volume = v
    <3>1. req[w].volume \in Volumes /\ req[w].volume > 0 /\ req[w].volume \in Nat
      BY <1>3, PlainValues
    <3> QED  BY <3>1
  <2>2. SellProgress(w)  BY <1>3, <1>5 DEF Progress, Selling
  <2>3. /\ View(w)[SupplyRow].buy_seq = table[SupplyRow].buy_seq
        /\ Reached(w, book, had + v)
    BY <1>1, <2>1, <2>2 DEF SellProgress
  <2>4. /\ given' = Engine!GivenAfter(given, book, had + v)
        /\ book' = Engine!OrdersAfter(book, had + v)
        /\ SupplyLeft' = Engine!OfferAfter(book, had + v)
    BY <2>3, <1>m
  <2>5. Engine!Match(book, SupplyLeft + v)
    BY <1>1, <2>4 DEF Engine!Match
  <2>6. table'[SupplyRow].buy_seq = table[SupplyRow].buy_seq
    BY <2>3
  <2>7. Engine!Sell(v)
    BY <2>5, <2>6 DEF Engine!Sell
  <2> QED  BY <2>7 DEF Engine!Next
<1> QED  BY <1>3, <1>4, <1>5

\* The empty tables are the empty engine, and no transaction has begun.
LEMMA InitRef == Init => RefInv /\ Engine!Init
<1> SUFFICES ASSUME Init  PROVE RefInv /\ Engine!Init
  OBVIOUS
<1>1. /\ DOMAIN table = {SupplyRow}
      /\ table[SupplyRow] = [supply |-> 0, buy_seq |-> 0]
      /\ \A w \in Workers : pc[w] = "idle"
  BY DEF Init
<1>2. RefInv
  BY <1>1 DEF RefInv, Progress, Buying, Selling, Writing, Working
<1>3. OpenBids(table) = {}
  BY <1>1, RowKinds DEF OpenBids, BidsOf, BidRows
<1>4. {v \in Users : AllocationRow(v) \in DOMAIN table} = {}
  BY <1>1, RowKinds
<1>5. Engine!Init
  BY <1>1, <1>3, <1>4 DEF Engine!Init, SupplyLeft
<1> QED  BY <1>2, <1>5

\* Whoever does not write is as before, and only a commit writes to the tables.
LEMMA OwnProgress ==
    ASSUME PlainRequests, Invariant, RefInv, NEW w \in Workers,
           \/ Call(w) \/ Step(w) \/ BeginFails(w)
           \/ LoseConnection(w) \/ CommitAnswerLost(w)
    PROVE  Progress(w)' /\ [Engine!Next]_Engine!engine
<1>s. table' = table => [Engine!Next]_Engine!engine
  BY DEF Engine!engine, SupplyLeft, Holds, HeldIn, OpenBids, BidsOf, BidRows
<1>1. CASE \/ Call(w) \/ Begin(w) \/ BeginFails(w) \/ LoseConnection(w)
           \/ Rollback(w)
  <2>1. table' = table
    BY <1>1 DEF Call, Begin, BeginFails, LoseConnection, Rollback, database
  <2>2. pc'[w] \notin Working \ {"lock", "add"}
    <3>1. DOMAIN pc = Workers  BY DEF Invariant, LockOrder
    <3> QED
      BY <1>1, <3>1 DEF Call, Begin, BeginFails, LoseConnection, Rollback,
         EndTransaction, Goto, Working
  <2>3. ~(Writing(w)')  BY <2>2 DEF Writing
  <2> QED  BY <1>s, <2>1, <2>3, NothingToMatch
<1>2. CASE \/ LockSupply(w) \/ AddSupply(w) \/ SelectBids(w) \/ NextBid(w)
           \/ EndLoop(w) \/ MarkBid(w) \/ Take(w) \/ UpsertAllocation(w)
           \/ InsertBid(w) \/ BumpSeq(w)
  <2>1. table' = table
    BY <1>2 DEF LockSupply, AddSupply, SelectBids, NextBid, EndLoop, MarkBid, Take,
       UpsertAllocation, InsertBid, BumpSeq, database
  <2>2. Progress(w)'
    BY <1>2, LockSupplyProgress, AddSupplyProgress, SelectBidsProgress,
       NextBidProgress, EndLoopProgress, MarkBidProgress, TakeProgress,
       UpsertProgress, InsertBidProgress, BumpSeqProgress
  <2> QED  BY <1>s, <2>1, <2>2
<1>3. CASE Commit(w) \/ CommitAnswerLost(w)
  <2>1. pc[w] = "commit" /\ table' = View(w) /\ EndTransaction(w)
    BY <1>3 DEF Commit, CommitAnswerLost, Committed, At
  <2>2. DOMAIN pc = Workers  BY DEF Invariant, LockOrder
  <2>3. pc'[w] = "idle"  BY <2>1, <2>2 DEF EndTransaction, Goto
  <2>4. ~(Writing(w)')  BY <2>3 DEF Writing, Working
  <2> QED  BY <2>1, <2>4, CommitIsEngineStep, NothingToMatch
<1> QED  BY <1>1, <1>2, <1>3 DEF Step, BuyStep, SellStep

\* Every step of any task is a step of the engine, or none.
LEMMA NextRef ==
    ASSUME PlainRequests, Invariant, RefInv, [Next]_vars
    PROVE  RefInv' /\ [Engine!Next]_Engine!engine
<1>1. CASE UNCHANGED vars
  <2>1. table' = table /\ \A v \in Workers : Mine(v)' = Mine(v)
    BY <1>1 DEF vars, database, session, locals, Mine
  <2>2. RefInv'  BY <2>1, BystanderProgress DEF RefInv
  <2>3. UNCHANGED Engine!engine
    BY <2>1 DEF Engine!engine, SupplyLeft, Holds, HeldIn, OpenBids, BidsOf, BidRows
  <2> QED  BY <2>2, <2>3
<1>2. ASSUME NEW w \in Workers,
             \/ Call(w) \/ Step(w) \/ BeginFails(w)
             \/ LoseConnection(w) \/ CommitAnswerLost(w)
      PROVE  RefInv' /\ [Engine!Next]_Engine!engine
  <2>1. Progress(w)' /\ [Engine!Next]_Engine!engine  BY <1>2, OwnProgress
  <2>2. Kept(w)
    BY <1>2, OutsideKept, LockSupplyKept, InsertBidKept, BumpSeqKept, AddSupplyKept,
       SelectBidsKept, NextBidKept, EndLoopKept, MarkBidKept, TakeKept,
       UpsertAllocationKept, CommitKept
    DEF Step, BuyStep, SellStep
  <2>3. ASSUME NEW v \in Workers \ {w}  PROVE Progress(v)'
    <3>1. Mine(v)' = Mine(v) /\ Progress(v)  BY <2>2 DEF Kept, RefInv
    <3>2. ~Writing(v) \/ table' = table
      <4>1. CASE ~Writing(w)  BY <2>2, <4>1 DEF Kept
      <4>2. CASE Writing(w)
        <5>1. SUFFICES ASSUME Writing(v)  PROVE FALSE
          OBVIOUS
        <5>2. pc[v] \in Working \ Fresh /\ pc[w] \in Working \ Fresh
          BY <4>2, <5>1 DEF Writing, Fresh, Working
        <5> QED  BY <5>2 DEF Invariant, LockOrder
      <4> QED  BY <4>1, <4>2
    <3> QED  BY <3>1, <3>2, BystanderProgress
  <2> QED  BY <2>1, <2>3 DEF RefInv
<1> QED  BY <1>1, <1>2 DEF Next, Finished

\* Each transaction that commits is one atomic Buy or Sell of the engine, and
\* one that fails at any statement, loses its connection or gets none is no
\* step at all, whatever the other handlers do meanwhile.  The casts to i64
\* must change no number, and no buy may ask for nothing: Postgres stores such
\* a bid but the engine would have an open order.
THEOREM PostgresIsTheEngine ==
    ASSUME PlainRequests  PROVE Spec => ImplementsEngine
<1>1. Invariant /\ RefInv /\ [Next]_vars => RefInv' /\ [Engine!Next]_Engine!engine
  BY PlainRequests, NextRef
<1>2. Init => RefInv /\ Engine!Init  BY InitRef
<1> QED
  BY AlwaysInvariant, <1>1, <1>2, PTL DEF Spec, ImplementsEngine, Engine!Spec
=============================================================================
