------------------------ MODULE CassandraBatch_proofs ------------------------
(***************************************************************************)
(* For any topic, any number of members and any number of batches that     *)
(* time out: the copies of an inventory row never diverge for good         *)
(* (CellInv), and as long as no event was written from outdated reads, the *)
(* tables as they will settle are those of Projection and each event is    *)
(* recorded once.                                                          *)
(***************************************************************************)
EXTENDS CassandraBatch, EventProcessor_proofs

(* Of a set of cells, those that no other supersedes.                      *)
Latest(cells) == {c \in cells : \A d \in cells : ~Supersedes(d, c)}

(* A cell is determined by its row and its time.                           *)
Stamped(cells) ==
    /\ \A c \in cells : c.ts \in Int
    /\ \A c, d \in cells : c.row = d.row /\ c.ts = d.ts => c = d

(* Each row of a copy has its like in the others.                          *)
Mirrored(cells) ==
    \A c \in cells : \A t, u \in Copies : \A k :
        c.row = <<t, k>> => \E d \in cells : d.row = <<u, k>> /\ d.value = c.value

CellInv ==
    /\ clock \in Nat
    /\ \A c \in visible \cup hidden : c.ts <= clock
    /\ Stamped(visible \cup hidden)
    /\ \A c, d \in visible : ~Supersedes(d, c)
    /\ Mirrored(Latest(visible \cup hidden))

-----------------------------------------------------------------------------
(* Sets of cells *)

(* Reads and writes may drop what something they keep supersedes.          *)
LEMMA LatestKept ==
    ASSUME NEW S, Stamped(S), NEW T \in SUBSET S,
           \A c \in S \ T : \E d \in T : Supersedes(d, c)
    PROVE  Latest(T) = Latest(S)
<1>1. ASSUME NEW c \in Latest(T), NEW d \in S, Supersedes(d, c) PROVE FALSE
    <2>1. PICK b \in T : b = d \/ Supersedes(b, d)
        OBVIOUS
    <2>2. c \in S /\ c.ts \in Int /\ d.ts \in Int /\ b.ts \in Int
        BY DEF Latest, Stamped
    <2>3. Supersedes(b, c)
        BY <1>1, <2>1, <2>2 DEF Supersedes
    <2> QED BY <2>3 DEF Latest
<1>2. Latest(T) \subseteq Latest(S)
    BY <1>1 DEF Latest
<1>3. Latest(S) \subseteq Latest(T)
    BY DEF Latest
<1> QED BY <1>2, <1>3

(* What is merged is the latest of both.                                   *)
LEMMA MergeIsLatest ==
    ASSUME NEW S, NEW T, \A c, d \in S : ~Supersedes(d, c)
    PROVE  Merge(S, T) = Latest(S \cup T)
BY DEF Merge, Latest

(* Of one row there is one latest cell.                                    *)
LEMMA LatestUnique ==
    ASSUME NEW S, Stamped(S), NEW c \in Latest(S), NEW d \in Latest(S), c.row = d.row
    PROVE  c = d
<1>1. c \in S /\ d \in S /\ ~Supersedes(c, d) /\ ~Supersedes(d, c)
    BY DEF Latest
<1>2. c.ts \in Int /\ d.ts \in Int
    BY <1>1 DEF Stamped
<1>3. c.ts = d.ts
    BY <1>1, <1>2 DEF Supersedes
<1> QED BY <1>1, <1>3 DEF Stamped

(* Rows that mirror each other read alike.                                 *)
LEMMA MirroredReads ==
    ASSUME NEW S, Stamped(S), Mirrored(Latest(S)),
           NEW t \in Copies, NEW u \in Copies, NEW k
    PROVE  ValueAt(Latest(S), <<t, k>>, EmptyRow) = ValueAt(Latest(S), <<u, k>>, EmptyRow)
<1> DEFINE L == Latest(S)
<1>1. ASSUME NEW v \in Copies, NEW c \in L, c.row = <<v, k>>
      PROVE  ValueAt(L, <<v, k>>, EmptyRow) = c.value
    <2> DEFINE chosen == CHOOSE b \in L : b.row = <<v, k>>
    <2>1. chosen \in L /\ chosen.row = <<v, k>>
        BY <1>1
    <2>2. chosen = c
        BY <1>1, <2>1, LatestUnique
    <2> QED BY <1>1, <2>2 DEF ValueAt
<1>2. CASE \E c \in L : c.row = <<t, k>>
    <2>1. PICK c \in L : c.row = <<t, k>>
        BY <1>2
    <2>2. PICK d \in L : d.row = <<u, k>> /\ d.value = c.value
        BY <2>1 DEF Mirrored
    <2> QED BY <1>1, <2>1, <2>2
<1>3. CASE ~ \E c \in L : c.row = <<t, k>>
    <2>1. ~ \E c \in L : c.row = <<u, k>>
        BY <1>3 DEF Mirrored
    <2> QED BY <1>3, <2>1 DEF ValueAt
<1> QED BY <1>2, <1>3

-----------------------------------------------------------------------------
(* A batch *)

(* What a batch writes to a row.                                           *)
ValueWritten(j, ts, table, key) ==
    LET s == StoreIn(j.seen)
    IN  IF table \in Copies THEN UpdatedInventory(s, j.event)[key]
        ELSE IF table = "inventory_totals_by_product" THEN UpdatedTotals(s, j.event)[key]
        ELSE IF table = "orders_by_id" THEN UpdatedOrders(s, j.event)[key]
        ELSE IF table = "processed_events_by_id" THEN [event |-> j.event]
        ELSE [event |-> j.event, outcome |-> OutcomeOf[Decision(j)]]

LEMMA BatchCells ==
    ASSUME NEW j, NEW ts, NEW c \in Batch(j, ts)
    PROVE  \E table, key : c = Cell(table, key, ValueWritten(j, ts, table, key), ts)
<1> DEFINE s == StoreIn(j.seen)
           e == j.event
           Shape(table, key) == c = Cell(table, key, ValueWritten(j, ts, table, key), ts)
<1>1. CASE c \in RecordCells(j, ts)
    <2>1. Shape("processed_events_by_id", e.event_id) \/ Shape("event_history_by_day", <<ts, e.event_id>>)
        BY <1>1 DEF RecordCells, ValueWritten, Copies
    <2> QED BY <2>1
<1>2. CASE c \in RowCells(Copies, j, ts)
    <2>1. CASE \E t \in Copies, k \in TouchedKeys(s, e) : c = Cell(t, k, UpdatedInventory(s, e)[k], ts)
        BY <2>1 DEF ValueWritten
    <2>2. CASE \E p \in {k[1] : k \in TouchedKeys(s, e)} :
                  c = Cell("inventory_totals_by_product", p, UpdatedTotals(s, e)[p], ts)
        <3>1. PICK p : c = Cell("inventory_totals_by_product", p, UpdatedTotals(s, e)[p], ts)
            BY <2>2
        <3>2. Shape("inventory_totals_by_product", p)
            BY <3>1 DEF ValueWritten, Copies
        <3> QED BY <3>2
    <2>3. CASE \E o \in IF e.event_type \in OrderEventTypes THEN {e.order_id} ELSE {} :
                  c = Cell("orders_by_id", o, UpdatedOrders(s, e)[o], ts)
        <3>1. PICK o : c = Cell("orders_by_id", o, UpdatedOrders(s, e)[o], ts)
            BY <2>3
        <3>2. Shape("orders_by_id", o)
            BY <3>1 DEF ValueWritten, Copies
        <3> QED BY <3>2
    <2> QED BY <1>2, <2>1, <2>2, <2>3 DEF RowCells
<1> QED BY <1>1, <1>2 DEF Batch

(* All cells of a batch have its time, and there is one per row.           *)
LEMMA BatchStamped ==
    ASSUME NEW j, NEW ts \in Int
    PROVE  Stamped(Batch(j, ts)) /\ \A c \in Batch(j, ts) : c.ts = ts
<1>1. ASSUME NEW c \in Batch(j, ts) PROVE c.ts = ts
    BY BatchCells DEF Cell
<1>2. ASSUME NEW c \in Batch(j, ts), NEW d \in Batch(j, ts), c.row = d.row PROVE c = d
    <2>1. PICK t, k : c = Cell(t, k, ValueWritten(j, ts, t, k), ts)
        BY BatchCells
    <2>2. PICK u, l : d = Cell(u, l, ValueWritten(j, ts, u, l), ts)
        BY BatchCells
    <2>3. t = u /\ k = l
        BY <1>2, <2>1, <2>2 DEF Cell
    <2> QED BY <2>1, <2>2, <2>3
<1> QED BY <1>1, <1>2 DEF Stamped

(* A batch writes the three copies of a row alike.                         *)
LEMMA BatchMirrored == ASSUME NEW j, NEW ts PROVE Mirrored(Batch(j, ts))
<1> DEFINE s == StoreIn(j.seen)
           e == j.event
<1> SUFFICES ASSUME NEW c \in Batch(j, ts), NEW t \in Copies, NEW u \in Copies, NEW k,
                    c.row = <<t, k>>
             PROVE  \E d \in Batch(j, ts) : d.row = <<u, k>> /\ d.value = c.value
    BY DEF Mirrored
<1>1. c \in RowCells(Copies, j, ts) /\ Decision(j) = "applied"
    BY DEF Batch, RecordCells, Cell, Copies, RowCells
<1>2. PICK v \in Copies, l \in TouchedKeys(s, e) : c = Cell(v, l, UpdatedInventory(s, e)[l], ts)
    BY <1>1 DEF RowCells, Cell, Copies
<1>3. l = k
    BY <1>2 DEF Cell
<1> DEFINE d == Cell(u, k, UpdatedInventory(s, e)[k], ts)
<1>4. d \in Batch(j, ts)
    BY <1>1, <1>2, <1>3 DEF Batch, RowCells
<1>5. d.row = <<u, k>> /\ d.value = c.value
    BY <1>2, <1>3 DEF Cell
<1> QED BY <1>4, <1>5

-----------------------------------------------------------------------------
(* The steps *)

(* A batch of a new time joins cells that mirror each other.               *)
LEMMA BatchJoins ==
    ASSUME NEW S, NEW now \in Int, NEW j, NEW ts \in Int, ts > now,
           \A c \in S : c.ts <= now, Stamped(S), Mirrored(Latest(S))
    PROVE  /\ Stamped(S \cup Batch(j, ts))
           /\ Mirrored(Latest(S \cup Batch(j, ts)))
           /\ \A c \in S, d \in Batch(j, ts) : ~Supersedes(c, d)
<1> DEFINE B == Batch(j, ts)
           all == S \cup B
<1>1. Stamped(B) /\ (\A c \in B : c.ts = ts) /\ Mirrored(B)
    BY BatchStamped, BatchMirrored
<1>2. \A c \in S : c.ts \in Int /\ c.ts < ts
    BY DEF Stamped
<1> HIDE DEF B
<1>3. Stamped(all)
    BY <1>1, <1>2 DEF Stamped
<1>4. \A c \in S, d \in B : ~Supersedes(c, d)
    BY <1>1, <1>2 DEF Supersedes
<1>5. B \subseteq Latest(all)
    BY <1>1, <1>4 DEF Latest, Supersedes
<1>6. ASSUME NEW c \in Latest(all), NEW t \in Copies, NEW u \in Copies, NEW k, c.row = <<t, k>>
      PROVE  \E d \in Latest(all) : d.row = <<u, k>> /\ d.value = c.value
    <2>1. CASE c \in B
        <3>1. PICK d \in B : d.row = <<u, k>> /\ d.value = c.value
            BY <1>1, <1>6, <2>1 DEF Mirrored
        <3> QED BY <1>5, <3>1
    <2>2. CASE c \notin B
        <3>1. c \in Latest(S) /\ c \in S
            BY <1>6, <2>2 DEF Latest
        <3>2. PICK d \in Latest(S) : d.row = <<u, k>> /\ d.value = c.value
            BY <1>6, <3>1 DEF Mirrored
        <3>3. ASSUME NEW b \in B, Supersedes(b, d) PROVE FALSE
            <4>1. b.row = <<u, k>>
                BY <3>2, <3>3 DEF Supersedes
            <4>2. PICK a \in B : a.row = <<t, k>>
                BY SMTT(30), <1>1, <4>1 DEF Mirrored
            <4>3. Supersedes(a, c)
                BY <1>1, <1>2, <1>6, <3>1, <4>2 DEF Supersedes
            <4> QED BY <1>6, <4>3 DEF Latest
        <3>4. d \in Latest(all)
            BY <3>2, <3>3 DEF Latest
        <3> QED BY <3>2, <3>4
    <2> QED BY <2>1, <2>2
<1>7. Mirrored(Latest(all))
    BY <1>6 DEF Mirrored
<1> QED BY <1>3, <1>4, <1>7 DEF B

LEMMA CellInit == Init => CellInv
BY DEF Init, CellInv, Stamped, Mirrored, Latest

(* A subset of the cells keeps all that matters.                           *)
LEMMA FewerCells ==
    ASSUME NEW S, Stamped(S), Mirrored(Latest(S)), NEW T \in SUBSET S,
           \A c \in S \ T : \E d \in T : Supersedes(d, c)
    PROVE  Stamped(T) /\ Mirrored(Latest(T))
<1>1. Latest(T) = Latest(S)
    BY LatestKept
<1> QED BY <1>1 DEF Stamped

(* Each step leaves of every row the cell that wins: of a batch all cells, *)
(* of a delivery nothing that was not there.                               *)
LEMMA CellWrite ==
    ASSUME CellInv, NEW m \in Members, Write(m)
    PROVE  /\ CellInv'
           /\ Latest(visible' \cup hidden') = Latest(visible \cup hidden \cup Batch(job[m], clock'))
<1> DEFINE j == job[m]
           B == Batch(j, clock')
           S == visible \cup hidden
<1>1. clock' = clock + 1 /\ visible' = Merge(visible, B) /\ hidden' = hidden
    BY DEF Write, Finish
<1>2. clock \in Nat /\ clock' \in Nat /\ clock' > clock
    BY <1>1 DEF CellInv
<1>3. /\ Stamped(S \cup B)
      /\ Mirrored(Latest(S \cup B))
      /\ \A c \in S, d \in B : ~Supersedes(c, d)
    BY <1>2, BatchJoins DEF CellInv
<1>4. Stamped(B) /\ \A c \in B : c.ts = clock'
    BY <1>2, BatchStamped
<1> HIDE DEF B
<1> DEFINE T == visible' \cup hidden'
<1>5. \A c, d \in B : ~Supersedes(c, d)
    BY <1>2, <1>4 DEF Supersedes
<1>6. B \subseteq visible' /\ visible' \subseteq visible \cup B
    BY <1>1, <1>3, <1>5 DEF Merge
<1>7. \A c \in (S \cup B) \ T : \E d \in T : Supersedes(d, c)
    BY <1>1, <1>6 DEF Merge
<1>8. Stamped(T) /\ Mirrored(Latest(T)) /\ Latest(T) = Latest(S \cup B)
    <2>1. T \in SUBSET (S \cup B)
        BY <1>1, <1>6
    <2> QED BY <1>3, <1>7, <2>1, FewerCells, LatestKept
<1>9. \A c \in T : c.ts <= clock'
    <2>1. \A c \in S : c.ts \in Int /\ c.ts <= clock
        BY DEF CellInv, Stamped
    <2>2. \A c \in S \cup B : c.ts <= clock'
        BY <1>2, <1>4, <2>1
    <2> QED BY <1>1, <1>6, <2>2
<1>10. \A c, d \in visible' : ~Supersedes(d, c)
    <2>1. \A c, d \in visible : ~Supersedes(d, c)
        BY DEF CellInv
    <2> QED BY <1>1, <1>3, <1>5, <2>1 DEF Merge
<1> QED BY <1>2, <1>8, <1>9, <1>10 DEF CellInv, B

LEMMA CellTimeOut ==
    ASSUME CellInv, NEW m \in Members, TimeOut(m)
    PROVE  /\ CellInv'
           /\ visible' \cup hidden' = visible \cup hidden \cup Batch(job[m], clock')
<1> DEFINE B == Batch(job[m], clock')
           S == visible \cup hidden
<1>1. clock' = clock + 1 /\ visible' = visible /\ hidden' = hidden \cup B
    BY DEF TimeOut, Finish
<1>2. clock \in Nat /\ clock' \in Nat /\ clock' > clock
    BY <1>1 DEF CellInv
<1>3. Stamped(S \cup B) /\ Mirrored(Latest(S \cup B))
    BY <1>2, BatchJoins DEF CellInv
<1>4. \A c \in B : c.ts = clock'
    BY <1>2, BatchStamped
<1> HIDE DEF B
<1>5. visible' \cup hidden' = S \cup B
    BY <1>1
<1>6. \A c \in S \cup B : c.ts <= clock'
    <2>1. \A c \in S : c.ts \in Int /\ c.ts <= clock
        BY DEF CellInv, Stamped
    <2> QED BY <1>2, <1>4, <2>1
<1>7. \A c, d \in visible' : ~Supersedes(d, c)
    BY <1>1 DEF CellInv
<1> QED BY <1>2, <1>3, <1>5, <1>6, <1>7 DEF CellInv, B

LEMMA CellDeliver ==
    ASSUME CellInv, NEW b \in hidden, Deliver(b)
    PROVE  /\ CellInv'
           /\ visible' \cup hidden' \subseteq visible \cup hidden
           /\ Latest(visible' \cup hidden') = Latest(visible \cup hidden)
<1> DEFINE S == visible \cup hidden
           T == visible' \cup hidden'
<1>1. clock' = clock /\ visible' = Merge(visible, {b}) /\ hidden' = hidden \ {b}
    BY DEF Deliver
<1>2. Stamped(S) /\ Mirrored(Latest(S)) /\ \A c, d \in visible : ~Supersedes(d, c)
    BY DEF CellInv
<1>3. ~Supersedes(b, b)
    BY <1>2 DEF Supersedes, Stamped
<1>4. T \in SUBSET S
    BY <1>1 DEF Merge
<1>5. ASSUME NEW c \in S \ T PROVE \E d \in T : Supersedes(d, c)
    <2>1. ASSUME b \notin T PROVE \E d \in T : Supersedes(d, b)
        <3>1. PICK d \in visible : Supersedes(d, b)
            BY <1>1, <1>3, <2>1 DEF Merge
        <3>2. d \in S /\ d.ts \in Int /\ b.ts \in Int
            BY <1>2 DEF Stamped
        <3>3. ~Supersedes(b, d)
            BY <3>1, <3>2 DEF Supersedes
        <3>4. d \in T
            BY <1>1, <3>3 DEF Merge
        <3> QED BY <3>1, <3>4
    <2>2. CASE c = b
        BY <1>5, <2>1, <2>2
    <2>3. CASE c # b
        <3>1. c \in visible /\ Supersedes(b, c)
            BY <1>1, <1>5, <2>3 DEF Merge
        <3>2. CASE b \in T
            BY <3>1, <3>2
        <3>3. CASE b \notin T
            <4>1. PICK d \in T : Supersedes(d, b)
                BY <2>1, <3>3
            <4>2. d.ts \in Int /\ b.ts \in Int /\ c.ts \in Int
                BY <1>2, <1>4, <3>1 DEF Stamped
            <4>3. Supersedes(d, c)
                BY <3>1, <4>1, <4>2 DEF Supersedes
            <4> QED BY <4>3
        <3> QED BY <3>2, <3>3
    <2> QED BY <2>2, <2>3
<1>6. Stamped(T) /\ Mirrored(Latest(T)) /\ Latest(T) = Latest(S)
    BY <1>2, <1>4, <1>5, FewerCells, LatestKept
<1>7. \A c, d \in visible' : ~Supersedes(d, c)
    BY <1>1, <1>2, <1>3 DEF Merge
<1>8. \A c \in T : c.ts <= clock'
    BY <1>1, <1>4 DEF CellInv
<1> QED BY <1>1, <1>4, <1>6, <1>7, <1>8 DEF CellInv

LEMMA CellNext == CellInv /\ [Next]_vars => CellInv'
<1> SUFFICES ASSUME CellInv, [Next]_vars PROVE CellInv'
    OBVIOUS
<1>1. CASE \E m \in Members : Write(m)
    BY <1>1, CellWrite
<1>2. CASE \E m \in Members : TimeOut(m)
    BY <1>2, CellTimeOut
<1>3. CASE \E c \in hidden : Deliver(c)
    BY <1>3, CellDeliver
<1>4. CASE \E m \in Members : Abandon(m) \/ \E e \in Events : Read(m, e)
    BY <1>4 DEF Abandon, Read, CellInv
<1>5. CASE UNCHANGED vars
    BY <1>5 DEF vars, CellInv
<1> QED BY <1>1, <1>2, <1>3, <1>4, <1>5 DEF Next

LEMMA CellsCopied == CellInv => CopiesAgree
<1> SUFFICES ASSUME CellInv, NEW t \in Copies
             PROVE  CopyIn(Settled, t) = CopyIn(Settled, "inventory_by_product_zone")
    BY DEF CopiesAgree
<1>1. Settled = Latest(visible \cup hidden)
    BY MergeIsLatest DEF CellInv, Settled
<1>2. "inventory_by_product_zone" \in Copies
    BY DEF Copies
<1>3. \A k \in Keys : ValueAt(Settled, <<t, k>>, EmptyRow)
                         = ValueAt(Settled, <<"inventory_by_product_zone", k>>, EmptyRow)
    BY <1>1, <1>2, MirroredReads DEF CellInv
<1> QED BY <1>3 DEF CopyIn

(* However many batches time out and whenever they are replayed, by        *)
(* whatever reads they were decided: the three copies of every inventory   *)
(* row are the same once every cell has arrived.                           *)
THEOREM CopiesCorrect == Spec => []CopiesAgree
BY CellInit, CellNext, CellsCopied, PTL DEF Spec

-----------------------------------------------------------------------------
(* The tables as they will be *)

(* No two cells of a row.                                                  *)
OneEach(cells) == \A c, d \in cells : c.row = d.row => c = d

(* The rows written take the place of those there were.                    *)
Replaced(cells, new) == {c \in cells : \A d \in new : d.row # c.row} \cup new

LEMMA SettledIsLatest ==
    ASSUME CellInv
    PROVE  Settled = Latest(visible \cup hidden) /\ OneEach(Settled)
<1>1. Settled = Latest(visible \cup hidden)
    BY MergeIsLatest DEF CellInv, Settled
<1>2. Stamped(visible \cup hidden)
    BY DEF CellInv
<1> QED BY <1>1, <1>2, LatestUnique DEF OneEach

(* A batch counts from the moment it is written or times out, whole, and   *)
(* over everything written before.                                         *)
LEMMA SettledBatch ==
    ASSUME CellInv, NEW m \in Members, Write(m) \/ TimeOut(m)
    PROVE  CellInv' /\ Settled' = Replaced(Settled, Batch(job[m], clock'))
<1> DEFINE B == Batch(job[m], clock')
           S == visible \cup hidden
<1>1. CellInv' /\ Latest(visible' \cup hidden') = Latest(S \cup B)
    BY CellWrite, CellTimeOut
<1>2. Settled' = Latest(visible' \cup hidden')
    <2>1. \A c, d \in visible' : ~Supersedes(d, c)
        BY <1>1 DEF CellInv
    <2> QED BY <2>1, MergeIsLatest DEF Settled
<1>3. clock \in Nat /\ clock' = clock + 1
    BY DEF CellInv, Write, TimeOut, Finish
<1>4. \A c \in S : c.ts \in Int /\ c.ts < clock'
    BY <1>3 DEF CellInv, Stamped
<1>5. \A c \in B : c.ts = clock'
    BY <1>3, BatchStamped
<1> HIDE DEF B, S
<1>6. Latest(S \cup B) = Replaced(Latest(S), B)
    BY <1>3, <1>4, <1>5 DEF Latest, Replaced, Supersedes
<1> QED BY <1>1, <1>2, <1>6, SettledIsLatest DEF B, S

(* Nothing else changes them: not the arrival of a late cell.              *)
LEMMA SettledKept ==
    ASSUME CellInv,
           \/ \E c \in hidden : Deliver(c)
           \/ UNCHANGED <<visible, hidden>>
    PROVE  Settled' = Settled
<1>1. CASE \E c \in hidden : Deliver(c)
    <2>1. CellInv' /\ Latest(visible' \cup hidden') = Latest(visible \cup hidden)
        BY <1>1, CellDeliver
    <2>2. \A c, d \in visible' : ~Supersedes(d, c)
        BY <2>1 DEF CellInv
    <2>3. Settled' = Latest(visible' \cup hidden')
        BY <2>2, MergeIsLatest DEF Settled
    <2> QED BY <2>1, <2>3, SettledIsLatest
<1>2. CASE UNCHANGED <<visible, hidden>>
    BY <1>2 DEF Settled
<1> QED BY <1>1, <1>2

LEMMA ValueOfCell ==
    ASSUME NEW cells, OneEach(cells), NEW c \in cells, NEW empty
    PROVE  ValueAt(cells, c.row, empty) = c.value
<1> DEFINE chosen == CHOOSE d \in cells : d.row = c.row
<1>1. chosen \in cells /\ chosen.row = c.row
    OBVIOUS
<1>2. chosen = c
    BY <1>1 DEF OneEach
<1> QED BY <1>2 DEF ValueAt

(* What a read finds in a row: what was written there last.                *)
LEMMA ReplacedReads ==
    ASSUME NEW cells, OneEach(cells), NEW new, OneEach(new), NEW empty
    PROVE  /\ OneEach(Replaced(cells, new))
           /\ \A c \in new : ValueAt(Replaced(cells, new), c.row, empty) = c.value
           /\ \A row : (\A c \in new : c.row # row)
                 => ValueAt(Replaced(cells, new), row, empty) = ValueAt(cells, row, empty)
<1> DEFINE all == Replaced(cells, new)
<1>1. OneEach(all)
    BY DEF OneEach, Replaced
<1>2. \A c \in new : ValueAt(all, c.row, empty) = c.value
    BY <1>1, ValueOfCell DEF Replaced
<1>3. ASSUME NEW row, \A c \in new : c.row # row
      PROVE  ValueAt(all, row, empty) = ValueAt(cells, row, empty)
    <2>1. \A c : c.row = row => (c \in all <=> c \in cells)
        BY <1>3 DEF Replaced
    <2>2. CASE \E c \in cells : c.row = row
        <3>1. PICK c \in cells : c.row = row
            BY <2>2
        <3> QED BY <1>1, <2>1, <3>1, ValueOfCell
    <2>3. CASE ~ \E c \in cells : c.row = row
        BY <2>1, <2>3 DEF ValueAt
    <2> QED BY <2>2, <2>3
<1> QED BY <1>1, <1>2, <1>3

(* The cells read for an event read as all cells do, in the rows read.     *)
LEMMA PartReads ==
    ASSUME NEW cells, OneEach(cells), NEW rows, NEW row \in rows, NEW empty
    PROVE  ValueAt({c \in cells : c.row \in rows}, row, empty) = ValueAt(cells, row, empty)
<1> DEFINE part == {c \in cells : c.row \in rows}
<1>1. OneEach(part)
    BY DEF OneEach
<1>2. CASE \E c \in cells : c.row = row
    <2>1. PICK c \in cells : c.row = row
        BY <1>2
    <2>2. c \in part
        BY <2>1
    <2> QED BY <1>1, <2>1, <2>2, ValueOfCell
<1>3. CASE ~ \E c \in cells : c.row = row
    BY <1>3 DEF ValueAt
<1> QED BY <1>2, <1>3

-----------------------------------------------------------------------------
(* Types *)

(* Every cell of a table holds what its columns may hold.                  *)
TypedCells(cells) ==
    \A c \in cells :
        /\ c.row[1] \in Copies => c.row[2] \in Keys /\ c.value \in Rows
        /\ c.row[1] = "inventory_totals_by_product" => c.value \in TotalRows
        /\ c.row[1] = "orders_by_id" => c.value \in OrderRows /\ ItemsWellFormed(c.value.items)

(* A row is named by a table and a key.                                    *)
Paired(c) == c.row = <<c.row[1], c.row[2]>>

LEMMA StoreTyped == ASSUME NEW cells, TypedCells(cells) PROVE StoreOK(StoreIn(cells))
<1>1. ASSUME NEW row, NEW empty
      PROVE  \/ ValueAt(cells, row, empty) = empty
             \/ \E c \in cells : c.row = row /\ ValueAt(cells, row, empty) = c.value
    BY DEF ValueAt
<1>2. ASSUME NEW t \in Copies PROVE CopyIn(cells, t) \in [Keys -> Rows]
    <2>1. EmptyRow \in Rows
        BY DEF EmptyRow, Rows
    <2>2. ASSUME NEW k \in Keys PROVE ValueAt(cells, <<t, k>>, EmptyRow) \in Rows
        BY <1>1, <2>1 DEF TypedCells
    <2> QED BY <2>2 DEF CopyIn
<1>3. TotalsIn(cells) \in [Products -> TotalRows]
    <2>1. EmptyTotal \in TotalRows
        BY DEF EmptyTotal, TotalRows
    <2>2. ASSUME NEW p \in Products
          PROVE  ValueAt(cells, <<"inventory_totals_by_product", p>>, EmptyTotal) \in TotalRows
        BY <1>1, <2>1 DEF TypedCells
    <2> QED BY <2>2 DEF TotalsIn
<1>4. ASSUME NEW o \in OrderIds
      PROVE  \/ OrdersIn(cells)[o] = NoOrder
             \/ OrdersIn(cells)[o] \in OrderRows /\ ItemsWellFormed(OrdersIn(cells)[o].items)
    <2>1. OrdersIn(cells)[o] = ValueAt(cells, <<"orders_by_id", o>>, NoOrder)
        BY DEF OrdersIn
    <2> QED BY <1>1, <2>1 DEF TypedCells
<1>5. OrdersIn(cells) \in [OrderIds -> OrderRows \cup {NoOrder}]
    BY <1>4 DEF OrdersIn
<1>6. "inventory_by_product_zone" \in Copies
    BY DEF Copies
<1> QED BY <1>2, <1>3, <1>4, <1>5, <1>6 DEF StoreOK, StoreIn

LEMMA BatchTyped ==
    ASSUME NEW j, j.event \in Events, TypedCells(j.seen), NEW ts
    PROVE  TypedCells(Batch(j, ts)) /\ IsFiniteSet(Batch(j, ts))
<1> DEFINE s == StoreIn(j.seen)
           e == j.event
           touched == TouchedKeys(s, e)
           copies == {Cell(t, k, UpdatedInventory(s, e)[k], ts) : t \in Copies, k \in touched}
           sums == {Cell("inventory_totals_by_product", p, UpdatedTotals(s, e)[p], ts) :
                       p \in {k[1] : k \in touched}}
           placed == {Cell("orders_by_id", o, UpdatedOrders(s, e)[o], ts) :
                         o \in IF e.event_type \in OrderEventTypes THEN {e.order_id} ELSE {}}
<1>1. TypedCells(RecordCells(j, ts)) /\ IsFiniteSet(RecordCells(j, ts))
    <2>1. \A c \in RecordCells(j, ts) :
              c.row[1] \in {"processed_events_by_id", "event_history_by_day"}
        BY DEF RecordCells, Cell
    <2>2. \A x, y : IsFiniteSet({x, y})
        <3>1. ASSUME NEW x, NEW y PROVE IsFiniteSet({x} \cup {y})
            BY FS_Singleton, FS_AddElement
        <3> QED BY <3>1
    <2> QED BY <2>1, <2>2 DEF TypedCells, Copies, RecordCells
<1>2. CASE Decision(j) # "applied"
    <2>1. RowCells(Copies, j, ts) = {}
        BY <1>2 DEF RowCells
    <2> QED BY <1>1, <2>1 DEF Batch
<1>3. CASE Decision(j) = "applied"
    <2>1. StoreOK(s) /\ Accepted(s, e)
        BY <1>3, StoreTyped, AppliedIsAccepted DEF Decision
    <2>2. touched \subseteq Keys /\ IsFiniteSet(touched)
        BY <2>1, TouchedSums, EventsAreRecords
    <2>3. RowCells(Copies, j, ts) = copies \cup sums \cup placed
        BY <1>3 DEF RowCells
    <2>4. TypedCells(copies)
        <3>1. UpdatedInventory(s, e) \in [Keys -> Rows]
            BY <2>1, UpdatedInventoryOK, EventsAreRecords
        <3> HIDE DEF s, e
        <3> QED BY <2>2, <3>1 DEF TypedCells, Cell, Copies
    <2>5. TypedCells(sums)
        <3>1. UpdatedTotals(s, e) \in [Products -> TotalRows]
            BY <2>1, UpdatedTotalsOK, EventsAreRecords
        <3>2. \A p \in {k[1] : k \in touched} : p \in Products
            BY <2>2 DEF Keys
        <3> HIDE DEF s, e, touched
        <3> QED BY <3>1, <3>2 DEF TypedCells, Cell, Copies
    <2>6. TypedCells(placed)
        <3>1. /\ UpdatedOrders(s, e) \in [OrderIds -> OrderRows \cup {NoOrder}]
              /\ \A o \in OrderIds : UpdatedOrders(s, e)[o] # NoOrder
                                        => ItemsWellFormed(UpdatedOrders(s, e)[o].items)
            BY <2>1, UpdatedOrdersOK, EventsAreRecords
        <3>2. ASSUME e.event_type \in OrderEventTypes
              PROVE  e.order_id \in OrderIds /\ UpdatedOrders(s, e)[e.order_id] # NoOrder
            <4>1. e \in EventRecords /\ e.order_id # NoText
                BY <2>1, <3>2, EventsAreRecords DEF Accepted, WellFormed
            <4>2. e.order_id \in OrderIds
                BY <4>1 DEF EventRecords
            <4>3. s.orders \in [OrderIds -> OrderRows \cup {NoOrder}]
                BY <2>1 DEF StoreOK
            <4>4. UpdatedOrders(s, e)[e.order_id].status \in {"CREATED", "COMPLETED"}
                BY <3>2, <4>2, <4>3 DEF UpdatedOrders, OrderEventTypes
            <4>5. e.items \in Seq(Items) /\ e.occurred_at \in Int
                BY <4>1 DEF EventRecords
            <4>6. CASE e.event_type = "ORDER_CREATED"
                <5>1. UpdatedOrders(s, e)[e.order_id]
                          = [status |-> "CREATED", items |-> e.items, last_event_ts |-> e.occurred_at]
                    BY <4>2, <4>3, <4>6 DEF UpdatedOrders
                <5>2. UpdatedOrders(s, e)[e.order_id] \in OrderRows
                    BY <4>5, <5>1 DEF OrderRows
                <5> QED BY <4>2, <5>2, NoOrderIsNoRow
            <4>7. CASE e.event_type = "ORDER_COMPLETED"
                <5>1. s.orders[e.order_id] # NoOrder
                    BY <2>1, <4>7 DEF Accepted, OrderAllows
                <5>2. s.orders[e.order_id].items \in Seq(Items)
                    BY <4>2, <4>3, <5>1 DEF OrderRows
                <5>3. UpdatedOrders(s, e)[e.order_id]
                          = [status |-> "COMPLETED", items |-> s.orders[e.order_id].items,
                             last_event_ts |-> e.occurred_at]
                    BY <4>2, <4>3, <4>7 DEF UpdatedOrders
                <5>4. UpdatedOrders(s, e)[e.order_id] \in OrderRows
                    BY <4>5, <5>2, <5>3 DEF OrderRows
                <5> QED BY <4>2, <5>4, NoOrderIsNoRow
            <4> QED BY <3>2, <4>6, <4>7 DEF OrderEventTypes
        <3> HIDE DEF s, e
        <3> QED BY <3>1, <3>2 DEF TypedCells, Cell, Copies
    <2>7. IsFiniteSet(copies) /\ IsFiniteSet(sums) /\ IsFiniteSet(placed)
        <3>1. IsFiniteSet(Copies)
            <4>1. Copies = {"inventory_by_product_zone"} \cup {"inventory_by_product"}
                              \cup {"inventory_by_zone"}
                BY DEF Copies
            <4> QED BY <4>1, FS_Singleton, FS_AddElement
        <3>2. IsFiniteSet(Copies \X touched)
            BY <2>2, <3>1, FS_Product
        <3> DEFINE f == [x \in Copies \X touched |-> Cell(x[1], x[2], UpdatedInventory(s, e)[x[2]], ts)]
                   g == [p \in {k[1] : k \in touched} |->
                            Cell("inventory_totals_by_product", p, UpdatedTotals(s, e)[p], ts)]
                   first == [k \in touched |-> k[1]]
        <3>3. copies = {f[x] : x \in Copies \X touched}
            <4> HIDE DEF s, e, touched
            <4>1. ASSUME NEW c \in copies PROVE \E x \in Copies \X touched : c = f[x]
                <5>1. PICK t \in Copies, k \in touched : c = Cell(t, k, UpdatedInventory(s, e)[k], ts)
                    OBVIOUS
                <5>2. <<t, k>> \in Copies \X touched /\ c = f[<<t, k>>]
                    BY <5>1
                <5> QED BY <5>2
            <4>2. \A x \in Copies \X touched : f[x] \in copies
                OBVIOUS
            <4> QED BY <4>1, <4>2
        <3>4. IsFiniteSet(copies)
            <4> HIDE DEF f, copies, touched
            <4> QED BY <3>2, <3>3, ImageFinite
        <3>5. IsFiniteSet({k[1] : k \in touched})
            <4>1. {k[1] : k \in touched} = {first[k] : k \in touched}
                OBVIOUS
            <4> HIDE DEF first
            <4> QED BY <2>2, <4>1, ImageFinite
        <3>6. IsFiniteSet(sums)
            <4>1. sums = {g[p] : p \in {k[1] : k \in touched}}
                <5> HIDE DEF s, e, touched
                <5> QED OBVIOUS
            <4> HIDE DEF g
            <4> QED BY <3>5, <4>1, ImageFinite
        <3>7. IsFiniteSet(IF e.event_type \in OrderEventTypes THEN {e.order_id} ELSE {})
            BY FS_Singleton, FS_EmptySet
        <3>8. IsFiniteSet(placed)
            <4> DEFINE O == IF e.event_type \in OrderEventTypes THEN {e.order_id} ELSE {}
                       h == [o \in O |-> Cell("orders_by_id", o, UpdatedOrders(s, e)[o], ts)]
            <4>1. placed = {h[o] : o \in O}
                <5> HIDE DEF s, e
                <5> QED OBVIOUS
            <4> HIDE DEF h
            <4> QED BY <3>7, <4>1, ImageFinite
        <3> QED BY <3>4, <3>6, <3>8
    <2>8. IsFiniteSet(RowCells(Copies, j, ts))
        <3> HIDE DEF copies, sums, placed
        <3> QED BY <2>3, <2>7, FS_Union
    <2>9. IsFiniteSet(Batch(j, ts))
        BY <1>1, <2>8, FS_Union DEF Batch
    <2> HIDE DEF copies, sums, placed
    <2>10. TypedCells(Batch(j, ts))
        BY <1>1, <2>3, <2>4, <2>5, <2>6 DEF Batch, TypedCells
    <2> QED BY <2>9, <2>10
<1> QED BY <1>2, <1>3

(* The tables hold typed cells, and every job was read from some.          *)
TableInv ==
    /\ CellInv
    /\ IsFiniteSet(visible \cup hidden)
    /\ TypedCells(visible \cup hidden)
    /\ \A c \in visible \cup hidden : c.ts >= 1 /\ Paired(c)
    /\ job = [m \in Members |-> job[m]]
    /\ \A m \in Members : job[m] # NoJob => job[m].event \in Events /\ TypedCells(job[m].seen)
    /\ timeouts \in 0 .. MaxTimeouts

(* An event in the history is marked as processed, and the event of a job  *)
(* was not when the job was read.                                          *)
RecordInv ==
    /\ \A m \in Members : job[m] # NoJob =>
          \A c \in job[m].seen : c.row # <<"processed_events_by_id", job[m].event.event_id>>
    /\ \A c \in HistoryIn(Settled) :
          /\ c.row = <<"event_history_by_day", <<c.ts, c.value.event.event_id>>>>
          /\ \E d \in Settled : d.row = <<"processed_events_by_id", c.value.event.event_id>>
    /\ RecordedOnceUnlessRaced

LEMMA TableInit == Init => TableInv
<1> SUFFICES ASSUME Init PROVE TableInv
    OBVIOUS
<1>1. visible \cup hidden = {}
    BY DEF Init
<1>2. IsFiniteSet(visible \cup hidden)
    BY <1>1, FS_EmptySet
<1>3. job = [m \in Members |-> job[m]] /\ \A m \in Members : job[m] = NoJob
    BY DEF Init
<1>4. timeouts \in 0 .. MaxTimeouts
    BY BatchBounds DEF Init
<1> QED BY <1>1, <1>2, <1>3, <1>4, CellInit DEF TableInv, TypedCells

(* A member has done its job, and the others go on with theirs.            *)
LEMMA TableBatch ==
    ASSUME TableInv, NEW m \in Members, Write(m) \/ TimeOut(m)
    PROVE  /\ TableInv'
           /\ job[m].event \in Events
           /\ TypedCells(job[m].seen)
<1> DEFINE B == Batch(job[m], clock')
           S == visible \cup hidden
           T == visible' \cup hidden'
<1>1. job[m].event \in Events /\ TypedCells(job[m].seen)
    BY DEF TableInv, Write, TimeOut, Finish
<1>2. TypedCells(B) /\ IsFiniteSet(B)
    BY <1>1, BatchTyped
<1>3. CellInv' /\ clock' \in Nat /\ clock' >= 1
    BY SettledBatch DEF TableInv, CellInv, Write, TimeOut, Finish
<1>4. \A c \in B : c.ts = clock'
    BY <1>3, BatchStamped
<1>13. \A c \in B : Paired(c)
    BY BatchCells DEF Cell, Paired
<1>5. T \subseteq S \cup B
    BY DEF Write, TimeOut, Merge
<1> HIDE DEF B
<1>6. TypedCells(S \cup B)
    BY <1>2 DEF TableInv, TypedCells
<1>7. IsFiniteSet(S \cup B)
    BY <1>2, FS_Union DEF TableInv
<1>8. TypedCells(T) /\ (\A c \in T : c.ts >= 1 /\ Paired(c))
    BY <1>3, <1>4, <1>5, <1>6, <1>13 DEF TypedCells, TableInv
<1>9. IsFiniteSet(T)
    BY <1>5, <1>7, FS_Subset
<1>10. job' = [job EXCEPT ![m] = NoJob]
    BY DEF Write, TimeOut, Finish
<1>11. /\ job' = [n \in Members |-> job'[n]]
       /\ \A n \in Members : job'[n] # NoJob => job'[n] = job[n]
    BY <1>10 DEF TableInv
<1>12. timeouts' \in 0 .. MaxTimeouts
    BY BatchBounds DEF Write, TimeOut, TableInv
<1> QED BY <1>1, <1>3, <1>8, <1>9, <1>11, <1>12 DEF TableInv

LEMMA TableNext == TableInv /\ [Next]_vars => TableInv'
<1> SUFFICES ASSUME TableInv, [Next]_vars PROVE TableInv'
    OBVIOUS
<1>1. CellInv'
    BY CellNext DEF TableInv
<1>2. CASE \E m \in Members : Write(m) \/ TimeOut(m)
    BY <1>2, TableBatch
<1>3. CASE \E c \in hidden : Deliver(c)
    <2>1. visible' \cup hidden' \subseteq visible \cup hidden
        BY <1>3, CellDeliver DEF TableInv
    <2>2. IsFiniteSet(visible' \cup hidden')
        BY <2>1, FS_Subset DEF TableInv
    <2>3. UNCHANGED <<job, timeouts>>
        BY <1>3 DEF Deliver
    <2> QED BY <1>1, <2>1, <2>2, <2>3 DEF TableInv, TypedCells
<1>4. ASSUME NEW m \in Members, NEW e \in Events, Read(m, e) PROVE TableInv'
    <2>1. CellsRead(visible, e) \subseteq visible
        BY DEF CellsRead
    <2>2. TypedCells(CellsRead(visible, e))
        BY <2>1 DEF TableInv, TypedCells
    <2>3. /\ job' = [n \in Members |-> job'[n]]
          /\ \A n \in Members : \/ job'[n] = job[n]
                                \/ job'[n] = [event |-> e, seen |-> CellsRead(visible, e)]
        BY <1>4 DEF Read, TableInv
    <2>4. UNCHANGED <<visible, hidden, timeouts>>
        BY <1>4 DEF Read
    <2> QED BY <1>1, <2>2, <2>3, <2>4 DEF TableInv
<1>5. ASSUME NEW m \in Members, Abandon(m) PROVE TableInv'
    <2>1. /\ job' = [n \in Members |-> job'[n]]
          /\ \A n \in Members : job'[n] # NoJob => job'[n] = job[n]
        BY <1>5 DEF Abandon, TableInv
    <2>2. UNCHANGED <<visible, hidden, timeouts>>
        BY <1>5 DEF Abandon
    <2> QED BY <1>1, <2>1, <2>2 DEF TableInv
<1>6. CASE UNCHANGED vars
    BY <1>1, <1>6 DEF vars, TableInv
<1> QED BY <1>2, <1>3, <1>4, <1>5, <1>6 DEF Next

(* Of every row at most one cell is visible, none from the future, and     *)
(* whatever was written from outdated reads, no quantity is negative.      *)
THEOREM CellsTyped == Spec => []TypeOK
<1>1. TableInv => TypeOK
    <2> SUFFICES ASSUME TableInv PROVE TypeOK
        OBVIOUS
    <2>1. Cardinality({c.row : c \in visible}) = Cardinality(visible)
        <3> DEFINE row == [c \in visible |-> c.row]
        <3>1. \A c, d \in visible : row[c] = row[d] => c = d
            <4> SUFFICES ASSUME NEW c \in visible, NEW d \in visible, c.row = d.row PROVE c = d
                OBVIOUS
            <4>1. c.ts \in Int /\ d.ts \in Int /\ ~Supersedes(c, d) /\ ~Supersedes(d, c)
                BY DEF TableInv, CellInv, Stamped
            <4>2. c.ts = d.ts
                BY <4>1 DEF Supersedes
            <4> QED BY <4>2 DEF TableInv, CellInv, Stamped
        <3>2. IsFiniteSet(visible)
            BY FS_Subset DEF TableInv
        <3>3. {c.row : c \in visible} = {row[c] : c \in visible}
            OBVIOUS
        <3>4. Cardinality({row[c] : c \in visible}) = Cardinality(visible)
            <4> HIDE DEF row
            <4> QED BY <3>1, <3>2, ImageSize
        <3> QED BY <3>3, <3>4, Zenon
    <2>2. \A c \in visible \cup hidden : c.ts \in 1 .. clock
        BY DEF TableInv, CellInv, Stamped
    <2> QED BY <2>1, <2>2 DEF TypeOK, TableInv, TypedCells
<1> QED BY <1>1, TableInit, TableNext, PTL DEF Spec

-----------------------------------------------------------------------------
(* The history *)

LEMMA RecordInit == Init => RecordInv
<1> SUFFICES ASSUME Init PROVE RecordInv
    OBVIOUS
<1>1. HistoryIn(Settled) = {}
    BY DEF Init, Settled, Merge, HistoryIn
<1>2. \A m \in Members : job[m] = NoJob
    BY DEF Init
<1> QED BY <1>1, <1>2 DEF RecordInv, RecordedOnceUnlessRaced

(* A batch writes one row of the history and marks its event.              *)
LEMMA BatchRecords ==
    ASSUME NEW j, NEW ts
    PROVE  /\ HistoryIn(Batch(j, ts))
                 = {Cell("event_history_by_day", <<ts, j.event.event_id>>,
                         [event |-> j.event, outcome |-> OutcomeOf[Decision(j)]], ts)}
           /\ \E d \in Batch(j, ts) : d.row = <<"processed_events_by_id", j.event.event_id>>
           /\ \A d \in Batch(j, ts) : d.row[1] = "processed_events_by_id"
                                         => d.row[2] = j.event.event_id
<1>1. \A c \in RowCells(Copies, j, ts) :
          c.row[1] \notin {"event_history_by_day", "processed_events_by_id"}
    BY DEF RowCells, Copies, Cell
<1>2. \A c \in Batch(j, ts) : c.row[1] \in {"event_history_by_day", "processed_events_by_id"}
                                 => c \in RecordCells(j, ts)
    BY <1>1 DEF Batch
<1>3. RecordCells(j, ts) \subseteq Batch(j, ts)
    BY DEF Batch
<1>4. \A d \in RecordCells(j, ts) : d.row[1] = "processed_events_by_id"
                                       => d.row[2] = j.event.event_id
    BY DEF RecordCells, Cell
<1>5. \E d \in RecordCells(j, ts) : d.row = <<"processed_events_by_id", j.event.event_id>>
    BY DEF RecordCells, Cell
<1> DEFINE h == Cell("event_history_by_day", <<ts, j.event.event_id>>,
                     [event |-> j.event, outcome |-> OutcomeOf[Decision(j)]], ts)
<1>6. h \in RecordCells(j, ts) /\ h.row[1] = "event_history_by_day"
    BY DEF RecordCells, Cell
<1>7. \A d \in RecordCells(j, ts) : d.row[1] = "event_history_by_day" => d = h
    BY DEF RecordCells, Cell
<1>8. HistoryIn(Batch(j, ts)) = {h}
    BY <1>2, <1>3, <1>6, <1>7 DEF HistoryIn
<1> QED BY <1>2, <1>3, <1>4, <1>5, <1>8

LEMMA RecordBatch ==
    ASSUME TableInv, RecordInv, NEW m \in Members, Write(m) \/ TimeOut(m)
    PROVE  RecordInv'
<1> DEFINE j == job[m]
           e == job[m].event
           B == Batch(j, clock')
           mark == <<"processed_events_by_id", e.event_id>>
           h == Cell("event_history_by_day", <<clock', e.event_id>>,
                     [event |-> e, outcome |-> OutcomeOf[Decision(j)]], clock')
           Marked(cells, id) == \E d \in cells : d.row = <<"processed_events_by_id", id>>
<1>1. Settled' = Replaced(Settled, B)
    BY SettledBatch DEF TableInv
<1>2. HistoryIn(B) = {h} /\ Marked(B, e.event_id)
    BY BatchRecords
<1>3. HistoryIn(Settled') \subseteq HistoryIn(Settled) \cup {h}
    BY <1>1, <1>2 DEF HistoryIn, Replaced
<1>4. /\ h.row = <<"event_history_by_day", <<h.ts, h.value.event.event_id>>>>
      /\ h.value.event = e
    BY DEF Cell
<1>5. ASSUME NEW id, Marked(Settled, id) PROVE Marked(Settled', id)
    BY <1>1, <1>5 DEF Replaced
<1>6. Marked(Settled', e.event_id)
    BY <1>1, <1>2 DEF Replaced
<1>7. \A n \in Members : job'[n] # NoJob => job'[n] = job[n]
    BY DEF Write, TimeOut, Finish, TableInv
<1>8. Marked(Settled, e.event_id) => e \in raced'
    <2> SUFFICES ASSUME NEW d \in Settled, d.row = mark PROVE e \in raced'
        OBVIOUS
    <2>1. mark \in RowsToRead(StoreIn(Settled), e)
        BY DEF RowsToRead
    <2>2. d \in CellsRead(Settled, e)
        BY <2>1 DEF CellsRead
    <2>3. job[m] # NoJob
        BY DEF Write, TimeOut, Finish
    <2>4. d \notin j.seen
        BY <2>3 DEF RecordInv
    <2>5. Outdated(m)
        BY <2>2, <2>4 DEF Outdated
    <2> QED BY <2>5 DEF Write, TimeOut, Finish
<1>9. raced \subseteq raced'
    BY DEF Write, TimeOut, Finish
<1> HIDE DEF h, B
<1>10. RecordedOnceUnlessRaced'
    <2> SUFFICES ASSUME NEW c \in HistoryIn(Settled'), NEW d \in HistoryIn(Settled'),
                        c.value.event.event_id = d.value.event.event_id, c # d
                 PROVE  {c.value.event, d.value.event} \cap raced' # {}
        BY DEF RecordedOnceUnlessRaced
    <2>1. CASE c \in HistoryIn(Settled) /\ d \in HistoryIn(Settled)
        BY <1>9, <2>1 DEF RecordInv, RecordedOnceUnlessRaced
    <2>2. CASE c = h
        <3>1. d \in HistoryIn(Settled) /\ d.value.event.event_id = e.event_id
            BY <1>3, <1>4, <2>2
        <3>2. Marked(Settled, e.event_id)
            BY <3>1 DEF RecordInv
        <3> QED BY <1>4, <1>8, <2>2, <3>2
    <2>3. CASE d = h
        <3>1. c \in HistoryIn(Settled) /\ c.value.event.event_id = e.event_id
            BY <1>3, <1>4, <2>3
        <3>2. Marked(Settled, e.event_id)
            BY <3>1 DEF RecordInv
        <3> QED BY <1>4, <1>8, <2>3, <3>2
    <2> QED BY <1>3, <2>1, <2>2, <2>3
<1>11. ASSUME NEW c \in HistoryIn(Settled')
       PROVE  /\ c.row = <<"event_history_by_day", <<c.ts, c.value.event.event_id>>>>
              /\ Marked(Settled', c.value.event.event_id)
    <2>1. CASE c \in HistoryIn(Settled)
        BY <1>5, <2>1 DEF RecordInv
    <2>2. CASE c = h
        BY <1>4, <1>6, <2>2
    <2> QED BY <1>3, <2>1, <2>2
<1> QED BY <1>7, <1>10, <1>11 DEF RecordInv

LEMMA RecordNext == TableInv /\ RecordInv /\ [Next]_vars => RecordInv'
<1> SUFFICES ASSUME TableInv, RecordInv, [Next]_vars PROVE RecordInv'
    OBVIOUS
<1>1. CASE \E m \in Members : Write(m) \/ TimeOut(m)
    BY <1>1, RecordBatch
<1>2. ASSUME Settled' = Settled, raced' = raced,
             \A m \in Members : job'[m] # NoJob => job'[m] = job[m]
      PROVE  RecordInv'
    BY <1>2 DEF RecordInv, RecordedOnceUnlessRaced
<1>3. CASE \E c \in hidden : Deliver(c)
    <2>1. Settled' = Settled
        BY <1>3, SettledKept DEF TableInv
    <2> QED BY <1>2, <1>3, <2>1 DEF Deliver
<1>4. ASSUME NEW m \in Members, NEW e \in Events, Read(m, e) PROVE RecordInv'
    <2>1. Settled' = Settled /\ raced' = raced
        BY <1>4, SettledKept DEF Read, TableInv
    <2>2. \A c \in visible : c.row # <<"processed_events_by_id", e.event_id>>
        BY <1>4 DEF Read, ProcessedIn
    <2>3. \A c \in CellsRead(visible, e) : c.row # <<"processed_events_by_id", e.event_id>>
        BY <2>2 DEF CellsRead
    <2>4. \A n \in Members : \/ job'[n] = job[n]
                             \/ job'[n] = [event |-> e, seen |-> CellsRead(visible, e)]
        BY <1>4 DEF Read, TableInv
    <2>5. ASSUME NEW n \in Members, job'[n] # NoJob
          PROVE  \A c \in job'[n].seen :
                     c.row # <<"processed_events_by_id", job'[n].event.event_id>>
        BY <2>3, <2>4, <2>5 DEF RecordInv
    <2> QED BY <2>1, <2>5 DEF RecordInv, RecordedOnceUnlessRaced
<1>5. ASSUME NEW m \in Members, Abandon(m) PROVE RecordInv'
    <2>1. Settled' = Settled /\ raced' = raced
        BY <1>5, SettledKept DEF Abandon, TableInv
    <2>2. \A n \in Members : job'[n] # NoJob => job'[n] = job[n]
        BY <1>5 DEF Abandon, TableInv
    <2> QED BY <1>2, <2>1, <2>2
<1>6. CASE UNCHANGED vars
    <2>1. Settled' = Settled
        BY <1>6, SettledKept DEF vars, TableInv
    <2> QED BY <1>2, <1>6, <2>1 DEF vars
<1> QED BY <1>1, <1>3, <1>4, <1>5, <1>6 DEF Next

(* No event is recorded twice, and none of its quantities counted twice,   *)
(* unless it was written from reads that were outdated by then.            *)
THEOREM RecordsCorrect == Spec => []RecordedOnceUnlessRaced
<1>1. RecordInv => RecordedOnceUnlessRaced
    BY DEF RecordInv
<1> QED BY <1>1, TableInit, TableNext, RecordInit, RecordNext, PTL DEF Spec

-----------------------------------------------------------------------------
(* Deciding by the rows read *)

(* The rows that a well-formed event touches are rows of the tables.       *)
LEMMA TouchedAreKeys ==
    ASSUME NEW s, StoreOK(s), NEW e \in Events, WellFormed(e),
           e.event_type = "ORDER_COMPLETED" => s.orders[e.order_id] # NoOrder
    PROVE  TouchedKeys(s, e) \subseteq Keys /\ IsFiniteSet(TouchedKeys(s, e))
<1> USE DEF ProductEventTypes, OrderEventTypes
<1>1. e \in EventRecords
    BY EventsAreRecords
<1>2. CASE e.event_type \in ProductEventTypes
    <2>1. e.product_id \in Products /\ e.zone_id \in ZoneIds
        BY <1>1, <1>2 DEF WellFormed, EventRecords
    <2>2. TouchedKeys(s, e) = {<<e.product_id, e.zone_id>>}
        BY <1>2 DEF TouchedKeys
    <2>3. TouchedKeys(s, e) \subseteq Keys
        BY <2>1, <2>2 DEF Keys
    <2> QED BY <2>3, KeysFinite, FS_Subset
<1>3. CASE e.event_type = "PRODUCT_MOVED"
    <2>1. e.product_id \in Products /\ e.from_zone_id \in ZoneIds /\ e.to_zone_id \in ZoneIds
        BY <1>1, <1>3 DEF WellFormed, EventRecords
    <2>2. TouchedKeys(s, e) \subseteq Keys
        BY <1>3, <2>1 DEF TouchedKeys, Keys
    <2> QED BY <2>2, KeysFinite, FS_Subset
<1>4. CASE e.event_type = "ORDER_CREATED"
    <2>1. e.items \in Seq(Items) /\ ItemsWellFormed(e.items)
        BY <1>1, <1>4 DEF WellFormed, EventRecords
    <2>2. TouchedKeys(s, e) \subseteq Keys
        BY <1>4, <2>1, GroupedItems DEF TouchedKeys
    <2> QED BY <2>2, KeysFinite, FS_Subset
<1>5. CASE e.event_type = "ORDER_COMPLETED"
    <2>1. e.order_id \in OrderIds
        BY <1>1, <1>5 DEF WellFormed, EventRecords
    <2>2. s.orders[e.order_id].items \in Seq(Items) /\ ItemsWellFormed(s.orders[e.order_id].items)
        BY <1>5, <2>1 DEF StoreOK, OrderRows
    <2>3. TouchedKeys(s, e) \subseteq Keys
        BY <1>5, <2>2, GroupedItems DEF TouchedKeys
    <2> QED BY <2>3, KeysFinite, FS_Subset
<1> QED BY <1>2, <1>3, <1>4, <1>5 DEF WellFormed, EventTypes

(* Two stores that hold the same in what deciding on e reads.              *)
Alike(s, t, e) ==
    /\ e.event_type \in OrderEventTypes => s.orders[e.order_id] = t.orders[e.order_id]
    /\ \A k \in TouchedKeys(s, e) :
          /\ s.inventory[k] = t.inventory[k]
          /\ ZoneTotal(s.by_zone, k[2]) = ZoneTotal(t.by_zone, k[2])
          /\ s.totals[k[1]] = t.totals[k[1]]

(* They are changed alike ...                                              *)
LEMMA AlikeChanges ==
    ASSUME NEW s, StoreOK(s), NEW t, StoreOK(t), NEW e \in Events, WellFormed(e), Alike(s, t, e),
           e.event_type = "ORDER_COMPLETED" => s.orders[e.order_id] # NoOrder
    PROVE  /\ TouchedKeys(t, e) = TouchedKeys(s, e)
           /\ \A k \in TouchedKeys(s, e) :
                 /\ DeltaAvailable(t, e, k) = DeltaAvailable(s, e, k)
                 /\ DeltaReserved(t, e, k) = DeltaReserved(s, e, k)
                 /\ UpdatedRow(t, e, k) = UpdatedRow(s, e, k)
                 /\ UpdatedTotal(t, e, k[1]) = UpdatedTotal(s, e, k[1])
                 /\ ReplacedTotal(t, e, k[2]) = ReplacedTotal(s, e, k[2])
           /\ e.event_type \in OrderEventTypes
                 => UpdatedOrders(t, e)[e.order_id] = UpdatedOrders(s, e)[e.order_id]
<1> DEFINE touched == TouchedKeys(s, e)
<1>10. e.event_type \in OrderEventTypes => s.orders[e.order_id] = t.orders[e.order_id]
    BY DEF Alike
<1>11. \A k \in touched : s.inventory[k] = t.inventory[k] /\ s.totals[k[1]] = t.totals[k[1]]
    BY DEF Alike
<1>1. TouchedKeys(t, e) = touched
    BY <1>10 DEF TouchedKeys, WellFormed, EventTypes, OrderEventTypes, ProductEventTypes
<1>2. touched \subseteq Keys /\ IsFiniteSet(touched)
    BY TouchedAreKeys
<1>3. ASSUME NEW k \in touched PROVE DeltaAvailable(t, e, k) = DeltaAvailable(s, e, k)
    BY <1>11 DEF DeltaAvailable
<1>4. ASSUME NEW k \in touched PROVE DeltaReserved(t, e, k) = DeltaReserved(s, e, k)
    BY <1>10 DEF DeltaReserved, OrderEventTypes
<1>5. ASSUME NEW k \in touched PROVE NewSupplier(t, e, k) = NewSupplier(s, e, k)
    <2>1. e.event_type = "PRODUCT_MOVED" => <<e.product_id, e.from_zone_id>> \in touched
        BY DEF TouchedKeys, ProductEventTypes
    <2> QED BY <1>11, <2>1 DEF NewSupplier
<1>6. ASSUME NEW k \in touched PROVE UpdatedRow(t, e, k) = UpdatedRow(s, e, k)
    BY <1>3, <1>4, <1>5, <1>11 DEF UpdatedRow
<1>7. ASSUME NEW k \in touched PROVE UpdatedTotal(t, e, k[1]) = UpdatedTotal(s, e, k[1])
    <2> DEFINE D == KeysOf(s, e, k[1])
               as == [i \in Keys |-> DeltaAvailable(s, e, i)]
               at == [i \in Keys |-> DeltaAvailable(t, e, i)]
               rs == [i \in Keys |-> DeltaReserved(s, e, i)]
               rt == [i \in Keys |-> DeltaReserved(t, e, i)]
    <2>1. KeysOf(t, e, k[1]) = D
        BY <1>1 DEF KeysOf
    <2>2. D \subseteq touched /\ IsFiniteSet(D)
        BY <1>2, FS_Subset DEF KeysOf
    <2>3. \A i \in D : at[i] = as[i]
        BY <1>2, <1>3, <2>2
    <2>7. \A i \in D : rt[i] = rs[i]
        BY <1>2, <1>4, <2>2
    <2>4. s.totals[k[1]] = t.totals[k[1]]
        BY <1>11
    <2>5. SumFunctionOnSet(at, D) = SumFunctionOnSet(as, D)
        <3> HIDE DEF touched, D, as, at, rs, rt
        <3> QED BY <2>2, <2>3, SumEqual
    <2>6. SumFunctionOnSet(rt, D) = SumFunctionOnSet(rs, D)
        <3> HIDE DEF touched, D, as, at, rs, rt
        <3> QED BY <2>2, <2>7, SumEqual
    <2>8. UpdatedTotal(s, e, k[1])
            = [available     |-> s.totals[k[1]].available + SumFunctionOnSet(as, D),
               reserved      |-> s.totals[k[1]].reserved + SumFunctionOnSet(rs, D),
               last_event_ts |-> Later(s.totals[k[1]].last_event_ts, e.occurred_at)]
        BY DEF UpdatedTotal
    <2>9. UpdatedTotal(t, e, k[1])
            = [available     |-> t.totals[k[1]].available + SumFunctionOnSet(at, D),
               reserved      |-> t.totals[k[1]].reserved + SumFunctionOnSet(rt, D),
               last_event_ts |-> Later(t.totals[k[1]].last_event_ts, e.occurred_at)]
        <3> HIDE DEF D
        <3> QED BY <2>1 DEF UpdatedTotal
    <2> HIDE DEF D, as, at, rs, rt
    <2> QED BY <2>4, <2>5, <2>6, <2>8, <2>9
<1>8. ASSUME NEW k \in touched PROVE ReplacedTotal(t, e, k[2]) = ReplacedTotal(s, e, k[2])
    <2> DEFINE D == {i \in touched : i[2] = k[2]}
               ds == [i \in Keys |-> DeltaAvailable(s, e, i) + DeltaReserved(s, e, i)]
               dt == [i \in Keys |-> DeltaAvailable(t, e, i) + DeltaReserved(t, e, i)]
    <2>1. D \subseteq touched /\ IsFiniteSet(D)
        BY <1>2, FS_Subset
    <2>2. \A i \in D : dt[i] = ds[i]
        BY <1>2, <1>3, <1>4, <2>1
    <2>3. SumFunctionOnSet(dt, D) = SumFunctionOnSet(ds, D)
        <3> HIDE DEF touched, D, ds, dt
        <3> QED BY <2>1, <2>2, SumEqual
    <2>4. ZoneTotal(s.by_zone, k[2]) = ZoneTotal(t.by_zone, k[2])
        BY DEF Alike
    <2>5. {i \in TouchedKeys(t, e) : i[2] = k[2]} = D
        BY <1>1
    <2> QED BY <2>3, <2>4, <2>5 DEF ReplacedTotal
<1>9. ASSUME e.event_type \in OrderEventTypes
      PROVE  UpdatedOrders(t, e)[e.order_id] = UpdatedOrders(s, e)[e.order_id]
    <2>1. e.order_id \in OrderIds
        BY <1>9, EventsAreRecords DEF WellFormed, EventRecords
    <2>2. DOMAIN s.orders = OrderIds /\ DOMAIN t.orders = OrderIds
        BY DEF StoreOK
    <2> QED BY <1>9, <1>10, <2>1, <2>2 DEF UpdatedOrders, OrderEventTypes
<1> QED BY <1>1, <1>3, <1>4, <1>6, <1>7, <1>8, <1>9

(* ... and decide alike.                                                   *)
LEMMA AlikeDecisions ==
    ASSUME NEW s, StoreOK(s), NEW t, StoreOK(t), NEW e \in Events, WellFormed(e), Alike(s, t, e),
           e.event_type = "ORDER_COMPLETED" => s.orders[e.order_id] # NoOrder,
           NEW done, NEW past, e.event_id \in done <=> e.event_id \in past
    PROVE  ProcessAction(s, done, e) = ProcessAction(t, past, e)
<1> DEFINE touched == TouchedKeys(s, e)
<1>1. TouchedKeys(t, e) = touched
    BY AlikeChanges
<1>2. \A k \in touched : /\ UpdatedTotal(t, e, k[1]) = UpdatedTotal(s, e, k[1])
                         /\ ReplacedTotal(t, e, k[2]) = ReplacedTotal(s, e, k[2])
    BY AlikeChanges
<1>3. \A k \in touched : s.inventory[k] = t.inventory[k]
    BY DEF Alike
<1>4. e.event_type \in OrderEventTypes => s.orders[e.order_id] = t.orders[e.order_id]
    BY DEF Alike
<1>5. Stale(s, e) <=> Stale(t, e)
    BY <1>1, <1>3, <1>4 DEF Stale
<1>6. StockSuffices(s, e) <=> StockSuffices(t, e)
    <2>1. e.event_type \in ProductEventTypes => <<e.product_id, e.zone_id>> \in touched
        BY DEF TouchedKeys, ProductEventTypes, OrderEventTypes
    <2>2. e.event_type = "PRODUCT_MOVED" => <<e.product_id, e.from_zone_id>> \in touched
        BY DEF TouchedKeys, ProductEventTypes
    <2> HIDE DEF touched
    <2> QED BY <1>3, <2>1, <2>2 DEF StockSuffices, ProductEventTypes
<1>7. OrderAllows(s, e) <=> OrderAllows(t, e)
    <2>1. e.event_type = "ORDER_CREATED" => ItemKeys(e.items) = touched
        BY DEF TouchedKeys, ProductEventTypes
    <2>2. e.event_type = "ORDER_COMPLETED" => ItemKeys(s.orders[e.order_id].items) = touched
        BY DEF TouchedKeys, ProductEventTypes
    <2> HIDE DEF touched
    <2> QED BY <1>3, <1>4, <2>1, <2>2 DEF OrderAllows, OrderEventTypes
<1>8. FitsZones(s, e) <=> FitsZones(t, e)
    BY <1>1, <1>2 DEF FitsZones
<1>9. TotalsNonNegative(s, e) <=> TotalsNonNegative(t, e)
    BY <1>1, <1>2 DEF TotalsNonNegative
<1> QED BY <1>5, <1>6, <1>7, <1>8, <1>9 DEF ProcessAction

(* An event that is malformed, or completes an order nobody created, is    *)
(* refused without a look at the stock.                                    *)
LEMMA RefusedUnread ==
    ASSUME NEW s, NEW e, NEW done, e.event_id \notin done,
           ~WellFormed(e) \/ (e.event_type = "ORDER_COMPLETED" /\ s.orders[e.order_id] = NoOrder)
    PROVE  ProcessAction(s, done, e) = "dlq"
BY DEF ProcessAction, Stale, OrderAllows, OrderEventTypes

(* What is read from part of the tables is what they hold.                 *)
LEMMA JobReads ==
    ASSUME NEW cells, OneEach(cells), \A c \in cells : Paired(c), TypedCells(cells),
           NEW e \in Events
    PROVE  LET part == CellsRead(cells, e)
               all  == StoreIn(cells)
               read == StoreIn(part)
           IN  /\ StoreOK(all) /\ StoreOK(read)
               /\ e.event_id \in ProcessedIn(part) <=> e.event_id \in ProcessedIn(cells)
               /\ e.order_id \in OrderIds => read.orders[e.order_id] = all.orders[e.order_id]
               /\ /\ WellFormed(e)
                  /\ e.event_type = "ORDER_COMPLETED" => all.orders[e.order_id] # NoOrder
                  => Alike(all, read, e)
<1> DEFINE part == CellsRead(cells, e)
           all  == StoreIn(cells)
           read == StoreIn(part)
           rows == RowsToRead(all, e)
<1>1. part = {c \in cells : c.row \in rows}
    BY DEF CellsRead
<1>2. TypedCells(part)
    BY <1>1 DEF TypedCells
<1>3. StoreOK(all) /\ StoreOK(read)
    BY <1>2, StoreTyped
<1>4. ASSUME NEW row \in rows, NEW empty PROVE ValueAt(part, row, empty) = ValueAt(cells, row, empty)
    <2> HIDE DEF part, rows
    <2> QED BY <1>1, PartReads
<1>5. <<"processed_events_by_id", e.event_id>> \in rows /\ <<"orders_by_id", e.order_id>> \in rows
    BY DEF RowsToRead
<1> HIDE DEF rows
<1>6. e.event_id \in ProcessedIn(part) <=> e.event_id \in ProcessedIn(cells)
    <2>1. part \subseteq cells
        BY <1>1
    <2>2. ProcessedIn(part) \subseteq ProcessedIn(cells)
        BY <2>1 DEF ProcessedIn
    <2>3. ASSUME e.event_id \in ProcessedIn(cells) PROVE e.event_id \in ProcessedIn(part)
        <3>1. PICK c \in cells : c.row[1] = "processed_events_by_id" /\ c.row[2] = e.event_id
            BY <2>3 DEF ProcessedIn
        <3>2. c.row = <<"processed_events_by_id", e.event_id>>
            BY <3>1 DEF Paired
        <3>3. c \in part
            BY <1>1, <1>5, <3>2
        <3> QED BY <3>1, <3>3 DEF ProcessedIn
    <2> QED BY <2>2, <2>3
<1>7. ASSUME e.order_id \in OrderIds PROVE read.orders[e.order_id] = all.orders[e.order_id]
    <2>1. ValueAt(part, <<"orders_by_id", e.order_id>>, NoOrder)
            = ValueAt(cells, <<"orders_by_id", e.order_id>>, NoOrder)
        BY <1>4, <1>5
    <2> QED BY <1>7, <2>1 DEF StoreIn, OrdersIn
<1>8. ASSUME WellFormed(e), e.event_type = "ORDER_COMPLETED" => all.orders[e.order_id] # NoOrder
      PROVE  Alike(all, read, e)
    <2> DEFINE keys == TouchedKeys(all, e)
    <2>1. keys \subseteq Keys
        BY <1>3, <1>8, TouchedAreKeys
    <2>2. ~(~WellFormed(e) \/ (e.event_type = "ORDER_COMPLETED" /\ all.orders[e.order_id] = NoOrder))
        BY <1>8
    <2>3. /\ \A k \in keys : <<"inventory_by_product_zone", k>> \in rows
          /\ \A k \in keys : <<"inventory_totals_by_product", k[1]>> \in rows
          /\ \A k \in keys, j \in Keys : j[2] = k[2] => <<"inventory_by_zone", j>> \in rows
        BY <2>2 DEF RowsToRead, rows
    <2>4. e.event_type \in OrderEventTypes => all.orders[e.order_id] = read.orders[e.order_id]
        BY <1>7, <1>8, EventsAreRecords DEF WellFormed, EventRecords
    <2> HIDE DEF keys
    <2>5. ASSUME NEW k \in keys
          PROVE  all.inventory[k] = read.inventory[k]
        <3>1. ValueAt(part, <<"inventory_by_product_zone", k>>, EmptyRow)
                = ValueAt(cells, <<"inventory_by_product_zone", k>>, EmptyRow)
            BY <1>4, <2>3
        <3> QED BY <2>1, <3>1 DEF StoreIn, CopyIn
    <2>6. ASSUME NEW k \in keys
          PROVE  all.totals[k[1]] = read.totals[k[1]]
        <3>1. ValueAt(part, <<"inventory_totals_by_product", k[1]>>, EmptyTotal)
                = ValueAt(cells, <<"inventory_totals_by_product", k[1]>>, EmptyTotal)
            BY <1>4, <2>3
        <3>2. k[1] \in Products
            BY <2>1 DEF Keys
        <3> QED BY <3>1, <3>2 DEF StoreIn, TotalsIn
    <2>7. ASSUME NEW k \in keys
          PROVE  ZoneTotal(all.by_zone, k[2]) = ZoneTotal(read.by_zone, k[2])
        <3> DEFINE D == {j \in Keys : j[2] = k[2]}
                   f == [j \in Keys |-> Total(all.by_zone[j])]
                   g == [j \in Keys |-> Total(read.by_zone[j])]
        <3>1. ASSUME NEW j \in D PROVE f[j] = g[j]
            <4>1. ValueAt(part, <<"inventory_by_zone", j>>, EmptyRow)
                    = ValueAt(cells, <<"inventory_by_zone", j>>, EmptyRow)
                BY <1>4, <2>3
            <4>2. all.by_zone[j] = read.by_zone[j]
                BY <4>1 DEF StoreIn, CopyIn
            <4> QED BY <4>2
        <3>2. IsFiniteSet(D)
            BY KeysFinite, FS_Subset
        <3>3. SumFunctionOnSet(f, D) = SumFunctionOnSet(g, D)
            <4>1. \A j \in D : f[j] = g[j]
                BY <3>1
            <4> HIDE DEF D, f, g
            <4> QED BY <3>2, <4>1, SumEqual
        <3> QED BY <3>3 DEF ZoneTotal
    <2> QED BY <2>4, <2>5, <2>6, <2>7 DEF Alike, keys
<1> QED BY <1>3, <1>6, <1>7, <1>8

(* So a job whose reads are not outdated decides as the tables would.      *)
LEMMA JobDecides ==
    ASSUME NEW cells, OneEach(cells), \A c \in cells : Paired(c), TypedCells(cells),
           NEW j, j.event \in Events, j.seen = CellsRead(cells, j.event)
    PROVE  /\ Decision(j) = ProcessAction(StoreIn(cells), ProcessedIn(cells), j.event)
           /\ Decision(j) = "applied" => Alike(StoreIn(cells), StoreIn(j.seen), j.event)
<1> DEFINE e    == j.event
           all  == StoreIn(cells)
           read == StoreIn(j.seen)
           done == ProcessedIn(j.seen)
           past == ProcessedIn(cells)
<1> HIDE DEF e
<1>1. /\ StoreOK(all) /\ StoreOK(read)
      /\ e.event_id \in done <=> e.event_id \in past
      /\ e.order_id \in OrderIds => read.orders[e.order_id] = all.orders[e.order_id]
      /\ /\ WellFormed(e)
         /\ e.event_type = "ORDER_COMPLETED" => all.orders[e.order_id] # NoOrder
         => Alike(all, read, e)
    BY JobReads DEF e
<1>2. Decision(j) = ProcessAction(read, done, e)
    BY DEF Decision, e
<1>3. e \in Events
    BY DEF e
<1> HIDE DEF all, read, done, past
<1>4. CASE e.event_id \in done
    BY <1>1, <1>2, <1>4 DEF ProcessAction, e, all, past
<1>5. CASE e.event_id \notin done /\ ~WellFormed(e)
    BY <1>1, <1>2, <1>5, RefusedUnread DEF e, all, past
<1>6. CASE e.event_id \notin done /\ WellFormed(e) /\ e.event_type = "ORDER_COMPLETED"
           /\ all.orders[e.order_id] = NoOrder
    <2>1. e.order_id \in OrderIds
        BY <1>3, <1>6, EventsAreRecords DEF WellFormed, EventRecords, OrderEventTypes
    <2>2. read.orders[e.order_id] = NoOrder
        BY <1>1, <1>6, <2>1
    <2> QED BY <1>1, <1>2, <1>6, <2>2, RefusedUnread DEF e, all, past
<1>7. CASE e.event_id \notin done /\ WellFormed(e)
           /\ (e.event_type = "ORDER_COMPLETED" => all.orders[e.order_id] # NoOrder)
    <2>1. Alike(all, read, e)
        BY <1>1, <1>7
    <2>2. ProcessAction(all, past, e) = ProcessAction(read, done, e)
        BY <1>1, <1>3, <1>7, <2>1, AlikeDecisions
    <2> QED BY <1>2, <2>1, <2>2 DEF e, all, past, read
<1> QED BY <1>4, <1>5, <1>6, <1>7

(* The cells that new holds of a table are those of keys, with values f.   *)
Writes(new, table, keys, f) ==
    /\ \A key \in keys : \E c \in new : c.row = <<table, key>> /\ c.value = f[key]
    /\ \A c \in new : c.row[1] = table => c.row[2] \in keys

(* A table after a batch.                                                  *)
LEMMA TableAfter ==
    ASSUME NEW cells, OneEach(cells), NEW new, OneEach(new),
           NEW table, NEW keys, NEW f, Writes(new, table, keys, f), NEW key, NEW empty
    PROVE  ValueAt(Replaced(cells, new), <<table, key>>, empty)
              = IF key \in keys THEN f[key] ELSE ValueAt(cells, <<table, key>>, empty)
<1>1. CASE key \in keys
    <2>1. PICK c \in new : c.row = <<table, key>> /\ c.value = f[key]
        BY <1>1 DEF Writes
    <2>2. ValueAt(Replaced(cells, new), c.row, empty) = c.value
        BY ReplacedReads
    <2> QED BY <1>1, <2>1, <2>2
<1>2. CASE key \notin keys
    <2>1. \A c \in new : c.row # <<table, key>>
        BY <1>2 DEF Writes
    <2>2. ValueAt(Replaced(cells, new), <<table, key>>, empty) = ValueAt(cells, <<table, key>>, empty)
        BY <2>1, ReplacedReads
    <2> QED BY <1>2, <2>2
<1> QED BY <1>1, <1>2

(* What a batch writes to each table.                                      *)
LEMMA BatchWrites ==
    ASSUME NEW j, NEW ts \in Int
    PROVE  LET s == StoreIn(j.seen)
               e == j.event
               B == Batch(j, ts)
               keys == IF Decision(j) = "applied" THEN TouchedKeys(s, e) ELSE {}
               products == IF Decision(j) = "applied" THEN {k[1] : k \in TouchedKeys(s, e)} ELSE {}
               placed == IF Decision(j) = "applied" /\ e.event_type \in OrderEventTypes
                         THEN {e.order_id} ELSE {}
           IN  /\ OneEach(B)
               /\ \A t \in Copies : Writes(B, t, keys, UpdatedInventory(s, e))
               /\ Writes(B, "inventory_totals_by_product", products, UpdatedTotals(s, e))
               /\ Writes(B, "orders_by_id", placed, UpdatedOrders(s, e))
<1> DEFINE s == StoreIn(j.seen)
           e == j.event
           B == Batch(j, ts)
           touched == TouchedKeys(s, e)
           keys == IF Decision(j) = "applied" THEN touched ELSE {}
           products == IF Decision(j) = "applied" THEN {k[1] : k \in touched} ELSE {}
           placed == IF Decision(j) = "applied" /\ e.event_type \in OrderEventTypes
                     THEN {e.order_id} ELSE {}
           I == UpdatedInventory(s, e)
           T == UpdatedTotals(s, e)
           O == UpdatedOrders(s, e)
<1>1. OneEach(B)
    BY BatchStamped DEF Stamped, OneEach
<1>2. \A c \in RecordCells(j, ts) : c.row[1] \notin Copies
                                    /\ c.row[1] # "inventory_totals_by_product"
                                    /\ c.row[1] # "orders_by_id"
    BY DEF RecordCells, Cell, Copies
<1>3. CASE Decision(j) # "applied"
    <2>1. B = RecordCells(j, ts)
        BY <1>3 DEF Batch, RowCells
    <2>2. keys = {} /\ products = {} /\ placed = {}
        BY <1>3
    <2> QED BY <1>1, <1>2, <2>1, <2>2 DEF Writes
<1>4. CASE Decision(j) = "applied"
    <2> DEFINE copies == {Cell(t, k, I[k], ts) : t \in Copies, k \in touched}
               sums == {Cell("inventory_totals_by_product", p, T[p], ts) :
                           p \in {k[1] : k \in touched}}
               news == {Cell("orders_by_id", o, O[o], ts) :
                           o \in IF e.event_type \in OrderEventTypes THEN {e.order_id} ELSE {}}
    <2>1. B = copies \cup sums \cup news \cup RecordCells(j, ts)
        BY <1>4 DEF Batch, RowCells
    <2>2. keys = touched /\ products = {k[1] : k \in touched}
          /\ placed = IF e.event_type \in OrderEventTypes THEN {e.order_id} ELSE {}
        BY <1>4
    <2> HIDE DEF s, touched, I, T, O
    <2>3. /\ \A c \in copies : c.row[1] \in Copies /\ c.row[2] \in touched
          /\ \A c \in sums : c.row[1] = "inventory_totals_by_product" /\ c.row[2] \in products
          /\ \A c \in news : c.row[1] = "orders_by_id" /\ c.row[2] \in placed
        BY <2>2 DEF Cell
    <2>10. \A t, k, v : Cell(t, k, v, ts).row = <<t, k>> /\ Cell(t, k, v, ts).value = v
        BY DEF Cell
    <2>4. ASSUME NEW t \in Copies, NEW k \in touched
          PROVE  \E c \in copies : c.row = <<t, k>> /\ c.value = I[k]
        <3>1. Cell(t, k, I[k], ts) \in copies
            OBVIOUS
        <3> QED BY <2>10, <3>1
    <2>5. ASSUME NEW p \in products
          PROVE  \E c \in sums : c.row = <<"inventory_totals_by_product", p>> /\ c.value = T[p]
        <3>1. Cell("inventory_totals_by_product", p, T[p], ts) \in sums
            BY <2>2
        <3> QED BY <2>10, <3>1
    <2>6. ASSUME NEW o \in placed
          PROVE  \E c \in news : c.row = <<"orders_by_id", o>> /\ c.value = O[o]
        <3>1. Cell("orders_by_id", o, O[o], ts) \in news
            BY <2>2
        <3> QED BY <2>10, <3>1
    <2> HIDE DEF copies, sums, news, keys, products, placed, B
    <2>7. ASSUME NEW t \in Copies PROVE Writes(B, t, keys, I)
        <3>1. \A c \in B : c.row[1] = t => c \in copies
            BY <1>2, <2>1, <2>3 DEF Copies
        <3>2. \A c \in B : c.row[1] = t => c.row[2] \in keys
            BY <2>2, <2>3, <3>1
        <3>3. \A k \in keys : \E c \in B : c.row = <<t, k>> /\ c.value = I[k]
            BY <2>1, <2>2, <2>4
        <3> QED BY <3>2, <3>3 DEF Writes
    <2>8. Writes(B, "inventory_totals_by_product", products, T)
        <3>1. \A c \in B : c.row[1] = "inventory_totals_by_product" => c \in sums
            BY <1>2, <2>1, <2>3 DEF Copies
        <3> QED BY <2>1, <2>3, <2>5, <3>1 DEF Writes
    <2>9. Writes(B, "orders_by_id", placed, O)
        <3>1. \A c \in B : c.row[1] = "orders_by_id" => c \in news
            BY <1>2, <2>1, <2>3 DEF Copies
        <3> QED BY <2>1, <2>3, <2>6, <3>1 DEF Writes
    <2> QED BY <1>1, <2>7, <2>8, <2>9 DEF keys, products, placed, touched, B, I, T, O, s
<1> QED BY <1>3, <1>4

(* A batch whose reads are not outdated changes the tables as its event    *)
(* changes the store they hold.                                            *)
LEMMA TablesChange ==
    ASSUME NEW cells, OneEach(cells), \A c \in cells : Paired(c), TypedCells(cells),
           NEW j, j.event \in Events, j.seen = CellsRead(cells, j.event),
           NEW ts \in Int, Decision(j) = "applied"
    PROVE  LET all   == StoreIn(cells)
               after == Replaced(cells, Batch(j, ts))
           IN  /\ \A t \in Copies : CopyIn(cells, t) = all.inventory
                                       => CopyIn(after, t) = UpdatedInventory(all, j.event)
               /\ TotalsIn(after) = UpdatedTotals(all, j.event)
               /\ OrdersIn(after) = UpdatedOrders(all, j.event)
<1> DEFINE e        == j.event
           all      == StoreIn(cells)
           read     == StoreIn(j.seen)
           B        == Batch(j, ts)
           after    == Replaced(cells, B)
           touched  == TouchedKeys(all, e)
           products == {k[1] : k \in touched}
           placed   == IF e.event_type \in OrderEventTypes THEN {e.order_id} ELSE {}
<1>1. StoreOK(all) /\ StoreOK(read)
    BY JobReads
<1>2. Alike(all, read, e) /\ ProcessAction(all, ProcessedIn(cells), e) = "applied"
    BY JobDecides
<1>3. WellFormed(e) /\ (e.event_type = "ORDER_COMPLETED" => all.orders[e.order_id] # NoOrder)
    BY <1>2, AppliedIsAccepted DEF Accepted, OrderAllows
<1>4. /\ TouchedKeys(read, e) = touched
      /\ \A k \in touched : /\ UpdatedRow(read, e, k) = UpdatedRow(all, e, k)
                            /\ UpdatedTotal(read, e, k[1]) = UpdatedTotal(all, e, k[1])
      /\ e.event_type \in OrderEventTypes
            => UpdatedOrders(read, e)[e.order_id] = UpdatedOrders(all, e)[e.order_id]
    <2> HIDE DEF e, all, read
    <2>1. e \in Events
        BY DEF e
    <2> QED BY <1>1, <1>2, <1>3, <2>1, AlikeChanges
<1>5. touched \subseteq Keys
    <2> HIDE DEF e, all
    <2>1. e \in Events
        BY DEF e
    <2> QED BY <1>1, <1>3, <2>1, TouchedAreKeys
<1>6. /\ OneEach(B)
      /\ \A t \in Copies : Writes(B, t, touched, UpdatedInventory(read, e))
      /\ Writes(B, "inventory_totals_by_product", products, UpdatedTotals(read, e))
      /\ Writes(B, "orders_by_id", placed, UpdatedOrders(read, e))
    <2>1. TouchedKeys(StoreIn(j.seen), j.event) = touched
        BY <1>4
    <2> HIDE DEF touched
    <2> QED BY <2>1, BatchWrites
<1> HIDE DEF B
<1>7. ASSUME NEW t \in Copies, CopyIn(cells, t) = all.inventory
      PROVE  CopyIn(after, t) = UpdatedInventory(all, e)
    <2>1. ASSUME NEW k \in Keys PROVE CopyIn(after, t)[k] = UpdatedInventory(all, e)[k]
        <3>1. ValueAt(after, <<t, k>>, EmptyRow)
                 = IF k \in touched THEN UpdatedInventory(read, e)[k]
                                    ELSE ValueAt(cells, <<t, k>>, EmptyRow)
            <4> HIDE DEF touched, read, e
            <4> QED BY <1>6, TableAfter
        <3>2. CopyIn(cells, t)[k] = ValueAt(cells, <<t, k>>, EmptyRow)
            BY DEF CopyIn
        <3>3. CopyIn(after, t)[k] = ValueAt(after, <<t, k>>, EmptyRow)
            BY DEF CopyIn
        <3>4. k \in touched => UpdatedInventory(read, e)[k] = UpdatedRow(all, e, k)
            BY <1>4 DEF UpdatedInventory
        <3>5. UpdatedInventory(all, e)[k]
                 = IF k \in touched THEN UpdatedRow(all, e, k) ELSE all.inventory[k]
            BY DEF UpdatedInventory
        <3> HIDE DEF touched, read, e, all, after
        <3> QED BY <1>7, <3>1, <3>2, <3>3, <3>4, <3>5
    <2> QED BY <2>1 DEF CopyIn, UpdatedInventory
<1>8. TotalsIn(after) = UpdatedTotals(all, e)
    <2>1. ASSUME NEW p \in Products PROVE TotalsIn(after)[p] = UpdatedTotals(all, e)[p]
        <3>1. ValueAt(after, <<"inventory_totals_by_product", p>>, EmptyTotal)
                 = IF p \in products
                   THEN UpdatedTotals(read, e)[p]
                   ELSE ValueAt(cells, <<"inventory_totals_by_product", p>>, EmptyTotal)
            <4> HIDE DEF products, read, e
            <4> QED BY <1>6, TableAfter
        <3>2. TotalsIn(after)[p] = ValueAt(after, <<"inventory_totals_by_product", p>>, EmptyTotal)
            BY DEF TotalsIn
        <3>3. all.totals[p] = ValueAt(cells, <<"inventory_totals_by_product", p>>, EmptyTotal)
            BY DEF StoreIn, TotalsIn
        <3>4. KeysOf(read, e, p) = KeysOf(all, e, p) /\ (p \in products <=> KeysOf(all, e, p) # {})
            BY <1>4 DEF KeysOf
        <3>5. p \in products => UpdatedTotal(read, e, p) = UpdatedTotal(all, e, p)
            BY <1>4
        <3>6. /\ UpdatedTotals(all, e)[p]
                   = IF KeysOf(all, e, p) # {} THEN UpdatedTotal(all, e, p) ELSE all.totals[p]
              /\ UpdatedTotals(read, e)[p]
                   = IF KeysOf(read, e, p) # {} THEN UpdatedTotal(read, e, p) ELSE read.totals[p]
            BY DEF UpdatedTotals
        <3> HIDE DEF products, read, e, all, after
        <3> QED BY <3>1, <3>2, <3>3, <3>4, <3>5, <3>6
    <2> QED BY <2>1 DEF TotalsIn, UpdatedTotals
<1>9. OrdersIn(after) = UpdatedOrders(all, e)
    <2>1. DOMAIN all.orders = OrderIds /\ all.orders = OrdersIn(cells)
        BY <1>1 DEF StoreOK, StoreIn
    <2>2. ASSUME NEW o \in OrderIds PROVE OrdersIn(after)[o] = UpdatedOrders(all, e)[o]
        <3>1. ValueAt(after, <<"orders_by_id", o>>, NoOrder)
                 = IF o \in placed THEN UpdatedOrders(read, e)[o]
                                   ELSE ValueAt(cells, <<"orders_by_id", o>>, NoOrder)
            <4> HIDE DEF placed, read, e
            <4> QED BY <1>6, TableAfter
        <3>2. OrdersIn(after)[o] = ValueAt(after, <<"orders_by_id", o>>, NoOrder)
            BY DEF OrdersIn
        <3>3. all.orders[o] = ValueAt(cells, <<"orders_by_id", o>>, NoOrder)
            BY <2>1 DEF OrdersIn
        <3>4. o \in placed => UpdatedOrders(read, e)[o] = UpdatedOrders(all, e)[o]
            BY <1>4
        <3>5. o \notin placed => UpdatedOrders(all, e)[o] = all.orders[o]
            <4> HIDE DEF all, e
            <4> QED BY <2>1 DEF UpdatedOrders, OrderEventTypes, placed
        <3> HIDE DEF placed, read, e, all, after
        <3> QED BY <3>1, <3>2, <3>3, <3>4, <3>5
    <2>3. DOMAIN UpdatedOrders(all, e) = OrderIds
          /\ UpdatedOrders(all, e) = [o \in OrderIds |-> UpdatedOrders(all, e)[o]]
        <3> HIDE DEF all, e
        <3>1. all.orders = [o \in OrderIds |-> all.orders[o]]
            BY <1>1 DEF StoreOK
        <3> QED BY <2>1, <3>1 DEF UpdatedOrders
    <2> QED BY <2>2, <2>3 DEF OrdersIn
<1> QED BY <1>7, <1>8, <1>9 DEF B

-----------------------------------------------------------------------------
(* The tables implement the projection *)

(* The projection that CassandraBatch instantiates has definitions of its  *)
(* own; expanded, they are those of EventProcessor.                        *)
LEMMA SameOperators ==
    ASSUME NEW s, NEW done, NEW e
    PROVE  /\ Projection!ProcessAction(s, done, e) = ProcessAction(s, done, e)
           /\ Projection!UpdatedInventory(s, e) = UpdatedInventory(s, e)
           /\ Projection!UpdatedTotals(s, e) = UpdatedTotals(s, e)
           /\ Projection!UpdatedOrders(s, e) = UpdatedOrders(s, e)
           /\ Projection!EmptyStore = EmptyStore
BY Zenon DEF ProcessAction, WellFormed, ItemsWellFormed, EventTypes, ProductEventTypes,
       OrderEventTypes, Stale, OlderThan, StockSuffices, OrderAllows, FitsZones, ReplacedTotal,
       ZoneTotal, Total, TotalsNonNegative, UpdatedTotal, KeysOf, Later, TouchedKeys, ItemKeys,
       GroupedQuantity, DeltaAvailable, DeltaReserved, NewSupplier, UpdatedRow, Keys,
       UpdatedInventory, UpdatedTotals, UpdatedOrders, EmptyStore, EmptyRow, EmptyTotal,
       SumFunctionOnSet, FoldFunctionOnSet, MapThenFoldSet,
       Projection!ProcessAction, Projection!WellFormed, Projection!ItemsWellFormed,
       Projection!EventTypes, Projection!ProductEventTypes, Projection!OrderEventTypes,
       Projection!Stale, Projection!OlderThan, Projection!StockSuffices, Projection!OrderAllows,
       Projection!FitsZones, Projection!ReplacedTotal, Projection!ZoneTotal, Projection!Total,
       Projection!TotalsNonNegative, Projection!UpdatedTotal, Projection!KeysOf,
       Projection!Later, Projection!TouchedKeys, Projection!ItemKeys,
       Projection!GroupedQuantity, Projection!DeltaAvailable, Projection!DeltaReserved,
       Projection!NewSupplier, Projection!UpdatedRow, Projection!Keys,
       Projection!UpdatedInventory, Projection!UpdatedTotals, Projection!UpdatedOrders,
       Projection!EmptyStore, Projection!EmptyRow, Projection!EmptyTotal,
       Projection!SumFunctionOnSet, Projection!FoldFunctionOnSet, Projection!MapThenFoldSet

(* Empty tables are the projection's first state.                          *)
LEMMA TablesInit == Init => Projection!Init
<1> SUFFICES ASSUME Init PROVE Projection!Init
    OBVIOUS
<1>1. Settled = {}
    BY DEF Init, Settled, Merge
<1>2. ASSUME NEW row, NEW empty PROVE ValueAt({}, row, empty) = empty
    BY DEF ValueAt
<1>3. CopyIn({}, "inventory_by_product_zone") = EmptyStore.inventory
    BY <1>2 DEF CopyIn, EmptyStore
<1>4. TotalsIn({}) = EmptyStore.totals
    BY <1>2 DEF TotalsIn, EmptyStore
<1>5. OrdersIn({}) = EmptyStore.orders
    BY <1>2 DEF OrdersIn, EmptyStore
<1>6. ProcessedIn({}) = {} /\ {c.value : c \in HistoryIn({})} = {}
    BY DEF ProcessedIn, HistoryIn
<1> QED BY <1>1, <1>3, <1>4, <1>5, <1>6, SameOperators DEF Projection!Init

(* What a batch adds to the processed events and to the history.           *)
LEMMA RecordsAfter ==
    ASSUME TableInv, RecordInv, NEW m \in Members, Write(m) \/ TimeOut(m)
    PROVE  LET j == job[m]
           IN  /\ ProcessedIn(Settled') = ProcessedIn(Settled) \cup {j.event.event_id}
               /\ {c.value : c \in HistoryIn(Settled')}
                     = {c.value : c \in HistoryIn(Settled)}
                       \cup {[event |-> j.event, outcome |-> OutcomeOf[Decision(j)]]}
<1> DEFINE j == job[m]
           id == j.event.event_id
           B == Batch(j, clock')
           h == Cell("event_history_by_day", <<clock', id>>,
                     [event |-> j.event, outcome |-> OutcomeOf[Decision(j)]], clock')
<1>1. Settled' = Replaced(Settled, B)
    BY SettledBatch DEF TableInv
<1>2. /\ HistoryIn(B) = {h}
      /\ \E d \in B : d.row = <<"processed_events_by_id", id>>
      /\ \A d \in B : d.row[1] = "processed_events_by_id" => d.row[2] = id
    BY BatchRecords
<1>3. /\ Settled \subseteq visible \cup hidden
      /\ clock' = clock + 1 /\ clock \in Nat
    BY SettledIsLatest DEF TableInv, CellInv, Latest, Write, TimeOut, Finish
<1>4. \A c \in Settled : c.ts \in Int /\ c.ts < clock' /\ Paired(c)
    BY <1>3 DEF TableInv, CellInv, Stamped
<1>5. h.row = <<"event_history_by_day", <<clock', id>>>>
      /\ h.value = [event |-> j.event, outcome |-> OutcomeOf[Decision(j)]]
    BY DEF Cell
<1>6. \A d \in B : Paired(d)
    BY BatchCells DEF Cell, Paired
<1> HIDE DEF B, h
<1>7. ProcessedIn(Settled') = ProcessedIn(Settled) \cup {id}
    <2>1. ASSUME NEW x \in ProcessedIn(Settled) PROVE x \in ProcessedIn(Settled')
        <3>1. PICK c \in Settled : c.row[1] = "processed_events_by_id" /\ c.row[2] = x
            BY DEF ProcessedIn
        <3>2. CASE \A d \in B : d.row # c.row
            <4>1. c \in Settled'
                BY <1>1, <3>2 DEF Replaced
            <4> QED BY <3>1, <4>1 DEF ProcessedIn
        <3>3. ASSUME NEW d \in B, d.row = c.row PROVE x \in ProcessedIn(Settled')
            <4>1. d \in Settled' /\ d.row[1] = "processed_events_by_id" /\ d.row[2] = x
                BY <1>1, <3>1, <3>3 DEF Replaced
            <4> QED BY <4>1 DEF ProcessedIn
        <3> QED BY <3>2, <3>3
    <2>2. id \in ProcessedIn(Settled')
        <3>1. PICK d \in B : d.row = <<"processed_events_by_id", id>>
            BY <1>2
        <3>2. d \in Settled' /\ d.row[1] = "processed_events_by_id" /\ d.row[2] = id
            BY <1>1, <3>1 DEF Replaced
        <3> QED BY <3>2 DEF ProcessedIn
    <2>3. ASSUME NEW x \in ProcessedIn(Settled') PROVE x \in ProcessedIn(Settled) \/ x = id
        <3>1. PICK c \in Settled' : c.row[1] = "processed_events_by_id" /\ c.row[2] = x
            BY DEF ProcessedIn
        <3>2. CASE c \in B
            BY <1>2, <3>1, <3>2
        <3>3. CASE c \in Settled
            BY <3>1, <3>3 DEF ProcessedIn
        <3> QED BY <1>1, <3>2, <3>3 DEF Replaced
    <2> QED BY <2>1, <2>2, <2>3
<1>8. HistoryIn(Settled') = HistoryIn(Settled) \cup {h}
    <2>1. h \in B /\ h.row[1] = "event_history_by_day"
        BY <1>2, <1>5 DEF HistoryIn
    <2>2. ASSUME NEW c \in HistoryIn(Settled), NEW d \in B, d.row = c.row PROVE FALSE
        <3>1. d \in HistoryIn(B)
            BY <2>2 DEF HistoryIn
        <3>2. d = h
            BY <1>2, <3>1
        <3>3. c.row = <<"event_history_by_day", <<c.ts, c.value.event.event_id>>>>
            BY DEF RecordInv
        <3>4. c.ts = clock'
            BY <1>5, <2>2, <3>2, <3>3
        <3>5. c \in Settled
            BY DEF HistoryIn
        <3> QED BY <1>3, <1>4, <3>4, <3>5
    <2>3. HistoryIn(Settled) \cup {h} \subseteq HistoryIn(Settled')
        BY <1>1, <2>1, <2>2 DEF HistoryIn, Replaced
    <2>4. HistoryIn(Settled') \subseteq HistoryIn(Settled) \cup HistoryIn(B)
        BY <1>1 DEF HistoryIn, Replaced
    <2> QED BY <1>2, <2>3, <2>4
<1>9. {c.value : c \in HistoryIn(Settled')} = {c.value : c \in HistoryIn(Settled)} \cup {h.value}
    BY <1>8
<1> QED BY <1>5, <1>7, <1>9

(* A batch whose reads are not outdated is one step of the projection,     *)
(* whether it was acknowledged or timed out.                               *)
LEMMA BatchImplements ==
    ASSUME TableInv, RecordInv, NEW m \in Members, Write(m) \/ TimeOut(m), raced' = {}
    PROVE  Projection!Next
<1>12. PICK e \in Events : e = job[m].event
    BY TableBatch
<1> DEFINE j     == job[m]
           all   == StoreIn(Settled)
           past  == ProcessedIn(Settled)
           stock == CopyIn(Settled, "inventory_by_product_zone")
<1>1. /\ job[m] # NoJob /\ e \in Events /\ e = j.event
      /\ Settled' = Replaced(Settled, Batch(j, clock'))
      /\ clock' \in Int
    <2>1. Settled' = Replaced(Settled, Batch(job[m], clock'))
        BY SettledBatch DEF TableInv
    <2>2. job[m] # NoJob /\ clock' \in Int
        BY DEF Write, TimeOut, Finish, TableInv, CellInv
    <2> QED BY <1>12, <2>1, <2>2
<1>2. j.seen = CellsRead(Settled, e)
    BY <1>1 DEF Write, TimeOut, Finish, Outdated
<1>3. OneEach(Settled) /\ Settled \subseteq visible \cup hidden
    BY SettledIsLatest DEF TableInv, CellInv, Latest
<1>4. (\A c \in Settled : Paired(c)) /\ TypedCells(Settled)
    BY <1>3 DEF TableInv, TypedCells
<1>5. "inventory_by_product_zone" \in Copies /\ "inventory_by_zone" \in Copies
    BY DEF Copies
<1>6. CopyIn(Settled, "inventory_by_zone") = stock
    BY <1>5, CellsCopied DEF TableInv, CopiesAgree
<1>7. all = Projection!store /\ all.inventory = stock
    BY <1>6 DEF StoreIn, Projection!store
<1>8. Projection!ProcessAction(Projection!store, past, e) = Decision(j)
    <2>1. Decision(j) = ProcessAction(all, past, e)
        BY <1>1, <1>2, <1>3, <1>4, JobDecides
    <2> HIDE DEF all, past
    <2> QED BY <1>7, <2>1, SameOperators
<1>9. /\ ProcessedIn(Settled') = past \cup {e.event_id}
      /\ {c.value : c \in HistoryIn(Settled')}
            = {c.value : c \in HistoryIn(Settled)}
              \cup {[event |-> e, outcome |-> OutcomeOf[Decision(j)]]}
    BY <1>1, RecordsAfter
<1>10. CASE Decision(j) = "applied"
    <2>1. /\ CopyIn(Settled', "inventory_by_product_zone") = UpdatedInventory(all, e)
          /\ TotalsIn(Settled') = UpdatedTotals(all, e)
          /\ OrdersIn(Settled') = UpdatedOrders(all, e)
        <3> HIDE DEF stock
        <3> QED BY <1>1, <1>2, <1>3, <1>4, <1>5, <1>7, <1>10, TablesChange DEF stock
    <2>2. OutcomeOf[Decision(j)] = "APPLIED"
        BY <1>10 DEF OutcomeOf
    <2>3. Projection!Apply(e)
        <3> HIDE DEF j, all
        <3> QED BY <1>7, <1>8, <1>9, <1>10, <2>1, <2>2, SameOperators
                DEF Projection!Apply, Projection!Record
    <2> QED BY <1>1, <2>3 DEF Projection!Next
<1>11. CASE Decision(j) # "applied"
    <2>1. Decision(j) \in {"duplicate", "dlq", "stale"}
        BY <1>1, <1>11 DEF Decision, ProcessAction
    <2>2. Decision(j) # "duplicate"
        <3>1. e.event_id \notin ProcessedIn(j.seen)
            <4>1. \A c \in j.seen : Paired(c) /\ c.row # <<"processed_events_by_id", e.event_id>>
                BY <1>1, <1>2, <1>4 DEF RecordInv, CellsRead
            <4> QED BY <4>1 DEF ProcessedIn, Paired
        <3> QED BY <1>1, <3>1 DEF Decision, ProcessAction
    <2>3. UNCHANGED <<stock, TotalsIn(Settled), OrdersIn(Settled)>>
        <3>1. /\ OneEach(Batch(j, clock'))
              /\ \A t \in Copies : Writes(Batch(j, clock'), t, {}, UpdatedInventory(StoreIn(j.seen), e))
              /\ Writes(Batch(j, clock'), "inventory_totals_by_product", {}, UpdatedTotals(StoreIn(j.seen), e))
              /\ Writes(Batch(j, clock'), "orders_by_id", {}, UpdatedOrders(StoreIn(j.seen), e))
            BY <1>1, <1>11, BatchWrites
        <3>2. ASSUME NEW t \in Copies \cup {"inventory_totals_by_product", "orders_by_id"},
                     NEW key, NEW empty
              PROVE  ValueAt(Settled', <<t, key>>, empty) = ValueAt(Settled, <<t, key>>, empty)
            <4>1. PICK f : Writes(Batch(j, clock'), t, {}, f)
                BY <3>1
            <4> QED BY <1>1, <1>3, <3>1, <4>1, TableAfter
        <3> QED BY <1>5, <3>2 DEF CopyIn, TotalsIn, OrdersIn
    <2>4. CASE Decision(j) = "stale"
        <3>1. OutcomeOf[Decision(j)] = "STALE"
            BY <2>4 DEF OutcomeOf
        <3>2. Projection!Ignore(e)
            <4> HIDE DEF j, all
            <4> QED BY <1>8, <1>9, <2>3, <2>4, <3>1 DEF Projection!Ignore, Projection!Record
        <3> QED BY <1>1, <3>2 DEF Projection!Next
    <2>5. CASE Decision(j) = "dlq"
        <3>1. OutcomeOf[Decision(j)] = "DLQ"
            BY <2>5 DEF OutcomeOf
        <3>2. Projection!Reject(e)
            <4> HIDE DEF j, all
            <4> QED BY <1>8, <1>9, <2>3, <2>5, <3>1 DEF Projection!Reject, Projection!Record
        <3> QED BY <1>1, <3>2 DEF Projection!Next
    <2> QED BY <2>1, <2>2, <2>4, <2>5
<1> QED BY <1>10, <1>11

LEMMA StepImplements ==
    ASSUME TableInv, RecordInv, [Next]_vars, raced' = {}
    PROVE  [Projection!Next]_(Projection!vars)
<1>1. CASE \E m \in Members : Write(m) \/ TimeOut(m)
    BY <1>1, BatchImplements
<1>2. CASE (\E c \in hidden : Deliver(c)) \/ UNCHANGED <<visible, hidden>>
    <2>1. Settled' = Settled
        BY <1>2, SettledKept DEF TableInv
    <2> QED BY <2>1 DEF Projection!vars
<1> QED BY <1>1, <1>2 DEF Next, vars, Read, Abandon

(* As long as no event was written from outdated reads, the tables, as     *)
(* they will be when every cell has arrived, go through the steps of the   *)
(* projection: a batch that timed out is one of them, at that moment.      *)
THEOREM TablesImplement == Spec => ImplementsProjection
<1>1. TableInv /\ RecordInv /\ [Next]_vars
         => [raced' = {} => [Projection!Next]_(Projection!vars)]_vars
    BY StepImplements
<1> QED BY <1>1, TablesInit, TableInit, TableNext, RecordInit, RecordNext, PTL
        DEF Spec, ImplementsProjection
=============================================================================
