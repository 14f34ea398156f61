----------------------------- MODULE ImportsProofs -----------------------------
(***************************************************************************)
(* Statements staged and confirmed by any number of web workers at once,   *)
(* whoever fails or dies: the ledger can be traced to their rows, no row   *)
(* is dropped, balances agree and no file is lost or left behind.  For any *)
(* statements, invoices and transactions.                                  *)
(***************************************************************************)
EXTENDS ImportsProperties, SumTheorems

InvoiceStatuses == {"normal", "red", "void"}
Uploading == {"write", "insert", "publish"}
Confirming == {"row", "locked", "balance", "confirm"}

(* The rows of statement x, as it is staged and at any time.               *)
Staged(x) == [DOMAIN Parsed[x] -> States \ {"posted"}]
RowStates(x) == [DOMAIN Parsed[x] -> States]

Works == [sha : Shas \cup {None}, file : Nat, batch : Nat,
          rows : {<<>>} \cup UNION {RowStates(x) : x \in Statements}, todo : SUBSET Nat,
          posts : [Keys -> Entries \cup {None}], snapshot : ParsedRows \cup {None},
          dups : Nat, errs : Nat]

Batches == [sha : Statements, rows : UNION {RowStates(x) : x \in Statements},
            status : {"previewed"} \cup Final, valid : Int, duplicate : Int, error : Int]

Labels == {"idle", "batch"} \cup Uploading \cup Confirming

StoreTypes ==
  /\ files \subseteq 1..uploads /\ uploads \in 0..MaxUploads /\ crashed \subseteq 1..uploads
  /\ stored \in [Shas -> {None} \cup 1..uploads] /\ disabled \subseteq Shas \ Statements
  /\ batches \in Seq(Batches) /\ ledger \in [Keys -> Entries \cup {None}]
  /\ balances = [t \in Instants |-> balances[t]]

SessionTypes ==
  /\ pc \in [Sessions -> Labels]
  /\ work \in [Sessions -> Works]
  /\ held = [s \in Sessions |-> held[s]] /\ want = [s \in Sessions |-> want[s]]

(* What book, a ledger, says of a row; an entry may move on later.         *)
Says(book, r) ==
  /\ book[r.key] # None
  /\ r.key \in Invoices => /\ book[r.key].face = r.face
                           /\ r.status \in {"normal", book[r.key].status}
Moves(old, new) ==
  \/ old = None
  \/ old.status = "normal" /\ new # None /\ new = [old EXCEPT !.status = new.status]

(* An earlier row says the same: while it is still to be posted, and, of   *)
(* an invoice, once it was refused.                                        *)
Repeats(x, i, j) == LET r == Parsed[x][i]
                        q == Parsed[x][j]
                    IN r.key = q.key /\ (r.key \in Invoices => r.face = q.face /\ r.status = q.status)
Same(x, i, j) == LET r == Parsed[x][i]
                     q == Parsed[x][j]
                 IN r.key = q.key /\ r.face = q.face /\ r.status = q.status

(* Why the rows of statement x are in their states.                        *)
Justified(x, rows, book) ==
  \A i \in DOMAIN Parsed[x] :
    LET r == Parsed[x][i] IN
    /\ rows[i] # "error" => r.key \in Keys
    /\ rows[i] = "posted" => Says(book, r)
    /\ rows[i] = "duplicate" => \/ Says(book, r)
                                \/ \E j \in 1..(i - 1) : rows[j] = "valid" /\ Repeats(x, i, j)
                                \/ \E j \in 1..(i - 1) : rows[j] = "error" /\ Same(x, i, j)

(* A record comes from a posted row.                                       *)
ComesFrom(k, e, x, rows) ==
  /\ e.row \in DOMAIN Parsed[x] /\ rows[e.row] = "posted"
  /\ Parsed[x][e.row].key = k /\ Parsed[x][e.row].face = e.face

-----------------------------------------------------------------------------
(* The invariant.                                                          *)

BatchFits(b) ==
  LET batch == batches[b]
      rows == batch.rows
  IN
  /\ stored[batch.sha] # None
  /\ \A c \in DOMAIN batches : batches[c].sha = batch.sha => c = b
  /\ rows \in RowStates(batch.sha) /\ Justified(batch.sha, rows, ledger)
  /\ batch.valid = Count(rows, "valid") + Count(rows, "posted")
  /\ batch.duplicate = Count(rows, "duplicate")
  /\ batch.error = Count(rows, "error")
  /\ batch.status = "completed" => batch.error = 0
  /\ batch.status \in Final => \A i \in DOMAIN rows : rows[i] # "valid"
  /\ batch.status \in Final /\ WithBalance(b, rows) # {} =>
       LET r == RowOf(b, LatestRow(b, rows)) IN balances[r.at] = r.balance

EntryFits(k) ==
  ledger[k] # None =>
    LET e == ledger[k] IN
    /\ e.batch \in DOMAIN batches /\ batches[e.batch].status \in Final
    /\ ComesFrom(k, e, batches[e.batch].sha, batches[e.batch].rows)

FilesFit ==
  /\ \A x \in Shas : stored[x] # None => stored[x] \in files
  /\ \A f \in files : \/ f \in crashed
                      \/ \E x \in Shas : stored[x] = f
                      \/ \E s \in Sessions : work[s].file = f
  /\ \A s \in Sessions : work[s].file # 0 =>
       /\ work[s].file \in files
       /\ \A x \in Shas : stored[x] # work[s].file
       /\ \A t \in Sessions : work[t].file = work[s].file => t = s

(* A session between its request and the end of its transaction.           *)
UploadFits(s) ==
  LET w == work[s] IN
  /\ w.sha \in Shas
  /\ IF w.sha \in Statements
     THEN w.rows \in Staged(w.sha) /\ Justified(w.sha, w.rows, ledger)
     ELSE w.rows = <<>>
  /\ pc[s] = "write" => w.file = 0 /\ held[s] = {} /\ want[s] = {}
  /\ pc[s] # "write" => w.file # 0 /\ held[s] \cup want[s] = {ShaRow(w.sha)}
  /\ pc[s] = "publish" => want[s] = {} /\ stored[w.sha] = None

PostFits(s, k) ==
  LET e == work[s].posts[k]
      b == work[s].batch
  IN e # None =>
       /\ KeyRow(k) \in held[s]
       /\ Moves(ledger[k], e)
       /\ \/ e.batch = b /\ ComesFrom(k, e, batches[b].sha, work[s].rows)
          \/ ledger[k] # None

(* What the transaction sees.                                              *)
SeenBy(s) == [k \in Keys |-> Seen(s, k)]

RowsFit(s) ==
  LET w == work[s]
      b == batches[w.batch]
  IN
  /\ BatchRow(w.batch) \in held[s] /\ b.status = "previewed"
  /\ w.rows \in RowStates(b.sha) /\ Justified(b.sha, w.rows, SeenBy(s))
  /\ w.todo = {i \in DOMAIN w.rows : w.rows[i] = "valid"}

CountsFit(s) ==
  LET w == work[s]
      b == batches[w.batch]
  IN
  /\ b.valid - w.dups - w.errs = Count(w.rows, "valid") + Count(w.rows, "posted")
  /\ b.duplicate + w.dups = Count(w.rows, "duplicate")
  /\ b.error + w.errs = Count(w.rows, "error")

(* The balance of the batch is the one that will be written.               *)
SnapshotFits(s) ==
  LET w == work[s] IN
  /\ WithBalance(w.batch, w.rows) # {}
  /\ w.snapshot = RowOf(w.batch, LatestRow(w.batch, w.rows))

LabelFits(s) ==
  LET w == work[s] IN
  /\ pc[s] = "row" => want[s] = {} /\ w.snapshot = None
  /\ pc[s] = "locked" => /\ w.todo # {} /\ w.snapshot = None
                         /\ want[s] \subseteq {KeyRow(Row(s).key)}
                         /\ KeyRow(Row(s).key) \in held[s] \cup want[s]
  /\ pc[s] \in {"balance", "confirm"} => w.todo = {}
  /\ pc[s] = "balance" => SnapshotFits(s) /\ Slot(w.snapshot.at) \in held[s] \cup want[s]
  /\ pc[s] = "confirm" =>
       /\ want[s] = {}
       /\ \/ WithBalance(w.batch, w.rows) = {} /\ w.snapshot = None
          \/ /\ SnapshotFits(s) /\ Slot(w.snapshot.at) \in held[s]
             /\ balances[w.snapshot.at] \in {None, w.snapshot.balance}

ConfirmFits(s) ==
  /\ work[s].batch \in DOMAIN batches
  /\ RowsFit(s) /\ CountsFit(s) /\ LabelFits(s)
  /\ \A k \in Keys : PostFits(s, k)

Local(s) ==
  /\ pc[s] = "idle" => work[s] = NoWork /\ held[s] = {} /\ want[s] = {}
  /\ pc[s] \notin Uploading => work[s].file = 0
  /\ pc[s] \in Uploading => UploadFits(s)
  /\ pc[s] = "batch" => /\ work[s].batch \in DOMAIN batches
                        /\ held[s] \cup want[s] = {BatchRow(work[s].batch)}
                        /\ work[s] = [NoWork EXCEPT !.batch = work[s].batch]
  /\ pc[s] \in Confirming => ConfirmFits(s)

Inv ==
  /\ StoreTypes /\ SessionTypes /\ FilesFit /\ LocksAreExclusive
  /\ \A b \in DOMAIN batches : BatchFits(b)
  /\ \A k \in Keys : EntryFits(k)
  /\ \A s \in Sessions : Local(s)

-----------------------------------------------------------------------------
(* Choosing and counting rows.                                             *)

(* The first of some rows is one of them.                                  *)
LEMMA FirstIsOne ==
  ASSUME NEW S, S \subseteq Nat, S # {}
  PROVE  Min(S) \in S
BY Smallest DEF Min

(* The last of some rows is one of them.                                   *)
LEMMA LastIsOne ==
  ASSUME NEW n \in Nat, NEW S, S \subseteq 1..n, S # {}
  PROVE  Max(S) \in S
<1> DEFINE U == {m \in Nat : \A i \in S : i <= m}
<1>1. U # {} /\ U \subseteq Nat
  <2>1. n \in U
    OBVIOUS
  <2> QED BY <2>1
<1>2. PICK m \in U : \A k \in U : m <= k
  <2> HIDE DEF U
  <2> QED BY <1>1, Smallest
<1>3. m \in S
  <2> SUFFICES ASSUME m \notin S PROVE FALSE
    OBVIOUS
  <2>1. m - 1 \in U
    <3>1. \A i \in S : i \in Nat /\ i <= m /\ i # m /\ i >= 1
      BY <1>2
    <3>2. PICK i \in S : TRUE
      OBVIOUS
    <3>3. m >= 1 /\ m - 1 \in Nat
      BY <3>1, <3>2, <1>2
    <3> QED BY <3>1, <3>3
  <2> QED BY <1>2, <2>1
<1>4. \A i \in S : m >= i
  BY <1>2
<1> QED BY <1>3, <1>4 DEF Max

(* Of finitely many numbers one is the greatest.                           *)
LEMMA SomeIsGreatest ==
  ASSUME NEW S, IsFiniteSet(S), S # {}, NEW f, \A i \in S : f[i] \in Nat
  PROVE  \E i \in S : \A j \in S : f[j] <= f[i]
<1> DEFINE G == {T \in SUBSET S : T = {} \/ \E i \in T : \A j \in T : f[j] <= f[i]}
<1>1. \A T \in SUBSET S : (\A x \in T : T \ {x} \in G) => T \in G
  <2> SUFFICES ASSUME NEW T \in SUBSET S, \A x \in T : T \ {x} \in G, T # {}
               PROVE  \E i \in T : \A j \in T : f[j] <= f[i]
    OBVIOUS
  <2>1. PICK x \in T : TRUE
    OBVIOUS
  <2>2. CASE T \ {x} = {}
    <3>1. \A j \in T : j = x
      BY <2>2
    <3> QED BY <2>1, <3>1
  <2>3. ASSUME NEW i \in T \ {x}, \A j \in T \ {x} : f[j] <= f[i]
        PROVE  \E k \in T : \A j \in T : f[j] <= f[k]
    <3>1. f[i] \in Nat /\ f[x] \in Nat /\ \A j \in T : f[j] \in Nat
      BY <2>1, <2>3
    <3>2. CASE f[x] <= f[i]
      <4>1. \A j \in T : f[j] <= f[i]
        BY <2>3, <3>2
      <4> QED BY <4>1
    <3>3. CASE f[i] <= f[x]
      <4>1. \A j \in T : f[j] <= f[x]
        BY <2>3, <3>1, <3>3
      <4> QED BY <2>1, <4>1
    <3> QED BY <3>1, <3>2, <3>3
  <2> QED BY <2>1, <2>2, <2>3
<1> HIDE DEF G
<1>2. S \in G
  BY <1>1, FiniteSubsets
<1> QED BY <1>2 DEF G

(* The rows of a statement.                                                *)
LEMMA RowsOfStatement ==
  ASSUME NEW x \in Statements
  PROVE  /\ DOMAIN Parsed[x] = 1..Len(Parsed[x]) /\ Len(Parsed[x]) \in Nat
         /\ \A i \in DOMAIN Parsed[x] :
              /\ Parsed[x][i] \in ParsedRows /\ Parsed[x][i] # None
              /\ Parsed[x][i].key \in Keys \cup {None}
              /\ Parsed[x][i].status \in InvoiceStatuses
              /\ Parsed[x][i].at \in Nat /\ Parsed[x][i].at \in Instants
         /\ IsFiniteSet(DOMAIN Parsed[x])
<1>1. Parsed[x] \in Seq(ParsedRows)
  BY StatementsAssumption
<1>2. DOMAIN Parsed[x] = 1..Len(Parsed[x]) /\ Len(Parsed[x]) \in Nat
  BY <1>1
<1>3. \A i \in DOMAIN Parsed[x] : Parsed[x][i] \in ParsedRows
  BY <1>1
<1>4. IsFiniteSet(DOMAIN Parsed[x])
  BY <1>2, FS_Interval
<1>5. \A i \in DOMAIN Parsed[x] : Parsed[x][i].at \in Instants
  BY DEF Instants
<1> QED BY <1>2, <1>3, <1>4, <1>5, StatementsAssumption, NoneIsNoEntry DEF InvoiceStatuses

(* The latest row with a balance is a posted row with a balance.           *)
LEMMA LatestIsOne ==
  ASSUME NEW b, batches[b].sha \in Statements, NEW rows \in RowStates(batches[b].sha),
         WithBalance(b, rows) # {}
  PROVE  LatestRow(b, rows) \in WithBalance(b, rows)
<1> DEFINE R == WithBalance(b, rows)
           f == [i \in DOMAIN rows |-> RowOf(b, i).at]
           latest == {i \in R : \A j \in R : RowOf(b, j).at <= RowOf(b, i).at}
<1>1. DOMAIN rows = DOMAIN Parsed[batches[b].sha] /\ R \subseteq DOMAIN rows
  BY DEF RowStates, WithBalance
<1>2. IsFiniteSet(R) /\ R # {} /\ DOMAIN rows \subseteq Nat
  BY <1>1, RowsOfStatement, FS_Subset
<1>3. \A i \in R : f[i] \in Nat /\ f[i] = RowOf(b, i).at
  BY <1>1, RowsOfStatement DEF RowOf
<1>4. PICK i \in R : \A j \in R : f[j] <= f[i]
  <2> HIDE DEF R, f
  <2> QED BY <1>2, <1>3, SomeIsGreatest
<1>5. latest # {} /\ latest \subseteq R
  <2> HIDE DEF R, f
  <2> QED BY <1>3, <1>4
<1>6. latest \subseteq Nat
  BY <1>1, <1>2, <1>5
<1>7. Min(latest) \in latest
  <2> HIDE DEF latest
  <2> QED BY <1>5, <1>6, FirstIsOne
<1> QED BY <1>5, <1>7 DEF LatestRow

(* How the counts change when a valid row takes another state.             *)
CountsMove(rows, new, state) ==
  /\ \A other \in States : Count(rows, other) \in Nat
  /\ Count(new, "valid") = Count(rows, "valid") - 1
  /\ Count(new, state) = Count(rows, state) + 1
  /\ \A other \in States \ {"valid", state} : Count(new, other) = Count(rows, other)

(* So they do, when a valid row is disposed of.                            *)
LEMMA CountMoves ==
  ASSUME NEW D, IsFiniteSet(D), NEW rows \in [D -> States], NEW i \in D, rows[i] = "valid",
         NEW state \in States \ {"valid"}, NEW new, new = [rows EXCEPT ![i] = state]
  PROVE  CountsMove(rows, new, state)
<1> DEFINE In(r, st) == {j \in DOMAIN r : r[j] = st}
<1>1. new \in [D -> States] /\ new[i] = state /\ \A j \in D \ {i} : new[j] = rows[j]
  OBVIOUS
<1>2. \A st : In(rows, st) \subseteq D /\ IsFiniteSet(In(rows, st)) /\ Cardinality(In(rows, st)) \in Nat
  <2> TAKE st
  <2>1. In(rows, st) \subseteq D
    OBVIOUS
  <2> HIDE DEF In
  <2> QED BY <2>1, FS_Subset, FS_CardinalityType
<1>3. In(new, "valid") = In(rows, "valid") \ {i} /\ i \in In(rows, "valid")
  BY <1>1
<1>4. In(new, state) = In(rows, state) \cup {i} /\ i \notin In(rows, state)
  BY <1>1
<1>5. \A other \in States \ {"valid", state} : In(new, other) = In(rows, other)
  BY <1>1
<1>6. \A r, st : Count(r, st) = Cardinality(In(r, st))
  BY DEF Count
<1> HIDE DEF In
<1>7. Count(new, "valid") = Count(rows, "valid") - 1
  <2>1. Cardinality(In(rows, "valid") \ {i}) = Cardinality(In(rows, "valid")) - 1
    BY <1>2, <1>3, FS_RemoveElement
  <2> QED BY <1>3, <1>6, <2>1
<1>8. Count(new, state) = Count(rows, state) + 1
  BY <1>2, <1>4, <1>6, FS_AddElement
<1> QED BY <1>2, <1>5, <1>6, <1>7, <1>8 DEF CountsMove

(* No row, no count.                                                       *)
LEMMA CountOfNone ==
  ASSUME NEW D, NEW rows \in [D -> States], NEW state, \A i \in D : rows[i] # state
  PROVE  Count(rows, state) = 0
<1>1. {i \in DOMAIN rows : rows[i] = state} = {}
  OBVIOUS
<1> QED BY <1>1, FS_EmptySet DEF Count

-----------------------------------------------------------------------------
(* Dispositions.                                                           *)

(* What a disposition says of the record and the row.                      *)
LEMMA Dispositions ==
  ASSUME NEW old, NEW row
  PROVE  /\ Disposition(old, row) \in {"new", "duplicate", "conflict", "status_update"}
         /\ Disposition(old, row) = "new" <=> old = None
         /\ Disposition(old, row) = "duplicate" =>
              row.key \in Transactions \/ (old.face = row.face /\ old.status = row.status)
         /\ Disposition(old, row) = "conflict" => row.key \notin Transactions
         /\ Disposition(old, row) = "status_update" =>
              /\ old.face = row.face /\ old.status = "normal" /\ row.status # "normal"
              /\ row.key \notin Transactions
BY DEF Disposition

(* The staged state of a row follows from its disposition.                 *)
LEMMA StagedStates ==
  ASSUME NEW d
  PROVE  /\ StagedState(d) \in States \ {"posted"}
         /\ StagedState(d) = "duplicate" => d = "duplicate"
<1>1. CASE d = "duplicate"
  <2>1. StagedState(d) = "duplicate"
    BY <1>1, Zenon DEF StagedState
  <2> QED BY <1>1, <2>1 DEF States
<1>2. CASE d = "conflict"
  <2>1. StagedState(d) = "error"
    BY <1>2, Zenon DEF StagedState
  <2> QED BY <2>1 DEF States
<1>3. CASE d # "duplicate" /\ d # "conflict"
  <2>1. StagedState(d) = "valid"
    BY <1>3, Zenon DEF StagedState
  <2> QED BY <2>1 DEF States
<1> QED BY <1>1, <1>2, <1>3

(* The state of a row depends on the rows before it only.                  *)
LEMMA ComparedWithEarlier ==
  ASSUME NEW x, NEW i, NEW f, NEW g, \A j \in 1..(i - 1) : f[j] = g[j]
  PROVE  Compared(x, f, i) = Compared(x, g, i)
<1>1. {j \in 1..(i - 1) : Parsed[x][j].key = Parsed[x][i].key /\ f[j] # "error"}
      = {j \in 1..(i - 1) : Parsed[x][j].key = Parsed[x][i].key /\ g[j] # "error"}
  OBVIOUS
<1> QED BY <1>1, Zenon DEF Compared

(* _prepare_rows compares every row with the states it gave before.        *)
LEMMA PreparedIsCompared ==
  ASSUME NEW x \in Statements
  PROVE  Prepared(x) = [i \in DOMAIN Parsed[x] |-> Compared(x, Prepared(x), i)]
<1> DEFINE N == Len(Parsed[x])
           Is(f, n) == f = [i \in 1..n |-> Compared(x, f, i)]
           Bad == {n \in 0..N : ~ \E f : Is(f, n)}
<1>1. DOMAIN Parsed[x] = 1..N /\ N \in Nat
  BY RowsOfStatement
<1>2. Is([i \in 1..0 |-> 0], 0)
  OBVIOUS
<1>3. ASSUME NEW n \in Nat, NEW f, Is(f, n) PROVE \E g : Is(g, n + 1)
  <2> DEFINE g == [i \in 1..(n + 1) |-> IF i = n + 1 THEN Compared(x, f, n + 1) ELSE f[i]]
  <2>1. \A i \in 1..(n + 1) : g[i] = Compared(x, g, i)
    <3> TAKE i \in 1..(n + 1)
    <3>1. \A j \in 1..(i - 1) : f[j] = g[j]
      OBVIOUS
    <3>2. Compared(x, f, i) = Compared(x, g, i)
      <4> HIDE DEF g
      <4> QED BY <3>1, ComparedWithEarlier
    <3>3. g[i] = Compared(x, f, i)
      <4>1. CASE i = n + 1
        BY <4>1
      <4>2. CASE i # n + 1
        <5>1. i \in 1..n
          BY <4>2, <1>3
        <5>2. f[i] = Compared(x, f, i)
          BY <1>3, <5>1
        <5> QED BY <4>2, <5>2
      <4> QED BY <4>1, <4>2
    <3> QED BY <3>2, <3>3
  <2>2. g = [i \in 1..(n + 1) |-> g[i]]
    OBVIOUS
  <2>3. Is(g, n + 1)
    <3> HIDE DEF g
    <3>1. [i \in 1..(n + 1) |-> g[i]] = [i \in 1..(n + 1) |-> Compared(x, g, i)]
      BY <2>1
    <3> QED BY <2>2, <3>1
  <2> HIDE DEF g
  <2> QED BY <2>3
<1>4. \E f : Is(f, N)
  <2> SUFFICES ASSUME N \in Bad PROVE FALSE
    BY <1>1
  <2>1. Bad # {} /\ Bad \subseteq Nat
    OBVIOUS
  <2>2. PICK n \in Bad : \A m \in Bad : n <= m
    <3> HIDE DEF Bad
    <3> QED BY <2>1, Smallest
  <2>3. n # 0
    <3> HIDE DEF Is
    <3> QED BY <1>2, <2>2
  <2>4. n - 1 \in 0..N /\ n - 1 \notin Bad /\ n - 1 \in Nat
    <3>1. n \in 0..N
      OBVIOUS
    <3> HIDE DEF Bad
    <3> QED BY <1>1, <2>2, <2>3, <3>1
  <2>5. PICK f : Is(f, n - 1)
    <3> HIDE DEF Is
    <3> QED BY <2>4
  <2>6. \E g : Is(g, n)
    <3> HIDE DEF Is
    <3>1. (n - 1) + 1 = n
      BY <2>4
    <3> QED BY <1>3, <2>4, <2>5, <3>1
  <2> QED BY <2>2, <2>6
<1>5. Prepared(x) = CHOOSE f : Is(f, N)
  BY <1>1 DEF Prepared
<1> HIDE DEF N
<1>6. Is(Prepared(x), N)
  <2> HIDE DEF Is
  <2> QED BY <1>4, <1>5
<1> QED BY <1>1, <1>6

(* Two rows that say the same are both recorded, or neither is.            *)
LEMMA RepeatedIsSaid ==
  ASSUME NEW x, NEW i, NEW j, Repeats(x, i, j), NEW book
  PROVE  Says(book, Parsed[x][j]) => Says(book, Parsed[x][i])
BY DEF Repeats, Says

(* A statement is staged for reasons that the ledger then gives.           *)
LEMMA PreparedIsJustified ==
  ASSUME NEW x \in Statements
  PROVE  Prepared(x) \in Staged(x) /\ Justified(x, Prepared(x), ledger)
<1> DEFINE rows == Prepared(x)
           D == DOMAIN Parsed[x]
           Why(i) == \/ Says(ledger, Parsed[x][i])
                     \/ \E j \in 1..(i - 1) : rows[j] = "valid" /\ Repeats(x, i, j)
<1>1. rows = [i \in D |-> Compared(x, rows, i)] /\ D = 1..Len(Parsed[x]) /\ Len(Parsed[x]) \in Nat
  BY PreparedIsCompared, RowsOfStatement
<1> HIDE DEF rows
<1>2. ASSUME NEW i \in D
      PROVE  /\ rows[i] \in States \ {"posted"}
             /\ rows[i] # "error" => Parsed[x][i].key \in Keys
             /\ rows[i] = "duplicate" =>
                  \/ Says(ledger, Parsed[x][i])
                  \/ \E j \in 1..(i - 1) : rows[j] \in {"valid", "duplicate"} /\ Repeats(x, i, j)
  <2> DEFINE r == Parsed[x][i]
             earlier == {j \in 1..(i - 1) : Parsed[x][j].key = r.key /\ rows[j] # "error"}
             old == IF earlier = {} THEN ledger[r.key] ELSE Parsed[x][Max(earlier)]
  <2>0. rows[i] = IF r.key = None THEN "error" ELSE StagedState(Disposition(old, r))
    <3>1. rows[i] = Compared(x, rows, i)
      BY <1>1
    <3> QED BY <3>1, Zenon DEF Compared
  <2>1. r.key \in Keys \cup {None} /\ r # None
    BY RowsOfStatement
  <2>2. rows[i] \in States \ {"posted"} /\ (rows[i] # "error" => r.key \in Keys)
    <3> HIDE DEF r, old
    <3> QED BY <2>0, <2>1, StagedStates DEF States
  <2>3. ASSUME rows[i] = "duplicate"
        PROVE  \/ Says(ledger, r)
               \/ \E j \in 1..(i - 1) : rows[j] \in {"valid", "duplicate"} /\ Repeats(x, i, j)
    <3>1. Disposition(old, r) = "duplicate"
      <4> HIDE DEF r, old
      <4> QED BY <2>0, <2>3, StagedStates
    <3>2. old # None /\ (r.key \in Invoices => old.face = r.face /\ old.status = r.status)
      <4> HIDE DEF r, old
      <4> QED BY <3>1, Dispositions, StatementsAssumption
    <3>3. CASE earlier = {}
      <4>1. old = ledger[r.key]
        BY <3>3
      <4> HIDE DEF r, old
      <4> QED BY <3>2, <4>1 DEF Says
    <3>4. CASE earlier # {}
      <4>1. Max(earlier) \in earlier
        <5>1. i - 1 \in Nat /\ earlier \subseteq 1..(i - 1)
          BY <1>1
        <5> HIDE DEF earlier
        <5> QED BY <3>4, <5>1, LastIsOne
      <4>2. old = Parsed[x][Max(earlier)]
        BY <3>4
      <4>3. PICK j \in 1..(i - 1) : /\ Parsed[x][j].key = r.key /\ rows[j] # "error"
                                    /\ old = Parsed[x][j]
        BY <4>1, <4>2
      <4>4. rows[j] \in {"valid", "duplicate"}
        <5>1. j \in D
          BY <1>1
        <5>2. rows[j] = Compared(x, rows, j)
          BY <1>1, <5>1
        <5>3. rows[j] = "error" \/ \E d : rows[j] = StagedState(d)
          BY <5>2, Zenon DEF Compared
        <5> QED BY <4>3, <5>3, StagedStates DEF States
      <4>5. Repeats(x, i, j)
        <5> HIDE DEF old
        <5> QED BY <3>2, <4>3 DEF Repeats
      <4> QED BY <4>4, <4>5
    <3> QED BY <3>3, <3>4
  <2> QED BY <2>2, <2>3
<1>3. \A i \in D : rows[i] = "duplicate" => Why(i)
  <2> DEFINE Bad == {i \in D : rows[i] = "duplicate" /\ ~Why(i)}
  <2> SUFFICES ASSUME Bad # {} PROVE FALSE
    OBVIOUS
  <2>1. Bad \subseteq Nat
    BY <1>1
  <2>2. PICK i \in Bad : \A j \in Bad : i <= j
    <3> HIDE DEF Bad
    <3> QED BY <2>1, Smallest
  <2>3. i \in D /\ rows[i] = "duplicate" /\ ~Why(i)
    BY <2>2
  <2>4. PICK j \in 1..(i - 1) : rows[j] = "duplicate" /\ Repeats(x, i, j)
    BY <1>2, <2>3
  <2>5. j \in D /\ j \notin Bad
    <3>1. j \in D /\ ~(i <= j)
      BY <1>1, <2>3
    <3> HIDE DEF Bad
    <3> QED BY <2>2, <3>1
  <2>6. Why(j)
    BY <2>4, <2>5
  <2>7. CASE Says(ledger, Parsed[x][j])
    BY <2>3, <2>4, <2>7, RepeatedIsSaid
  <2>8. ASSUME NEW h \in 1..(j - 1), rows[h] = "valid", Repeats(x, j, h)
        PROVE  FALSE
    <3>1. Repeats(x, i, h)
      BY <2>4, <2>8 DEF Repeats
    <3>2. h \in 1..(i - 1)
      BY <1>1, <2>3
    <3> QED BY <2>3, <2>8, <3>1, <3>2
  <2> QED BY <2>6, <2>7, <2>8
<1>4. rows \in Staged(x)
  BY <1>1, <1>2 DEF Staged
<1>5. Justified(x, rows, ledger)
  BY <1>2, <1>3 DEF Justified
<1> QED BY <1>4, <1>5 DEF rows

(* As long as records only move forward, reasons remain reasons.           *)
LEMMA JustifiedMoves ==
  ASSUME NEW x \in Statements, NEW rows, NEW book \in [Keys -> Entries \cup {None}], NEW new,
         Justified(x, rows, book), \A k \in Keys : new[k] = book[k] \/ Moves(book[k], new[k])
  PROVE  Justified(x, rows, new)
<1>1. ASSUME NEW r, r.key \in Keys, Says(book, r) PROVE Says(new, r)
  <2> DEFINE old == book[r.key]
             e == new[r.key]
  <2>1. old \in Entries /\ old # None /\ (e = old \/ Moves(old, e))
    BY <1>1 DEF Says
  <2>2. e # None /\ e.face = old.face /\ (old.status # "normal" => e.status = old.status)
    <3> HIDE DEF old, e
    <3> QED BY <2>1 DEF Moves, Entries
  <2> QED BY <1>1, <2>2 DEF Says
<1> QED BY <1>1 DEF Justified

(* A valid row is disposed of: those that repeat it are as well.           *)
LEMMA DisposalIsJustified ==
  ASSUME NEW x \in Statements, NEW rows \in RowStates(x), NEW book,
         Justified(x, rows, book), NEW i \in DOMAIN Parsed[x], rows[i] = "valid",
         NEW state \in States \ {"valid"},
         state # "error" => Says(book, Parsed[x][i]),
         state = "error" => Parsed[x][i].key \in Invoices
  PROVE  Justified(x, [rows EXCEPT ![i] = state], book)
<1> DEFINE new == [rows EXCEPT ![i] = state]
<1>1. new[i] = state /\ \A j \in DOMAIN Parsed[x] \ {i} : new[j] = rows[j]
  BY DEF RowStates
<1>0. DOMAIN Parsed[x] = 1..Len(Parsed[x]) /\ Len(Parsed[x]) \in Nat
  BY RowsOfStatement
<1> HIDE DEF new
<1> SUFFICES ASSUME NEW h \in DOMAIN Parsed[x]
             PROVE  LET r == Parsed[x][h] IN
                    /\ new[h] # "error" => r.key \in Keys
                    /\ new[h] = "posted" => Says(book, r)
                    /\ new[h] = "duplicate" =>
                         \/ Says(book, r)
                         \/ \E j \in 1..(h - 1) : new[j] = "valid" /\ Repeats(x, h, j)
                         \/ \E j \in 1..(h - 1) : new[j] = "error" /\ Same(x, h, j)
  BY DEF Justified, new
<1>2. CASE h = i
  BY <1>1, <1>2 DEF Justified
<1>3. CASE h # i
  <2>1. new[h] = rows[h]
    BY <1>1, <1>3
  <2>2. ASSUME rows[h] = "duplicate", NEW j \in 1..(h - 1), rows[j] = "valid", Repeats(x, h, j), j = i
        PROVE  Says(book, Parsed[x][h]) \/ (new[i] = "error" /\ Same(x, h, i))
    <3>1. CASE state = "error"
      BY <1>1, <2>2, <3>1 DEF Repeats, Same
    <3>2. CASE state # "error"
      BY <2>2, <3>2, RepeatedIsSaid
    <3> QED BY <3>1, <3>2
  <2>3. \A j \in 1..(h - 1) : j \in DOMAIN Parsed[x]
    BY <1>0
  <2> QED BY <1>1, <2>1, <2>2, <2>3 DEF Justified
<1> QED BY <1>2, <1>3

-----------------------------------------------------------------------------
(* What the ways through a transaction change.                             *)

(* The other sessions do not move.                                         *)
Still(t) == /\ pc'[t] = pc[t] /\ work'[t] = work[t]
            /\ held'[t] = held[t] /\ want'[t] = want[t]

(* A step of s keeps the shapes and the locks of everybody.                *)
StepOf(s) == SessionTypes' /\ LocksAreExclusive' /\ \A t \in Sessions \ {s} : Still(t)

(* The fields of a record of work.                                         *)
LEMMA WorkFields ==
  ASSUME NEW w \in Works
  PROVE  /\ w.sha \in Shas \cup {None} /\ w.file \in Nat /\ w.batch \in Nat
         /\ w.todo \subseteq Nat /\ w.posts \in [Keys -> Entries \cup {None}]
         /\ w.snapshot \in ParsedRows \cup {None} /\ w.dups \in Nat /\ w.errs \in Nat
BY DEF Works

(* A session without a request has written nothing.                        *)
LEMMA NoWorkFits ==
  /\ NoWork \in Works
  /\ NoWork.sha = None /\ NoWork.file = 0 /\ NoWork.batch = 0 /\ NoWork.rows = <<>>
  /\ NoWork.todo = {} /\ NoWork.posts = [k \in Keys |-> None] /\ NoWork.snapshot = None
  /\ NoWork.dups = 0 /\ NoWork.errs = 0
BY DEF NoWork, Works

(* The next label, without a lock.                                         *)
LEMMA GotoMoves ==
  ASSUME SessionTypes, LocksAreExclusive, NEW s \in Sessions, NEW label \in Labels, NEW w \in Works,
         Goto(s, label, w), UNCHANGED locks
  PROVE  /\ StepOf(s)
         /\ pc'[s] = label /\ work'[s] = w /\ held'[s] = held[s] /\ want'[s] = want[s]
BY DEF Goto, locks, SessionTypes, LocksAreExclusive, StepOf, Still

(* The next label, with a statement that locks rows.                       *)
LEMMA SelectMoves ==
  ASSUME SessionTypes, LocksAreExclusive, NEW s \in Sessions, NEW label \in Labels, NEW w \in Works,
         NEW rows, Goto(s, label, w), SelectForUpdate(s, rows)
  PROVE  /\ StepOf(s) /\ want[s] = {}
         /\ pc'[s] = label /\ work'[s] = w /\ held'[s] = held[s] /\ want'[s] = rows \ held[s]
BY DEF Goto, SelectForUpdate, SessionTypes, LocksAreExclusive, StepOf, Still

(* The end of a transaction gives all locks back.                          *)
LEMMA LeaveMoves ==
  ASSUME SessionTypes, LocksAreExclusive, NEW s \in Sessions, Leave(s)
  PROVE  /\ StepOf(s)
         /\ pc'[s] = "idle" /\ work'[s] = NoWork /\ held'[s] = {} /\ want'[s] = {}
<1>1. "idle" \in Labels
  BY DEF Labels
<1> QED BY <1>1, NoWorkFits DEF Leave, Goto, EndTransaction, SessionTypes, LocksAreExclusive, StepOf, Still

(* A row is locked by nobody else.                                         *)
LEMMA LockMoves ==
  ASSUME SessionTypes, LocksAreExclusive, NEW s \in Sessions, NEW row \in want[s],
         LockRow(s, row), UNCHANGED <<pc, work>>
  PROVE  /\ StepOf(s)
         /\ pc'[s] = pc[s] /\ work'[s] = work[s]
         /\ held'[s] = held[s] \cup {row} /\ want'[s] = want[s] \ {row}
<1>1. /\ pc' = pc /\ work' = work
      /\ held'[s] = held[s] \cup {row} /\ want'[s] = want[s] \ {row}
      /\ \A t \in Sessions \ {s} : held'[t] = held[t] /\ want'[t] = want[t] /\ row \notin held[t]
  BY DEF LockRow, SessionTypes
<1>2. SessionTypes'
  BY <1>1 DEF LockRow, SessionTypes
<1>3. LocksAreExclusive'
  <2> SUFFICES ASSUME NEW a \in Sessions, NEW b \in Sessions, a # b
               PROVE  held'[a] \cap held'[b] = {}
    BY DEF LocksAreExclusive
  <2>1. held[a] \cap held[b] = {}
    BY DEF LocksAreExclusive
  <2>2. CASE a = s
    BY <1>1, <2>1, <2>2
  <2>3. CASE b = s
    BY <1>1, <2>1, <2>3
  <2> QED BY <1>1, <2>1, <2>2, <2>3
<1> QED BY <1>1, <1>2, <1>3 DEF StepOf, Still

(* A session without a request knows nothing.                              *)
LEMMA IdleFits ==
  ASSUME NEW s \in Sessions, pc'[s] = "idle", work'[s] = NoWork, held'[s] = {}, want'[s] = {}
  PROVE  Local(s)'
BY NoWorkFits DEF Local, Uploading, Confirming

-----------------------------------------------------------------------------
(* What a commit may change under the eyes of a session: nothing about the *)
(* rows it has locked.                                                     *)

(* What any step does to what is committed.                                *)
Grows ==
  /\ DOMAIN batches \subseteq DOMAIN batches'
  /\ \A b \in DOMAIN batches : batches'[b].sha = batches[b].sha
  /\ \A b \in DOMAIN batches : batches[b].status \in Final => batches'[b] = batches[b]
  /\ \A k \in Keys : ledger'[k] = ledger[k] \/ Moves(ledger[k], ledger'[k])
  /\ \A x \in Shas : stored[x] # None => stored'[x] = stored[x]
  /\ \A i \in Instants : balances[i] # None => balances'[i] = balances[i]

Keeps(t) ==
  /\ \A b \in DOMAIN batches : BatchRow(b) \in held[t] => batches'[b] = batches[b]
  /\ \A k \in Keys : KeyRow(k) \in held[t] => ledger'[k] = ledger[k]
  /\ \A x \in Shas : ShaRow(x) \in held[t] => stored'[x] = stored[x]
  /\ \A i \in Instants : Slot(i) \in held[t] => balances'[i] = balances[i]

(* Rows with a balance are those of the same statement.                    *)
LEMMA LatestDepends ==
  ASSUME NEW b, NEW rows, batches'[b].sha = batches[b].sha
  PROVE  /\ \A i : RowOf(b, i)' = RowOf(b, i)
         /\ WithBalance(b, rows)' = WithBalance(b, rows)
         /\ LatestRow(b, rows)' = LatestRow(b, rows)
<1>1. \A i : RowOf(b, i)' = RowOf(b, i)
  BY DEF RowOf
<1>2. WithBalance(b, rows)' = WithBalance(b, rows)
  BY <1>1 DEF WithBalance
<1>3. {i \in WithBalance(b, rows)' : \A j \in WithBalance(b, rows)' : RowOf(b, j)'.at <= RowOf(b, i)'.at}
      = {i \in WithBalance(b, rows) : \A j \in WithBalance(b, rows) : RowOf(b, j).at <= RowOf(b, i).at}
  BY <1>1, <1>2
<1>4. LatestRow(b, rows)' = LatestRow(b, rows)
  BY <1>3, Zenon DEF LatestRow
<1> QED BY <1>1, <1>2, <1>4

(* The fields of a batch.                                                  *)
LEMMA BatchFields ==
  ASSUME StoreTypes, NEW b \in DOMAIN batches
  PROVE  /\ b \in Nat /\ b >= 1 /\ batches[b] \in Batches /\ batches[b].sha \in Statements
         /\ batches[b].status \in {"previewed"} \cup Final
         /\ batches[b].valid \in Int /\ batches[b].duplicate \in Int /\ batches[b].error \in Int
<1>1. batches \in Seq(Batches)
  BY DEF StoreTypes
<1>2. b \in Nat /\ b >= 1 /\ batches[b] \in Batches
  BY <1>1
<1> QED BY <1>2 DEF Batches

(* Reasons remain reasons when a record moves on.                          *)
LEMMA ReasonsRemain ==
  ASSUME ledger \in [Keys -> Entries \cup {None}], Grows,
         NEW x \in Statements, NEW rows, Justified(x, rows, ledger)
  PROVE  Justified(x, rows, ledger')
BY JustifiedMoves DEF Grows

(* An upload is not disturbed by others.                                   *)
LEMMA UploadsUndisturbed ==
  ASSUME StoreTypes, NEW t \in Sessions, UploadFits(t), Still(t), Grows, Keeps(t)
  PROVE  UploadFits(t)'
<1> DEFINE w == work[t]
<1>1. /\ w.sha \in Shas
      /\ w.sha \in Statements => w.rows \in Staged(w.sha) /\ Justified(w.sha, w.rows, ledger)
      /\ w.sha \notin Statements => w.rows = <<>>
      /\ pc[t] = "write" => w.file = 0 /\ held[t] = {} /\ want[t] = {}
      /\ pc[t] # "write" => w.file # 0 /\ held[t] \cup want[t] = {ShaRow(w.sha)}
      /\ pc[t] = "publish" => want[t] = {} /\ stored[w.sha] = None
  BY DEF UploadFits
<1>2. w.sha \in Statements => Justified(w.sha, w.rows, ledger')
  <2>1. ledger \in [Keys -> Entries \cup {None}]
    BY DEF StoreTypes
  <2> HIDE DEF w
  <2> QED BY <1>1, <2>1, ReasonsRemain
<1>3. pc[t] = "publish" => stored'[w.sha] = None
  <2>1. ASSUME pc[t] = "publish" PROVE ShaRow(w.sha) \in held[t] /\ stored[w.sha] = None
    BY <1>1, <2>1
  <2> QED BY <1>1, <2>1 DEF Keeps
<1>4. work'[t] = work[t] /\ pc'[t] = pc[t] /\ held'[t] = held[t] /\ want'[t] = want[t]
  BY DEF Still
<1> QED BY <1>1, <1>2, <1>3, <1>4 DEF UploadFits, Staged

(* A session sees records, or none.                                        *)
LEMMA SeenTypes ==
  ASSUME StoreTypes, SessionTypes, NEW s \in Sessions
  PROVE  /\ SeenBy(s) \in [Keys -> Entries \cup {None}]
         /\ \A k \in Keys : Seen(s, k) \in Entries \cup {None}
<1>1. work[s].posts \in [Keys -> Entries \cup {None}] /\ ledger \in [Keys -> Entries \cup {None}]
  BY WorkFields DEF SessionTypes, StoreTypes
<1> QED BY <1>1 DEF SeenBy, Seen

(* The latest row with a balance is a row of the statement.                *)
LEMMA LatestRowIsParsed ==
  ASSUME StoreTypes, NEW b \in DOMAIN batches, NEW rows \in RowStates(batches[b].sha),
         WithBalance(b, rows) # {}
  PROVE  LET r == RowOf(b, LatestRow(b, rows)) IN
         r \in ParsedRows /\ r # None /\ r.at \in Instants /\ r.balance # None
<1>1. batches[b].sha \in Statements
  BY BatchFields
<1>2. PICK i : i = LatestRow(b, rows)
  OBVIOUS
<1>3. i \in WithBalance(b, rows)
  BY <1>1, <1>2, LatestIsOne
<1>4. i \in DOMAIN Parsed[batches[b].sha] /\ RowOf(b, i).balance # None
  BY <1>3 DEF WithBalance, RowStates
<1> QED BY <1>1, <1>2, <1>4, RowsOfStatement DEF RowOf

(* A confirmation is not disturbed by others.                              *)
LEMMA ConfirmationsUndisturbed ==
  ASSUME StoreTypes, SessionTypes, NEW t \in Sessions, ConfirmFits(t), Still(t), Grows, Keeps(t)
  PROVE  ConfirmFits(t)'
<1>0. PICK n, rows : n = work[t].batch /\ rows = work[t].rows
  OBVIOUS
<1>1. work'[t] = work[t] /\ pc'[t] = pc[t] /\ held'[t] = held[t] /\ want'[t] = want[t]
  BY DEF Still
<1>2. BatchRow(n) \in held[t] /\ n \in DOMAIN batches /\ batches'[n] = batches[n]
  BY <1>0 DEF ConfirmFits, RowsFit, Keeps
<1>3. batches[n] \in Batches /\ batches[n].sha \in Statements
  BY <1>2, BatchFields
<1>4. Justified(batches[n].sha, rows, SeenBy(t)')
  <2>1. Justified(batches[n].sha, rows, SeenBy(t))
    BY <1>0 DEF ConfirmFits, RowsFit
  <2>2. \A k \in Keys : SeenBy(t)'[k] = SeenBy(t)[k] \/ Moves(SeenBy(t)[k], SeenBy(t)'[k])
    BY <1>1 DEF SeenBy, Seen, Grows
  <2> QED BY <1>3, <2>1, <2>2, SeenTypes, JustifiedMoves
<1>5. \A k \in Keys : PostFits(t, k)'
  <2> TAKE k \in Keys
  <2> SUFFICES ASSUME work[t].posts[k] # None PROVE PostFits(t, k)'
    BY <1>1 DEF PostFits
  <2>1. PostFits(t, k)
    BY DEF ConfirmFits
  <2>2. ledger'[k] = ledger[k]
    BY <2>1 DEF PostFits, Keeps
  <2> QED BY <1>0, <1>1, <1>2, <2>1, <2>2 DEF PostFits
<1>6. /\ \A i : RowOf(n, i)' = RowOf(n, i)
      /\ WithBalance(n, rows)' = WithBalance(n, rows)
      /\ LatestRow(n, rows)' = LatestRow(n, rows)
  BY <1>2, LatestDepends
<1>7. Row(t)' = Row(t)
  BY <1>0, <1>1, <1>6 DEF Row, Current
<1>8. pc[t] = "confirm" /\ SnapshotFits(t) /\ Slot(work[t].snapshot.at) \in held[t] =>
        balances'[work[t].snapshot.at] = balances[work[t].snapshot.at]
  <2> SUFFICES ASSUME SnapshotFits(t), Slot(work[t].snapshot.at) \in held[t]
               PROVE  balances'[work[t].snapshot.at] = balances[work[t].snapshot.at]
    OBVIOUS
  <2>1. rows \in RowStates(batches[n].sha) /\ WithBalance(n, rows) # {}
        /\ work[t].snapshot = RowOf(n, LatestRow(n, rows))
    BY <1>0 DEF ConfirmFits, RowsFit, SnapshotFits
  <2>2. work[t].snapshot.at \in Instants
    BY <1>2, <2>1, LatestRowIsParsed
  <2> QED BY <2>2 DEF Keeps
<1>9. /\ work[t].batch = n /\ work[t].rows = rows /\ work'[t].batch = n /\ work'[t].rows = rows
  BY <1>0, <1>1
<1>10. RowsFit(t)'
  BY <1>1, <1>2, <1>4, <1>9 DEF ConfirmFits, RowsFit
<1>11. CountsFit(t)'
  BY <1>1, <1>2, <1>9 DEF ConfirmFits, CountsFit, Count
<1>12. SnapshotFits(t) => SnapshotFits(t)'
  BY <1>1, <1>6, <1>9 DEF SnapshotFits
<1>13. WithBalance(work[t].batch, work[t].rows)' = WithBalance(work[t].batch, work[t].rows)
  BY <1>1, <1>6, <1>9
<1>14. LabelFits(t)'
  BY <1>1, <1>7, <1>8, <1>12, <1>13 DEF ConfirmFits, LabelFits
<1>15. work'[t].batch \in DOMAIN batches'
  BY <1>2, <1>9 DEF Grows
<1> QED BY <1>5, <1>10, <1>11, <1>14, <1>15 DEF ConfirmFits

(* What a session knows stays true while the others keep off its rows.     *)
LEMMA OthersKnow ==
  ASSUME StoreTypes, SessionTypes, NEW t \in Sessions, Local(t), Still(t), Grows, Keeps(t)
  PROVE  Local(t)'
<1>1. work'[t] = work[t] /\ pc'[t] = pc[t] /\ held'[t] = held[t] /\ want'[t] = want[t]
  BY DEF Still
<1>2. pc[t] \in Uploading => UploadFits(t)'
  BY UploadsUndisturbed DEF Local
<1>3. pc[t] \in Confirming => ConfirmFits(t)'
  BY ConfirmationsUndisturbed DEF Local
<1>4. DOMAIN batches \subseteq DOMAIN batches'
  BY DEF Grows
<1> QED BY <1>1, <1>2, <1>3, <1>4 DEF Local

-----------------------------------------------------------------------------
(* The storage.                                                            *)

(* What is committed stays as it is.                                       *)
Committed == <<stored, batches, ledger, balances>>

(* A step that neither writes nor removes a file.                          *)
LEMMA FilesSame ==
  ASSUME StoreTypes, FilesFit, NEW s \in Sessions, StepOf(s), UNCHANGED <<storage, Published>>,
         work'[s].file = work[s].file
  PROVE  StoreTypes' /\ FilesFit' /\ UNCHANGED Committed
<1>1. /\ files' = files /\ uploads' = uploads /\ stored' = stored /\ disabled' = disabled
      /\ crashed' = crashed /\ batches' = batches /\ ledger' = ledger /\ balances' = balances
  BY DEF storage, Published
<1>2. \A t \in Sessions : work'[t].file = work[t].file
  BY DEF StepOf, Still
<1>3. StoreTypes'
  BY <1>1 DEF StoreTypes
<1>4. FilesFit'
  BY <1>1, <1>2 DEF FilesFit
<1> QED BY <1>1, <1>3, <1>4 DEF Committed

(* A file is written under a new name.                                     *)
LEMMA FileWritten ==
  ASSUME StoreTypes, FilesFit, NEW s \in Sessions, StepOf(s), NEW x, WriteFile(x),
         UNCHANGED Published, work[s].file = 0, work'[s].file = uploads'
  PROVE  StoreTypes' /\ FilesFit' /\ UNCHANGED Committed /\ uploads' \in Nat \ {0}
<1>1. /\ files' = files \cup {uploads'} /\ uploads' = uploads + 1 /\ uploads < MaxUploads
      /\ stored' = stored /\ disabled' = disabled
      /\ crashed' = crashed /\ batches' = batches /\ ledger' = ledger /\ balances' = balances
  BY DEF WriteFile, Published
<1>2. \A t \in Sessions \ {s} : work'[t].file = work[t].file
  BY DEF StepOf, Still
<1>3. uploads \in Nat /\ files \subseteq 1..uploads /\ uploads' \notin files /\ uploads' # 0
  BY <1>1, UploadBoundsAssumption DEF StoreTypes
<1>4. StoreTypes'
  BY <1>1, <1>3, UploadBoundsAssumption DEF StoreTypes
<1>5. \A x1 \in Shas : stored[x1] # None => stored[x1] # uploads'
  BY <1>3 DEF FilesFit
<1>6. None # uploads'
  BY <1>1, <1>3, NoneIsNoEntry
<1>7. \A t \in Sessions \ {s} : work[t].file # 0 => work[t].file # uploads'
  BY <1>3 DEF FilesFit
<1>8. FilesFit'
  <2>1. \A x1 \in Shas : stored'[x1] # None => stored'[x1] \in files'
    BY <1>1 DEF FilesFit
  <2>2. \A f \in files' : \/ f \in crashed'
                          \/ \E x1 \in Shas : stored'[x1] = f
                          \/ \E t \in Sessions : work'[t].file = f
    <3> TAKE f \in files'
    <3>1. CASE f = uploads'
      BY <3>1
    <3>2. CASE f \in files /\ f # 0
      BY <1>1, <1>2, <3>2 DEF FilesFit
    <3> QED BY <1>1, <1>3, <3>1, <3>2
  <2>3. ASSUME NEW t \in Sessions, work'[t].file # 0
        PROVE  /\ work'[t].file \in files'
               /\ \A x1 \in Shas : stored'[x1] # work'[t].file
               /\ \A o \in Sessions : work'[o].file = work'[t].file => o = t
    <3>1. CASE t = s
      BY <1>1, <1>2, <1>3, <1>5, <1>6, <1>7, <3>1
    <3>2. CASE t # s
      BY <1>1, <1>2, <1>7, <2>3, <3>2 DEF FilesFit
    <3> QED BY <3>1, <3>2
  <2> QED BY <2>1, <2>2, <2>3 DEF FilesFit
<1> QED BY <1>1, <1>3, <1>4, <1>8 DEF Committed

(* A session removes the file it wrote, and no other.                      *)
LEMMA FileRemoved ==
  ASSUME StoreTypes, FilesFit, NEW s \in Sessions, StepOf(s), NEW x,
         DeleteUncommitted(x, work[s].file), UNCHANGED Published,
         work[s].file # 0, work'[s].file = 0
  PROVE  StoreTypes' /\ FilesFit' /\ UNCHANGED Committed
<1>1. /\ files' = files \ {work[s].file} /\ uploads' = uploads
      /\ stored' = stored /\ disabled' = disabled
      /\ crashed' = crashed /\ batches' = batches /\ ledger' = ledger /\ balances' = balances
  BY DEF DeleteUncommitted, Published
<1>2. \A t \in Sessions \ {s} : work'[t].file = work[t].file
  BY DEF StepOf, Still
<1>3. StoreTypes'
  BY <1>1 DEF StoreTypes
<1>4. FilesFit'
  BY <1>1, <1>2 DEF FilesFit
<1> QED BY <1>1, <1>3, <1>4 DEF Committed

(* A worker that dies leaves its file.                                     *)
LEMMA FileLeft ==
  ASSUME StoreTypes, FilesFit, NEW s \in Sessions, StepOf(s),
         Crash(work[s].file), UNCHANGED Published, work[s].file # 0, work'[s].file = 0
  PROVE  StoreTypes' /\ FilesFit' /\ UNCHANGED Committed
<1>1. /\ files' = files /\ uploads' = uploads
      /\ stored' = stored /\ disabled' = disabled
      /\ crashed' = crashed \cup {work[s].file}
      /\ batches' = batches /\ ledger' = ledger /\ balances' = balances
  BY DEF Crash, Published
<1>2. \A t \in Sessions \ {s} : work'[t].file = work[t].file
  BY DEF StepOf, Still
<1>3. StoreTypes'
  BY <1>1 DEF StoreTypes, FilesFit
<1>4. FilesFit'
  BY <1>1, <1>2 DEF FilesFit
<1> QED BY <1>1, <1>3, <1>4 DEF Committed

(* The file of an upload becomes the file of the stored content.           *)
LEMMA FilePublished ==
  ASSUME StoreTypes, FilesFit, NEW s \in Sessions, StepOf(s), NEW x \in Shas,
         Publish(x, work[s].file), stored[x] = None, work[s].file # 0, work'[s].file = 0
  PROVE  /\ FilesFit' /\ stored' \in [Shas -> {None} \cup 1..uploads] /\ stored'[x] # None
         /\ \A y \in Shas \ {x} : stored'[y] = stored[y]
<1>1. /\ files' = files /\ uploads' = uploads
      /\ stored' = [stored EXCEPT ![x] = work[s].file] /\ disabled' = disabled
      /\ crashed' = crashed
  BY DEF Publish
<1>2. \A t \in Sessions \ {s} : work'[t].file = work[t].file
  BY DEF StepOf, Still
<1>3. work[s].file \in files /\ work[s].file # None /\ work[s].file \in 1..uploads
  <2>1. work[s].file \in files /\ work[s].file \in 1..uploads /\ uploads \in Nat
    BY UploadBoundsAssumption DEF FilesFit, StoreTypes
  <2> QED BY <2>1, NoneIsNoEntry
<1>4. /\ stored'[x] = work[s].file /\ \A y \in Shas \ {x} : stored'[y] = stored[y]
      /\ stored' \in [Shas -> {None} \cup 1..uploads]
  BY <1>1, <1>3 DEF StoreTypes
<1>5. \A y \in Shas : stored'[y] # None => stored'[y] \in files'
  BY <1>1, <1>3, <1>4 DEF FilesFit
<1>6. \A f \in files' : \/ f \in crashed'
                        \/ \E y \in Shas : stored'[y] = f
                        \/ \E t \in Sessions : work'[t].file = f
  <2> TAKE f \in files'
  <2>1. CASE f = work[s].file
    BY <1>4, <2>1
  <2>2. CASE f # work[s].file
    <3>1. f \in files
      BY <1>1
    <3>2. CASE f \in crashed
      BY <1>1, <3>2
    <3>3. ASSUME NEW y \in Shas, stored[y] = f
          PROVE  stored'[y] = f
      <4>1. f \in Nat
        BY <3>1, UploadBoundsAssumption DEF StoreTypes
      <4> QED BY <1>4, <3>3, <4>1, NoneIsNoEntry
    <3>4. ASSUME NEW t \in Sessions, work[t].file = f
          PROVE  work'[t].file = f
      BY <1>2, <2>2, <3>4
    <3> QED BY <3>1, <3>2, <3>3, <3>4 DEF FilesFit
  <2> QED BY <2>1, <2>2
<1>7. ASSUME NEW t \in Sessions, work'[t].file # 0
      PROVE  /\ work'[t].file \in files'
             /\ \A y \in Shas : stored'[y] # work'[t].file
             /\ \A o \in Sessions : work'[o].file = work'[t].file => o = t
  <2>1. t # s /\ work'[t].file = work[t].file
    BY <1>2, <1>7
  <2>2. work[t].file # work[s].file
    BY <1>7, <2>1 DEF FilesFit
  <2> QED BY <1>1, <1>2, <1>4, <1>7, <2>1, <2>2 DEF FilesFit
<1> QED BY <1>3, <1>4, <1>5, <1>6, <1>7 DEF FilesFit

-----------------------------------------------------------------------------
(* The steps that commit nothing.                                          *)
Known(s) == StoreTypes /\ SessionTypes /\ FilesFit /\ LocksAreExclusive /\ Local(s)

Quiet(s) == StepOf(s) /\ StoreTypes' /\ FilesFit' /\ UNCHANGED Committed /\ Local(s)'

(* The parts of a confirmation that a lock or a new label leave alone.     *)
LEMMA ConfirmationGoesOn ==
  ASSUME StoreTypes, NEW s \in Sessions, ConfirmFits(s), UNCHANGED Committed,
         held[s] \subseteq held'[s],
         work'[s].batch = work[s].batch, work'[s].rows = work[s].rows, work'[s].todo = work[s].todo,
         work'[s].posts = work[s].posts, work'[s].dups = work[s].dups, work'[s].errs = work[s].errs
  PROVE  /\ LabelFits(s)' => ConfirmFits(s)'
         /\ WithBalance(work[s].batch, work[s].rows)' = WithBalance(work[s].batch, work[s].rows)
         /\ RowOf(work[s].batch, LatestRow(work[s].batch, work[s].rows))'
            = RowOf(work[s].batch, LatestRow(work[s].batch, work[s].rows))
         /\ Row(s)' = Row(s)
<1>0. PICK n, rows : n = work[s].batch /\ rows = work[s].rows
  OBVIOUS
<1>1. stored' = stored /\ batches' = batches /\ ledger' = ledger /\ balances' = balances
  BY DEF Committed
<1>2. /\ work[s].batch = n /\ work[s].rows = rows /\ work'[s].batch = n /\ work'[s].rows = rows
  BY <1>0
<1>3. /\ \A i : RowOf(n, i)' = RowOf(n, i)
      /\ WithBalance(n, rows)' = WithBalance(n, rows)
      /\ LatestRow(n, rows)' = LatestRow(n, rows)
  BY <1>1, LatestDepends
<1>4. Row(s)' = Row(s)
  BY <1>2, <1>3 DEF Row, Current
<1>5. SeenBy(s)' = SeenBy(s)
  BY <1>1 DEF SeenBy, Seen
<1>6. RowsFit(s)'
  BY <1>1, <1>2, <1>5 DEF ConfirmFits, RowsFit
<1>7. CountsFit(s)'
  BY <1>1, <1>2 DEF ConfirmFits, CountsFit, Count
<1>8. \A k \in Keys : PostFits(s, k)'
  BY <1>1, <1>2 DEF ConfirmFits, PostFits
<1>9. LabelFits(s)' => ConfirmFits(s)'
  BY <1>1, <1>2, <1>6, <1>7, <1>8 DEF ConfirmFits
<1>10. /\ WithBalance(work[s].batch, work[s].rows)' = WithBalance(work[s].batch, work[s].rows)
       /\ RowOf(work[s].batch, LatestRow(work[s].batch, work[s].rows))'
          = RowOf(work[s].batch, LatestRow(work[s].batch, work[s].rows))
  BY <1>2, <1>3
<1> QED BY <1>4, <1>9, <1>10

(* A row is locked.                                                        *)
LEMMA LockIsQuiet ==
  ASSUME NEW s \in Sessions, Known(s), Lock(s)
  PROVE  Quiet(s)
<1>1. PICK row \in want[s] : LockRow(s, row)
  BY DEF Lock
<1>2. /\ StepOf(s)
      /\ pc'[s] = pc[s] /\ work'[s] = work[s]
      /\ held'[s] = held[s] \cup {row} /\ want'[s] = want[s] \ {row}
  BY <1>1, LockMoves DEF Lock, Known
<1>3. StoreTypes' /\ FilesFit' /\ UNCHANGED Committed
  BY <1>2, FilesSame DEF Lock, Known
<1>4. pc[s] \in Uploading => UploadFits(s)'
  <2>1. stored' = stored /\ ledger' = ledger
    BY <1>3 DEF Committed
  <2> QED BY <1>1, <1>2, <2>1 DEF Known, Local, UploadFits, Staged
<1>5. pc[s] \in Confirming => ConfirmFits(s)'
  <2> SUFFICES ASSUME ConfirmFits(s), pc[s] \in Confirming PROVE ConfirmFits(s)'
    BY DEF Known, Local
  <2>1. /\ LabelFits(s)' => ConfirmFits(s)'
        /\ WithBalance(work[s].batch, work[s].rows)' = WithBalance(work[s].batch, work[s].rows)
        /\ RowOf(work[s].batch, LatestRow(work[s].batch, work[s].rows))'
           = RowOf(work[s].batch, LatestRow(work[s].batch, work[s].rows))
        /\ Row(s)' = Row(s)
    BY <1>2, <1>3, ConfirmationGoesOn DEF Known
  <2>2. SnapshotFits(s) => SnapshotFits(s)'
    BY <1>2, <2>1 DEF SnapshotFits
  <2>3. pc[s] \notin {"row", "confirm"}
    BY <1>1 DEF ConfirmFits, LabelFits
  <2>4. LabelFits(s)'
    BY <1>2, <2>1, <2>2, <2>3 DEF ConfirmFits, LabelFits
  <2> QED BY <2>1, <2>4
<1>6. pc[s] # "idle"
  BY <1>1 DEF Known, Local
<1>7. DOMAIN batches' = DOMAIN batches
  BY <1>3 DEF Committed
<1>8. Local(s)'
  BY <1>2, <1>4, <1>5, <1>6, <1>7 DEF Known, Local
<1> QED BY <1>2, <1>3, <1>8 DEF Quiet

(* A request that ends without a commit.                                   *)
LEMMA FailIsQuiet ==
  ASSUME NEW s \in Sessions, Known(s), Fail(s)
  PROVE  Quiet(s)
<1>1. StepOf(s) /\ pc'[s] = "idle" /\ work'[s] = NoWork /\ held'[s] = {} /\ want'[s] = {}
  BY LeaveMoves DEF Fail, Known
<1>2. work'[s].file = 0
  BY <1>1, NoWorkFits
<1>3. StoreTypes' /\ FilesFit' /\ UNCHANGED Committed
  <2>1. CASE work[s].file = 0
    BY <1>1, <1>2, <2>1, FilesSame DEF Fail, Known
  <2>2. CASE work[s].file # 0
    BY <1>1, <1>2, <2>2, FileRemoved DEF Fail, Known
  <2> QED BY <2>1, <2>2
<1> QED BY <1>1, <1>3, IdleFits DEF Quiet

(* A worker dies.                                                          *)
LEMMA DeathIsQuiet ==
  ASSUME NEW s \in Sessions, Known(s), WorkerDies(s)
  PROVE  Quiet(s)
<1>1. StepOf(s) /\ pc'[s] = "idle" /\ work'[s] = NoWork /\ held'[s] = {} /\ want'[s] = {}
  BY LeaveMoves DEF WorkerDies, Known
<1>2. work'[s].file = 0
  BY <1>1, NoWorkFits
<1>3. StoreTypes' /\ FilesFit' /\ UNCHANGED Committed
  BY <1>1, <1>2, FileLeft DEF WorkerDies, Known
<1> QED BY <1>1, <1>3, IdleFits DEF Quiet

(* A statement is prepared, or a PDF received.                             *)
LEMMA UploadIsQuiet ==
  ASSUME NEW s \in Sessions, Known(s), NEW x \in Shas, Upload(s, x)
  PROVE  Quiet(s)
<1> DEFINE r == IF x \in Statements THEN Prepared(x) ELSE <<>>
           w == [NoWork EXCEPT !.sha = x, !.rows = r]
<1>1. IF x \in Statements THEN r \in Staged(x) /\ Justified(x, r, ledger) ELSE r = <<>>
  BY PreparedIsJustified
<1>2. r \in {<<>>} \cup UNION {RowStates(y) : y \in Statements}
  BY <1>1 DEF Staged, RowStates
<1> HIDE DEF r
<1>3. w \in Works /\ w.sha = x /\ w.rows = r /\ w.file = 0
  BY <1>2 DEF Works, NoWork
<1>4. "write" \in Labels /\ "write" \in Uploading /\ "write" \notin Confirming \cup {"idle", "batch"}
  BY DEF Labels, Uploading, Confirming
<1>5. pc[s] = "idle" /\ Goto(s, "write", w) /\ UNCHANGED <<storage, locks, Published>>
  BY DEF Upload, r
<1> HIDE DEF w
<1>6. /\ StepOf(s)
      /\ pc'[s] = "write" /\ work'[s] = w /\ held'[s] = held[s] /\ want'[s] = want[s]
  BY <1>3, <1>4, <1>5, GotoMoves DEF Known
<1>7. work[s].file = 0 /\ held[s] = {} /\ want[s] = {}
  BY <1>5, NoWorkFits DEF Known, Local
<1>8. StoreTypes' /\ FilesFit' /\ UNCHANGED Committed
  BY <1>3, <1>5, <1>6, <1>7, FilesSame DEF Known
<1>9. UploadFits(s)'
  <2>1. ledger' = ledger
    BY <1>8 DEF Committed
  <2> QED BY <1>1, <1>3, <1>6, <1>7, <2>1 DEF UploadFits, Staged
<1>10. Local(s)'
  BY <1>4, <1>6, <1>9 DEF Local
<1> QED BY <1>6, <1>8, <1>10 DEF Quiet

(* The file of an upload is written.                                       *)
LEMMA WriteSourceIsQuiet ==
  ASSUME NEW s \in Sessions, Known(s), WriteSource(s)
  PROVE  Quiet(s)
<1> DEFINE w == [work[s] EXCEPT !.file = uploads']
<1>1. /\ pc[s] = "write" /\ WriteFile(work[s].sha) /\ SelectForUpdate(s, {ShaRow(work[s].sha)})
      /\ Goto(s, "insert", w) /\ UNCHANGED Published
  BY DEF WriteSource
<1>2. uploads' \in Nat
  BY <1>1, UploadBoundsAssumption DEF WriteFile, Known, StoreTypes
<1>3. w \in Works /\ w.sha = work[s].sha /\ w.rows = work[s].rows /\ w.file = uploads'
  BY <1>2 DEF Known, SessionTypes, Works
<1>4. "insert" \in Labels /\ "insert" \in Uploading /\ "write" \in Uploading
      /\ "insert" \notin Confirming \cup {"idle", "batch"}
  BY DEF Labels, Uploading, Confirming
<1> HIDE DEF w
<1>5. /\ StepOf(s)
      /\ pc'[s] = "insert" /\ work'[s] = w /\ held'[s] = held[s]
      /\ want'[s] = {ShaRow(work[s].sha)} \ held[s]
  BY <1>1, <1>3, <1>4, SelectMoves DEF Known
<1>6. UploadFits(s)
  BY <1>1, <1>4 DEF Known, Local
<1>7. StoreTypes' /\ FilesFit' /\ UNCHANGED Committed /\ uploads' \in Nat \ {0}
  BY <1>1, <1>3, <1>5, <1>6, FileWritten DEF Known, UploadFits
<1>8. UploadFits(s)'
  <2>1. ledger' = ledger
    BY <1>7 DEF Committed
  <2> QED BY <1>1, <1>3, <1>5, <1>6, <1>7, <2>1 DEF UploadFits, Staged
<1>9. Local(s)'
  BY <1>4, <1>5, <1>8 DEF Local
<1> QED BY <1>5, <1>7, <1>9 DEF Quiet

(* The row of the content is inserted, or there is one.                    *)
LEMMA InsertSourceIsQuiet ==
  ASSUME NEW s \in Sessions, Known(s), InsertSource(s)
  PROVE  Quiet(s)
<1>1. pc[s] = "insert" /\ want[s] = {} /\ UNCHANGED Published
  BY DEF InsertSource, Finished
<1>2. "publish" \in Labels /\ "publish" \in Uploading /\ "insert" \in Uploading
      /\ "publish" \notin Confirming \cup {"idle", "batch"}
  BY DEF Labels, Uploading, Confirming
<1>3. UploadFits(s)
  BY <1>1, <1>2 DEF Known, Local
<1>4. CASE stored[work[s].sha] = None
  <2>1. Goto(s, "publish", work[s]) /\ UNCHANGED <<storage, locks>>
    BY <1>4 DEF InsertSource
  <2>2. work[s] \in Works
    BY DEF Known, SessionTypes
  <2>3. /\ StepOf(s)
        /\ pc'[s] = "publish" /\ work'[s] = work[s] /\ held'[s] = held[s] /\ want'[s] = want[s]
    BY <1>2, <2>1, <2>2, GotoMoves DEF Known
  <2>4. StoreTypes' /\ FilesFit' /\ UNCHANGED Committed
    BY <1>1, <2>1, <2>3, FilesSame DEF Known
  <2>5. UploadFits(s)'
    <3>1. ledger' = ledger /\ stored' = stored
      BY <2>4 DEF Committed
    <3> QED BY <1>1, <1>3, <1>4, <2>3, <3>1 DEF UploadFits, Staged
  <2>6. Local(s)'
    BY <1>2, <2>3, <2>5 DEF Local
  <2> QED BY <2>3, <2>4, <2>6 DEF Quiet
<1>5. CASE stored[work[s].sha] # None
  <2>1. DeleteUncommitted(work[s].sha, work[s].file) /\ Leave(s)
    BY <1>5 DEF InsertSource
  <2>2. StepOf(s) /\ pc'[s] = "idle" /\ work'[s] = NoWork /\ held'[s] = {} /\ want'[s] = {}
    BY <2>1, LeaveMoves DEF Known
  <2>3. work'[s].file = 0 /\ work[s].file # 0
    BY <1>1, <1>3, <2>2, NoWorkFits DEF UploadFits
  <2>4. StoreTypes' /\ FilesFit' /\ UNCHANGED Committed
    BY <1>1, <2>1, <2>2, <2>3, FileRemoved DEF Known
  <2> QED BY <2>2, <2>4, IdleFits DEF Quiet
<1> QED BY <1>4, <1>5

(* A confirmation begins.                                                  *)
LEMMA ConfirmIsQuiet ==
  ASSUME NEW s \in Sessions, Known(s), NEW b \in DOMAIN batches, Confirm(s, b)
  PROVE  Quiet(s)
<1> DEFINE w == [NoWork EXCEPT !.batch = b]
<1>1. /\ pc[s] = "idle" /\ SelectForUpdate(s, {BatchRow(b)}) /\ Goto(s, "batch", w)
      /\ UNCHANGED <<storage, Published>>
  BY DEF Confirm
<1>2. b \in Nat
  BY BatchFields DEF Known
<1>3. w \in Works /\ w.batch = b /\ w = [NoWork EXCEPT !.batch = w.batch] /\ w.file = 0
  BY <1>2 DEF Works, NoWork
<1>4. "batch" \in Labels /\ "batch" \notin Uploading \cup Confirming \cup {"idle"}
  BY DEF Labels, Uploading, Confirming
<1> HIDE DEF w
<1>5. /\ StepOf(s)
      /\ pc'[s] = "batch" /\ work'[s] = w /\ held'[s] = held[s]
      /\ want'[s] = {BatchRow(b)} \ held[s]
  BY <1>1, <1>3, <1>4, SelectMoves DEF Known
<1>6. work[s].file = 0 /\ held[s] = {}
  BY <1>1, NoWorkFits DEF Known, Local
<1>7. StoreTypes' /\ FilesFit' /\ UNCHANGED Committed
  BY <1>1, <1>3, <1>5, <1>6, FilesSame DEF Known
<1>8. Local(s)'
  <2>1. batches' = batches
    BY <1>7 DEF Committed
  <2> QED BY <1>3, <1>4, <1>5, <1>6, <2>1 DEF Local
<1> QED BY <1>5, <1>7, <1>8 DEF Quiet

(* The batch is locked: it was confirmed already, or its valid rows are to *)
(* be posted.                                                              *)
LEMMA BatchLockedIsQuiet ==
  ASSUME NEW s \in Sessions, Known(s), \A b \in DOMAIN batches : BatchFits(b), BatchLocked(s)
  PROVE  Quiet(s)
<1>0. PICK n, rows : n = work[s].batch /\ rows = batches[n].rows
  OBVIOUS
<1>1. pc[s] = "batch" /\ want[s] = {} /\ UNCHANGED <<storage, Published>>
  BY DEF BatchLocked, Finished
<1>2. "row" \in Labels /\ "row" \in Confirming /\ "row" \notin Uploading \cup {"idle", "batch"}
      /\ "batch" \notin Uploading
  BY DEF Labels, Uploading, Confirming
<1>3. /\ n \in DOMAIN batches /\ held[s] = {BatchRow(n)} /\ work[s].file = 0
      /\ work[s] = [NoWork EXCEPT !.batch = n]
  BY <1>0, <1>1, <1>2 DEF Known, Local
<1>4. CASE batches[n].status \in Final
  <2>1. Leave(s)
    BY <1>0, <1>4 DEF BatchLocked
  <2>2. StepOf(s) /\ pc'[s] = "idle" /\ work'[s] = NoWork /\ held'[s] = {} /\ want'[s] = {}
    BY <2>1, LeaveMoves DEF Known
  <2>3. work'[s].file = work[s].file
    BY <1>3, <2>2, NoWorkFits
  <2>4. StoreTypes' /\ FilesFit' /\ UNCHANGED Committed
    BY <1>1, <2>2, <2>3, FilesSame DEF Known
  <2> QED BY <2>2, <2>4, IdleFits DEF Quiet
<1>5. CASE batches[n].status \notin Final
  <2> DEFINE todo == {i \in DOMAIN rows : rows[i] = "valid"}
             w == [work[s] EXCEPT !.rows = rows, !.todo = todo]
  <2>1. Goto(s, "row", w) /\ UNCHANGED locks
    BY <1>0, <1>5 DEF BatchLocked
  <2>2. batches[n].sha \in Statements /\ batches[n].status = "previewed"
    BY <1>3, <1>5, BatchFields DEF Known
  <2>3. rows \in RowStates(batches[n].sha) /\ Justified(batches[n].sha, rows, ledger)
        /\ batches[n].valid = Count(rows, "valid") + Count(rows, "posted")
        /\ batches[n].duplicate = Count(rows, "duplicate")
        /\ batches[n].error = Count(rows, "error")
    BY <1>0, <1>3 DEF BatchFits
  <2>4. todo \subseteq Nat
    BY <2>2, <2>3, RowsOfStatement DEF RowStates
  <2>5. n \in Nat
    BY <1>3, BatchFields DEF Known
  <2> HIDE DEF todo
  <2>6. rows \in UNION {RowStates(x) : x \in Statements}
    BY <2>2, <2>3
  <2>7. w \in Works
    <3>1. work[s] \in Works
      BY DEF Known, SessionTypes
    <3> QED BY <2>4, <2>6, <3>1 DEF Works
  <2>8. /\ w.file = 0 /\ w.batch = n /\ w.rows = rows /\ w.todo = todo /\ w.snapshot = None
        /\ w.posts = [k \in Keys |-> None] /\ w.dups = 0 /\ w.errs = 0
    <3>1. /\ w.file = work[s].file /\ w.batch = work[s].batch /\ w.rows = rows /\ w.todo = todo
          /\ w.snapshot = work[s].snapshot /\ w.posts = work[s].posts
          /\ w.dups = work[s].dups /\ w.errs = work[s].errs
      BY DEF Known, SessionTypes, Works
    <3>2. /\ work[s].file = 0 /\ work[s].batch = n /\ work[s].snapshot = None
          /\ work[s].posts = [k \in Keys |-> None] /\ work[s].dups = 0 /\ work[s].errs = 0
      BY <1>3, Zenon DEF NoWork
    <3> QED BY <3>1, <3>2
  <2> HIDE DEF w
  <2>9. /\ StepOf(s)
        /\ pc'[s] = "row" /\ work'[s] = w /\ held'[s] = held[s] /\ want'[s] = want[s]
    BY <1>2, <2>1, <2>7, GotoMoves DEF Known
  <2>10. StoreTypes' /\ FilesFit' /\ UNCHANGED Committed
    BY <1>1, <1>3, <2>8, <2>9, FilesSame DEF Known
  <2>11. batches' = batches /\ ledger' = ledger
    BY <2>10 DEF Committed
  <2>12. RowsFit(s)'
    <3>1. SeenBy(s)' = ledger
      <4>1. \A k \in Keys : Seen(s, k)' = ledger[k]
        BY <2>8, <2>9, <2>11 DEF Seen
      <4> QED BY <4>1 DEF SeenBy, Known, StoreTypes
    <3> QED BY <1>3, <2>2, <2>3, <2>8, <2>9, <2>11, <3>1 DEF RowsFit, todo
  <2>13. CountsFit(s)'
    <3>1. batches[n].valid \in Int /\ batches[n].duplicate \in Int /\ batches[n].error \in Int
      BY <1>3, BatchFields DEF Known
    <3>2. batches[n].valid - 0 - 0 = batches[n].valid /\ batches[n].duplicate + 0 = batches[n].duplicate
          /\ batches[n].error + 0 = batches[n].error
      BY <3>1
    <3> QED BY <2>3, <2>8, <2>9, <2>11, <3>2 DEF CountsFit, Count
  <2>14. LabelFits(s)' /\ \A k \in Keys : PostFits(s, k)'
    BY <1>1, <2>8, <2>9 DEF LabelFits, PostFits
  <2>15. ConfirmFits(s)'
    BY <1>3, <2>8, <2>9, <2>11, <2>12, <2>13, <2>14 DEF ConfirmFits
  <2>16. Local(s)'
    BY <1>2, <2>8, <2>9, <2>15 DEF Local
  <2> QED BY <2>9, <2>10, <2>16 DEF Quiet
<1> QED BY <1>4, <1>5

(* All rows are disposed of; the balance of the last one is next.          *)
LEMMA RowsDoneIsQuiet ==
  ASSUME NEW s \in Sessions, Known(s), RowsDone(s)
  PROVE  Quiet(s)
<1>0. PICK n, rows : n = work[s].batch /\ rows = work[s].rows
  OBVIOUS
<1>1. pc[s] = "row" /\ work[s].todo = {} /\ UNCHANGED <<storage, Published>>
  BY DEF RowsDone
<1>2. /\ {"confirm", "balance"} \subseteq Labels /\ {"row", "confirm", "balance"} \subseteq Confirming
      /\ {"row", "confirm", "balance"} \cap (Uploading \cup {"idle", "batch"}) = {}
  BY DEF Labels, Uploading, Confirming
<1>3. ConfirmFits(s) /\ work[s].file = 0 /\ work[s] \in Works /\ n \in DOMAIN batches
      /\ rows \in RowStates(batches[n].sha) /\ want[s] = {} /\ work[s].snapshot = None
  BY <1>0, <1>1, <1>2 DEF Known, Local, SessionTypes, ConfirmFits, RowsFit, LabelFits
<1>4. CASE WithBalance(n, rows) = {}
  <2>1. Goto(s, "confirm", work[s]) /\ UNCHANGED locks
    BY <1>0, <1>4 DEF RowsDone
  <2>2. /\ StepOf(s)
        /\ pc'[s] = "confirm" /\ work'[s] = work[s] /\ held'[s] = held[s] /\ want'[s] = want[s]
    BY <1>2, <1>3, <2>1, GotoMoves DEF Known
  <2>3. StoreTypes' /\ FilesFit' /\ UNCHANGED Committed
    BY <1>1, <2>2, FilesSame DEF Known
  <2>4. /\ LabelFits(s)' => ConfirmFits(s)'
        /\ WithBalance(work[s].batch, work[s].rows)' = WithBalance(work[s].batch, work[s].rows)
    BY <1>3, <2>2, <2>3, ConfirmationGoesOn DEF Known
  <2>5. LabelFits(s)'
    BY <1>0, <1>1, <1>3, <1>4, <2>2, <2>4 DEF LabelFits
  <2>6. Local(s)'
    BY <1>2, <1>3, <2>2, <2>4, <2>5 DEF Local
  <2> QED BY <2>2, <2>3, <2>6 DEF Quiet
<1>5. CASE WithBalance(n, rows) # {}
  <2>0. PICK r : r = RowOf(n, LatestRow(n, rows))
    OBVIOUS
  <2> DEFINE w == [work[s] EXCEPT !.snapshot = r]
  <2>1. SelectForUpdate(s, {Slot(r.at)}) /\ Goto(s, "balance", w)
    BY <1>0, <1>5, <2>0 DEF RowsDone
  <2>2. r \in ParsedRows
    BY <1>3, <1>5, <2>0, LatestRowIsParsed DEF Known
  <2>3. w \in Works /\ w.file = work[s].file /\ w.batch = n /\ w.rows = rows /\ w.todo = {}
        /\ w.posts = work[s].posts /\ w.dups = work[s].dups /\ w.errs = work[s].errs
        /\ w.snapshot = r
    BY <1>0, <1>1, <1>3, <2>2 DEF Works
  <2> HIDE DEF w
  <2>4. /\ StepOf(s)
        /\ pc'[s] = "balance" /\ work'[s] = w /\ held'[s] = held[s]
        /\ want'[s] = {Slot(r.at)} \ held[s]
    BY <1>2, <2>1, <2>3, SelectMoves DEF Known
  <2>5. StoreTypes' /\ FilesFit' /\ UNCHANGED Committed
    BY <1>1, <2>3, <2>4, FilesSame DEF Known
  <2>6. /\ LabelFits(s)' => ConfirmFits(s)'
        /\ WithBalance(work[s].batch, work[s].rows)' = WithBalance(work[s].batch, work[s].rows)
        /\ RowOf(work[s].batch, LatestRow(work[s].batch, work[s].rows))'
           = RowOf(work[s].batch, LatestRow(work[s].batch, work[s].rows))
    BY <1>0, <1>1, <1>3, <2>3, <2>4, <2>5, ConfirmationGoesOn DEF Known
  <2>7. SnapshotFits(s)'
    BY <1>0, <1>5, <2>0, <2>3, <2>4, <2>6 DEF SnapshotFits
  <2>8. LabelFits(s)'
    BY <2>3, <2>4, <2>7 DEF LabelFits
  <2>9. Local(s)'
    BY <1>2, <1>3, <2>3, <2>4, <2>6, <2>8 DEF Local
  <2> QED BY <2>4, <2>5, <2>9 DEF Quiet
<1> QED BY <1>4, <1>5

(* The balance is written, or refused.                                     *)
LEMMA SnapshotIsQuiet ==
  ASSUME NEW s \in Sessions, Known(s), Snapshot(s)
  PROVE  Quiet(s)
<1>1. pc[s] = "balance" /\ want[s] = {} /\ UNCHANGED <<storage, Published>>
  BY DEF Snapshot, Finished
<1>2. /\ "confirm" \in Labels /\ {"confirm", "balance"} \subseteq Confirming
      /\ {"confirm", "balance"} \cap (Uploading \cup {"idle", "batch"}) = {}
  BY DEF Labels, Uploading, Confirming
<1>3. ConfirmFits(s) /\ work[s].file = 0 /\ work[s] \in Works
  BY <1>1, <1>2 DEF Known, Local, SessionTypes
<1>4. CASE balances[work[s].snapshot.at] \in {None, work[s].snapshot.balance}
  <2>1. Goto(s, "confirm", work[s]) /\ UNCHANGED locks
    BY <1>4 DEF Snapshot
  <2>2. /\ StepOf(s)
        /\ pc'[s] = "confirm" /\ work'[s] = work[s] /\ held'[s] = held[s] /\ want'[s] = want[s]
    BY <1>2, <1>3, <2>1, GotoMoves DEF Known
  <2>3. StoreTypes' /\ FilesFit' /\ UNCHANGED Committed
    BY <1>1, <2>2, FilesSame DEF Known
  <2>4. /\ LabelFits(s)' => ConfirmFits(s)'
        /\ WithBalance(work[s].batch, work[s].rows)' = WithBalance(work[s].batch, work[s].rows)
        /\ RowOf(work[s].batch, LatestRow(work[s].batch, work[s].rows))'
           = RowOf(work[s].batch, LatestRow(work[s].batch, work[s].rows))
    BY <1>3, <2>2, <2>3, ConfirmationGoesOn DEF Known
  <2>5. SnapshotFits(s)' /\ Slot(work[s].snapshot.at) \in held[s]
    BY <1>1, <1>3, <2>2, <2>4 DEF SnapshotFits, ConfirmFits, LabelFits
  <2>6. balances' = balances
    BY <2>3 DEF Committed
  <2>7. LabelFits(s)'
    BY <1>1, <1>3, <1>4, <2>2, <2>5, <2>6 DEF ConfirmFits, LabelFits
  <2>8. Local(s)'
    BY <1>2, <1>3, <2>2, <2>4, <2>7 DEF Local
  <2> QED BY <2>2, <2>3, <2>8 DEF Quiet
<1>5. CASE balances[work[s].snapshot.at] \notin {None, work[s].snapshot.balance}
  <2>1. Leave(s)
    BY <1>5 DEF Snapshot
  <2>2. StepOf(s) /\ pc'[s] = "idle" /\ work'[s] = NoWork /\ held'[s] = {} /\ want'[s] = {}
    BY <2>1, LeaveMoves DEF Known
  <2>3. work'[s].file = work[s].file
    BY <1>3, <2>2, NoWorkFits
  <2>4. StoreTypes' /\ FilesFit' /\ UNCHANGED Committed
    BY <1>1, <2>2, <2>3, FilesSame DEF Known
  <2> QED BY <2>2, <2>4, IdleFits DEF Quiet
<1> QED BY <1>4, <1>5

-----------------------------------------------------------------------------
(* A row is disposed of.                                                   *)

(* The row under way is valid, and has a key.                              *)
LEMMA CurrentIsValid ==
  ASSUME NEW s \in Sessions, Known(s), ConfirmFits(s), work[s].todo # {}
  PROVE  /\ Current(s) \in DOMAIN Parsed[batches[work[s].batch].sha]
         /\ Current(s) \in Nat /\ Current(s) \in work[s].todo
         /\ Row(s) = Parsed[batches[work[s].batch].sha][Current(s)]
         /\ work[s].rows[Current(s)] = "valid"
         /\ Row(s) \in ParsedRows /\ Row(s).key \in Keys
         /\ Row(s).key \in Invoices \/ Row(s).key \in Transactions
<1>0. PICK i, x : i = Current(s) /\ x = batches[work[s].batch].sha
  OBVIOUS
<1>1. work[s].todo \subseteq Nat
  BY WorkFields DEF Known, SessionTypes
<1>2. i \in work[s].todo
  BY <1>0, <1>1, FirstIsOne DEF Current
<1>3. /\ work[s].rows \in RowStates(x) /\ Justified(x, work[s].rows, SeenBy(s))
      /\ work[s].todo = {j \in DOMAIN work[s].rows : work[s].rows[j] = "valid"}
  BY <1>0 DEF ConfirmFits, RowsFit
<1>4. x \in Statements
  BY <1>0, BatchFields DEF ConfirmFits, Known
<1>5. i \in DOMAIN Parsed[x] /\ work[s].rows[i] = "valid"
  BY <1>2, <1>3 DEF RowStates
<1>6. Row(s) = Parsed[x][i]
  BY <1>0 DEF Row, RowOf
<1>7. Parsed[x][i].key \in Keys
  BY <1>3, <1>5 DEF Justified
<1> QED BY <1>0, <1>1, <1>2, <1>4, <1>5, <1>6, <1>7, RowsOfStatement DEF Keys

(* What a disposition d says of the row under way.                         *)
Fitting(s, d) ==
  LET k == Row(s).key
      old == Seen(s, k)
  IN
  /\ d \in {"new", "duplicate", "conflict", "status_update"}
  /\ d = "new" => old = None
  /\ d # "new" => old # None
  /\ d = "duplicate" => (k \in Invoices => old.face = Row(s).face /\ old.status = Row(s).status)
  /\ d = "conflict" => k \in Invoices
  /\ d = "status_update" => k \in Invoices /\ old.face = Row(s).face /\ old.status = "normal"
  /\ d \in {"new", "status_update"} => KeyRow(k) \in held[s]

RowStateOf(d) == IF d = "duplicate" THEN "duplicate" ELSE IF d = "conflict" THEN "error" ELSE "posted"

(* The entry that is written.                                              *)
Written(s, d) ==
  IF d = "new" THEN Entry(s) ELSE [Seen(s, Row(s).key) EXCEPT !.status = Row(s).status]

(* The entry is a record of the ledger that follows from the one before.   *)
LEMMA WrittenMoves ==
  ASSUME NEW s \in Sessions, Known(s), ConfirmFits(s), work[s].todo # {}, NEW d, Fitting(s, d),
         d \in {"new", "status_update"}
  PROVE  /\ Written(s, d) \in Entries /\ Moves(Seen(s, Row(s).key), Written(s, d))
         /\ Written(s, d).face = Row(s).face /\ Written(s, d).status = Row(s).status
         /\ d = "new" => Written(s, d).batch = work[s].batch /\ Written(s, d).row = Current(s)
         /\ d # "new" => /\ Written(s, d).batch = Seen(s, Row(s).key).batch
                         /\ Written(s, d).row = Seen(s, Row(s).key).row
<1>0. PICK r, old, e, i, n : /\ r = Row(s) /\ old = Seen(s, r.key) /\ e = Written(s, d)
                             /\ i = Current(s) /\ n = work[s].batch
  OBVIOUS
<1>1. r \in ParsedRows /\ r.key \in Keys /\ i \in Nat
  BY <1>0, CurrentIsValid
<1>2. old \in Entries \cup {None} /\ n \in Nat
  BY <1>0, <1>1, SeenTypes, WorkFields DEF Known, SessionTypes
<1>3. r.face \in {q.face : q \in ParsedRows} /\ r.status \in {"normal", "red", "void"}
  BY <1>1, StatementsAssumption
<1>4. CASE d = "new"
  <2>1. e = [face |-> r.face, status |-> r.status, batch |-> n, row |-> i]
    BY <1>0, <1>4, Zenon DEF Written, Entry
  <2>2. e \in Entries /\ e.face = r.face /\ e.status = r.status /\ e.batch = n /\ e.row = i
    BY <1>1, <1>2, <1>3, <2>1 DEF Entries
  <2>3. Moves(old, e)
    BY <1>0, <1>4 DEF Fitting, Moves
  <2> QED BY <1>0, <1>4, <2>2, <2>3
<1>5. CASE d # "new"
  <2>1. e = [old EXCEPT !.status = r.status]
    BY <1>0, <1>5, Zenon DEF Written
  <2>2. old \in Entries /\ old.face = r.face /\ old.status = "normal"
    BY <1>0, <1>2, <1>5 DEF Fitting
  <2>3. e \in Entries /\ e.face = r.face /\ e.status = r.status /\ e.batch = old.batch /\ e.row = old.row
    BY <1>3, <2>1, <2>2 DEF Entries
  <2>4. Moves(old, e)
    <3>1. e # None
      BY <2>3, NoneIsNoEntry
    <3>2. e = [old EXCEPT !.status = e.status]
      BY <2>1, <2>3
    <3> QED BY <2>2, <3>1, <3>2 DEF Moves
  <2> QED BY <1>0, <1>5, <2>3, <2>4
<1> QED BY <1>4, <1>5

(* What the session has written, u, after it disposed of a row.            *)
WorkedOn(s, d, u) ==
  /\ u \in Works /\ u.file = work[s].file /\ u.batch = work[s].batch
  /\ u.snapshot = work[s].snapshot /\ u.todo = work[s].todo \ {Current(s)}
  /\ u.rows = [work[s].rows EXCEPT ![Current(s)] = RowStateOf(d)]
  /\ u.posts = IF d \in {"new", "status_update"}
               THEN [work[s].posts EXCEPT ![Row(s).key] = Written(s, d)] ELSE work[s].posts
  /\ u.dups = work[s].dups + (IF d = "duplicate" THEN 1 ELSE 0)
  /\ u.errs = work[s].errs + (IF d = "conflict" THEN 1 ELSE 0)

(* So does disposition d dispose of it.                                    *)
LEMMA DisposedFields ==
  ASSUME NEW s \in Sessions, Known(s), ConfirmFits(s), work[s].todo # {}, NEW d, Fitting(s, d),
         NEW u, u = Disposed(s, d)
  PROVE  WorkedOn(s, d, u)
<1>0. PICK w, i, k, x : w = work[s] /\ i = Current(s) /\ k = Row(s).key /\ x = batches[w.batch].sha
  OBVIOUS
<1>1. w \in Works /\ k \in Keys /\ x \in Statements /\ w.rows \in RowStates(x)
  BY <1>0, CurrentIsValid, BatchFields DEF Known, SessionTypes, ConfirmFits, RowsFit
<1>2. w.dups \in Nat /\ w.errs \in Nat /\ w.posts \in [Keys -> Entries \cup {None}]
  BY <1>1, WorkFields
<1>3. PICK v : v = [w EXCEPT !.todo = @ \ {i}]
  OBVIOUS
<1>4. /\ v \in Works /\ v.file = w.file /\ v.batch = w.batch /\ v.snapshot = w.snapshot
      /\ v.todo = w.todo \ {i} /\ v.rows = w.rows /\ v.posts = w.posts /\ v.dups = w.dups
      /\ v.errs = w.errs
  BY <1>1, <1>3 DEF Works
<1>5. PICK rows : rows = [w.rows EXCEPT ![i] = RowStateOf(d)]
  OBVIOUS
<1>6. rows \in UNION {RowStates(y) : y \in Statements}
  BY <1>1, <1>5 DEF RowStates, RowStateOf, States
<1>7. CASE d = "duplicate"
  <2>1. u = [[w EXCEPT !.todo = @ \ {i}] EXCEPT !.rows[i] = "duplicate", !.dups = @ + 1]
    BY <1>0, <1>7, Zenon DEF Disposed
  <2>2. rows = [v.rows EXCEPT ![i] = "duplicate"]
    BY <1>4, <1>5, <1>7 DEF RowStateOf
  <2>3. PICK n : n = v.dups + 1
    OBVIOUS
  <2>4. u = [v EXCEPT !.rows = rows, !.dups = n]
    BY <1>3, <2>1, <2>2, <2>3
  <2>5. n \in Nat
    BY <1>2, <1>4, <2>3
  <2>6. u \in Works /\ u.file = v.file /\ u.batch = v.batch /\ u.snapshot = v.snapshot
        /\ u.todo = v.todo /\ u.rows = rows /\ u.posts = v.posts /\ u.dups = n /\ u.errs = v.errs
    BY <1>4, <1>6, <2>4, <2>5 DEF Works
  <2> QED BY <1>0, <1>2, <1>4, <1>5, <1>7, <2>3, <2>6 DEF WorkedOn
<1>8. CASE d = "conflict"
  <2>1. u = [[w EXCEPT !.todo = @ \ {i}] EXCEPT !.rows[i] = "error", !.errs = @ + 1]
    BY <1>0, <1>8, Zenon DEF Disposed
  <2>2. rows = [v.rows EXCEPT ![i] = "error"]
    BY <1>4, <1>5, <1>8 DEF RowStateOf
  <2>3. PICK n : n = v.errs + 1
    OBVIOUS
  <2>4. u = [v EXCEPT !.rows = rows, !.errs = n]
    BY <1>3, <2>1, <2>2, <2>3
  <2>5. n \in Nat
    BY <1>2, <1>4, <2>3
  <2>6. u \in Works /\ u.file = v.file /\ u.batch = v.batch /\ u.snapshot = v.snapshot
        /\ u.todo = v.todo /\ u.rows = rows /\ u.posts = v.posts /\ u.errs = n /\ u.dups = v.dups
    BY <1>4, <1>6, <2>4, <2>5 DEF Works
  <2> QED BY <1>0, <1>2, <1>4, <1>5, <1>8, <2>3, <2>6 DEF WorkedOn
<1>9. CASE d \in {"new", "status_update"}
  <2>1. PICK e, posts : e = Written(s, d) /\ posts = [v.posts EXCEPT ![k] = e]
    OBVIOUS
  <2>2. u = [[w EXCEPT !.todo = @ \ {i}] EXCEPT !.rows[i] = "posted", !.posts[k] = e]
    <3>1. CASE d = "new"
      <4>1. e = Entry(s)
        BY <2>1, <3>1, Zenon DEF Written
      <4> QED BY <1>0, <3>1, <4>1, Zenon DEF Disposed
    <3>2. CASE d = "status_update"
      <4>1. e = [Seen(s, k) EXCEPT !.status = Row(s).status]
        BY <1>0, <2>1, <3>2, Zenon DEF Written
      <4> QED BY <1>0, <3>2, <4>1, Zenon DEF Disposed
    <3> QED BY <1>9, <3>1, <3>2
  <2>3. rows = [v.rows EXCEPT ![i] = "posted"]
    BY <1>4, <1>5, <1>9 DEF RowStateOf
  <2>4. u = [v EXCEPT !.rows = rows, !.posts = posts]
    BY <1>3, <2>1, <2>2, <2>3
  <2>5. posts \in [Keys -> Entries \cup {None}]
    <3>1. e \in Entries
      BY <1>9, <2>1, WrittenMoves
    <3> QED BY <1>2, <1>4, <2>1, <3>1
  <2>6. u \in Works /\ u.file = v.file /\ u.batch = v.batch /\ u.snapshot = v.snapshot
        /\ u.todo = v.todo /\ u.rows = rows /\ u.posts = posts /\ u.dups = v.dups /\ u.errs = v.errs
    BY <1>4, <1>6, <2>4, <2>5 DEF Works
  <2> QED BY <1>0, <1>2, <1>4, <1>5, <1>9, <2>1, <2>6 DEF WorkedOn
<1> QED BY <1>7, <1>8, <1>9 DEF Fitting

(* Records move on and on.                                                 *)
LEMMA MovesOn ==
  ASSUME NEW a \in Entries \cup {None}, NEW b \in Entries \cup {None}, NEW c \in Entries \cup {None},
         Moves(a, b), Moves(b, c), b # None
  PROVE  Moves(a, c)
BY DEF Moves, Entries

(* A row is disposed of as it should be.                                   *)
LEMMA DisposalIsQuiet ==
  ASSUME NEW s \in Sessions, Known(s), ConfirmFits(s), work[s].todo # {}, work[s].file = 0,
         work[s].snapshot = None, want[s] = {}, NEW d, Fitting(s, d),
         Goto(s, "row", Disposed(s, d)), UNCHANGED <<storage, locks, Published>>
  PROVE  Quiet(s)
<1>0. PICK i, r, k, n, x, rows, new, posts, todo :
        /\ i = Current(s) /\ r = Row(s) /\ k = r.key /\ n = work[s].batch /\ x = batches[n].sha
        /\ rows = work[s].rows /\ new = Disposed(s, d) /\ posts = work[s].posts
        /\ todo = work[s].todo
  OBVIOUS
<1>1. "row" \in Labels /\ "row" \in Confirming /\ "row" \notin Uploading \cup {"idle", "batch"}
  BY DEF Labels, Uploading, Confirming
<1>2. /\ new \in Works /\ new.file = 0 /\ new.batch = n /\ new.snapshot = None
      /\ new.todo = todo \ {i} /\ new.rows = [rows EXCEPT ![i] = RowStateOf(d)]
      /\ new.posts = IF d \in {"new", "status_update"}
                     THEN [posts EXCEPT ![k] = Written(s, d)] ELSE posts
      /\ new.dups = work[s].dups + (IF d = "duplicate" THEN 1 ELSE 0)
      /\ new.errs = work[s].errs + (IF d = "conflict" THEN 1 ELSE 0)
  <2>1. new = Disposed(s, d)
    BY <1>0
  <2>2. /\ new \in Works /\ new.file = work[s].file /\ new.batch = work[s].batch
        /\ new.snapshot = work[s].snapshot /\ new.todo = work[s].todo \ {Current(s)}
        /\ new.rows = [work[s].rows EXCEPT ![Current(s)] = RowStateOf(d)]
        /\ new.posts = IF d \in {"new", "status_update"}
                       THEN [work[s].posts EXCEPT ![Row(s).key] = Written(s, d)] ELSE work[s].posts
        /\ new.dups = work[s].dups + (IF d = "duplicate" THEN 1 ELSE 0)
        /\ new.errs = work[s].errs + (IF d = "conflict" THEN 1 ELSE 0)
    <3>1. WorkedOn(s, d, new)
      BY <2>1, DisposedFields
    <3> QED BY <3>1, Zenon DEF WorkedOn
  <2> QED BY <1>0, <2>2
<1>3. Goto(s, "row", new)
  BY <1>0
<1>4. /\ StepOf(s)
      /\ pc'[s] = "row" /\ work'[s] = new /\ held'[s] = held[s] /\ want'[s] = want[s]
  BY <1>1, <1>2, <1>3, GotoMoves DEF Known
<1>5. StoreTypes' /\ FilesFit' /\ UNCHANGED Committed
  BY <1>2, <1>4, FilesSame DEF Known
<1>6. batches' = batches /\ ledger' = ledger /\ balances' = balances
  BY <1>5 DEF Committed
<1>7. /\ n \in DOMAIN batches /\ x \in Statements /\ rows \in RowStates(x)
      /\ Justified(x, rows, SeenBy(s)) /\ BatchRow(n) \in held[s] /\ batches[n].status = "previewed"
      /\ todo = {j \in DOMAIN rows : rows[j] = "valid"}
  BY <1>0, BatchFields DEF ConfirmFits, RowsFit, Known
<1>8. /\ i \in DOMAIN Parsed[x] /\ r = Parsed[x][i] /\ rows[i] = "valid" /\ k \in Keys /\ r \in ParsedRows
      /\ k \in Invoices \/ k \in Transactions
  BY <1>0, CurrentIsValid
<1>9. RowStateOf(d) \in States \ {"valid"}
  BY DEF RowStateOf, States
<1>10. posts \in [Keys -> Entries \cup {None}] /\ ledger \in [Keys -> Entries \cup {None}]
  BY <1>0, WorkFields DEF Known, SessionTypes, StoreTypes
<1>11. d \in {"new", "status_update"} =>
         /\ Written(s, d) \in Entries /\ Written(s, d) # None /\ Moves(Seen(s, k), Written(s, d))
         /\ Written(s, d).face = r.face /\ Written(s, d).status = r.status
         /\ d = "new" => Written(s, d).batch = n /\ Written(s, d).row = i
         /\ d # "new" => /\ Written(s, d).batch = Seen(s, k).batch
                         /\ Written(s, d).row = Seen(s, k).row
  BY <1>0, WrittenMoves, NoneIsNoEntry
<1>12. \A h \in Keys : SeenBy(s)'[h] = IF d \in {"new", "status_update"} /\ h = k THEN Written(s, d)
                                       ELSE SeenBy(s)[h]
  <2> TAKE h \in Keys
  <2>1. SeenBy(s)'[h] = IF new.posts[h] # None THEN new.posts[h] ELSE ledger[h]
    BY <1>4, <1>6 DEF SeenBy, Seen
  <2>2. SeenBy(s)[h] = IF posts[h] # None THEN posts[h] ELSE ledger[h]
    BY <1>0 DEF SeenBy, Seen
  <2>3. CASE d \in {"new", "status_update"} /\ h = k
    BY <1>2, <1>8, <1>10, <1>11, <2>1, <2>3
  <2>4. CASE ~(d \in {"new", "status_update"} /\ h = k)
    <3>1. new.posts[h] = posts[h]
      BY <1>2, <1>8, <1>10, <2>4
    <3> QED BY <2>1, <2>2, <2>4, <3>1
  <2> QED BY <2>3, <2>4
<1>13. \A h \in Keys : SeenBy(s)[h] = Seen(s, h)
  BY DEF SeenBy
<1>14. Justified(x, rows, SeenBy(s)')
  <2>1. \A h \in Keys : SeenBy(s)'[h] = SeenBy(s)[h] \/ Moves(SeenBy(s)[h], SeenBy(s)'[h])
    BY <1>11, <1>12, <1>13
  <2>2. SeenBy(s) \in [Keys -> Entries \cup {None}]
    BY SeenTypes DEF Known
  <2> QED BY <1>7, <2>1, <2>2, JustifiedMoves
<1>15. Justified(x, new.rows, SeenBy(s)')
  <2>1. ASSUME RowStateOf(d) # "error" PROVE Says(SeenBy(s)', r)
    <3>1. CASE d \in {"new", "status_update"}
      <4>1. SeenBy(s)'[k] = Written(s, d)
        BY <1>8, <1>12, <3>1
      <4> QED BY <1>0, <1>11, <3>1, <4>1 DEF Says
    <3>2. CASE d = "duplicate"
      <4>1. SeenBy(s)'[k] = Seen(s, k)
        BY <1>8, <1>12, <1>13, <3>2
      <4> QED BY <1>0, <3>2, <4>1 DEF Says, Fitting
    <3> QED BY <2>1, <3>1, <3>2 DEF RowStateOf, Fitting
  <2>2. RowStateOf(d) = "error" => r.key \in Invoices
    BY <1>0 DEF RowStateOf, Fitting
  <2>3. PICK st, book : st = RowStateOf(d) /\ book = SeenBy(s)'
    OBVIOUS
  <2>4. Justified(x, [rows EXCEPT ![i] = st], book)
    BY <1>7, <1>8, <1>9, <1>14, <2>1, <2>2, <2>3, DisposalIsJustified
  <2> QED BY <1>2, <2>3, <2>4
<1>16. new.rows \in RowStates(x)
  BY <1>2, <1>7, <1>9 DEF RowStates
<1>17. new.todo = {j \in DOMAIN new.rows : new.rows[j] = "valid"}
  BY <1>2, <1>7, <1>8, <1>9 DEF RowStates
<1>18. RowsFit(s)'
  BY <1>0, <1>2, <1>4, <1>6, <1>7, <1>15, <1>16, <1>17 DEF RowsFit
<1>19. CountsFit(s)'
  <2>0. PICK st : st = RowStateOf(d)
    OBVIOUS
  <2>1. /\ \A other \in States : Count(rows, other) \in Nat
        /\ Count(new.rows, "valid") = Count(rows, "valid") - 1
        /\ Count(new.rows, st) = Count(rows, st) + 1
        /\ \A other \in States \ {"valid", st} : Count(new.rows, other) = Count(rows, other)
    <3>1. /\ IsFiniteSet(DOMAIN Parsed[x]) /\ rows \in [DOMAIN Parsed[x] -> States]
          /\ st \in States \ {"valid"} /\ new.rows = [rows EXCEPT ![i] = st]
      BY <1>2, <1>7, <1>9, <2>0, RowsOfStatement DEF RowStates
    <3>2. CountsMove(rows, new.rows, st)
      BY <1>8, <3>1, CountMoves
    <3> QED BY <3>2, Zenon DEF CountsMove
  <2>2. /\ batches[n].valid - work[s].dups - work[s].errs = Count(rows, "valid") + Count(rows, "posted")
        /\ batches[n].duplicate + work[s].dups = Count(rows, "duplicate")
        /\ batches[n].error + work[s].errs = Count(rows, "error")
    BY <1>0 DEF ConfirmFits, CountsFit
  <2>3. /\ batches[n].valid \in Int /\ batches[n].duplicate \in Int /\ batches[n].error \in Int
        /\ work[s].dups \in Nat /\ work[s].errs \in Nat
    BY <1>7, BatchFields, WorkFields DEF Known, SessionTypes
  <2>4. st = IF d = "duplicate" THEN "duplicate" ELSE IF d = "conflict" THEN "error" ELSE "posted"
    BY <2>0 DEF RowStateOf
  <2>5. {"valid", "duplicate", "error", "posted"} \subseteq States
    BY DEF States
  <2>7. /\ Count(rows, "valid") \in Nat /\ Count(rows, "posted") \in Nat
        /\ Count(rows, "duplicate") \in Nat /\ Count(rows, "error") \in Nat
    BY <2>1, <2>5
  <2>8. Count(new.rows, "valid") = Count(rows, "valid") - 1
    BY <2>1
  <2>6. /\ batches[n].valid - new.dups - new.errs = Count(new.rows, "valid") + Count(new.rows, "posted")
        /\ batches[n].duplicate + new.dups = Count(new.rows, "duplicate")
        /\ batches[n].error + new.errs = Count(new.rows, "error")
    <3>1. CASE d = "duplicate"
      <4>1. st = "duplicate" /\ new.dups = work[s].dups + 1
            /\ new.errs = work[s].errs + 0
        BY <1>2, <2>4, <3>1
      <4>2. /\ Count(new.rows, "duplicate") = Count(rows, "duplicate") + 1
          /\ Count(new.rows, "posted") = Count(rows, "posted")
          /\ Count(new.rows, "error") = Count(rows, "error")
        BY <2>1, <2>5, <4>1
      <4> QED BY <2>2, <2>3, <2>7, <2>8, <4>1, <4>2
    <3>2. CASE d = "conflict"
      <4>1. st = "error" /\ new.dups = work[s].dups + 0
            /\ new.errs = work[s].errs + 1
        BY <1>2, <2>4, <3>2
      <4>2. /\ Count(new.rows, "error") = Count(rows, "error") + 1
          /\ Count(new.rows, "posted") = Count(rows, "posted")
          /\ Count(new.rows, "duplicate") = Count(rows, "duplicate")
        BY <2>1, <2>5, <4>1
      <4> QED BY <2>2, <2>3, <2>7, <2>8, <4>1, <4>2
    <3>3. CASE d # "duplicate" /\ d # "conflict"
      <4>1. st = "posted" /\ new.dups = work[s].dups + 0
            /\ new.errs = work[s].errs + 0
        BY <1>2, <2>4, <3>3
      <4>2. /\ Count(new.rows, "posted") = Count(rows, "posted") + 1
          /\ Count(new.rows, "duplicate") = Count(rows, "duplicate")
          /\ Count(new.rows, "error") = Count(rows, "error")
        BY <2>1, <2>5, <4>1
      <4> QED BY <2>2, <2>3, <2>7, <2>8, <4>1, <4>2
    <3> QED BY <3>1, <3>2, <3>3
  <2> QED BY <1>2, <1>4, <1>6, <2>6 DEF CountsFit, Count
<1>20. \A h \in Keys : PostFits(s, h)'
  <2> TAKE h \in Keys
  <2>0. PICK e : e = new.posts[h]
    OBVIOUS
  <2> SUFFICES ASSUME e # None
               PROVE  /\ KeyRow(h) \in held[s] /\ Moves(ledger[h], e)
                      /\ \/ e.batch = n /\ ComesFrom(h, e, x, new.rows)
                         \/ ledger[h] # None
    BY <1>0, <1>2, <1>4, <1>6, <2>0 DEF PostFits
  <2>1. PostFits(s, h)
    BY DEF ConfirmFits
  <2>2. \A f : ComesFrom(h, f, x, rows) => ComesFrom(h, f, x, new.rows)
    BY <1>2, <1>7, <1>8 DEF ComesFrom, RowStates
  <2>3. CASE ~(d \in {"new", "status_update"} /\ h = k)
    <3>1. e = work[s].posts[h]
      BY <1>0, <1>2, <1>8, <1>10, <2>0, <2>3
    <3> QED BY <1>0, <2>1, <2>2, <3>1 DEF PostFits
  <2>4. CASE d \in {"new", "status_update"} /\ h = k
    <3>1. e = Written(s, d) /\ e \in Entries
      BY <1>2, <1>8, <1>10, <1>11, <2>0, <2>4
    <3>2. KeyRow(h) \in held[s]
      BY <1>0, <2>4 DEF Fitting
    <3>3. CASE posts[h] = None
      <4>1. Seen(s, k) = ledger[h]
        BY <1>0, <2>4, <3>3 DEF Seen
      <4>2. Moves(ledger[h], e)
        BY <1>11, <2>4, <3>1, <4>1
      <4>3. d = "new" => e.batch = n /\ ComesFrom(h, e, x, new.rows)
        <5> SUFFICES ASSUME d = "new" PROVE e.batch = n /\ ComesFrom(h, e, x, new.rows)
          OBVIOUS
        <5>1. e.batch = n /\ e.row = i /\ e.face = r.face
          BY <1>11, <3>1
        <5>2. new.rows[i] = "posted"
          BY <1>2, <1>7, <1>8 DEF RowStateOf, RowStates
        <5>3. Parsed[x][i].key = h /\ Parsed[x][i].face = e.face
          BY <1>0, <1>8, <2>4, <5>1
        <5> QED BY <1>8, <5>1, <5>2, <5>3 DEF ComesFrom
      <4>4. d # "new" => ledger[h] # None
        BY <1>0, <4>1 DEF Fitting
      <4> QED BY <3>2, <4>2, <4>3, <4>4
    <3>4. CASE posts[h] # None
      <4>1. Seen(s, k) = posts[h] /\ d # "new"
        BY <1>0, <2>4, <3>4 DEF Seen, Fitting
      <4>2. Moves(ledger[h], posts[h]) /\ Moves(posts[h], e)
        BY <1>0, <1>11, <2>1, <2>4, <3>1, <3>4, <4>1 DEF PostFits
      <4>3. Moves(ledger[h], e)
        BY <1>10, <3>1, <3>4, <4>2, MovesOn
      <4>4. e.batch = posts[h].batch /\ e.row = posts[h].row /\ e.face = posts[h].face
        BY <1>0, <1>11, <2>4, <3>1, <4>1 DEF Fitting
      <4>5. \/ posts[h].batch = n /\ ComesFrom(h, posts[h], x, new.rows)
            \/ ledger[h] # None
        BY <1>0, <2>1, <2>2, <3>4 DEF PostFits
      <4> QED BY <3>2, <4>3, <4>4, <4>5 DEF ComesFrom
    <3> QED BY <3>3, <3>4
  <2> QED BY <2>3, <2>4
<1>21. LabelFits(s)'
  BY <1>2, <1>4 DEF LabelFits
<1>22. ConfirmFits(s)'
  BY <1>2, <1>4, <1>6, <1>7, <1>18, <1>19, <1>20, <1>21 DEF ConfirmFits
<1>23. Local(s)'
  BY <1>1, <1>2, <1>4, <1>22 DEF Local
<1> QED BY <1>4, <1>5, <1>23 DEF Quiet

(* A row is examined: a transaction that exists is a duplicate, of another *)
(* record the key is locked.                                               *)
LEMMA ExamineIsQuiet ==
  ASSUME NEW s \in Sessions, Known(s), Examine(s)
  PROVE  Quiet(s)
<1>0. PICK k : k = Row(s).key
  OBVIOUS
<1>1. pc[s] = "row" /\ work[s].todo # {} /\ UNCHANGED <<storage, Published>>
  BY DEF Examine
<1>2. /\ "locked" \in Labels /\ {"row", "locked"} \subseteq Confirming
      /\ {"row", "locked"} \cap (Uploading \cup {"idle", "batch"}) = {}
  BY DEF Labels, Uploading, Confirming
<1>3. /\ ConfirmFits(s) /\ work[s].file = 0 /\ work[s] \in Works
      /\ want[s] = {} /\ work[s].snapshot = None
  BY <1>1, <1>2 DEF Known, Local, SessionTypes, ConfirmFits, LabelFits
<1>4. CASE k \in Transactions /\ Seen(s, k) # None
  <2>1. Goto(s, "row", Disposed(s, "duplicate")) /\ UNCHANGED locks
    BY <1>0, <1>4 DEF Examine
  <2>2. Fitting(s, "duplicate")
    BY <1>0, <1>4, StatementsAssumption DEF Fitting
  <2>3. UNCHANGED <<storage, locks, Published>>
    BY <1>1, <2>1
  <2> QED BY <1>1, <1>3, <2>1, <2>2, <2>3, DisposalIsQuiet
<1>5. CASE ~(k \in Transactions /\ Seen(s, k) # None)
  <2>1. SelectForUpdate(s, {KeyRow(k)}) /\ Goto(s, "locked", work[s])
    BY <1>0, <1>5 DEF Examine
  <2>2. /\ StepOf(s)
        /\ pc'[s] = "locked" /\ work'[s] = work[s] /\ held'[s] = held[s]
        /\ want'[s] = {KeyRow(k)} \ held[s]
    BY <1>2, <1>3, <2>1, SelectMoves DEF Known
  <2>3. StoreTypes' /\ FilesFit' /\ UNCHANGED Committed
    BY <1>1, <2>2, FilesSame DEF Known
  <2>4. (LabelFits(s)' => ConfirmFits(s)') /\ Row(s)' = Row(s)
    BY <1>3, <2>2, <2>3, ConfirmationGoesOn DEF Known
  <2>5. LabelFits(s)'
    BY <1>0, <1>1, <1>3, <2>2, <2>4 DEF LabelFits
  <2>6. Local(s)'
    BY <1>2, <1>3, <2>2, <2>4, <2>5 DEF Local
  <2> QED BY <2>2, <2>3, <2>6 DEF Quiet
<1> QED BY <1>4, <1>5

(* Under the lock of its key the row is disposed of.                       *)
LEMMA DisposeIsQuiet ==
  ASSUME NEW s \in Sessions, Known(s), Dispose(s)
  PROVE  Quiet(s)
<1>0. PICK r, old, d : r = Row(s) /\ old = Seen(s, r.key) /\ d = Disposition(old, r)
  OBVIOUS
<1>1. pc[s] = "locked" /\ want[s] = {} /\ UNCHANGED <<storage, locks, Published>>
      /\ Goto(s, "row", Disposed(s, d))
  BY <1>0 DEF Dispose, Finished
<1>2. "locked" \in Confirming /\ "locked" \notin Uploading \cup {"idle", "batch"}
  BY DEF Uploading, Confirming
<1>3. /\ ConfirmFits(s) /\ work[s].file = 0 /\ work[s].todo # {} /\ work[s].snapshot = None
      /\ KeyRow(r.key) \in held[s]
  BY <1>0, <1>1, <1>2 DEF Known, Local, ConfirmFits, LabelFits
<1>4. r.key \in Invoices \/ r.key \in Transactions
  BY <1>0, <1>3, CurrentIsValid
<1>5. /\ d \in {"new", "duplicate", "conflict", "status_update"}
      /\ d = "new" <=> old = None
      /\ d = "duplicate" => r.key \in Transactions \/ (old.face = r.face /\ old.status = r.status)
      /\ d = "conflict" => r.key \notin Transactions
      /\ d = "status_update" => /\ old.face = r.face /\ old.status = "normal" /\ r.status # "normal"
                                /\ r.key \notin Transactions
  BY <1>0, Dispositions
<1>6. Fitting(s, d)
  BY <1>0, <1>3, <1>4, <1>5, StatementsAssumption DEF Fitting
<1> QED BY <1>1, <1>3, <1>6, DisposalIsQuiet

-----------------------------------------------------------------------------
(* Quiet steps keep the invariant.                                         *)

(* Batches and records fit as before when nothing is committed.            *)
LEMMA CommittedFits ==
  ASSUME UNCHANGED Committed
  PROVE  /\ Grows /\ \A t \in Sessions : Keeps(t)
         /\ \A b \in DOMAIN batches : BatchFits(b) => BatchFits(b)'
         /\ \A k \in Keys : EntryFits(k) => EntryFits(k)'
         /\ DOMAIN batches' = DOMAIN batches
<1>1. stored' = stored /\ batches' = batches /\ ledger' = ledger /\ balances' = balances
  BY DEF Committed
<1>2. Grows /\ \A t \in Sessions : Keeps(t)
  BY <1>1 DEF Grows, Keeps
<1>3. ASSUME NEW b \in DOMAIN batches, BatchFits(b)
      PROVE  BatchFits(b)'
  <2>0. PICK rows : rows = batches[b].rows
    OBVIOUS
  <2>1. /\ \A i : RowOf(b, i)' = RowOf(b, i)
        /\ WithBalance(b, rows)' = WithBalance(b, rows)
        /\ LatestRow(b, rows)' = LatestRow(b, rows)
    BY <1>1, LatestDepends
  <2>2. batches[b].rows = rows /\ batches'[b].rows = rows
    BY <1>1, <2>0
  <2> QED BY <1>1, <1>3, <2>1, <2>2 DEF BatchFits, Count
<1>4. ASSUME NEW k \in Keys, EntryFits(k)
      PROVE  EntryFits(k)'
  BY <1>1, <1>4 DEF EntryFits
<1> QED BY <1>1, <1>2, <1>3, <1>4

(* So does every quiet step.                                               *)
LEMMA QuietKeepsInv ==
  ASSUME Inv, NEW s \in Sessions, Quiet(s)
  PROVE  Inv' /\ Grows
<1>1. /\ Grows /\ \A t \in Sessions : Keeps(t)
      /\ \A b \in DOMAIN batches : BatchFits(b)'
      /\ \A k \in Keys : EntryFits(k)'
      /\ DOMAIN batches' = DOMAIN batches
  BY CommittedFits DEF Quiet, Inv
<1>2. \A t \in Sessions \ {s} : Local(t)'
  <2> TAKE t \in Sessions \ {s}
  <2>1. Local(t) /\ Still(t) /\ Keeps(t) /\ Grows
    BY <1>1 DEF Inv, Quiet, StepOf
  <2> QED BY <2>1, OthersKnow DEF Inv
<1> QED BY <1>1, <1>2 DEF Inv, Quiet, StepOf

-----------------------------------------------------------------------------
(* The commits.                                                            *)

(* What a commit does not touch still fits.                                *)
LEMMA BatchKept ==
  ASSUME StoreTypes, Grows, NEW b \in DOMAIN batches, BatchFits(b), batches'[b] = batches[b],
         \A c \in DOMAIN batches' : batches'[c].sha = batches[b].sha => c = b
  PROVE  BatchFits(b)'
<1>0. PICK x, rows : x = batches[b].sha /\ rows = batches[b].rows
  OBVIOUS
<1>1. x \in Statements /\ x \in Shas
  BY <1>0, BatchFields, StatementsAssumption
<1>2. batches'[b].sha = x /\ batches'[b].rows = rows /\ batches[b].sha = x /\ batches[b].rows = rows
  BY <1>0
<1>3. stored'[x] # None
  BY <1>1, <1>2 DEF BatchFits, Grows
<1>4. rows \in RowStates(x) /\ Justified(x, rows, ledger')
  <2>1. rows \in RowStates(x) /\ Justified(x, rows, ledger)
    BY <1>2 DEF BatchFits
  <2>2. ledger \in [Keys -> Entries \cup {None}]
    BY DEF StoreTypes
  <2> QED BY <1>1, <2>1, <2>2, ReasonsRemain
<1>5. /\ \A i : RowOf(b, i)' = RowOf(b, i)
      /\ WithBalance(b, rows)' = WithBalance(b, rows)
      /\ LatestRow(b, rows)' = LatestRow(b, rows)
  BY LatestDepends
<1>6. batches[b].status \in Final /\ WithBalance(b, rows) # {} =>
        LET r == RowOf(b, LatestRow(b, rows)) IN balances'[r.at] = r.balance
  <2> SUFFICES ASSUME batches[b].status \in Final, WithBalance(b, rows) # {}
               PROVE  LET r == RowOf(b, LatestRow(b, rows)) IN balances'[r.at] = r.balance
    OBVIOUS
  <2>1. PICK r : r = RowOf(b, LatestRow(b, rows))
    OBVIOUS
  <2>2. balances[r.at] = r.balance
    BY <1>2, <2>1 DEF BatchFits
  <2>3. r.at \in Instants /\ r.balance # None
    BY <1>2, <1>4, <2>1, LatestRowIsParsed
  <2> QED BY <2>1, <2>2, <2>3 DEF Grows
<1>7. \A c \in DOMAIN batches' : batches'[c].sha = batches'[b].sha => c = b
  BY <1>2
<1> QED BY <1>2, <1>3, <1>4, <1>5, <1>6, <1>7 DEF BatchFits, Count

(* So does a record of another batch, also when its status moves on.       *)
LEMMA EntryKept ==
  ASSUME StoreTypes, Grows, NEW k \in Keys, EntryFits(k), ledger[k] # None
  PROVE  EntryFits(k)'
<1>1. PICK old, e : old = ledger[k] /\ e = ledger'[k]
  OBVIOUS
<1>2. old \in Entries /\ (e = old \/ Moves(old, e)) /\ old # None
  BY <1>1 DEF StoreTypes, Grows
<1>3. e.batch = old.batch /\ e.row = old.row /\ e.face = old.face
  <2>1. CASE e = old
    BY <2>1
  <2>2. CASE e = [old EXCEPT !.status = e.status]
    BY <1>2, <2>2 DEF Entries
  <2> QED BY <1>2, <2>1, <2>2 DEF Moves
<1>4. /\ old.batch \in DOMAIN batches /\ batches[old.batch].status \in Final
      /\ ComesFrom(k, old, batches[old.batch].sha, batches[old.batch].rows)
  BY <1>1, <1>2 DEF EntryFits
<1>5. old.batch \in DOMAIN batches' /\ batches'[old.batch] = batches[old.batch]
  BY <1>4 DEF Grows
<1> QED BY <1>1, <1>3, <1>4, <1>5 DEF EntryFits, ComesFrom

(* Files do not depend on what is committed beside them.                   *)
LEMMA FilesStay ==
  ASSUME FilesFit, NEW s \in Sessions, StepOf(s), UNCHANGED storage, work'[s].file = work[s].file
  PROVE  FilesFit'
<1>1. files' = files /\ stored' = stored /\ crashed' = crashed
  BY DEF storage
<1>2. \A t \in Sessions : work'[t].file = work[t].file
  BY DEF StepOf, Still
<1> QED BY <1>1, <1>2 DEF FilesFit

(* A statement is stored with its batch, a PDF alone.                      *)
LEMMA CommitUploadKeepsInv ==
  ASSUME Inv, NEW s \in Sessions, CommitUpload(s)
  PROVE  Inv' /\ Grows
<1>0. PICK w, x : w = work[s] /\ x = w.sha
  OBVIOUS
<1>1. pc[s] = "publish" /\ Publish(x, w.file) /\ Leave(s) /\ UNCHANGED <<ledger, balances>>
  BY <1>0 DEF CommitUpload
<1>2. pc[s] \in Uploading
  BY <1>1 DEF Uploading
<1>3. /\ StoreTypes /\ SessionTypes /\ FilesFit /\ LocksAreExclusive /\ Local(s)
      /\ \A b \in DOMAIN batches : BatchFits(b)
      /\ \A k \in Keys : EntryFits(k)
      /\ \A t \in Sessions : Local(t)
  BY DEF Inv
<1>4. /\ x \in Shas /\ w.file # 0 /\ held[s] = {ShaRow(x)} /\ stored[x] = None
      /\ x \in Statements => w.rows \in Staged(x) /\ Justified(x, w.rows, ledger)
  BY <1>0, <1>1, <1>2, <1>3 DEF Local, UploadFits
<1>5. StepOf(s) /\ pc'[s] = "idle" /\ work'[s] = NoWork /\ held'[s] = {} /\ want'[s] = {}
  BY <1>1, <1>3, LeaveMoves
<1>6. /\ FilesFit' /\ stored' \in [Shas -> {None} \cup 1..uploads] /\ stored'[x] # None
      /\ \A y \in Shas \ {x} : stored'[y] = stored[y]
  BY <1>0, <1>1, <1>3, <1>4, <1>5, FilePublished, NoWorkFits
<1> DEFINE new == [sha |-> x, rows |-> w.rows, status |-> "previewed",
                   valid |-> Count(w.rows, "valid"),
                   duplicate |-> Count(w.rows, "duplicate"),
                   error |-> Count(w.rows, "error")]
<1>7. batches' = IF x \in Statements THEN Append(batches, new) ELSE batches
  BY <1>0 DEF CommitUpload
<1>8. x \in Statements => new \in Batches /\ new.sha = x /\ new.rows = w.rows /\ new.status = "previewed"
                          /\ new.valid = Count(w.rows, "valid")
                          /\ new.duplicate = Count(w.rows, "duplicate")
                          /\ new.error = Count(w.rows, "error")
  <2> SUFFICES ASSUME x \in Statements
               PROVE  new \in Batches
    OBVIOUS
  <2>1. w.rows \in RowStates(x)
    BY <1>4 DEF Staged, RowStates
  <2>2. \A st : Count(w.rows, st) \in Int
    <3> TAKE st
    <3>1. {i \in DOMAIN w.rows : w.rows[i] = st} \subseteq DOMAIN Parsed[x]
      BY <2>1 DEF RowStates
    <3>2. IsFiniteSet({i \in DOMAIN w.rows : w.rows[i] = st})
      BY <3>1, RowsOfStatement, FS_Subset
    <3> QED BY <3>2, FS_CardinalityType DEF Count
  <2> QED BY <2>1, <2>2 DEF Batches
<1> HIDE DEF new
<1>9. batches \in Seq(Batches)
  BY <1>3 DEF StoreTypes
<1>10. /\ batches' \in Seq(Batches) /\ DOMAIN batches \subseteq DOMAIN batches'
       /\ \A b \in DOMAIN batches : batches'[b] = batches[b]
       /\ \A b \in DOMAIN batches' \ DOMAIN batches :
            b = Len(batches) + 1 /\ x \in Statements /\ batches'[b] = new
  BY <1>7, <1>8, <1>9
<1>11. StoreTypes'
  <2>1. uploads' = uploads /\ files' = files /\ crashed' = crashed /\ disabled' = disabled
        /\ ledger' = ledger /\ balances' = balances
    BY <1>1 DEF Publish
  <2> QED BY <1>3, <1>6, <1>10, <2>1 DEF StoreTypes
<1>12. Grows
  BY <1>1, <1>4, <1>6, <1>10 DEF Grows
<1>13. ASSUME NEW t \in Sessions \ {s} PROVE Local(t)'
  <2>1. ShaRow(x) \notin held[t]
    BY <1>3, <1>4 DEF LocksAreExclusive
  <2>2. Keeps(t)
    BY <1>1, <1>6, <1>10, <2>1 DEF Keeps
  <2>3. Still(t) /\ Local(t)
    BY <1>3, <1>5 DEF StepOf
  <2> QED BY <1>3, <1>12, <2>2, <2>3, OthersKnow
<1>14. Local(s)'
  BY <1>5, IdleFits
<1>15. ASSUME NEW b \in DOMAIN batches' PROVE BatchFits(b)'
  <2>1. ASSUME NEW c \in DOMAIN batches PROVE batches[c].sha # x
    BY <1>3, <1>4 DEF BatchFits
  <2>2. CASE b \in DOMAIN batches
    <3>1. BatchFits(b) /\ batches'[b] = batches[b]
      BY <1>3, <1>10, <2>2
    <3>2. \A c \in DOMAIN batches' : batches'[c].sha = batches[b].sha => c = b
      <4> TAKE c \in DOMAIN batches'
      <4>1. CASE c \in DOMAIN batches
        BY <1>10, <3>1, <4>1 DEF BatchFits
      <4>2. CASE c \notin DOMAIN batches
        BY <1>8, <1>10, <2>1, <2>2, <4>2
      <4> QED BY <4>1, <4>2
    <3> QED BY <1>3, <1>12, <2>2, <3>1, <3>2, BatchKept
  <2>3. CASE b \notin DOMAIN batches
    <3>1. x \in Statements /\ batches'[b] = new /\ b = Len(batches) + 1
      BY <1>10, <2>3
    <3>2. /\ new.sha = x /\ new.rows = w.rows /\ new.status = "previewed"
          /\ new.valid = Count(w.rows, "valid") /\ new.duplicate = Count(w.rows, "duplicate")
          /\ new.error = Count(w.rows, "error")
      BY <1>8, <3>1
    <3>3. \A c \in DOMAIN batches' : batches'[c].sha = x => c = b
      BY <1>10, <2>1, <3>1
    <3>4. w.rows \in RowStates(x) /\ Justified(x, w.rows, ledger')
      BY <1>1, <1>4, <3>1 DEF Staged, RowStates
    <3>5. Count(w.rows, "posted") = 0
      <4>1. w.rows \in [DOMAIN Parsed[x] -> States] /\ \A i \in DOMAIN Parsed[x] : w.rows[i] # "posted"
        BY <1>4, <3>1 DEF Staged
      <4> QED BY <4>1, CountOfNone
    <3>6. Count(w.rows, "valid") \in Int
      BY <1>8, <3>1, <3>2 DEF Batches
    <3>7. new.valid = Count(w.rows, "valid") + Count(w.rows, "posted")
      BY <3>2, <3>5, <3>6
    <3>8. "previewed" \notin Final /\ "previewed" # "completed"
      BY DEF Final
    <3>9. \A st : Count(batches'[b].rows, st) = Count(w.rows, st)
      BY <3>1, <3>2
    <3> QED BY <1>6, <3>1, <3>2, <3>3, <3>4, <3>7, <3>8, <3>9 DEF BatchFits, Count
  <2> QED BY <2>2, <2>3
<1>16. ASSUME NEW k \in Keys PROVE EntryFits(k)'
  <2>1. CASE ledger[k] = None
    BY <1>1, <2>1 DEF EntryFits
  <2>2. CASE ledger[k] # None
    BY <1>3, <1>12, <2>2, EntryKept
  <2> QED BY <2>1, <2>2
<1>17. SessionTypes' /\ LocksAreExclusive'
  BY <1>5 DEF StepOf
<1> QED BY <1>6, <1>11, <1>13, <1>14, <1>12, <1>15, <1>16, <1>17 DEF Inv

(* A confirmation posts its rows, all at once.                             *)
LEMMA CommitConfirmKeepsInv ==
  ASSUME Inv, NEW s \in Sessions, CommitConfirm(s)
  PROVE  Inv' /\ Grows
<1>0. PICK w, n, b, x, rows : /\ w = work[s] /\ n = w.batch /\ b = batches[n] /\ x = b.sha
                              /\ rows = w.rows
  OBVIOUS
<1>1. pc[s] = "confirm" /\ Leave(s) /\ UNCHANGED storage
  BY DEF CommitConfirm
<1>2. pc[s] \in Confirming /\ pc[s] \notin Uploading \cup {"idle", "batch"}
  BY <1>1 DEF Confirming, Uploading
<1>3. /\ StoreTypes /\ SessionTypes /\ FilesFit /\ LocksAreExclusive
      /\ \A c \in DOMAIN batches : BatchFits(c)
      /\ \A k \in Keys : EntryFits(k)
      /\ \A t \in Sessions : Local(t)
  BY DEF Inv
<1>4. ConfirmFits(s) /\ w.file = 0 /\ w \in Works
  BY <1>0, <1>2, <1>3 DEF Local, SessionTypes
<1>5. /\ n \in DOMAIN batches /\ BatchRow(n) \in held[s] /\ b.status = "previewed"
      /\ rows \in RowStates(x) /\ Justified(x, rows, SeenBy(s))
      /\ \A i \in DOMAIN rows : rows[i] # "valid"
  BY <1>0, <1>1, <1>4 DEF ConfirmFits, RowsFit, LabelFits
<1>6. /\ b \in Batches /\ x \in Statements /\ b.valid \in Int /\ b.duplicate \in Int /\ b.error \in Int
      /\ w.dups \in Nat /\ w.errs \in Nat
  BY <1>0, <1>3, <1>4, <1>5, BatchFields, WorkFields
<1>7. StepOf(s) /\ pc'[s] = "idle" /\ work'[s] = NoWork /\ held'[s] = {} /\ want'[s] = {}
  BY <1>1, <1>3, LeaveMoves
<1>8. PICK new : new = Confirmed(b, w)
  OBVIOUS
<1>9. batches' = [batches EXCEPT ![n] = new]
  BY <1>0, <1>8 DEF CommitConfirm
<1>10. /\ new \in Batches /\ new.sha = x /\ new.rows = rows
       /\ new.valid = b.valid - w.dups - w.errs /\ new.duplicate = b.duplicate + w.dups
       /\ new.error = b.error + w.errs
       /\ new.status = IF b.error + w.errs > 0 THEN "partial" ELSE "completed"
  <2>1. PICK v, d, e, st : /\ v = b.valid - w.dups - w.errs /\ d = b.duplicate + w.dups
                           /\ e = b.error + w.errs
                           /\ st = IF e > 0 THEN "partial" ELSE "completed"
    OBVIOUS
  <2>2. v \in Int /\ d \in Int /\ e \in Int /\ st \in {"previewed"} \cup Final
    BY <1>6, <2>1 DEF Final
  <2>3. new = [b EXCEPT !.rows = rows, !.valid = v, !.duplicate = d, !.error = e, !.status = st]
    BY <1>0, <1>8, <2>1 DEF Confirmed
  <2>4. rows \in UNION {RowStates(y) : y \in Statements}
    BY <1>5, <1>6
  <2>5. /\ new \in Batches /\ new.sha = b.sha /\ new.rows = rows /\ new.valid = v /\ new.duplicate = d
        /\ new.error = e /\ new.status = st
    BY <1>6, <2>2, <2>3, <2>4 DEF Batches
  <2> QED BY <1>0, <2>1, <2>5
<1>11. batches \in Seq(Batches)
  BY <1>3 DEF StoreTypes
<1>12. /\ batches' \in Seq(Batches) /\ DOMAIN batches' = DOMAIN batches
       /\ batches'[n] = new /\ \A c \in DOMAIN batches \ {n} : batches'[c] = batches[c]
  BY <1>5, <1>9, <1>10, <1>11
<1>13. /\ ledger' = SeenBy(s) /\ ledger' \in [Keys -> Entries \cup {None}]
       /\ \A k \in Keys : ledger'[k] = IF w.posts[k] # None THEN w.posts[k] ELSE ledger[k]
  <2>1. ledger' = SeenBy(s)
    BY DEF CommitConfirm, SeenBy
  <2> QED BY <1>0, <1>3, <2>1, SeenTypes DEF SeenBy, Seen
<1>14. \A k \in Keys : w.posts[k] # None => KeyRow(k) \in held[s] /\ Moves(ledger[k], w.posts[k])
  BY <1>0, <1>4 DEF ConfirmFits, PostFits
<1>15. \/ WithBalance(n, rows) = {} /\ w.snapshot = None
       \/ /\ SnapshotFits(s) /\ Slot(w.snapshot.at) \in held[s]
          /\ balances[w.snapshot.at] \in {None, w.snapshot.balance}
  BY <1>0, <1>1, <1>4 DEF ConfirmFits, LabelFits
<1>16. SnapshotFits(s) =>
         /\ WithBalance(n, rows) # {} /\ w.snapshot = RowOf(n, LatestRow(n, rows))
         /\ w.snapshot # None /\ w.snapshot.at \in Instants /\ w.snapshot.balance # None
  <2> SUFFICES ASSUME SnapshotFits(s)
               PROVE  /\ WithBalance(n, rows) # {} /\ w.snapshot = RowOf(n, LatestRow(n, rows))
                      /\ w.snapshot # None /\ w.snapshot.at \in Instants /\ w.snapshot.balance # None
    OBVIOUS
  <2>1. WithBalance(n, rows) # {} /\ w.snapshot = RowOf(n, LatestRow(n, rows))
    BY <1>0 DEF SnapshotFits
  <2>2. rows \in RowStates(batches[n].sha)
    BY <1>0, <1>5
  <2> QED BY <1>3, <1>5, <2>1, <2>2, LatestRowIsParsed
<1>17. balances' = IF w.snapshot = None THEN balances
                   ELSE [balances EXCEPT ![w.snapshot.at] = w.snapshot.balance]
  BY <1>0 DEF CommitConfirm
<1>18. /\ balances' = [i \in Instants |-> balances'[i]]
       /\ \A i \in Instants : \/ balances'[i] = balances[i]
                              \/ balances[i] = None /\ Slot(i) \in held[s]
       /\ SnapshotFits(s) => balances'[w.snapshot.at] = w.snapshot.balance
  <2>1. balances = [i \in Instants |-> balances[i]]
    BY <1>3 DEF StoreTypes
  <2>2. CASE WithBalance(n, rows) = {} /\ w.snapshot = None
    BY <1>16, <1>17, <2>1, <2>2
  <2>3. CASE /\ SnapshotFits(s) /\ Slot(w.snapshot.at) \in held[s]
             /\ balances[w.snapshot.at] \in {None, w.snapshot.balance}
    <3>1. PICK at, amount : at = w.snapshot.at /\ amount = w.snapshot.balance
      OBVIOUS
    <3>2. /\ at \in Instants /\ balances' = [balances EXCEPT ![at] = amount]
          /\ Slot(at) \in held[s] /\ balances[at] \in {None, amount}
      BY <1>16, <1>17, <2>3, <3>1
    <3>3. /\ balances' = [i \in Instants |-> balances'[i]] /\ balances'[at] = amount
          /\ \A i \in Instants \ {at} : balances'[i] = balances[i]
      BY <2>1, <3>2
    <3> QED BY <3>1, <3>2, <3>3
  <2> QED BY <1>15, <2>2, <2>3
<1>19. stored' = stored /\ files' = files /\ uploads' = uploads /\ crashed' = crashed
       /\ disabled' = disabled
  BY <1>1 DEF storage
<1>20. StoreTypes'
  BY <1>3, <1>12, <1>13, <1>18, <1>19 DEF StoreTypes
<1>21. FilesFit'
  BY <1>0, <1>1, <1>3, <1>4, <1>7, FilesStay, NoWorkFits
<1>22. Grows
  <2>1. batches[n].status \notin Final
    BY <1>0, <1>5 DEF Final
  <2>2. \A c \in DOMAIN batches : batches[c].status \in Final => batches'[c] = batches[c]
    BY <1>12, <2>1
  <2>3. \A c \in DOMAIN batches : batches'[c].sha = batches[c].sha
    BY <1>0, <1>10, <1>12
  <2>4. \A k \in Keys : ledger'[k] = ledger[k] \/ Moves(ledger[k], ledger'[k])
    BY <1>13, <1>14
  <2> QED BY <1>12, <1>18, <1>19, <2>2, <2>3, <2>4 DEF Grows
<1>23. ASSUME NEW t \in Sessions \ {s} PROVE Local(t)'
  <2>1. held[s] \cap held[t] = {}
    BY <1>3 DEF LocksAreExclusive
  <2>2. Keeps(t)
    BY <1>5, <1>12, <1>13, <1>14, <1>18, <1>19, <2>1 DEF Keeps
  <2>3. Still(t) /\ Local(t)
    BY <1>3, <1>7 DEF StepOf
  <2> QED BY <1>3, <1>22, <2>2, <2>3, OthersKnow
<1>24. Local(s)'
  BY <1>7, IdleFits
<1>25. ASSUME NEW c \in DOMAIN batches \ {n} PROVE BatchFits(c)'
  <2>1. BatchFits(c) /\ batches'[c] = batches[c] /\ c \in DOMAIN batches
    BY <1>3, <1>12
  <2>2. \A d \in DOMAIN batches' : batches'[d].sha = batches[c].sha => d = c
    BY <1>12, <1>22, <2>1 DEF BatchFits, Grows
  <2> QED BY <1>3, <1>22, <2>1, <2>2, BatchKept
<1>26. BatchFits(n)'
  <2>1. /\ \A i : RowOf(n, i)' = RowOf(n, i)
        /\ WithBalance(n, rows)' = WithBalance(n, rows)
        /\ LatestRow(n, rows)' = LatestRow(n, rows)
    BY <1>0, <1>10, <1>12, LatestDepends
  <2>2. BatchFits(n)
    BY <1>3, <1>5
  <2>3. stored'[x] # None /\ \A c \in DOMAIN batches' : batches'[c].sha = x => c = n
    BY <1>0, <1>12, <1>19, <1>22, <2>2 DEF BatchFits, Grows
  <2>4. /\ new.valid = Count(rows, "valid") + Count(rows, "posted")
        /\ new.duplicate = Count(rows, "duplicate") /\ new.error = Count(rows, "error")
    BY <1>0, <1>4, <1>10 DEF ConfirmFits, CountsFit
  <2>5. new.status = "completed" => new.error = 0
    <3>1. IsFiniteSet({i \in DOMAIN rows : rows[i] = "error"})
      <4>1. {i \in DOMAIN rows : rows[i] = "error"} \subseteq DOMAIN Parsed[x]
        BY <1>5 DEF RowStates
      <4> QED BY <1>6, <4>1, RowsOfStatement, FS_Subset
    <3>2. new.error \in Nat
      BY <2>4, <3>1, FS_CardinalityType DEF Count
    <3>3. new.status = "completed" => ~(new.error > 0)
      BY <1>10
    <3> QED BY <3>2, <3>3
  <2>6. WithBalance(n, rows) # {} =>
          LET r == RowOf(n, LatestRow(n, rows)) IN balances'[r.at] = r.balance
    BY <1>15, <1>16, <1>18
  <2>7. batches'[n].sha = x /\ batches'[n].rows = rows
    BY <1>10, <1>12
  <2> QED BY <1>5, <1>12, <1>13, <2>1, <2>3, <2>4, <2>5, <2>6, <2>7 DEF BatchFits, Count
<1>27. ASSUME NEW k \in Keys PROVE EntryFits(k)'
  <2>1. CASE ledger[k] # None
    BY <1>3, <1>22, <2>1, EntryKept
  <2>2. CASE ledger[k] = None /\ w.posts[k] = None
    BY <1>13, <2>2 DEF EntryFits
  <2>3. CASE ledger[k] = None /\ w.posts[k] # None
    <3>1. PICK e : e = w.posts[k]
      OBVIOUS
    <3>2. e.batch = n /\ ComesFrom(k, e, x, rows)
      BY <1>0, <1>4, <2>3, <3>1 DEF ConfirmFits, PostFits
    <3>3. new.status \in Final
      BY <1>10 DEF Final
    <3> QED BY <1>5, <1>10, <1>12, <1>13, <2>3, <3>1, <3>2, <3>3 DEF EntryFits
  <2> QED BY <2>1, <2>2, <2>3
<1>28. SessionTypes' /\ LocksAreExclusive'
  BY <1>7 DEF StepOf
<1>29. \A c \in DOMAIN batches' : BatchFits(c)'
  BY <1>12, <1>25, <1>26
<1> QED BY <1>20, <1>21, <1>22, <1>23, <1>24, <1>27, <1>28, <1>29 DEF Inv

(* An attachment is disabled: nothing else changes.                        *)
LEMMA DisableKeepsInv ==
  ASSUME Inv, NEW x \in Shas, DisableAttachment(x)
  PROVE  Inv' /\ Grows
<1>1. /\ x \notin Statements /\ disabled' = disabled \cup {x}
      /\ files' = files /\ uploads' = uploads /\ stored' = stored /\ crashed' = crashed
      /\ held' = held /\ want' = want /\ pc' = pc /\ work' = work
      /\ batches' = batches /\ ledger' = ledger /\ balances' = balances
  BY DEF DisableAttachment, Disable, locks, Published
<1>2. UNCHANGED Committed
  BY <1>1 DEF Committed
<1>3. /\ Grows /\ \A t \in Sessions : Keeps(t)
      /\ \A b \in DOMAIN batches' : BatchFits(b)'
      /\ \A k \in Keys : EntryFits(k)'
  BY <1>2, CommittedFits DEF Inv
<1>4. \A t \in Sessions : Local(t)'
  BY <1>1, <1>3, OthersKnow DEF Inv, Still
<1>5. StoreTypes' /\ SessionTypes' /\ FilesFit' /\ LocksAreExclusive'
  BY <1>1 DEF Inv, StoreTypes, SessionTypes, FilesFit, LocksAreExclusive
<1> QED BY <1>3, <1>4, <1>5 DEF Inv

-----------------------------------------------------------------------------
(* The theorems.                                                           *)

(* The invariant holds before the first request.                           *)
LEMMA InitInv == Init => Inv
<1> SUFFICES ASSUME Init PROVE Inv
  OBVIOUS
<1>1. /\ files = {} /\ uploads = 0 /\ crashed = {} /\ stored = [x \in Shas |-> None] /\ disabled = {}
      /\ held = [s \in Sessions |-> {}] /\ want = [s \in Sessions |-> {}]
      /\ batches = <<>> /\ ledger = [k \in Keys |-> None] /\ balances = [t \in Instants |-> None]
      /\ pc = [s \in Sessions |-> "idle"] /\ work = [s \in Sessions |-> NoWork]
  BY DEF Init, UploadsInit, LocksInit
<1>2. StoreTypes
  <2>1. batches \in Seq(Batches) /\ ledger \in [Keys -> Entries \cup {None}]
        /\ stored \in [Shas -> {None} \cup 1..uploads] /\ balances = [t \in Instants |-> balances[t]]
    BY <1>1
  <2> QED BY <1>1, <2>1, UploadBoundsAssumption DEF StoreTypes
<1>3. SessionTypes
  <2>1. "idle" \in Labels
    BY DEF Labels
  <2> QED BY <1>1, <2>1, NoWorkFits DEF SessionTypes
<1>4. FilesFit
  BY <1>1, NoWorkFits DEF FilesFit
<1>5. LocksAreExclusive
  BY <1>1 DEF LocksAreExclusive
<1>6. \A s \in Sessions : Local(s)
  BY <1>1, NoWorkFits DEF Local, Uploading, Confirming
<1>7. DOMAIN batches = {}
  BY <1>1
<1>8. \A k \in Keys : EntryFits(k)
  BY <1>1 DEF EntryFits
<1> QED BY <1>2, <1>3, <1>4, <1>5, <1>6, <1>7, <1>8 DEF Inv

(* Every step keeps the invariant, and takes nothing back.                 *)
LEMMA InvStep == Inv /\ [Next]_vars => Inv' /\ Grows
<1> SUFFICES ASSUME Inv, [Next]_vars PROVE Inv' /\ Grows
  OBVIOUS
<1>1. CASE UNCHANGED vars
  <2>1. /\ files' = files /\ uploads' = uploads /\ stored' = stored /\ disabled' = disabled
        /\ crashed' = crashed /\ held' = held /\ want' = want
        /\ batches' = batches /\ ledger' = ledger /\ balances' = balances
        /\ pc' = pc /\ work' = work
    BY <1>1 DEF vars, storage, locks
  <2>2. UNCHANGED Committed
    BY <2>1 DEF Committed
  <2>3. /\ Grows /\ \A t \in Sessions : Keeps(t)
        /\ \A b \in DOMAIN batches' : BatchFits(b)'
        /\ \A k \in Keys : EntryFits(k)'
    BY <2>2, CommittedFits DEF Inv
  <2>4. \A t \in Sessions : Local(t)'
    BY <2>1, <2>3, OthersKnow DEF Inv, Still
  <2>5. StoreTypes' /\ SessionTypes' /\ FilesFit' /\ LocksAreExclusive'
    BY <2>1 DEF Inv, StoreTypes, SessionTypes, FilesFit, LocksAreExclusive
  <2> QED BY <2>3, <2>4, <2>5 DEF Inv
<1>2. ASSUME NEW s \in Sessions, Request(s) \/ Step(s) \/ Fail(s) \/ WorkerDies(s)
      PROVE  Inv' /\ Grows
  <2>1. Known(s) /\ \A b \in DOMAIN batches : BatchFits(b)
    BY DEF Inv, Known
  <2>2. CASE \E x \in Shas : Upload(s, x)
    BY <2>1, <2>2, UploadIsQuiet, QuietKeepsInv
  <2>3. CASE \E b \in DOMAIN batches : Confirm(s, b)
    BY <2>1, <2>3, ConfirmIsQuiet, QuietKeepsInv
  <2>4. CASE Lock(s)
    BY <2>1, <2>4, LockIsQuiet, QuietKeepsInv
  <2>5. CASE WriteSource(s)
    BY <2>1, <2>5, WriteSourceIsQuiet, QuietKeepsInv
  <2>6. CASE InsertSource(s)
    BY <2>1, <2>6, InsertSourceIsQuiet, QuietKeepsInv
  <2>7. CASE CommitUpload(s)
    BY <2>7, CommitUploadKeepsInv
  <2>8. CASE BatchLocked(s)
    BY <2>1, <2>8, BatchLockedIsQuiet, QuietKeepsInv
  <2>9. CASE Examine(s)
    BY <2>1, <2>9, ExamineIsQuiet, QuietKeepsInv
  <2>10. CASE Dispose(s)
    BY <2>1, <2>10, DisposeIsQuiet, QuietKeepsInv
  <2>11. CASE RowsDone(s)
    BY <2>1, <2>11, RowsDoneIsQuiet, QuietKeepsInv
  <2>12. CASE Snapshot(s)
    BY <2>1, <2>12, SnapshotIsQuiet, QuietKeepsInv
  <2>13. CASE CommitConfirm(s)
    BY <2>13, CommitConfirmKeepsInv
  <2>14. CASE Fail(s)
    BY <2>1, <2>14, FailIsQuiet, QuietKeepsInv
  <2>15. CASE WorkerDies(s)
    BY <2>1, <2>15, DeathIsQuiet, QuietKeepsInv
  <2> QED BY <1>2, <2>2, <2>3, <2>4, <2>5, <2>6, <2>7, <2>8, <2>9, <2>10, <2>11, <2>12, <2>13,
             <2>14, <2>15 DEF Request, Step
<1>3. ASSUME NEW x \in Shas, DisableAttachment(x) PROVE Inv' /\ Grows
  BY <1>3, DisableKeepsInv
<1> QED BY <1>1, <1>2, <1>3 DEF Next

(* stage_upload, confirm_batch: whatever the workers do at once, every     *)
(* batch fits its statement, every record its row, every file its content, *)
(* and every transaction under way knows what is so.                       *)
THEOREM ImportsInvariance == Spec => []Inv
BY InitInv, InvStep, PTL DEF Spec

(* Every variable keeps its type, and a session without a request holds    *)
(* nothing, for any number of sessions.                                    *)
THEOREM TypeCorrectness == Spec => []TypeOK
<1>1. Inv => TypeOK
  <2> SUFFICES ASSUME Inv PROVE TypeOK
    OBVIOUS
  <2>1. ASSUME NEW b \in DOMAIN batches
        PROVE  /\ batches[b].sha \in Statements
               /\ \A i \in DOMAIN batches[b].rows : batches[b].rows[i] \in States
    <3>1. batches[b].rows \in RowStates(batches[b].sha)
      BY DEF Inv, BatchFits
    <3> QED BY <3>1, BatchFields DEF Inv, RowStates
  <2>2. \A s \in Sessions : pc[s] = "idle" => work[s] = NoWork /\ held[s] = {} /\ want[s] = {}
    BY DEF Inv, Local
  <2>3. \A x \in Shas : stored[x] \in {None} \cup 1..uploads
    BY DEF Inv, StoreTypes
  <2> QED BY <2>1, <2>2, <2>3 DEF TypeOK, Inv, StoreTypes
<1> QED BY <1>1, ImportsInvariance, PTL

(* confirm_batch: every record of the ledger comes from a posted row of a  *)
(* confirmed batch, the only one of its stored statement.                  *)
THEOREM Traceable == Spec => []LedgerIsTraceable
<1>1. Inv => LedgerIsTraceable
  <2> SUFFICES ASSUME Inv, NEW k \in Keys, ledger[k] # None
               PROVE  LET e == ledger[k] IN
                      /\ batches[e.batch].status \in Final
                      /\ batches[e.batch].rows[e.row] = "posted"
                      /\ RowOf(e.batch, e.row).key = k /\ RowOf(e.batch, e.row).face = e.face
                      /\ stored[batches[e.batch].sha] \in files
                      /\ \A b \in DOMAIN batches \ {e.batch} : batches[b].sha # batches[e.batch].sha
    BY DEF LedgerIsTraceable
  <2>1. PICK e, x : e = ledger[k] /\ x = batches[e.batch].sha
    OBVIOUS
  <2>2. e.batch \in DOMAIN batches /\ batches[e.batch].status \in Final
        /\ ComesFrom(k, e, x, batches[e.batch].rows)
    BY <2>1 DEF Inv, EntryFits
  <2>3. stored[x] # None /\ \A c \in DOMAIN batches : batches[c].sha = x => c = e.batch
    BY <2>1, <2>2 DEF Inv, BatchFits
  <2>4. x \in Shas
    BY <2>1, <2>2, BatchFields, StatementsAssumption DEF Inv
  <2>5. stored[x] \in files
    BY <2>3, <2>4 DEF Inv, FilesFit
  <2> QED BY <2>1, <2>2, <2>3, <2>5 DEF ComesFrom, RowOf
<1> QED BY <1>1, ImportsInvariance, PTL

(* confirm_batch, ImportResult: no row of a confirmed statement is lost    *)
(* without a trace, and the counters tell how many there are.              *)
THEOREM NothingDropped == Spec => []NoRowIsDropped
<1>1. Inv => NoRowIsDropped
  <2> SUFFICES ASSUME Inv PROVE NoRowIsDropped
    OBVIOUS
  <2>1. CountersFit
    BY DEF Inv, BatchFits, CountersFit
  <2>2. ASSUME NEW b \in DOMAIN batches, batches[b].status \in Final,
               NEW i \in DOMAIN batches[b].rows
        PROVE  /\ batches[b].rows[i] \in {"posted", "duplicate", "error"}
               /\ batches[b].rows[i] = "posted" => Recorded(RowOf(b, i))
               /\ batches[b].rows[i] = "duplicate" => Recorded(RowOf(b, i)) \/ RefusedBefore(b, i)
    <3>0. PICK x, rows : x = batches[b].sha /\ rows = batches[b].rows
      OBVIOUS
    <3>1. /\ rows \in RowStates(x) /\ Justified(x, rows, ledger)
          /\ \A j \in DOMAIN rows : rows[j] # "valid"
      BY <2>2, <3>0 DEF Inv, BatchFits
    <3>2. x \in Statements
      BY <3>0, BatchFields DEF Inv
    <3>3. i \in DOMAIN Parsed[x] /\ DOMAIN rows = DOMAIN Parsed[x] /\ rows[i] \in States
      BY <3>0, <3>1 DEF RowStates
    <3>4. \A j \in 1..(i - 1) : j \in DOMAIN rows
      BY <3>2, <3>3, RowsOfStatement
    <3>5. RowOf(b, i) = Parsed[x][i] /\ \A j : RowOf(b, j) = Parsed[x][j]
      BY <3>0 DEF RowOf
    <3>6. /\ rows[i] = "posted" => Says(ledger, Parsed[x][i])
          /\ rows[i] = "duplicate" => \/ Says(ledger, Parsed[x][i])
                                      \/ \E j \in 1..(i - 1) : rows[j] = "error" /\ Same(x, i, j)
      BY <3>1, <3>3, <3>4 DEF Justified
    <3>7. Says(ledger, Parsed[x][i]) => Recorded(RowOf(b, i))
      BY <3>5 DEF Says, Recorded
    <3>8. (\E j \in 1..(i - 1) : rows[j] = "error" /\ Same(x, i, j)) => RefusedBefore(b, i)
      BY <3>0, <3>5 DEF Same, RefusedBefore
    <3> QED BY <3>0, <3>1, <3>3, <3>6, <3>7, <3>8 DEF States
  <2> QED BY <2>1, <2>2 DEF NoRowIsDropped
<1> QED BY <1>1, ImportsInvariance, PTL

(* _create_balance_snapshot: the balance on record is the one that every   *)
(* confirmed statement gives for its last instant.                         *)
THEOREM BalancesAgreed == Spec => []BalancesAgree
<1>1. Inv => BalancesAgree
  BY DEF Inv, BatchFits, BalancesAgree
<1> QED BY <1>1, ImportsInvariance, PTL

(* _delete_uncommitted_source_file: no stored content loses its file, and  *)
(* only a worker that died leaves one behind.                              *)
THEOREM FilesOwned == Spec => []FilesAreOwned
<1>1. Inv => FilesAreOwned
  BY DEF Inv, FilesFit, FilesAreOwned
<1> QED BY <1>1, ImportsInvariance, PTL

(* _invoice_disposition, _update_invoice_status: a record stays, and the   *)
(* status of an invoice moves from normal to red or void, and no further.  *)
THEOREM StatusForward == Spec => StatusMovesForward
<1>1. Inv /\ [Next]_vars =>
        [\A k \in Keys : ledger[k] # None =>
           ledger'[k] = ledger[k] \/ (ledger[k].status = "normal"
                                      /\ ledger'[k] = [ledger[k] EXCEPT !.status = ledger'[k].status])]_vars
  BY InvStep DEF Grows, Moves
<1> QED BY <1>1, ImportsInvariance, PTL DEF Spec, StatusMovesForward
================================================================================
