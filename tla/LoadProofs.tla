----------------------------- MODULE LoadProofs -----------------------------
(***************************************************************************)
(* What the verdict of a load run is worth, for any number of requests in  *)
(* flight, users, orders, faults of the target and rings: every call is    *)
(* counted once, a target that does its job is accused of nothing but what *)
(* the run itself cannot tell apart, and one that does not is found out by *)
(* the run that met its fault.                                             *)
(***************************************************************************)
EXTENDS Load, SimulationProofs

-----------------------------------------------------------------------------
(***************************************************************************)
(* What the folds of the orders table are, and what becomes of them when a *)
(* row is added or its status changes.                                     *)
(***************************************************************************)
LEMMA DeltasAreInts ==
  ASSUME NEW r \in Rows
  PROVE  cashDelta(r) \in Int /\ shareDelta(r) \in Int
<1>1. r.price \in Int /\ r.size \in Nat
  BY DEF Rows
<1>2. \A a, b \in Int : a * b \in Int
  OBVIOUS
<1> DEFINE cost == r.price * r.size
<1>3. cost \in Int
  BY <1>1, <1>2
<1> HIDE DEF cost
<1>4. cashDelta(r) = IF r.status # "FILLED" THEN 0
                     ELSE IF r.side \in {"CASH_IN", "SELL"} THEN cost
                     ELSE IF r.side \in {"CASH_OUT", "BUY"} THEN - cost ELSE 0
  BY DEF cashDelta, cost
<1> QED
  BY <1>1, <1>3, <1>4 DEF shareDelta

(* A book: rows under ids that are numbers.                                *)
IsBook(b) == IsFiniteSet(DOMAIN b) /\ DOMAIN b \subseteq Nat \ {0} /\ \A n \in DOMAIN b : b[n] \in Rows

LEMMA BookIs ==
  ASSUME NEW b \in Seq(Rows)
  PROVE  IsBook(b) /\ DOMAIN b = 1 .. Len(b) /\ Len(b) \in Nat
<1>1. DOMAIN b = 1 .. Len(b) /\ Len(b) \in Nat /\ \A n \in DOMAIN b : b[n] \in Rows
  OBVIOUS
<1>2. IsFiniteSet(1 .. Len(b))
  BY <1>1, FS_Interval
<1> QED
  BY <1>1, <1>2 DEF IsBook

LEMMA FoldsAreInts ==
  ASSUME NEW b, IsBook(b), NEW ids \in SUBSET DOMAIN b
  PROVE  /\ cashFold(b, ids) \in Int /\ shareFold(b, ids) \in Int
         /\ IsFiniteSet(ids)
         /\ [n \in ids |-> cashDelta(b[n])] \in [ids -> Int]
         /\ [n \in ids |-> shareDelta(b[n])] \in [ids -> Int]
<1>1. IsFiniteSet(ids)
  BY FS_Subset DEF IsBook
<1>2. \A n \in ids : cashDelta(b[n]) \in Int /\ shareDelta(b[n]) \in Int
  BY DeltasAreInts DEF IsBook
<1>3. /\ [n \in ids |-> cashDelta(b[n])] \in [ids -> Int]
      /\ [n \in ids |-> shareDelta(b[n])] \in [ids -> Int]
  BY <1>2
<1> QED
  BY <1>1, <1>3, SumIsInt DEF cashFold, shareFold

LEMMA FoldsOfNone ==
  ASSUME NEW b
  PROVE  cashFold(b, {}) = 0 /\ shareFold(b, {}) = 0
<1>1. /\ [n \in {} |-> cashDelta(b[n])] \in [{} -> Int]
      /\ [n \in {} |-> shareDelta(b[n])] \in [{} -> Int]
  OBVIOUS
<1> QED
  BY <1>1, SumOfNone DEF cashFold, shareFold

(* Rows that move the same have the same folds.                            *)
LEMMA FoldsAgree ==
  ASSUME NEW b, NEW c, NEW ids,
         \A n \in ids : cashDelta(c[n]) = cashDelta(b[n]) /\ shareDelta(c[n]) = shareDelta(b[n])
  PROVE  cashFold(c, ids) = cashFold(b, ids) /\ shareFold(c, ids) = shareFold(b, ids)
<1>1. /\ [n \in ids |-> cashDelta(c[n])] = [n \in ids |-> cashDelta(b[n])]
      /\ [n \in ids |-> shareDelta(c[n])] = [n \in ids |-> shareDelta(b[n])]
  OBVIOUS
<1> QED
  BY <1>1 DEF cashFold, shareFold

LEMMA FoldsWithOneMore ==
  ASSUME NEW b, IsBook(b), NEW ids \in SUBSET DOMAIN b, NEW n \in DOMAIN b, n \notin ids
  PROVE  /\ cashFold(b, ids \cup {n}) = cashFold(b, ids) + cashDelta(b[n])
         /\ shareFold(b, ids \cup {n}) = shareFold(b, ids) + shareDelta(b[n])
<1> DEFINE T == ids \cup {n}
           cashes == [m \in ids |-> cashDelta(b[m])]  cashesT == [m \in T |-> cashDelta(b[m])]
           shares == [m \in ids |-> shareDelta(b[m])]  sharesT == [m \in T |-> shareDelta(b[m])]
<1>1. /\ IsFiniteSet(ids) /\ cashes \in [ids -> Int] /\ shares \in [ids -> Int]
      /\ cashFold(b, ids) \in Int /\ shareFold(b, ids) \in Int
  BY FoldsAreInts
<1>2. T \in SUBSET DOMAIN b
  OBVIOUS
<1>3. cashesT \in [T -> Int] /\ sharesT \in [T -> Int]
  BY <1>2, FoldsAreInts
<1>4. /\ \A m \in ids : cashesT[m] = cashes[m] /\ sharesT[m] = shares[m]
      /\ cashesT[n] = cashDelta(b[n]) /\ sharesT[n] = shareDelta(b[n])
  OBVIOUS
<1>5. cashDelta(b[n]) \in Int /\ shareDelta(b[n]) \in Int
  BY DeltasAreInts DEF IsBook
<1>6. /\ SumFunction(cashes) = cashFold(b, ids) /\ SumFunction(cashesT) = cashFold(b, T)
      /\ SumFunction(shares) = shareFold(b, ids) /\ SumFunction(sharesT) = shareFold(b, T)
  BY DEF cashFold, shareFold
<1>9. IsFiniteSet(ids) /\ n \notin ids /\ T = ids \cup {n}
  BY <1>1
<1> HIDE DEF T, cashes, cashesT, shares, sharesT
<1>7. \A f \in [ids -> Int] : \A e \in [T -> Int] :
        (\A m \in ids : e[m] = f[m]) => SumFunction(e) = e[n] + SumFunction(f)
  BY <1>9, SumsJoined, Z3
<1>8. /\ SumFunction(cashesT) = cashesT[n] + SumFunction(cashes)
      /\ SumFunction(sharesT) = sharesT[n] + SumFunction(shares)
  BY <1>1, <1>3, <1>4, <1>7
<1>10. /\ cashFold(b, T) = cashFold(b, ids) + cashDelta(b[n])
       /\ shareFold(b, T) = shareFold(b, ids) + shareDelta(b[n])
  BY <1>1, <1>4, <1>5, <1>6, <1>8
<1> QED
  BY <1>10 DEF T

(***************************************************************************)
(* c is b with one row more, under the next id.                            *)
(***************************************************************************)
Extends(b, c, r) ==
  /\ Len(c) = Len(b) + 1
  /\ c[Len(c)] = r
  /\ \A n \in 1 .. Len(b) : c[n] = b[n]

LEMMA AppendExtends ==
  ASSUME NEW b \in Seq(Rows), NEW r \in Rows
  PROVE  Append(b, r) \in Seq(Rows) /\ Extends(b, Append(b, r), r)
BY DEF Extends

LEMMA BooksExtended ==
  ASSUME NEW b \in Seq(Rows), NEW c \in Seq(Rows), NEW r \in Rows, Extends(b, c, r), NEW u
  PROVE  /\ OwnedBy(c, u) = OwnedBy(b, u) \cup (IF r.userId = u THEN {Len(c)} ELSE {})
         /\ \A i : Position(c, u, i)
                     = Position(b, u, i) \cup
                         (IF r.userId = u /\ r.instrumentId = i THEN {Len(c)} ELSE {})
<1>1. /\ DOMAIN b = 1 .. Len(b) /\ Len(b) \in Nat /\ DOMAIN c = 1 .. Len(c)
      /\ DOMAIN c = DOMAIN b \cup {Len(c)} /\ Len(c) \notin DOMAIN b
      /\ c[Len(c)] = r /\ \A n \in DOMAIN b : c[n] = b[n]
  BY BookIs DEF Extends
<1>2. \A n : n \in OwnedBy(c, u) <=> n \in OwnedBy(b, u) \cup (IF r.userId = u THEN {Len(c)} ELSE {})
  BY <1>1 DEF OwnedBy
<1>3. ASSUME NEW i, NEW n
      PROVE  n \in Position(c, u, i)
               <=> n \in Position(b, u, i) \cup
                         (IF r.userId = u /\ r.instrumentId = i THEN {Len(c)} ELSE {})
  BY <1>1, <1>2 DEF Position, OwnedBy
<1> QED
  BY <1>2, <1>3

LEMMA FoldsExtended ==
  ASSUME NEW b \in Seq(Rows), NEW c \in Seq(Rows), NEW r \in Rows, Extends(b, c, r)
  PROVE  /\ \A ids \in SUBSET DOMAIN b :
              cashFold(c, ids) = cashFold(b, ids) /\ shareFold(c, ids) = shareFold(b, ids)
         /\ \A u : cashFold(c, OwnedBy(c, u))
                     = cashFold(b, OwnedBy(b, u)) + (IF r.userId = u THEN cashDelta(r) ELSE 0)
         /\ \A u, i : shareFold(c, Position(c, u, i))
                        = shareFold(b, Position(b, u, i))
                            + (IF r.userId = u /\ r.instrumentId = i THEN shareDelta(r) ELSE 0)
<1>1. /\ IsBook(b) /\ IsBook(c) /\ DOMAIN b = 1 .. Len(b) /\ DOMAIN c = 1 .. Len(c)
      /\ Len(b) \in Nat /\ Len(c) = Len(b) + 1 /\ c[Len(c)] = r
      /\ Len(c) \in DOMAIN c /\ Len(c) \notin DOMAIN b
      /\ \A n \in DOMAIN b : c[n] = b[n]
      /\ \A ids \in SUBSET DOMAIN b : ids \in SUBSET DOMAIN c
  BY BookIs DEF Extends
<1>2. ASSUME NEW ids \in SUBSET DOMAIN b
      PROVE  cashFold(c, ids) = cashFold(b, ids) /\ shareFold(c, ids) = shareFold(b, ids)
  <2>1. \A n \in ids : c[n] = b[n]
    BY <1>1
  <2> QED
    BY <2>1, FoldsAgree
<1>3. ASSUME NEW ids \in SUBSET DOMAIN b
      PROVE  /\ cashFold(c, ids \cup {Len(c)}) = cashFold(b, ids) + cashDelta(r)
             /\ shareFold(c, ids \cup {Len(c)}) = shareFold(b, ids) + shareDelta(r)
             /\ cashFold(b, ids) \in Int /\ shareFold(b, ids) \in Int
  <2>1. ids \in SUBSET DOMAIN c /\ Len(c) \notin ids
    BY <1>1
  <2>2. /\ cashFold(c, ids \cup {Len(c)}) = cashFold(c, ids) + cashDelta(c[Len(c)])
        /\ shareFold(c, ids \cup {Len(c)}) = shareFold(c, ids) + shareDelta(c[Len(c)])
    BY <1>1, <2>1, FoldsWithOneMore
  <2> QED
    BY <1>1, <1>2, <2>2, FoldsAreInts
<1>4. ASSUME NEW u
      PROVE  cashFold(c, OwnedBy(c, u))
               = cashFold(b, OwnedBy(b, u)) + (IF r.userId = u THEN cashDelta(r) ELSE 0)
  <2>1. OwnedBy(b, u) \in SUBSET DOMAIN b
    BY DEF OwnedBy
  <2>2. OwnedBy(c, u) = OwnedBy(b, u) \cup (IF r.userId = u THEN {Len(c)} ELSE {})
    BY BooksExtended
  <2>3. CASE r.userId = u
    <3>1. OwnedBy(c, u) = OwnedBy(b, u) \cup {Len(c)}
      BY <2>2, <2>3
    <3> QED
      BY <1>3, <2>1, <2>3, <3>1
  <2>4. CASE r.userId # u
    <3>1. OwnedBy(c, u) = OwnedBy(b, u)
      BY <2>2, <2>4
    <3>2. /\ cashFold(c, OwnedBy(b, u)) = cashFold(b, OwnedBy(b, u))
          /\ cashFold(b, OwnedBy(b, u)) \in Int
      BY <1>2, <1>3, <2>1
    <3> QED
      BY <2>4, <3>1, <3>2
  <2> QED
    BY <2>3, <2>4
<1>5. ASSUME NEW u, NEW i
      PROVE  shareFold(c, Position(c, u, i))
               = shareFold(b, Position(b, u, i))
                   + (IF r.userId = u /\ r.instrumentId = i THEN shareDelta(r) ELSE 0)
  <2>1. Position(b, u, i) \in SUBSET DOMAIN b
    BY DEF Position, OwnedBy
  <2>2. Position(c, u, i) = Position(b, u, i) \cup
                              (IF r.userId = u /\ r.instrumentId = i THEN {Len(c)} ELSE {})
    BY BooksExtended
  <2>3. CASE r.userId = u /\ r.instrumentId = i
    <3>1. Position(c, u, i) = Position(b, u, i) \cup {Len(c)}
      BY <2>2, <2>3
    <3> QED
      BY <1>3, <2>1, <2>3, <3>1
  <2>4. CASE ~ (r.userId = u /\ r.instrumentId = i)
    <3>1. Position(c, u, i) = Position(b, u, i)
      BY <2>2, <2>4
    <3>2. /\ shareFold(c, Position(b, u, i)) = shareFold(b, Position(b, u, i))
          /\ shareFold(b, Position(b, u, i)) \in Int
      BY <1>2, <1>3, <2>1
    <3> QED
      BY <2>4, <3>1, <3>2
  <2> QED
    BY <2>3, <2>4
<1> QED
  BY <1>2, <1>4, <1>5

(* What was read of the rows there were is read again.                     *)
LEMMA LevelsExtended ==
  ASSUME NEW b \in Seq(Rows), NEW c \in Seq(Rows), NEW r \in Rows, Extends(b, c, r),
         NEW n \in 0 .. Len(b), NEW u
  PROVE  /\ cashFold(c, Upto(OwnedBy(c, u), n)) = cashFold(b, Upto(OwnedBy(b, u), n))
         /\ \A i : shareFold(c, Upto(Position(c, u, i), n)) = shareFold(b, Upto(Position(b, u, i), n))
<1>1. Len(c) = Len(b) + 1 /\ Len(b) \in Nat /\ ~ (Len(c) <= n)
  BY BookIs DEF Extends
<1>2. Upto(OwnedBy(c, u), n) = Upto(OwnedBy(b, u), n)
  BY <1>1, BooksExtended DEF Upto
<1>3. \A i : Upto(Position(c, u, i), n) = Upto(Position(b, u, i), n)
  <2> TAKE i
  <2>1. Position(c, u, i) = Position(b, u, i) \cup
                              (IF r.userId = u /\ r.instrumentId = i THEN {Len(c)} ELSE {})
    BY BooksExtended
  <2> QED
    BY <1>1, <2>1 DEF Upto
<1>4. /\ Upto(OwnedBy(b, u), n) \in SUBSET DOMAIN b
      /\ \A i : Upto(Position(b, u, i), n) \in SUBSET DOMAIN b
  BY DEF Upto, OwnedBy, Position
<1> QED
  BY <1>2, <1>3, <1>4, FoldsExtended

(* The last level is what there is.                                        *)
LEMMA LastLevel ==
  ASSUME NEW b \in Seq(Rows), NEW u
  PROVE  /\ Upto(OwnedBy(b, u), Len(b)) = OwnedBy(b, u)
         /\ \A i : Upto(Position(b, u, i), Len(b)) = Position(b, u, i)
BY BookIs DEF Upto, OwnedBy, Position

LEMMA FloorsExtended ==
  ASSUME NEW b \in Seq(Rows), NEW c \in Seq(Rows), NEW r \in Rows, Extends(b, c, r),
         NEW mark \in 0 .. Len(b), NEW u, NEW i
  PROVE  /\ Floors(c, Position(c, u, i), mark) = Floors(b, Position(b, u, i), mark)
         /\ \A shares : HoldsUp(c, u, i, mark, shares) <=> HoldsUp(b, u, i, mark, shares)
<1>1. Len(b) \in Nat
  BY BookIs
<1>2. \A n \in 0 .. mark : n \in 0 .. Len(b)
  BY <1>1
<1>3. \A n \in 0 .. mark :
        shareFold(c, Upto(Position(c, u, i), n)) = shareFold(b, Upto(Position(b, u, i), n))
  BY <1>2, LevelsExtended
<1>4. Floors(c, Position(c, u, i), mark) = Floors(b, Position(b, u, i), mark)
  BY <1>3 DEF Floors
<1> QED
  BY <1>4 DEF HoldsUp

(***************************************************************************)
(* c is b but for statuses, and moves what b moves.                        *)
(***************************************************************************)
SameMoves(b, c) ==
  /\ DOMAIN c = DOMAIN b
  /\ \A n \in DOMAIN b :
       /\ c[n].userId = b[n].userId /\ c[n].instrumentId = b[n].instrumentId
       /\ cashDelta(c[n]) = cashDelta(b[n]) /\ shareDelta(c[n]) = shareDelta(b[n])

LEMMA MovesSame ==
  ASSUME NEW b, NEW c, SameMoves(b, c)
  PROVE  /\ \A u : OwnedBy(c, u) = OwnedBy(b, u)
         /\ \A u, i : Position(c, u, i) = Position(b, u, i)
         /\ \A ids \in SUBSET DOMAIN b :
              cashFold(c, ids) = cashFold(b, ids) /\ shareFold(c, ids) = shareFold(b, ids)
<1>1. ASSUME NEW u PROVE OwnedBy(c, u) = OwnedBy(b, u)
  BY DEF OwnedBy, SameMoves
<1>2. ASSUME NEW u, NEW i PROVE Position(c, u, i) = Position(b, u, i)
  BY DEF Position, OwnedBy, SameMoves
<1>3. ASSUME NEW ids \in SUBSET DOMAIN b
      PROVE  cashFold(c, ids) = cashFold(b, ids) /\ shareFold(c, ids) = shareFold(b, ids)
  <2>1. \A n \in ids : cashDelta(c[n]) = cashDelta(b[n]) /\ shareDelta(c[n]) = shareDelta(b[n])
    BY DEF SameMoves
  <2> QED
    BY <2>1, FoldsAgree
<1> QED
  BY <1>1, <1>2, <1>3

LEMMA LevelsSame ==
  ASSUME NEW b, NEW c, SameMoves(b, c)
  PROVE  /\ \A n, u : cashFold(c, Upto(OwnedBy(c, u), n)) = cashFold(b, Upto(OwnedBy(b, u), n))
         /\ \A n, u, i : shareFold(c, Upto(Position(c, u, i), n)) = shareFold(b, Upto(Position(b, u, i), n))
         /\ \A u, i, mark, shares : HoldsUp(c, u, i, mark, shares) <=> HoldsUp(b, u, i, mark, shares)
<1>1. ASSUME NEW n, NEW u
      PROVE  cashFold(c, Upto(OwnedBy(c, u), n)) = cashFold(b, Upto(OwnedBy(b, u), n))
  <2>1. Upto(OwnedBy(b, u), n) \in SUBSET DOMAIN b
    BY DEF Upto, OwnedBy
  <2>2. OwnedBy(c, u) = OwnedBy(b, u)
    BY MovesSame
  <2> QED
    BY <2>1, <2>2, MovesSame
<1>2. ASSUME NEW n, NEW u, NEW i
      PROVE  shareFold(c, Upto(Position(c, u, i), n)) = shareFold(b, Upto(Position(b, u, i), n))
  <2>1. Upto(Position(b, u, i), n) \in SUBSET DOMAIN b
    BY DEF Upto, Position, OwnedBy
  <2>2. Position(c, u, i) = Position(b, u, i)
    BY MovesSame
  <2> QED
    BY <2>1, <2>2, MovesSame
<1>3. ASSUME NEW u, NEW i, NEW mark
      PROVE  Floors(c, Position(c, u, i), mark) = Floors(b, Position(b, u, i), mark)
  BY <1>2 DEF Floors
<1>4. ASSUME NEW u, NEW i, NEW mark, NEW shares
      PROVE  HoldsUp(c, u, i, mark, shares) <=> HoldsUp(b, u, i, mark, shares)
  BY <1>3 DEF HoldsUp
<1> QED
  BY <1>1, <1>2, <1>4

LEMMA StatementsSame ==
  ASSUME NEW b, NEW c, SameMoves(b, c)
  PROVE  /\ noOverdraft(c) <=> noOverdraft(b)
         /\ \A mark : noOversell(c, mark) <=> noOversell(b, mark)
<1>1. /\ DOMAIN c = DOMAIN b
      /\ \A n \in DOMAIN b : c[n].userId = b[n].userId /\ c[n].instrumentId = b[n].instrumentId
  BY DEF SameMoves
<1>2. \A n, u : cashFold(c, Upto(OwnedBy(c, u), n)) = cashFold(b, Upto(OwnedBy(b, u), n))
  BY LevelsSame
<1>3. \A n, u, i, mark :
        HoldsUp(c, u, i, mark, shareFold(c, Upto(Position(c, u, i), n)))
          <=> HoldsUp(b, u, i, mark, shareFold(b, Upto(Position(b, u, i), n)))
  BY LevelsSame
<1>4. noOverdraft(c) <=> noOverdraft(b)
  BY <1>1, <1>2 DEF noOverdraft
<1>5. ASSUME NEW mark PROVE noOversell(c, mark) <=> noOversell(b, mark)
  BY <1>1, <1>3 DEF noOversell
<1> QED
  BY <1>4, <1>5

(***************************************************************************)
(* What is read of the rows: those of some users, up to one of them.       *)
(***************************************************************************)
Excerpt(b, last, owners) == [n \in {m \in 1 .. last : b[m].userId \in owners} |-> b[n]]

LEMMA LevelsOfExcerpt ==
  ASSUME NEW b \in Seq(Rows), NEW last \in 0 .. Len(b), NEW owners, NEW u \in owners,
         NEW n \in 0 .. last
  PROVE  LET e == Excerpt(b, last, owners) IN
         /\ cashFold(e, Upto(OwnedBy(e, u), n)) = cashFold(b, Upto(OwnedBy(b, u), n))
         /\ \A i : shareFold(e, Upto(Position(e, u, i), n)) = shareFold(b, Upto(Position(b, u, i), n))
<1> DEFINE e == Excerpt(b, last, owners)
<1>1. /\ DOMAIN b = 1 .. Len(b) /\ Len(b) \in Nat
      /\ DOMAIN e = {m \in 1 .. last : b[m].userId \in owners} /\ \A m \in DOMAIN e : e[m] = b[m]
  BY BookIs DEF Excerpt
<1> HIDE DEF e
<1>2. Upto(OwnedBy(e, u), n) = Upto(OwnedBy(b, u), n)
  BY <1>1 DEF Upto, OwnedBy
<1>3. \A i : Upto(Position(e, u, i), n) = Upto(Position(b, u, i), n)
  BY <1>1 DEF Upto, OwnedBy, Position
<1>4. \A ids \in SUBSET DOMAIN e :
        cashFold(e, ids) = cashFold(b, ids) /\ shareFold(e, ids) = shareFold(b, ids)
  <2> TAKE ids \in SUBSET DOMAIN e
  <2>1. \A m \in ids : cashDelta(e[m]) = cashDelta(b[m]) /\ shareDelta(e[m]) = shareDelta(b[m])
    BY <1>1
  <2> QED
    BY <2>1, FoldsAgree
<1>5. /\ Upto(OwnedBy(e, u), n) \in SUBSET DOMAIN e
      /\ \A i : Upto(Position(e, u, i), n) \in SUBSET DOMAIN e
  BY DEF Upto, OwnedBy, Position
<1> QED
  BY <1>2, <1>3, <1>4, <1>5 DEF e

LEMMA FloorsOfExcerpt ==
  ASSUME NEW b \in Seq(Rows), NEW last \in 0 .. Len(b), NEW owners, NEW u \in owners,
         NEW mark \in 0 .. last, NEW i, NEW shares
  PROVE  HoldsUp(Excerpt(b, last, owners), u, i, mark, shares) <=> HoldsUp(b, u, i, mark, shares)
<1> DEFINE e == Excerpt(b, last, owners)
<1>1. \A n \in 0 .. mark : n \in 0 .. last
  BY BookIs
<1>2. \A n \in 0 .. mark : shareFold(e, Upto(Position(e, u, i), n)) = shareFold(b, Upto(Position(b, u, i), n))
  BY <1>1, LevelsOfExcerpt
<1> HIDE DEF e
<1>3. Floors(e, Position(e, u, i), mark) = Floors(b, Position(b, u, i), mark)
  BY <1>2 DEF Floors
<1>4. HoldsUp(e, u, i, mark, shares) <=> HoldsUp(b, u, i, mark, shares)
  BY <1>3 DEF HoldsUp
<1> QED
  BY <1>4 DEF e

(* What holds of the rows holds of an excerpt, row by row.                 *)
LEMMA StatementsOfExcerpt ==
  ASSUME NEW b \in Seq(Rows), NEW last \in 0 .. Len(b), NEW owners, NEW mark \in 0 .. last
  PROVE  LET e == Excerpt(b, last, owners) IN
         /\ noOverdraft(e) <=>
              \A n \in DOMAIN e : cashFold(b, Upto(OwnedBy(b, b[n].userId), n)) >= 0
         /\ noOversell(e, mark) <=>
              \A n \in DOMAIN e :
                LET u == b[n].userId  i == b[n].instrumentId IN
                n > mark => HoldsUp(b, u, i, mark, shareFold(b, Upto(Position(b, u, i), n)))
<1> DEFINE e == Excerpt(b, last, owners)
<1>1. ASSUME NEW n \in DOMAIN e
      PROVE  n \in 0 .. last /\ e[n] = b[n] /\ b[n].userId \in owners
  BY BookIs DEF Excerpt
<1>2. ASSUME NEW n \in DOMAIN e
      PROVE  LET u == b[n].userId  i == b[n].instrumentId IN
             /\ cashFold(e, Upto(OwnedBy(e, u), n)) = cashFold(b, Upto(OwnedBy(b, u), n))
             /\ HoldsUp(e, u, i, mark, shareFold(e, Upto(Position(e, u, i), n)))
                  <=> HoldsUp(b, u, i, mark, shareFold(b, Upto(Position(b, u, i), n)))
  BY <1>1, LevelsOfExcerpt, FloorsOfExcerpt
<1> HIDE DEF e
<1>3. noOverdraft(e) <=> \A n \in DOMAIN e : cashFold(b, Upto(OwnedBy(b, b[n].userId), n)) >= 0
  BY <1>1, <1>2 DEF noOverdraft
<1>4. noOversell(e, mark) <=>
        \A n \in DOMAIN e :
          LET u == b[n].userId  i == b[n].instrumentId IN
          n > mark => HoldsUp(b, u, i, mark, shareFold(b, Upto(Position(b, u, i), n)))
  BY <1>1, <1>2 DEF noOversell
<1> QED
  BY <1>3, <1>4 DEF e

(* What is cancelled never moved anything.                                 *)
LEMMA CancelledMovesNothing ==
  ASSUME NEW b, IsBook(b)
  PROVE  LET standing == {n \in DOMAIN b : b[n].status # "CANCELLED"} IN
         /\ cashFold(b, DOMAIN b) = cashFold(b, standing)
         /\ shareFold(b, DOMAIN b) = shareFold(b, standing)
<1> DEFINE D == DOMAIN b
           standing == {n \in D : b[n].status # "CANCELLED"}
           Same(T) == /\ cashFold(b, standing \cup T) = cashFold(b, standing)
                      /\ shareFold(b, standing \cup T) = shareFold(b, standing)
           N == {k \in Nat : \A T \in SUBSET (D \ standing) : Cardinality(T) = k => Same(T)}
<1>1. /\ standing \in SUBSET D /\ IsFiniteSet(D)
      /\ \A T \in SUBSET (D \ standing) :
           IsFiniteSet(T) /\ Cardinality(T) \in Nat /\ standing \cup T \in SUBSET D
      /\ \A n \in D \ standing : cashDelta(b[n]) = 0 /\ shareDelta(b[n]) = 0
  BY FS_Subset, FS_CardinalityType DEF IsBook, cashDelta, shareDelta
<1> HIDE DEF standing
<1>2. 0 \in N
  <2>1. \A T \in SUBSET (D \ standing) : Cardinality(T) = 0 => standing \cup T = standing
    BY <1>1, FS_EmptySet
  <2> QED
    BY <2>1
<1>3. ASSUME NEW k \in N PROVE k + 1 \in N
  <2>1. SUFFICES ASSUME NEW T \in SUBSET (D \ standing), Cardinality(T) = k + 1 PROVE Same(T)
    OBVIOUS
  <2>2. T # {}
    BY <2>1, FS_EmptySet
  <2>3. PICK n \in T : TRUE
    BY <2>2
  <2>9. k \in Nat /\ IsFiniteSet(T)
    BY <1>1
  <2>10. Cardinality(T \ {n}) = Cardinality(T) - 1
    BY <2>9, FS_RemoveElement
  <2>4. Cardinality(T \ {n}) = k /\ T \ {n} \in SUBSET (D \ standing)
    BY <2>1, <2>9, <2>10
  <2>5. Same(T \ {n})
    BY <2>4
  <2> DEFINE ids == standing \cup (T \ {n})
  <2>6. ids \in SUBSET D /\ n \in D /\ n \notin ids /\ standing \cup T = ids \cup {n}
    BY <1>1
  <2> HIDE DEF ids
  <2>7. /\ cashFold(b, ids \cup {n}) = cashFold(b, ids) + cashDelta(b[n])
        /\ shareFold(b, ids \cup {n}) = shareFold(b, ids) + shareDelta(b[n])
        /\ cashFold(b, ids) \in Int /\ shareFold(b, ids) \in Int
    BY <2>6, FoldsWithOneMore, FoldsAreInts
  <2>8. cashDelta(b[n]) = 0 /\ shareDelta(b[n]) = 0
    BY <1>1
  <2>11. /\ cashFold(b, ids \cup {n}) = cashFold(b, ids)
         /\ shareFold(b, ids \cup {n}) = shareFold(b, ids)
    BY <2>7, <2>8
  <2>12. Same(T) <=> /\ cashFold(b, ids \cup {n}) = cashFold(b, standing)
                     /\ shareFold(b, ids \cup {n}) = shareFold(b, standing)
    BY <2>6, Zenon
  <2> QED
    BY <2>5, <2>11, <2>12 DEF ids
<1>4. N = Nat
  <2>1. N \in SUBSET Nat
    OBVIOUS
  <2> HIDE DEF N
  <2> QED
    BY <1>2, <1>3, <2>1, SetInduction
<1>5. Same(D \ standing)
  BY <1>1, <1>4
<1>6. standing \cup (D \ standing) = D
  BY <1>1
<1> QED
  BY <1>5, <1>6 DEF standing

-----------------------------------------------------------------------------
(***************************************************************************)
(* The invariant of a load run, part by part.                              *)
(***************************************************************************)
Statuses == {"ok", "refused", "shed", "none"}

Phases ==
  {"idle", "opening", "marked", "preparing", "placing", "quiescing", "first", "ledger", "second",
   "judging", "judged", "failed"}

Unplaced == {"idle", "opening", "marked", "preparing"}
Marked == Phases \ {"idle", "opening", "failed"}
Prepared == Marked \ {"marked"}
Checking == {"first", "ledger", "second", "judging", "judged"}
Read == {"second", "judging", "judged"}
Over == Checking \cup {"quiescing"}

(* The records that the harness keeps have the fields they began with.     *)
RunFormed ==
  run = [phase |-> run.phase, profile |-> run.profile, planned |-> run.planned,
         wave |-> run.wave, mark |-> run.mark, left |-> run.left]

TallyFormed ==
  tally = [sent |-> tally.sent, pending |-> tally.pending, placements |-> tally.placements,
           resting |-> tally.resting, cancelled |-> tally.cancelled, byStatus |-> tally.byStatus]

EvidenceFormed ==
  evidence = [before |-> evidence.before, first |-> evidence.first, rows |-> evidence.rows,
              second |-> evidence.second]

StoreFormed ==
  store = [buffer |-> store.buffer, cursor |-> store.cursor, nextId |-> store.nextId]

CancelsFormed == cancelling \subseteq [orderId : Nat, answer : {"none", "ok", "refused"}]

Formed == RunFormed /\ TallyFormed /\ EvidenceFormed /\ StoreFormed /\ CancelsFormed

(* What is out by when: orders and cancellations of the run only while it  *)
(* places, and shadows of its users, and the loop's, once it is prepared.  *)
RunOK ==
  /\ run.phase \in Phases
  /\ run.phase # "idle" => run.profile \in Profiles
  /\ run.mark \in 0 .. Len(rows)
  /\ run.wave # {} => run.phase = "placing"
  /\ run.phase \in Unplaced => cancelling = {} /\ \A s \in Own : at[s] = "unsent"
  /\ run.phase \in Over => cancelling = {} /\ \A s \in Own : s \notin InFlight
  /\ run.phase \in Prepared => DOMAIN ledger.users = LoopUsers \cup runUsers

(* The run orders for its own users.                                       *)
OwnOK ==
  \A s \in Own :
    /\ s \in InFlight => UserOf(s) \in runUsers
    /\ at[s] = "late" => row[s].order.userId \in runUsers

(* What the API shows is the fold of the rows, whatever was done wrong.    *)
Conserved ==
  \A u \in Users :
    /\ portfolio[u].cash = cashFold(rows, OwnedBy(rows, u))
    /\ \A i \in Instruments : portfolio[u].shares[i] = shareFold(rows, Position(rows, u, i))

(* A call is stored once, when it executes; one of the run past its mark.  *)
RowOK(n) ==
  LET call == rows[n].call IN
  call # Null =>
    /\ at[call] \in {"executed", "done"}
    /\ at[call] = "executed" => execution[call] # NoExecution
    /\ call \in Own => n > run.mark /\ rows[n].userId \in runUsers
    /\ \A m \in DOMAIN rows : rows[m].call = call => m = n

RowsOK == rows \in Seq(Rows) /\ \A n \in DOMAIN rows : RowOK(n)

(* What an attempt or an answer may name: nothing, or a row of some call.  *)
Answerable(id) == id \in {0, Null} \/ (id \in DOMAIN rows /\ rows[id].call # Null)

Recorded ==
  [id : Nat, kind : {"place", "cancel", "read"}, status : Statuses, orderId : Nat \cup {Null},
   call : Slots \cup {Null}]

RingOK ==
  /\ store.nextId \in Nat \ {0} /\ store.cursor \in 0 .. ATTEMPTS_CAPACITY - 1
  /\ store.buffer \in Seq(Recorded) /\ Len(store.buffer) <= ATTEMPTS_CAPACITY
  /\ \A i \in DOMAIN store.buffer :
       /\ store.buffer[i].id < store.nextId
       /\ store.buffer[i].status = "none" => losses > 0
       /\ Answerable(store.buffer[i].orderId)
       /\ \A j \in DOMAIN store.buffer : store.buffer[j].id = store.buffer[i].id => j = i

(* The ring shows a call once, when it is over, and either its loss or the *)
(* row it stored.                                                          *)
Traced ==
  \A i \in DOMAIN store.buffer :
    LET e == store.buffer[i] IN
    e.call # Null =>
      /\ e.kind = "place" /\ at[e.call] \in {"late", "done"}
      /\ e.status = "none"
           \/ (at[e.call] = "done" /\ \A n \in DOMAIN rows : rows[n].call = e.call => n = e.orderId)
      /\ \A j \in DOMAIN store.buffer : store.buffer[j].call = e.call => j = i

(* Calls that were not folded yet, and that the ring shows unanswered or   *)
(* does not show; and orders of the run that were stored, or may yet be,   *)
(* for which no answer was noted.                                          *)
Quiet ==
  {id \in tally.pending :
     \A i \in DOMAIN store.buffer :
       store.buffer[i].id = id => store.buffer[i].status = "none"}

LostOwn ==
  {s \in Own :
     \/ at[s] = "late"
     \/ /\ at[s] = "done"
        /\ \E n \in DOMAIN rows :
             rows[n].call = s /\ \A placement \in tally.placements : placement.orderId # n}

(* Every call is pending or counted; and what was lost is accounted for,   *)
(* wherever the ring has got to.                                           *)
TallyOK ==
  /\ tally.pending \subseteq 1 .. store.nextId - 1
  /\ tally.byStatus \in [Statuses -> Nat]
  /\ tally.sent = Cardinality(tally.pending) + tally.byStatus["ok"] + tally.byStatus["refused"]
                    + tally.byStatus["shed"] + tally.byStatus["none"]
  /\ losses \in Nat /\ (losses = 0 => tally.byStatus["none"] = 0)
  /\ tally.resting \in Seq(Nat)
  /\ \A placement \in tally.placements : Answerable(placement.orderId)
  /\ IsFiniteSet(LostOwn)
  /\ Cardinality(LostOwn) <= tally.byStatus["none"] + Cardinality(Quiet)

(* With a target that does its job: what it answered is what it stored,    *)
(* but for what was cancelled since; and what it calls cancelled is.       *)
Taken(id) == id \in DOMAIN rows /\ rows[id].call \in Own /\ at[rows[id].call] = "done"

StoredAs(p) ==
  /\ Taken(p.orderId) /\ rows[p.orderId].size = p.size /\ rows[p.orderId].price = p.price
  /\ rows[p.orderId].status = p.status \/ (p.status = "NEW" /\ rows[p.orderId].status = "CANCELLED")

Cancelled(id) == Taken(id) /\ rows[id].status = "CANCELLED"

AnswersOK ==
  /\ \A s \in Slots : at[s] = "executed" /\ execution[s] # NoExecution =>
       \E n \in DOMAIN rows :
         /\ rows[n].call = s /\ rows[n].size = held[s].order.size
         /\ rows[n].price = execution[s].price /\ rows[n].status = execution[s].status
  /\ \A p \in tally.placements : StoredAs(p)
  /\ \A i \in DOMAIN tally.resting : Taken(tally.resting[i])
  /\ \A id \in tally.cancelled : Cancelled(id)
  /\ \A c \in cancelling : Taken(c.orderId) /\ (c.answer = "ok" => Cancelled(c.orderId))

(* No balance was ever under nothing, no position under its floor.         *)
LevelsOK ==
  /\ noOverdraft(rows) /\ \A u \in Users : portfolio[u].cash >= 0
  /\ run.phase \in Marked =>
       /\ noOversell(rows, run.mark)
       /\ \A u \in Users, i \in Instruments :
            HoldsUp(rows, u, i, run.mark, portfolio[u].shares[i])

(* What was read, as long as at most one order of the loop filled: whoever *)
(* has the cash that was read of it then was not the one who moved.        *)
Db(u) == cashFold(evidence.rows, OwnedBy(evidence.rows, u))

Tracks(u, cash) ==
  IF run.phase \in Read
  THEN Db(u) = cash \/ (FillsOfTheLoop # {} /\ portfolio[u].cash = Db(u))
  ELSE portfolio[u].cash = cash \/ FillsOfTheLoop # {}

OneFill == \A s, t \in FillsOfTheLoop : s = t

TrustedBefore(u) ==
  LET own == evidence.before[u] IN own.seeded /\ ~ own.uncertain /\ own.outstanding = 0

BalancesOK ==
  \A u \in runUsers :
    /\ TrustedBefore(u) => Tracks(u, evidence.before[u].cash)
    /\ u \in DOMAIN evidence.first => Tracks(u, evidence.first[u])
    /\ (/\ u \in DOMAIN evidence.first \cap DOMAIN evidence.second
        /\ evidence.second[u] = evidence.first[u]) => Db(u) = evidence.first[u]

(* The evidence is of the phases that are over, and its rows are all there *)
(* were of the run's users at some time since its mark.                    *)
EvidenceOK ==
  /\ run.phase \notin Checking \cup {"failed"} => DOMAIN evidence.first = {}
  /\ run.phase \notin Read => evidence.rows = <<>> /\ DOMAIN evidence.second = {}
  /\ run.phase \in Read =>
       \E last \in run.mark .. Len(rows) : evidence.rows = Excerpt(rows, last, runUsers)
  /\ run.phase \in Checking =>
       /\ DOMAIN evidence.before = runUsers
       /\ \A u \in runUsers : evidence.before[u].seeded => ledger.users[u].seeded

ReadingsOK == run.phase \in Checking /\ Fresh /\ OneFill => BalancesOK

(* Past the mark there is no row that nobody sent, and what the run was    *)
(* answered for is in the rows it has read.                                *)
Witnessed ==
  /\ run.phase \in Marked => \A n \in DOMAIN rows : n > run.mark => rows[n].call # Null
  /\ run.phase \in Read =>
       /\ \A p \in tally.placements : p.orderId \in DOMAIN evidence.rows
       /\ tally.cancelled \subseteq DOMAIN evidence.rows

(* What was done wrong is still to be seen, or has been read.              *)
Seen(n) == n \in DOMAIN rows /\ (run.phase \in Read => n \in DOMAIN evidence.rows)

Overspent(n) ==
  LET u == rows[n].userId  i == rows[n].instrumentId IN
  \/ cashFold(rows, Upto(OwnedBy(rows, u), n)) < 0
  \/ /\ n > run.mark
     /\ ~ HoldsUp(rows, u, i, run.mark, shareFold(rows, Upto(Position(rows, u, i), n)))

FaultsOK ==
  /\ faults # {} => run.phase \in Over \cup {"placing", "failed"}
  /\ faults = {"overspend"} =>
       \E n \in DOMAIN rows : Seen(n) /\ rows[n].userId \in runUsers /\ Overspent(n)
  /\ faults = {"invent"} =>
       \E n \in DOMAIN rows :
         Seen(n) /\ rows[n].userId \in runUsers /\ n > run.mark /\ rows[n].call = Null

LoadSimOK == SimTypes /\ IsFiniteSet(filled) /\ (faults = {} => SimInv)

LoadInv ==
  /\ LoadSimOK /\ Formed /\ RunOK /\ OwnOK /\ Conserved /\ RowsOK /\ RingOK /\ TallyOK
  /\ EvidenceOK /\ FaultsOK /\ Traced
  /\ faults = {} => AnswersOK /\ LevelsOK /\ ReadingsOK /\ Witnessed
  /\ NobodyIsWronglyAccused /\ FaultsAreFound

-----------------------------------------------------------------------------
(***************************************************************************)
(* What a step of a run is to the simulation.                              *)
(***************************************************************************)
Misserving ==
  \/ \E s \in Slots : overspend(s) \/ forget(s)
  \/ \E order \in Menu : invent(order)
  \/ \E cancel \in cancelling : miscancel(cancel)

LEMMA StepUser ==
  ASSUME NEW profile \in Profiles, NEW index \in Own
  PROVE  /\ stepAt(profile, index - 1).order \in Menu
         /\ stepAt(profile, index - 1).order.userId \in touched(profile)
<1> DEFINE n == index - 1  users == profile.users
           u == IF profile.mode = "contention" THEN users[1] ELSE users[1 + (n % Len(users))]
<1>1. stepAt(profile, n).order \in Menu
  BY LoadAssumption
<1>9. users \in Seq(Users) \ {<<>>}
  BY LoadAssumption, Zenon
<1>10. index \in Nat \ {0}
  BY LoadAssumption
<1>2. /\ users \in Seq(Users) /\ users # <<>> /\ n \in Nat
  BY <1>9, <1>10
<1>3. Len(users) \in Nat \ {0} /\ DOMAIN users = 1 .. Len(users)
  BY <1>2
<1>4. n % Len(users) \in 0 .. Len(users) - 1
  BY <1>2, <1>3
<1>5. 1 + (n % Len(users)) \in DOMAIN users
  BY <1>3, <1>4
<1>6. u \in touched(profile)
  BY <1>5 DEF touched
<1>7. LoadOrder(profile, n).userId = u /\ Resting(profile, n).userId = u
  BY DEF LoadOrder, Resting
<1>8. stepAt(profile, n).order.userId = u
  BY <1>7 DEF stepAt
<1> QED
  BY <1>1, <1>6, <1>8

LEMMA RunIs ==
  ASSUME RunOK
  PROVE  /\ Firing => run.phase = "placing"
         /\ run.phase # "idle" => run.profile \in Profiles /\ LoopUsers \cup runUsers \in Rosters
BY LoadAssumption DEF RunOK, Firing, runUsers

LEMMA FiringIs ==
  ASSUME RunOK, NEW index \in Own, fire(index)
  PROVE  /\ run.phase = "placing"
         /\ run' = [run EXCEPT !.wave = @ \ {index}]
         /\ \/ /\ UNCHANGED vars
               /\ tally.resting # <<>>
               /\ cancelling' = cancelling \cup {[orderId |-> Head(tally.resting), answer |-> "none"]}
               /\ tally' = [tally EXCEPT !.resting = Tail(@)]
            \/ /\ \E order \in Menu : order.userId \in runUsers /\ place(index, order)
               /\ UNCHANGED <<cancelling, tally>>
         /\ UNCHANGED <<rows, store, evidence, alarms, doubts, faults>>
<1> DEFINE step == stepAt(run.profile, index - 1)
<1>1. run.phase = "placing" /\ run.profile \in Profiles
  BY RunIs DEF fire
<1>2. step.order \in Menu /\ step.order.userId \in runUsers
  BY <1>1, StepUser DEF runUsers
<1> QED
  BY <1>1, <1>2 DEF fire

LEMMA RunStepIsSimulationStep ==
  ASSUME RunOK, [LoadNext]_loadVars, ~ Misserving
  PROVE  [Next]_simVars /\ faults' = faults
<1>1. CASE UNCHANGED loadVars
  BY <1>1 DEF loadVars, vars, simVars
<1>2. ASSUME NEW profile \in Profiles, start(profile) PROVE UNCHANGED simVars /\ faults' = faults
  BY <1>2 DEF start, vars, simVars
<1>3. CASE StartLoop
  BY <1>3, LoadAssumption DEF StartLoop, Next
<1>4. CASE highWaterMark
  BY <1>4 DEF highWaterMark, vars, simVars
<1>13. CASE prepare
  BY <1>13, RunIs DEF prepare, Next
<1>5. CASE NextWave
  BY <1>5 DEF NextWave, vars, simVars
<1>6. ASSUME NEW index \in Own, fire(index) PROVE [Next]_simVars /\ faults' = faults
  <2>1. index \in Slots
    BY LoadAssumption
  <2> QED
    BY <1>6, <2>1, FiringIs DEF vars, simVars, Next
<1>7. ASSUME NEW s \in Others, NEW order \in LoopOrders, tick(s, order) PROVE [Next]_simVars /\ faults' = faults
  BY <1>7, LoadAssumption DEF tick, Next, Others
<1>8. ASSUME NEW s \in Slots, execute(s) \/ shed(s) \/ answer(s) \/ loseAnswer(s)
      PROVE  [Next]_simVars /\ faults' = faults
  BY <1>8 DEF execute, shed, answer, loseAnswer, Next
<1>9. ASSUME NEW cancel \in cancelling,
             executeCancel(cancel) \/ answerCancel(cancel) \/ loseCancel(cancel)
      PROVE  UNCHANGED simVars /\ faults' = faults
  BY <1>9 DEF executeCancel, answerCancel, loseCancel, vars, simVars
<1>10. ASSUME NEW read \in reads, portfolioRead(read) PROVE [Next]_simVars /\ faults' = faults
  BY <1>10 DEF portfolioRead, Next
<1>11. CASE waitForQuiesce \/ readLedger \/ check \/ fail \/ \E u \in Users : readCash(u)
  BY <1>11 DEF waitForQuiesce, readLedger, check, fail, readCash, vars, simVars
<1> QED
  BY <1>1, <1>2, <1>3, <1>4, <1>5, <1>6, <1>7, <1>8, <1>9, <1>10, <1>11, <1>13
     DEF LoadNext, Misserving

(***************************************************************************)
(* What a target that misbehaves does to the simulation.                   *)
(***************************************************************************)
LEMMA BookedIs ==
  ASSUME portfolio \in [Users -> Portfolios], NEW r \in Rows
  PROVE  /\ Booked(r) \in [Users -> Portfolios]
         /\ \A u \in Users :
              /\ Booked(r)[u].cash = portfolio[u].cash + (IF r.userId = u THEN cashDelta(r) ELSE 0)
              /\ \A i \in Instruments :
                   Booked(r)[u].shares[i]
                     = portfolio[u].shares[i]
                         + (IF r.userId = u /\ r.instrumentId = i THEN shareDelta(r) ELSE 0)
<1> DEFINE v == r.userId  j == r.instrumentId  own == portfolio[v]
           c == own.cash + cashDelta(r)  k == own.shares[j] + shareDelta(r)
           new == [own EXCEPT !.cash = c, !.shares = [own.shares EXCEPT ![j] = k]]
<1>1. v \in Users /\ j \in Instruments /\ cashDelta(r) \in Int /\ shareDelta(r) \in Int
  BY DeltasAreInts DEF Rows
<1>2. own \in Portfolios /\ own.cash \in Int /\ own.shares \in [Instruments -> Int]
  BY <1>1 DEF Portfolios
<1>3. c \in Int /\ k \in Int
  BY <1>1, <1>2
<1>4. Booked(r) = [portfolio EXCEPT ![v].cash = c, ![v].shares[j] = k]
  BY DEF Booked
<1> HIDE DEF c, k
<1>5. Booked(r) = [portfolio EXCEPT ![v] = new]
  BY <1>1, <1>2, <1>4 DEF Portfolios
<1>6. new \in Portfolios /\ new.cash = c /\ new.shares[j] = k
      /\ \A i \in Instruments \ {j} : new.shares[i] = own.shares[i]
  BY <1>1, <1>2, <1>3 DEF Portfolios
<1> HIDE DEF new
<1>7. /\ Booked(r) \in [Users -> Portfolios] /\ Booked(r)[v] = new
      /\ \A u \in Users \ {v} : Booked(r)[u] = portfolio[u]
  BY <1>1, <1>5, <1>6
<1>8. \A u \in Users : portfolio[u].cash \in Int /\ \A i \in Instruments : portfolio[u].shares[i] \in Int
  BY DEF Portfolios
<1> QED
  BY <1>6, <1>7, <1>8 DEF c, k

LEMMA RowOfIs ==
  ASSUME NEW s \in Slots \cup {Null}, NEW order \in Orders, NEW d \in Decisions
  PROVE  RowOf(s, order, d) \in Rows
BY DEF RowOf, Rows, Orders, Decisions

LEMMA MisservingIs ==
  ASSUME NEW s \in Slots, NEW d, Misserve(s, d), SimTypes
  PROVE  /\ s \in InFlight /\ at[s] = "sent" /\ held[s].order \in Orders
         /\ at' = [at EXCEPT ![s] = "executed"]
         /\ execution' = [execution EXCEPT ![s] = d]
         /\ UNCHANGED <<service, held, row, losses, history, cancelling, store, runner>>
<1>1. s \in InFlight
  BY DEF Misserve, InFlight
<1> QED
  BY <1>1, FlightIs DEF Misserve

LEMMA MisservingKeepsTypes ==
  ASSUME SimTypes, NEW s \in Slots, NEW d \in Decisions, Misserve(s, d),
         DecidedFor(held[s].order, d), portfolio' \in [Users -> Portfolios]
  PROVE  SimTypes'
<1>1. /\ s \in InFlight /\ at[s] = "sent"
      /\ at' = [at EXCEPT ![s] = "executed"]
      /\ execution' = [execution EXCEPT ![s] = d]
      /\ UNCHANGED <<service, held, row, losses, history>>
  BY MisservingIs
<1>2. ServiceOK /\ WorldOK /\ CallsTyped /\ CallOK(s) /\ ledger.generation \in Nat
  BY DEF SimTypes, ServiceOK, IsLedger
<1>3. ServiceOK'
  BY <1>1, <1>2 DEF ServiceOK, service, PricesAreCloses, IsLedger
<1>4. WorldOK'
  BY <1>1, <1>2 DEF WorldOK, history
<1>5. InFlight' = InFlight
  BY <1>1, <1>2 DEF InFlight, CallsTyped
<1>6. CallsTyped'
  BY <1>1, <1>2, <1>5 DEF CallsTyped, Positions
<1>7. ASSUME NEW t \in Slots \ {s} PROVE CallOK(t)'
  BY <1>1, <1>2, OthersOK DEF CallsTyped, service, history
<1>8. CallOK(s)'
  <2>1. /\ at'[s] = "executed" /\ execution'[s] = d /\ held'[s] = held[s] /\ row'[s] = row[s]
        /\ ledger' = ledger /\ filled' = filled
    BY <1>1, <1>2 DEF CallsTyped, service, history
  <2>2. Holds(held[s]) => Holds(held[s])'
    BY <1>1 DEF Holds
  <2> QED
    BY <1>1, <1>2, <1>5, <2>1, <2>2 DEF CallOK
<1> QED
  BY <1>3, <1>4, <1>6, <1>7, <1>8 DEF SimTypes

LEMMA BookingKeepsTypes ==
  ASSUME SimTypes, portfolio' \in [Users -> Portfolios],
         UNCHANGED <<service, calls, losses, history>>
  PROVE  SimTypes'
BY DEF SimTypes, ServiceOK, WorldOK, CallsTyped, CallOK, InFlight, service, calls, history,
   IsLedger, PricesAreCloses, Holds

Overspending(s, order, d) ==
  /\ order = held[s].order /\ order.userId \in runUsers
  /\ d = [Decision(order) EXCEPT !.status = "FILLED"]
  /\ Misserve(s, d) /\ Misbehaves("overspend", order.userId)
  /\ rows' = Append(rows, RowOf(s, order, d))
  /\ portfolio' = Booked(RowOf(s, order, d))
  /\ Ruined(portfolio'[order.userId], order)
  /\ order \in Orders /\ d \in Decisions /\ d # NoExecution /\ d.status = "FILLED"
  /\ DecidedFor(order, d) /\ RowOf(s, order, d) \in Rows

LEMMA OverspendIs ==
  ASSUME SimTypes, NEW s \in Slots, overspend(s)
  PROVE  \E order, d : Overspending(s, order, d)
<1> DEFINE order == held[s].order  e == Decision(order)  d == [e EXCEPT !.status = "FILLED"]
<1>1. /\ Misserve(s, d) /\ Misbehaves("overspend", order.userId) /\ order.type = "MARKET"
      /\ rows' = Append(rows, RowOf(s, order, d)) /\ portfolio' = Booked(RowOf(s, order, d))
      /\ Ruined(portfolio'[order.userId], order)
  BY DEF overspend, Stores
<1>2. order \in Orders
  BY <1>1, MisservingIs
<1>3. e \in Decisions /\ DecidedFor(order, e)
  BY <1>2, DecisionIs DEF SimTypes, WorldOK
<1> HIDE DEF e
<1>4. d \in Decisions /\ d # NoExecution /\ d.status = "FILLED" /\ d.price = e.price
  BY <1>3, NothingIsNothing DEF Decisions, ORDER_STATUSES
<1>5. DecidedFor(order, d)
  BY <1>1, <1>3, <1>4 DEF DecidedFor, Fills
<1>6. RowOf(s, order, d) \in Rows
  BY <1>2, <1>4, RowOfIs
<1>7. order.userId \in runUsers
  BY <1>1 DEF Misbehaves
<1>8. order = held[s].order /\ d = [Decision(order) EXCEPT !.status = "FILLED"]
  BY DEF e
<1>9. Overspending(s, order, d)
  BY <1>1, <1>2, <1>4, <1>5, <1>6, <1>7, <1>8 DEF Overspending
<1> QED
  BY <1>9

LEMMA ForgetIs ==
  ASSUME SimTypes, NEW s \in Slots, forget(s)
  PROVE  \E d \in Decisions :
           /\ Misserve(s, d) /\ Misbehaves("forget", UserOf(s))
           /\ d # NoExecution /\ DecidedFor(held[s].order, d)
           /\ UNCHANGED <<portfolio, rows>>
<1>1. /\ Misserve(s, Decision(held[s].order)) /\ Misbehaves("forget", UserOf(s))
      /\ UNCHANGED <<portfolio, rows>>
  BY DEF forget
<1>2. held[s].order \in Orders
  BY <1>1, MisservingIs
<1>3. /\ Decision(held[s].order) \in Decisions /\ Decision(held[s].order) # NoExecution
      /\ DecidedFor(held[s].order, Decision(held[s].order))
  BY <1>2, DecisionIs DEF SimTypes, WorldOK
<1> QED
  BY <1>1, <1>3

LEMMA InventIs ==
  ASSUME SimTypes, NEW order \in Menu, invent(order)
  PROVE  \E r \in Rows :
           /\ r.call = Null /\ r.userId \in runUsers
           /\ Misbehaves("invent", r.userId)
           /\ rows' = Append(rows, r) /\ portfolio' = Booked(r)
           /\ UNCHANGED <<service, calls, losses, history, cancelling, store, runner>>
<1> DEFINE d == Decision(order)  r == RowOf(Null, order, d)
<1>1. order \in Orders
  BY SimulationAssumption
<1>2. d \in Decisions
  BY <1>1, DecisionIs DEF SimTypes, WorldOK
<1> HIDE DEF d
<1>3. r \in Rows /\ r.call = Null /\ r.userId = order.userId
  BY <1>1, <1>2, RowOfIs DEF RowOf
<1>4. /\ Misbehaves("invent", order.userId) /\ rows' = Append(rows, r) /\ portfolio' = Booked(r)
      /\ UNCHANGED <<service, calls, losses, history, cancelling, store, runner>>
  BY DEF invent, Stores, d
<1> QED
  BY <1>3, <1>4 DEF Misbehaves

LEMMA MiscancelIs ==
  ASSUME rows \in Seq(Rows), NEW cancel \in cancelling, miscancel(cancel)
  PROVE  LET id == cancel.orderId  r == [rows[id] EXCEPT !.status = "FILLED"] IN
         /\ id \in DOMAIN rows /\ rows[id].status = "NEW" /\ r \in Rows
         /\ Misbehaves("miscancel", rows[id].userId)
         /\ rows' = [rows EXCEPT ![id] = r] /\ portfolio' = Booked(r)
         /\ cancelling' = (cancelling \ {cancel}) \cup {[cancel EXCEPT !.answer = "ok"]}
         /\ UNCHANGED <<service, calls, losses, history, store, runner>>
<1> DEFINE id == cancel.orderId
<1>1. id \in DOMAIN rows /\ rows[id].status = "NEW"
  BY DEF miscancel, Cancellable
<1>2. rows[id] \in Rows
  BY <1>1
<1>3. [rows[id] EXCEPT !.status = "FILLED"] \in Rows
  BY <1>2 DEF Rows, ORDER_STATUSES
<1>4. rows' = [rows EXCEPT ![id].status = "FILLED"]
  BY DEF miscancel
<1>5. rows' = [rows EXCEPT ![id] = [rows[id] EXCEPT !.status = "FILLED"]]
  BY <1>1, <1>2, <1>4 DEF Rows
<1> QED
  BY <1>1, <1>3, <1>5 DEF miscancel

LEMMA MisbehavingIs ==
  ASSUME NEW how, NEW u, Misbehaves(how, u)
  PROVE  /\ faults = {} /\ faults' = {how} /\ faults' # {} /\ Idle /\ u \in runUsers
         /\ run.phase \in {"placing", "quiescing", "first"}
BY DEF Misbehaves

LEMMA MisservingKeepsSim ==
  ASSUME LoadSimOK, rows \in Seq(Rows), Misserving
  PROVE  LoadSimOK' /\ faults' # {}
<1>1. SimTypes /\ IsFiniteSet(filled) /\ portfolio \in [Users -> Portfolios]
  BY DEF LoadSimOK, SimTypes, WorldOK
<1>2. ASSUME NEW s \in Slots, overspend(s)
      PROVE  SimTypes' /\ filled' = filled /\ faults' # {}
  <2>1. PICK order, d : Overspending(s, order, d)
    BY <1>1, <1>2, OverspendIs
  <2>2. portfolio' \in [Users -> Portfolios]
    BY <1>1, <2>1, BookedIs DEF Overspending
  <2>3. SimTypes'
    BY <1>1, <2>1, <2>2, MisservingKeepsTypes DEF Overspending
  <2>4. filled' = filled /\ faults' # {}
    BY <1>1, <2>1, MisservingIs, MisbehavingIs DEF Overspending, history
  <2> QED
    BY <2>3, <2>4
<1>3. ASSUME NEW s \in Slots, forget(s)
      PROVE  SimTypes' /\ filled' = filled /\ faults' # {}
  <2>1. PICK d \in Decisions :
          /\ Misserve(s, d) /\ Misbehaves("forget", UserOf(s))
          /\ DecidedFor(held[s].order, d) /\ UNCHANGED portfolio
    BY <1>1, <1>3, ForgetIs
  <2> QED
    BY <1>1, <2>1, MisservingKeepsTypes, MisservingIs, MisbehavingIs DEF history
<1>4. ASSUME NEW order \in Menu, invent(order)
      PROVE  SimTypes' /\ filled' = filled /\ faults' # {}
  <2>1. PICK r \in Rows :
          /\ Misbehaves("invent", r.userId) /\ portfolio' = Booked(r)
          /\ UNCHANGED <<service, calls, losses, history>>
    BY <1>1, <1>4, InventIs
  <2> QED
    BY <1>1, <2>1, BookedIs, BookingKeepsTypes, MisbehavingIs DEF history
<1>5. ASSUME NEW cancel \in cancelling, miscancel(cancel)
      PROVE  SimTypes' /\ filled' = filled /\ faults' # {}
  <2>1. PICK r \in Rows :
          /\ Misbehaves("miscancel", rows[cancel.orderId].userId) /\ portfolio' = Booked(r)
          /\ UNCHANGED <<service, calls, losses, history>>
    BY <1>5, MiscancelIs
  <2> QED
    BY <1>1, <2>1, BookedIs, BookingKeepsTypes, MisbehavingIs DEF history
<1>6. SimTypes' /\ filled' = filled /\ faults' # {}
  BY <1>2, <1>3, <1>4, <1>5 DEF Misserving
<1> QED
  BY <1>1, <1>6 DEF LoadSimOK

LEMMA SimOK ==
  ASSUME LoadSimOK, RunOK, rows \in Seq(Rows), [LoadNext]_loadVars
  PROVE  LoadSimOK'
<1>1. CASE Misserving
  BY <1>1, MisservingKeepsSim
<1>2. CASE ~ Misserving
  <2>1. [Next]_simVars /\ faults' = faults
    BY <1>2, RunStepIsSimulationStep
  <2>2. SimTypes' /\ IsFiniteSet(filled')
    BY <2>1, NextKeepsTypes, FillsMoveCash DEF LoadSimOK
  <2>3. (faults = {} => SimInv)'
    BY <2>1, NextSimInv DEF LoadSimOK
  <2> QED
    BY <2>2, <2>3 DEF LoadSimOK
<1> QED
  BY <1>1, <1>2

-----------------------------------------------------------------------------
(***************************************************************************)
(* The portfolios are what the rows add up to.                             *)
(***************************************************************************)
BookedBy(r) ==
  \A u \in Users :
    /\ portfolio'[u].cash = portfolio[u].cash + (IF r.userId = u THEN cashDelta(r) ELSE 0)
    /\ \A i \in Instruments :
         portfolio'[u].shares[i]
           = portfolio[u].shares[i] + (IF r.userId = u /\ r.instrumentId = i THEN shareDelta(r) ELSE 0)

LEMMA DeltasOfRow ==
  ASSUME NEW s, NEW order \in Orders, NEW d \in Decisions, d # NoExecution
  PROVE  LET r == RowOf(s, order, d) IN
         /\ cashDelta(r) = CashMove(order, d)
         /\ shareDelta(r) = IF Fills(d) THEN Bought(order) ELSE 0
<1> DEFINE r == RowOf(s, order, d)
<1>1. /\ r.price = d.price /\ r.size = order.size /\ r.status = d.status /\ r.side = order.side
      /\ order.side \in {"BUY", "SELL"} /\ d.price \in Int /\ order.size \in Int
  BY DEF RowOf, Orders, SIDES, Decisions
<1>2. \A a, b \in Int : - (a * (- b)) = a * b
  OBVIOUS
<1> HIDE DEF r
<1>3. shareDelta(r) = IF Fills(d) THEN Bought(order) ELSE 0
  BY <1>1 DEF shareDelta, Fills, Bought
<1>4. cashDelta(r) = IF Fills(d) THEN IF order.side = "BUY" THEN - (d.price * order.size)
                                      ELSE d.price * order.size
                     ELSE 0
  BY <1>1 DEF cashDelta, Fills
<1>5. CashMove(order, d) = IF Fills(d) THEN IF order.side = "BUY" THEN - (d.price * order.size)
                                            ELSE - (d.price * (- order.size))
                           ELSE 0
  BY DEF CashMove, Bought
<1>6. - (d.price * (- order.size)) = d.price * order.size
  BY <1>1, <1>2
<1> QED
  BY <1>3, <1>4, <1>5, <1>6 DEF r

(* What an order that executes does to rows, portfolios and calls.         *)
Executes(s, order, d, r) ==
  /\ order \in Orders /\ d \in Decisions /\ d # NoExecution /\ DecidedFor(order, d)
  /\ d = Decision(order)
  /\ r = RowOf(s, order, d) /\ r \in Rows
  /\ rows' = Append(rows, r) /\ BookedBy(r)
  /\ filled' = IF Fills(d) THEN filled \cup {s} ELSE filled
  /\ \/ /\ at[s] = "sent" /\ at' = [at EXCEPT ![s] = "executed"]
        /\ order = held[s].order
        /\ execution' = [execution EXCEPT ![s] = d]
     \/ /\ at[s] = "late" /\ at' = [at EXCEPT ![s] = "done"]
        /\ order = row[s].order
        /\ execution' = execution
        /\ Note("late", TRUE)
  /\ UNCHANGED <<service, held, row, beside, losses, cancelling, store, runner, faults>>
  /\ Idle

LEMMA ExecuteIs ==
  ASSUME SimTypes, NEW s \in Slots, execute(s)
  PROVE  \E order, d, r : Executes(s, order, d, r)
<1>0. portfolio \in [Users -> Portfolios]
  BY DEF SimTypes, WorldOK
<1> DEFINE order == IF at[s] = "sent" THEN held[s].order ELSE row[s].order
           d == Decision(order)  r == RowOf(s, order, d)
<1>1. /\ Execute(s) \/ LateCommit(s)
      /\ Execute(s) => at[s] = "sent" /\ rows' = Append(rows, RowOf(s, held[s].order, Decision(held[s].order)))
      /\ LateCommit(s) => at[s] = "late" /\ rows' = Append(rows, RowOf(s, row[s].order, Decision(row[s].order)))
      /\ UNCHANGED <<cancelling, store, runner, faults>> /\ Idle
  BY DEF execute, Stores, Execute, LateCommit
<1>2. rows' = Append(rows, r) /\ UNCHANGED losses
  BY <1>1 DEF Execute, LateCommit
<1>3. order \in Orders
  <2>1. Execute(s) => s \in InFlight
    BY <1>1 DEF InFlight
  <2>2. LateCommit(s) => row[s].order \in Orders /\ at[s] # "sent"
    BY <1>1 DEF SimTypes, CallOK
  <2> QED
    BY <1>1, <2>1, <2>2, FlightIs
<1>4. /\ \/ Execute(s) /\ at[s] = "sent" /\ order = held[s].order
            /\ at' = [at EXCEPT ![s] = "executed"] /\ execution' = [execution EXCEPT ![s] = d]
         \/ LateCommit(s) /\ at[s] = "late" /\ order = row[s].order
            /\ at' = [at EXCEPT ![s] = "done"] /\ execution' = execution /\ Note("late", TRUE)
      /\ portfolio' = Executed(order) /\ Filling(s, order)
      /\ UNCHANGED <<service, held, row, beside>>
  BY <1>1 DEF Execute, LateCommit
<1>5. d \in Decisions /\ d # NoExecution /\ DecidedFor(order, d)
  BY <1>0, <1>3, DecisionIs
<1>6. filled' = IF Fills(d) THEN filled \cup {s} ELSE filled
  BY <1>4, <1>5 DEF Filling, Fills
<1>7. /\ portfolio' \in [Users -> Portfolios]
      /\ \A u \in Users \ {order.userId} : portfolio'[u] = portfolio[u]
      /\ Moved(portfolio[order.userId], portfolio'[order.userId], order, d)
  BY <1>0, <1>3, <1>4, ExecutedIs
<1>8. d = Decision(order) /\ r = RowOf(s, order, d)
  OBVIOUS
<1> HIDE DEF order, d
<1>9. r \in Rows
  BY <1>3, <1>5, RowOfIs
<1>10. BookedBy(r)
  <2>1. /\ cashDelta(r) = CashMove(order, d) /\ shareDelta(r) = IF Fills(d) THEN Bought(order) ELSE 0
        /\ r.userId = order.userId /\ r.instrumentId = order.instrumentId
    BY <1>3, <1>5, DeltasOfRow DEF RowOf
  <2>2. \A i \in Instruments :
          SharesMove(order, d, i) = IF r.instrumentId = i THEN shareDelta(r) ELSE 0
    BY <2>1 DEF SharesMove
  <2>3. \A u \in Users : portfolio[u].cash \in Int /\ \A i \in Instruments : portfolio[u].shares[i] \in Int
    BY <1>0 DEF Portfolios
  <2> HIDE DEF r
  <2> QED
    BY <1>7, <2>1, <2>2, <2>3 DEF Moved, BookedBy
<1> HIDE DEF r
<1>11. Executes(s, order, d, r)
  BY <1>1, <1>2, <1>3, <1>4, <1>5, <1>6, <1>8, <1>9, <1>10 DEF Executes
<1> QED
  BY <1>11

LEMMA AppendingConserves ==
  ASSUME Conserved, rows \in Seq(Rows), NEW r \in Rows, rows' = Append(rows, r), BookedBy(r)
  PROVE  Conserved'
<1>1. rows' \in Seq(Rows) /\ Extends(rows, rows', r)
  BY AppendExtends
<1>2. /\ \A u : cashFold(rows', OwnedBy(rows', u))
                  = cashFold(rows, OwnedBy(rows, u)) + (IF r.userId = u THEN cashDelta(r) ELSE 0)
      /\ \A u, i : shareFold(rows', Position(rows', u, i))
                     = shareFold(rows, Position(rows, u, i))
                         + (IF r.userId = u /\ r.instrumentId = i THEN shareDelta(r) ELSE 0)
  BY <1>1, FoldsExtended
<1> QED
  BY <1>2 DEF Conserved, BookedBy

(* c is b with another status for a row that had moved nothing.            *)
Relabels(b, c, id, r) ==
  /\ id \in DOMAIN b /\ b[id].status # "FILLED"
  /\ r.userId = b[id].userId /\ r.instrumentId = b[id].instrumentId
  /\ c = [b EXCEPT ![id] = r]

LEMMA RelabellingMoves ==
  ASSUME NEW b \in Seq(Rows), NEW c, NEW id, NEW r \in Rows, Relabels(b, c, id, r)
  PROVE  /\ c \in Seq(Rows) /\ Len(c) = Len(b) /\ DOMAIN c = DOMAIN b
         /\ r.status # "FILLED" => SameMoves(b, c)
         /\ \A u : cashFold(c, OwnedBy(c, u))
                     = cashFold(b, OwnedBy(b, u)) + (IF r.userId = u THEN cashDelta(r) ELSE 0)
         /\ \A u, i : shareFold(c, Position(c, u, i))
                        = shareFold(b, Position(b, u, i))
                            + (IF r.userId = u /\ r.instrumentId = i THEN shareDelta(r) ELSE 0)
<1>1. /\ c \in Seq(Rows) /\ Len(c) = Len(b) /\ DOMAIN c = DOMAIN b
      /\ c[id] = r /\ \A n \in DOMAIN b \ {id} : c[n] = b[n]
      /\ id \in DOMAIN b /\ r.userId = b[id].userId /\ r.instrumentId = b[id].instrumentId
  BY DEF Relabels
<1>2. cashDelta(b[id]) = 0 /\ shareDelta(b[id]) = 0
  BY DEF cashDelta, shareDelta, Relabels
<1>3. r.status # "FILLED" => cashDelta(r) = 0 /\ shareDelta(r) = 0
  BY DEF cashDelta, shareDelta
<1>4. r.status # "FILLED" => SameMoves(b, c)
  BY <1>1, <1>2, <1>3 DEF SameMoves
<1>5. IsBook(b) /\ IsBook(c) /\ cashDelta(r) \in Int /\ shareDelta(r) \in Int
  BY <1>1, BookIs, DeltasAreInts
<1>6. ASSUME NEW ids \in SUBSET DOMAIN b, id \in ids
      PROVE  /\ cashFold(c, ids) = cashFold(b, ids) + cashDelta(r)
             /\ shareFold(c, ids) = shareFold(b, ids) + shareDelta(r)
             /\ cashFold(b, ids) \in Int /\ shareFold(b, ids) \in Int
  <2> DEFINE rest == ids \ {id}
  <2>1. rest \in SUBSET DOMAIN b /\ rest \in SUBSET DOMAIN c /\ id \notin rest /\ rest \cup {id} = ids
    BY <1>1, <1>6
  <2>2. \A n \in rest : cashDelta(c[n]) = cashDelta(b[n]) /\ shareDelta(c[n]) = shareDelta(b[n])
    BY <1>1
  <2> HIDE DEF rest
  <2>3. cashFold(c, rest) = cashFold(b, rest) /\ shareFold(c, rest) = shareFold(b, rest)
    BY <2>2, FoldsAgree
  <2>4. /\ cashFold(b, rest \cup {id}) = cashFold(b, rest) + cashDelta(b[id])
        /\ shareFold(b, rest \cup {id}) = shareFold(b, rest) + shareDelta(b[id])
        /\ cashFold(b, rest) \in Int /\ shareFold(b, rest) \in Int
    BY <1>5, <2>1, FoldsWithOneMore, FoldsAreInts
  <2>5. /\ cashFold(c, rest \cup {id}) = cashFold(c, rest) + cashDelta(c[id])
        /\ shareFold(c, rest \cup {id}) = shareFold(c, rest) + shareDelta(c[id])
    BY <1>1, <1>5, <2>1, FoldsWithOneMore
  <2>6. /\ cashFold(c, rest \cup {id}) = cashFold(b, rest \cup {id}) + cashDelta(r)
        /\ shareFold(c, rest \cup {id}) = shareFold(b, rest \cup {id}) + shareDelta(r)
        /\ cashFold(b, rest \cup {id}) \in Int /\ shareFold(b, rest \cup {id}) \in Int
    BY <1>1, <1>2, <1>5, <2>3, <2>4, <2>5
  <2> QED
    BY <2>1, <2>6, Zenon
<1>7. ASSUME NEW ids \in SUBSET DOMAIN b, id \notin ids
      PROVE  /\ cashFold(c, ids) = cashFold(b, ids) /\ shareFold(c, ids) = shareFold(b, ids)
             /\ cashFold(b, ids) \in Int /\ shareFold(b, ids) \in Int
  <2>1. \A n \in ids : cashDelta(c[n]) = cashDelta(b[n]) /\ shareDelta(c[n]) = shareDelta(b[n])
    BY <1>1, <1>7
  <2> QED
    BY <1>5, <2>1, FoldsAgree, FoldsAreInts
<1>8. /\ \A u : OwnedBy(c, u) = OwnedBy(b, u) /\ OwnedBy(b, u) \in SUBSET DOMAIN b
                /\ (id \in OwnedBy(b, u) <=> r.userId = u)
      /\ \A u, i : Position(c, u, i) = Position(b, u, i) /\ Position(b, u, i) \in SUBSET DOMAIN b
                   /\ (id \in Position(b, u, i) <=> r.userId = u /\ r.instrumentId = i)
  <2>1. ASSUME NEW u
        PROVE  OwnedBy(c, u) = OwnedBy(b, u) /\ OwnedBy(b, u) \in SUBSET DOMAIN b
               /\ (id \in OwnedBy(b, u) <=> r.userId = u)
    BY <1>1 DEF OwnedBy
  <2>2. ASSUME NEW u, NEW i
        PROVE  Position(c, u, i) = Position(b, u, i) /\ Position(b, u, i) \in SUBSET DOMAIN b
               /\ (id \in Position(b, u, i) <=> r.userId = u /\ r.instrumentId = i)
    BY <1>1 DEF OwnedBy, Position
  <2> QED
    BY <2>1, <2>2
<1>9. ASSUME NEW u
      PROVE  cashFold(c, OwnedBy(c, u))
               = cashFold(b, OwnedBy(b, u)) + (IF r.userId = u THEN cashDelta(r) ELSE 0)
  <2> DEFINE ids == OwnedBy(b, u)
  <2>1. OwnedBy(c, u) = ids /\ ids \in SUBSET DOMAIN b /\ (id \in ids <=> r.userId = u)
    BY <1>8
  <2> HIDE DEF ids
  <2>2. cashFold(c, ids) = cashFold(b, ids) + (IF r.userId = u THEN cashDelta(r) ELSE 0)
    <3>1. CASE r.userId = u
      BY <1>6, <2>1, <3>1
    <3>2. CASE r.userId # u
      <4>1. cashFold(c, ids) = cashFold(b, ids) /\ cashFold(b, ids) \in Int
        BY <1>7, <2>1, <3>2
      <4> QED
        BY <3>2, <4>1
    <3> QED
      BY <3>1, <3>2
  <2> QED
    BY <2>1, <2>2 DEF ids
<1>10. ASSUME NEW u, NEW i
       PROVE  shareFold(c, Position(c, u, i))
                = shareFold(b, Position(b, u, i))
                    + (IF r.userId = u /\ r.instrumentId = i THEN shareDelta(r) ELSE 0)
  <2> DEFINE ids == Position(b, u, i)
  <2>1. /\ Position(c, u, i) = ids /\ ids \in SUBSET DOMAIN b
        /\ id \in ids <=> r.userId = u /\ r.instrumentId = i
    BY <1>8
  <2> HIDE DEF ids
  <2>2. shareFold(c, ids) = shareFold(b, ids)
                              + (IF r.userId = u /\ r.instrumentId = i THEN shareDelta(r) ELSE 0)
    <3>1. CASE r.userId = u /\ r.instrumentId = i
      BY <1>6, <2>1, <3>1
    <3>2. CASE ~ (r.userId = u /\ r.instrumentId = i)
      <4>1. shareFold(c, ids) = shareFold(b, ids) /\ shareFold(b, ids) \in Int
        BY <1>7, <2>1, <3>2
      <4> QED
        BY <3>2, <4>1
    <3> QED
      BY <3>1, <3>2
  <2> QED
    BY <2>1, <2>2 DEF ids
<1> QED
  BY <1>1, <1>4, <1>9, <1>10

(* A cancellation that is carried out.                                     *)
LEMMA CancelIs ==
  ASSUME rows \in Seq(Rows), NEW cancel \in cancelling, executeCancel(cancel)
  PROVE  /\ cancel.answer = "none" /\ Idle
         /\ \/ /\ ~ Cancellable(cancel.orderId) /\ rows' = rows
               /\ cancelling' = (cancelling \ {cancel}) \cup {[cancel EXCEPT !.answer = "refused"]}
            \/ LET id == cancel.orderId  r == [rows[id] EXCEPT !.status = "CANCELLED"] IN
               /\ id \in DOMAIN rows /\ rows[id].status = "NEW" /\ r \in Rows
               /\ rows' = [rows EXCEPT ![id] = r]
               /\ cancelling' = (cancelling \ {cancel}) \cup {[cancel EXCEPT !.answer = "ok"]}
         /\ UNCHANGED <<vars, store, runner, faults>>
<1> DEFINE id == cancel.orderId
<1>1. CASE Cancellable(id)
  <2>1. id \in DOMAIN rows /\ rows[id].status = "NEW" /\ rows[id] \in Rows
    BY <1>1 DEF Cancellable
  <2>2. [rows[id] EXCEPT !.status = "CANCELLED"] \in Rows
    BY <2>1 DEF Rows, ORDER_STATUSES
  <2>3. rows' = [rows EXCEPT ![id].status = "CANCELLED"]
    BY <1>1 DEF executeCancel
  <2>4. rows' = [rows EXCEPT ![id] = [rows[id] EXCEPT !.status = "CANCELLED"]]
    BY <2>1, <2>3 DEF Rows
  <2> QED
    BY <1>1, <2>1, <2>2, <2>4 DEF executeCancel
<1>2. CASE ~ Cancellable(id)
  BY <1>2 DEF executeCancel
<1> QED
  BY <1>1, <1>2

(* Portfolios and folds that move together stay together.                  *)
LEMMA FoldsConserve ==
  ASSUME Conserved, NEW r, BookedBy(r),
         \A u : cashFold(rows', OwnedBy(rows', u))
                  = cashFold(rows, OwnedBy(rows, u)) + (IF r.userId = u THEN cashDelta(r) ELSE 0),
         \A u, i : shareFold(rows', Position(rows', u, i))
                     = shareFold(rows, Position(rows, u, i))
                         + (IF r.userId = u /\ r.instrumentId = i THEN shareDelta(r) ELSE 0)
  PROVE  Conserved'
BY DEF Conserved, BookedBy

LEMMA RelabellingConserves ==
  ASSUME Conserved, rows \in Seq(Rows), NEW id \in DOMAIN rows, NEW r \in Rows,
         rows[id].status = "NEW", r.userId = rows[id].userId,
         r.instrumentId = rows[id].instrumentId, rows' = [rows EXCEPT ![id] = r], BookedBy(r)
  PROVE  Conserved'
<1>1. Relabels(rows, rows', id, r)
  BY DEF Relabels
<1>2. \A u : cashFold(rows', OwnedBy(rows', u))
                = cashFold(rows, OwnedBy(rows, u)) + (IF r.userId = u THEN cashDelta(r) ELSE 0)
  BY <1>1, RelabellingMoves
<1>3. \A u, i : shareFold(rows', Position(rows', u, i))
                  = shareFold(rows, Position(rows, u, i))
                      + (IF r.userId = u /\ r.instrumentId = i THEN shareDelta(r) ELSE 0)
  BY <1>1, RelabellingMoves
<1> QED
  BY <1>2, <1>3, FoldsConserve

LEMMA ConservedStays ==
  ASSUME LoadSimOK, Conserved, rows \in Seq(Rows), RunOK, [LoadNext]_loadVars
  PROVE  Conserved'
<1>1. SimTypes /\ portfolio \in [Users -> Portfolios]
  BY DEF LoadSimOK, SimTypes, WorldOK
<1>2. CASE UNCHANGED <<portfolio, rows>>
  BY <1>2 DEF Conserved
<1>3. ASSUME NEW s \in Slots, execute(s) PROVE Conserved'
  BY <1>1, <1>3, ExecuteIs, AppendingConserves DEF Executes
<1>4. ASSUME NEW s \in Slots, overspend(s) PROVE Conserved'
  <2>1. PICK order, d : Overspending(s, order, d)
    BY <1>1, <1>4, OverspendIs
  <2> DEFINE r == RowOf(s, order, d)
  <2>2. r \in Rows /\ rows' = Append(rows, r) /\ portfolio' = Booked(r)
    BY <2>1 DEF Overspending
  <2> HIDE DEF r
  <2>3. BookedBy(r)
    BY <1>1, <2>2, BookedIs DEF BookedBy
  <2> QED
    BY <2>2, <2>3, AppendingConserves
<1>5. ASSUME NEW order \in Menu, invent(order) PROVE Conserved'
  <2>1. PICK r \in Rows : rows' = Append(rows, r) /\ portfolio' = Booked(r)
    BY <1>1, <1>5, InventIs
  <2>2. BookedBy(r)
    BY <1>1, <2>1, BookedIs DEF BookedBy
  <2> QED
    BY <2>1, <2>2, AppendingConserves
<1>7. ASSUME NEW cancel \in cancelling, executeCancel(cancel) PROVE Conserved'
  <2>1. UNCHANGED portfolio
    BY <1>7, CancelIs DEF vars
  <2>2. CASE rows' = rows
    BY <1>2, <2>1, <2>2
  <2>3. CASE rows' # rows
    <3> DEFINE id == cancel.orderId  r == [rows[id] EXCEPT !.status = "CANCELLED"]
    <3>1. id \in DOMAIN rows /\ rows[id].status = "NEW" /\ r \in Rows /\ rows' = [rows EXCEPT ![id] = r]
      BY <1>7, <2>3, CancelIs
    <3>2. rows[id] \in Rows
      BY <3>1
    <3>3. r.userId = rows[id].userId /\ r.instrumentId = rows[id].instrumentId /\ r.status = "CANCELLED"
      BY <3>2 DEF Rows
    <3>4. cashDelta(r) = 0 /\ shareDelta(r) = 0
      BY <3>3 DEF cashDelta, shareDelta
    <3> HIDE DEF r
    <3>6. \A u \in Users : portfolio[u].cash \in Int /\ \A i \in Instruments : portfolio[u].shares[i] \in Int
      BY <1>1 DEF Portfolios
    <3>5. BookedBy(r)
      BY <2>1, <3>4, <3>6 DEF BookedBy
    <3> QED
      BY <3>1, <3>3, <3>5, RelabellingConserves
  <2> QED
    BY <2>2, <2>3
<1>8. ASSUME NEW cancel \in cancelling, miscancel(cancel) PROVE Conserved'
  <2> DEFINE id == cancel.orderId  r == [rows[id] EXCEPT !.status = "FILLED"]
  <2>1. /\ id \in DOMAIN rows /\ rows[id].status = "NEW" /\ r \in Rows
        /\ rows' = [rows EXCEPT ![id] = r] /\ portfolio' = Booked(r)
    BY <1>8, MiscancelIs
  <2>2. rows[id] \in Rows
    BY <2>1
  <2>3. r.userId = rows[id].userId /\ r.instrumentId = rows[id].instrumentId
    BY <2>2 DEF Rows
  <2> HIDE DEF r
  <2>4. BookedBy(r)
    BY <1>1, <2>1, BookedIs DEF BookedBy
  <2> QED
    BY <2>1, <2>3, <2>4, RelabellingConserves
<1>9. CASE \/ UNCHANGED loadVars \/ StartLoop \/ highWaterMark \/ prepare \/ NextWave
           \/ waitForQuiesce \/ readLedger \/ check \/ fail
           \/ \E profile \in Profiles : start(profile)
           \/ \E u \in Users : readCash(u)
  BY <1>2, <1>9 DEF loadVars, vars, StartLoop, highWaterMark, prepare, NextWave, waitForQuiesce, readLedger,
     check, fail, start, readCash, seedUsers
<1>10. ASSUME NEW index \in Own, fire(index) PROVE UNCHANGED <<portfolio, rows>>
  BY <1>10 DEF fire, place, vars
<1>11. ASSUME NEW s \in Others, NEW order \in LoopOrders, tick(s, order)
       PROVE  UNCHANGED <<portfolio, rows>>
  BY <1>11 DEF tick, place
<1>12. ASSUME NEW s \in Slots, shed(s) \/ answer(s) \/ loseAnswer(s) PROVE UNCHANGED <<portfolio, rows>>
  BY <1>12 DEF shed, answer, loseAnswer, Shed, Answer, Lose
<1>13. ASSUME NEW cancel \in cancelling, answerCancel(cancel) \/ loseCancel(cancel)
       PROVE  UNCHANGED <<portfolio, rows>>
  BY <1>13 DEF answerCancel, loseCancel, vars
<1>14. ASSUME NEW read \in reads, portfolioRead(read) PROVE UNCHANGED <<portfolio, rows>>
  BY <1>14 DEF portfolioRead, ReadPortfolio, seedUser, FailRead, Landed
<1>15. ASSUME NEW s \in Slots, forget(s) PROVE UNCHANGED <<portfolio, rows>>
  BY <1>15 DEF forget
<1> QED
  BY <1>2, <1>3, <1>4, <1>5, <1>7, <1>8, <1>9, <1>10, <1>11, <1>12, <1>13, <1>14, <1>15 DEF LoadNext

-----------------------------------------------------------------------------
(***************************************************************************)
(* What a step does to a call.                                             *)
(***************************************************************************)
Left(s) ==
  /\ at'[s] = at[s] /\ held'[s] = held[s] /\ execution'[s] = execution[s]
  /\ row'[s] = row[s]

Sent(s) ==
  /\ at[s] = "unsent" /\ at'[s] = "sent" /\ row'[s] = row[s]
  /\ s \in Own => run.phase = "placing" /\ UserOf(s)' \in runUsers

Served(s) ==
  /\ at[s] = "sent" /\ at'[s] = "executed" /\ held'[s] = held[s] /\ row'[s] = row[s]

Back(s) ==
  /\ s \in InFlight /\ at'[s] \in {"late", "done"} /\ (at'[s] = "late" => at[s] = "sent")
  /\ row'[s].order = held[s].order

Landing(s) == at[s] = "late" /\ at'[s] = "done" /\ row'[s] = row[s] /\ held'[s] = held[s]

Moves(s) == Left(s) \/ Sent(s) \/ Served(s) \/ Back(s) \/ Landing(s)

LEMMA CallsMove ==
  ASSUME SimTypes, RunOK, [LoadNext]_loadVars
  PROVE  \A s \in Slots : Moves(s)
<1>1. CASE UNCHANGED calls
  BY <1>1 DEF calls, Moves, Left
<1>0. CallsTyped /\ \A s \in Slots : at[s] \in Positions
  BY DEF SimTypes, CallsTyped
<1>2. ASSUME NEW s \in Slots, NEW order \in Menu, place(s, order),
             s \in Own => run.phase = "placing" /\ order.userId \in runUsers
      PROVE  \A t \in Slots : Moves(t)
  <2>1. /\ at[s] = "unsent" /\ at' = [at EXCEPT ![s] = "sent"]
        /\ \E r : r.order = order /\ held' = [held EXCEPT ![s] = r]
        /\ UNCHANGED <<execution, row>>
    BY <1>2, PlacingIs
  <2>2. Sent(s)
    BY <1>0, <1>2, <2>1 DEF Sent, CallsTyped, UserOf
  <2>3. \A t \in Slots \ {s} : Left(t)
    BY <1>0, <2>1 DEF Left, CallsTyped
  <2> QED
    BY <2>2, <2>3 DEF Moves
<1>3. ASSUME NEW s \in Slots, at[s] = "sent", at' = [at EXCEPT ![s] = "executed"],
             UNCHANGED <<held, row>>, \A t \in Slots \ {s} : execution'[t] = execution[t]
      PROVE  \A t \in Slots : Moves(t)
  BY <1>0, <1>3 DEF Moves, Left, Served, CallsTyped
<1>4. ASSUME NEW s \in Slots, Returning(s) PROVE \A t \in Slots : Moves(t)
  <2>1. PICK position, actual :
         /\ position \in {"late", "done"}
         /\ at' = [at EXCEPT ![s] = position]
         /\ held' = [held EXCEPT ![s] = NoReservation]
         /\ execution' = [execution EXCEPT ![s] = NoExecution]
         /\ row' = [row EXCEPT ![s] = [order |-> held[s].order,
                                       expected |-> held[s].expectation, actual |-> actual]]
    BY <1>4, ReturningIs
  <2>2. s \in InFlight
    BY <1>4, ReturningSettles
  <2>3. at'[s] = "late" => at[s] = "sent"
    BY <1>0, <1>4 DEF Returning, Answer, Lose, CallsTyped
  <2>4. Back(s)
    BY <1>0, <2>1, <2>2, <2>3 DEF Back, CallsTyped
  <2>5. \A t \in Slots \ {s} : Left(t)
    BY <1>0, <2>1 DEF Left, CallsTyped
  <2> QED
    BY <2>4, <2>5 DEF Moves
<1>5. ASSUME NEW index \in Own, fire(index) PROVE \A t \in Slots : Moves(t)
  <2>1. index \in Slots
    BY LoadAssumption
  <2> QED
    BY <1>1, <1>2, <1>5, <2>1, FiringIs DEF vars
<1>6. ASSUME NEW s \in Others, NEW order \in LoopOrders, tick(s, order) PROVE \A t \in Slots : Moves(t)
  BY <1>2, <1>6, LoadAssumption DEF tick, Others
<1>7. ASSUME NEW s \in Slots, execute(s) PROVE \A t \in Slots : Moves(t)
  <2>1. PICK order, d, r : Executes(s, order, d, r)
    BY <1>7, ExecuteIs
  <2>2. UNCHANGED <<held, row>>
    BY <2>1 DEF Executes
  <2>3. CASE at[s] = "sent" /\ at' = [at EXCEPT ![s] = "executed"] /\ execution' = [execution EXCEPT ![s] = d]
    BY <1>0, <1>3, <2>2, <2>3 DEF CallsTyped
  <2>4. CASE at[s] = "late" /\ at' = [at EXCEPT ![s] = "done"] /\ execution' = execution
    BY <1>0, <2>2, <2>4 DEF Moves, Left, Landing, CallsTyped
  <2> QED
    BY <2>1, <2>3, <2>4 DEF Executes
<1>8. ASSUME NEW s \in Slots, shed(s) PROVE \A t \in Slots : Moves(t)
  BY <1>3, <1>8 DEF shed, Shed
<1>9. ASSUME NEW s \in Slots, answer(s) \/ loseAnswer(s) PROVE \A t \in Slots : Moves(t)
  BY <1>4, <1>9 DEF answer, loseAnswer, Returning
<1>10. ASSUME NEW s \in Slots, NEW d, Misserve(s, d) PROVE \A t \in Slots : Moves(t)
  BY <1>0, <1>3, <1>10, MisservingIs DEF CallsTyped
<1>11. ASSUME NEW s \in Slots, overspend(s) \/ forget(s) PROVE \A t \in Slots : Moves(t)
  BY <1>10, <1>11 DEF overspend, forget
<1>12. CASE \/ UNCHANGED loadVars \/ StartLoop \/ highWaterMark \/ prepare \/ NextWave
            \/ waitForQuiesce \/ readLedger \/ check \/ fail
            \/ \E profile \in Profiles : start(profile)
            \/ \E u \in Users : readCash(u)
            \/ \E order \in Menu : invent(order)
  BY <1>1, <1>12 DEF loadVars, vars, StartLoop, highWaterMark, prepare, NextWave, waitForQuiesce, readLedger,
     check, fail, start, readCash, seedUsers, invent
<1>13. ASSUME NEW cancel \in cancelling,
              executeCancel(cancel) \/ answerCancel(cancel) \/ loseCancel(cancel) \/ miscancel(cancel)
       PROVE  UNCHANGED calls
  BY <1>13 DEF executeCancel, answerCancel, loseCancel, miscancel, vars
<1>14. ASSUME NEW read \in reads, portfolioRead(read) PROVE UNCHANGED calls
  BY <1>14 DEF portfolioRead, ReadPortfolio, seedUser, FailRead, Landed
<1> QED
  BY <1>1, <1>5, <1>6, <1>7, <1>8, <1>9, <1>11, <1>12, <1>13, <1>14 DEF LoadNext

-----------------------------------------------------------------------------
(***************************************************************************)
(* What a step does to the run, and to the rows.                           *)
(***************************************************************************)
LEMMA StoreMoves ==
  ASSUME [LoadNext]_loadVars
  PROVE  store' = store \/ \E kind, status, id, call : recordAttempt(kind, status, id, call)
BY DEF LoadNext, loadVars, runner, StartLoop, tick, execute, shed, answer, loseAnswer, fire,
   executeCancel, answerCancel, loseCancel, portfolioRead, overspend, forget, Misserve, invent,
   miscancel, start, highWaterMark, prepare, check, fail, NextWave, waitForQuiesce, readLedger, readCash

LEMMA FormedStays ==
  ASSUME Formed, RunOK, tally.resting \in Seq(Nat), [LoadNext]_loadVars
  PROVE  Formed'
<1>1. RunFormed /\ TallyFormed /\ EvidenceFormed /\ StoreFormed /\ CancelsFormed
  BY DEF Formed
<1>2. RunFormed'
  <2>2. CASE run' = run
    BY <1>1, <2>2 DEF RunFormed
  <2>3. ASSUME NEW profile \in Profiles, start(profile) PROVE RunFormed'
    BY <2>3 DEF start, RunFormed, NoRun
  <2>4. CASE highWaterMark \/ prepare
    BY <1>1, <2>4 DEF highWaterMark, prepare, Phase, RunFormed
  <2>5. CASE NextWave
    BY <1>1, <2>5 DEF NextWave, RunFormed
  <2>6. ASSUME NEW index \in Own, fire(index) PROVE RunFormed'
    BY <1>1, <2>6, FiringIs DEF RunFormed
  <2>7. CASE waitForQuiesce \/ readLedger \/ check \/ fail
    BY <1>1, <2>7 DEF waitForQuiesce, readLedger, check, fail, Phase, RunFormed
  <2>8. ASSUME NEW u \in Users, readCash(u) PROVE RunFormed'
    BY <1>1, <2>8 DEF readCash, RunFormed
  <2>9. \/ run' = run
        \/ \E profile \in Profiles : start(profile)
        \/ highWaterMark \/ prepare \/ NextWave \/ \E index \in Own : fire(index)
        \/ waitForQuiesce \/ readLedger \/ check \/ fail \/ \E u \in Users : readCash(u)
    BY DEF LoadNext, loadVars, runner, StartLoop, tick, execute, shed, answer, loseAnswer,
       executeCancel, answerCancel, loseCancel, portfolioRead, overspend, forget, Misserve, invent, miscancel
  <2> QED
    BY <2>2, <2>3, <2>4, <2>5, <2>6, <2>7, <2>8, <2>9
<1>3. TallyFormed'
  <2>2. tally' = tally \/ tally' = issued \/ tally' = fold => TallyFormed'
    BY <1>1 DEF TallyFormed, issued, fold
  <2>3. ASSUME NEW index \in Own, fire(index) PROVE TallyFormed'
    <3>1. CASE tally' = [tally EXCEPT !.resting = Tail(@)]
      BY <1>1, <3>1 DEF TallyFormed
    <3> QED
      BY <2>2, <2>3, <3>1, FiringIs
  <2>4. ASSUME NEW s \in Slots, answer(s) PROVE TallyFormed'
    <3>1. CASE tally' = Noted(s, execution[s])
      BY <1>1, <3>1 DEF TallyFormed, Noted, issued
    <3> QED
      BY <2>2, <2>4, <3>1 DEF answer
  <2>5. ASSUME NEW cancel \in cancelling, answerCancel(cancel) PROVE TallyFormed'
    BY <1>1, <2>5 DEF TallyFormed, answerCancel, issued
  <2>6. ASSUME NEW s \in Slots, loseAnswer(s) PROVE TallyFormed'
    BY <2>2, <2>6 DEF loseAnswer
  <2>9. \/ tally' = tally \/ tally' = issued \/ tally' = fold
        \/ \E index \in Own : fire(index)
        \/ \E s \in Slots : answer(s) \/ loseAnswer(s)
        \/ \E cancel \in cancelling : answerCancel(cancel)
    BY DEF LoadNext, loadVars, runner, StartLoop, tick, execute, shed,
       executeCancel, loseCancel, portfolioRead, overspend, forget, Misserve, invent, miscancel,
       start, highWaterMark, prepare, waitForQuiesce, readLedger, check, fail, readCash, NextWave
  <2> QED
    BY <2>2, <2>3, <2>4, <2>5, <2>6, <2>9
<1>4. EvidenceFormed'
  <2>1. CASE evidence' = evidence
    BY <1>1, <2>1 DEF EvidenceFormed
  <2>2. CASE waitForQuiesce \/ readLedger
    BY <1>1, <2>2 DEF EvidenceFormed, waitForQuiesce, readLedger
  <2>3. ASSUME NEW u \in Users, readCash(u) PROVE EvidenceFormed'
    BY <1>1, <2>3 DEF EvidenceFormed, readCash
  <2>9. evidence' = evidence \/ waitForQuiesce \/ readLedger \/ \E u \in Users : readCash(u)
    BY DEF LoadNext, loadVars, runner, StartLoop, tick, execute, shed, answer, loseAnswer, fire,
       executeCancel, answerCancel, loseCancel, portfolioRead, overspend, forget, Misserve, invent,
       miscancel, start, highWaterMark, prepare, check, fail, NextWave
  <2> QED
    BY <2>1, <2>2, <2>3, <2>9
<1>5. StoreFormed'
  BY <1>1, StoreMoves DEF StoreFormed, recordAttempt, record
<1>6. CancelsFormed'
  <2>1. CASE cancelling' = cancelling
    BY <1>1, <2>1 DEF CancelsFormed
  <2>2. ASSUME NEW index \in Own, fire(index) PROVE CancelsFormed'
    <3>1. CASE /\ tally.resting # <<>>
               /\ cancelling' = cancelling \cup {[orderId |-> Head(tally.resting), answer |-> "none"]}
      <4>1. Head(tally.resting) \in Nat
        BY <3>1
      <4> QED
        BY <1>1, <3>1, <4>1 DEF CancelsFormed
    <3> QED
      BY <2>1, <2>2, <3>1, FiringIs
  <2>3. ASSUME NEW cancel \in cancelling,
               executeCancel(cancel) \/ answerCancel(cancel) \/ loseCancel(cancel) \/ miscancel(cancel)
        PROVE  CancelsFormed'
    BY <1>1, <2>3 DEF CancelsFormed, executeCancel, answerCancel, loseCancel, miscancel
  <2>9. \/ cancelling' = cancelling \/ \E index \in Own : fire(index)
        \/ \E cancel \in cancelling :
             executeCancel(cancel) \/ answerCancel(cancel) \/ loseCancel(cancel) \/ miscancel(cancel)
    BY DEF LoadNext, loadVars, runner, StartLoop, tick, execute, shed, answer, loseAnswer,
       portfolioRead, overspend, forget, Misserve, invent,
       start, highWaterMark, prepare, check, fail, NextWave, waitForQuiesce, readLedger, readCash
  <2> QED
    BY <2>1, <2>2, <2>3, <2>9
<1> QED
  BY <1>2, <1>3, <1>4, <1>5, <1>6 DEF Formed

(* Where a phase may lead.                                                 *)
Follows(p, q) ==
  \/ q = p
  \/ p = "marked" /\ q = "preparing"
  \/ p \in {"preparing", "placing"} /\ q \in {"placing", "quiescing"}
  \/ p = "quiescing" /\ q = "first"
  \/ p = "first" /\ q = "ledger"
  \/ p = "ledger" /\ q = "second"
  \/ p = "second" /\ q = "judging"
  \/ p = "judging" /\ q = "judged"
  \/ p \in {"opening", "ledger"} /\ q = "failed"

RunGoesOn ==
  /\ run'.mark = run.mark /\ run'.profile = run.profile
  /\ Follows(run.phase, run'.phase)

LEMMA RunMoves ==
  ASSUME Formed, RunOK, [LoadNext]_loadVars
  PROVE  RunGoesOn \/ highWaterMark \/ \E profile \in Profiles : start(profile)
<1>1. RunFormed
  BY DEF Formed
<1>2. CASE run' = run
  BY <1>2 DEF RunGoesOn, Follows
<1>3. CASE NextWave
  BY <1>1, <1>3 DEF NextWave, RunFormed, RunGoesOn, Follows
<1>4. ASSUME NEW index \in Own, fire(index) PROVE RunGoesOn
  BY <1>1, <1>4, FiringIs DEF RunFormed, RunGoesOn, Follows
<1>5. CASE prepare \/ waitForQuiesce \/ readLedger \/ check \/ fail
  BY <1>1, <1>5 DEF prepare, waitForQuiesce, readLedger, check, fail, Phase, RunFormed, RunGoesOn, Follows
<1>6. ASSUME NEW u \in Users, readCash(u) PROVE RunGoesOn
  BY <1>1, <1>6 DEF readCash, RunFormed, RunGoesOn, Follows, AfterCash
<1>7. \/ run' = run
      \/ \E profile \in Profiles : start(profile)
      \/ highWaterMark \/ prepare \/ NextWave \/ \E index \in Own : fire(index)
      \/ waitForQuiesce \/ readLedger \/ check \/ fail \/ \E u \in Users : readCash(u)
  BY DEF LoadNext, loadVars, runner, StartLoop, tick, execute, shed, answer, loseAnswer,
     executeCancel, answerCancel, loseCancel, portfolioRead, overspend, forget, Misserve, invent, miscancel
<1> QED
  BY <1>2, <1>3, <1>4, <1>5, <1>6, <1>7

(* A row that stays is the same order, in the same status unless it was NEW. *)
RowStays(n) ==
  /\ n \in DOMAIN rows' /\ rows'[n].call = rows[n].call /\ rows'[n].userId = rows[n].userId
  /\ rows'[n].instrumentId = rows[n].instrumentId
  /\ rows'[n].size = rows[n].size /\ rows'[n].price = rows[n].price
  /\ rows'[n].status = rows[n].status \/ rows[n].status = "NEW"

(* A row that is new is of a call that was out, or of nobody's.            *)
Fed(r) ==
  /\ r \in Rows /\ rows' = Append(rows, r)
  /\ \/ r.call = Null /\ r.userId \in runUsers /\ UNCHANGED calls /\ faults' # {}
     \/ \E s \in Slots :
          /\ r.call = s /\ \A t \in Slots \ {s} : Left(t)
          /\ \/ /\ at[s] = "sent" /\ at'[s] = "executed" /\ execution'[s] # NoExecution
                /\ held'[s] = held[s] /\ r.userId = UserOf(s) /\ r.size = held[s].order.size
                /\ r.price = execution'[s].price /\ r.status = execution'[s].status
             \/ at[s] = "late" /\ at'[s] = "done" /\ r.userId = row[s].order.userId

Relabelled(id, status) ==
  /\ id \in DOMAIN rows /\ rows[id].status = "NEW" /\ status \in ORDER_STATUSES
  /\ rows' = [rows EXCEPT ![id] = [rows[id] EXCEPT !.status = status]]
  /\ UNCHANGED calls
  /\ \E cancel \in cancelling :
       /\ cancel.orderId = id /\ cancel.answer = "none"
       /\ \/ status = "CANCELLED" /\ faults' = faults
          \/ status = "FILLED" /\ faults' = {"miscancel"}

LEMMA RowsMove ==
  ASSUME SimTypes, rows \in Seq(Rows), [LoadNext]_loadVars
  PROVE  rows' = rows \/ (\E r : Fed(r)) \/ \E id, status : Relabelled(id, status)
<1>0. CallsTyped
  BY DEF SimTypes
<1>1. ASSUME NEW s \in Slots, execute(s) PROVE \E r : Fed(r)
  <2>1. PICK order, d, r : Executes(s, order, d, r)
    BY <1>1, ExecuteIs
  <2>2. /\ r \in Rows /\ rows' = Append(rows, r) /\ r.call = s /\ r.userId = order.userId
        /\ r.size = order.size /\ r.price = d.price /\ r.status = d.status
        /\ UNCHANGED <<held, row>> /\ d # NoExecution
    BY <2>1 DEF Executes, RowOf
  <2>3. CASE /\ at[s] = "sent" /\ at' = [at EXCEPT ![s] = "executed"]
             /\ order = held[s].order /\ execution' = [execution EXCEPT ![s] = d]
    BY <1>0, <2>2, <2>3 DEF Fed, Left, CallsTyped, UserOf
  <2>4. CASE at[s] = "late" /\ at' = [at EXCEPT ![s] = "done"] /\ order = row[s].order /\ execution' = execution
    BY <1>0, <2>2, <2>4 DEF Fed, Left, CallsTyped
  <2> QED
    BY <2>1, <2>3, <2>4 DEF Executes
<1>2. ASSUME NEW s \in Slots, overspend(s) PROVE \E r : Fed(r)
  <2>1. PICK order, d : Overspending(s, order, d)
    BY <1>2, OverspendIs
  <2>2. /\ at[s] = "sent" /\ at' = [at EXCEPT ![s] = "executed"]
        /\ execution' = [execution EXCEPT ![s] = d] /\ UNCHANGED <<held, row>>
        /\ order = held[s].order /\ d # NoExecution
    BY <2>1, MisservingIs DEF Overspending
  <2> DEFINE r == RowOf(s, order, d)
  <2>3. /\ r \in Rows /\ rows' = Append(rows, r) /\ r.call = s /\ r.userId = order.userId
        /\ r.size = order.size /\ r.price = d.price /\ r.status = d.status
    BY <2>1 DEF Overspending, RowOf
  <2> HIDE DEF r
  <2>4. Fed(r)
    BY <1>0, <2>2, <2>3 DEF Fed, Left, CallsTyped, UserOf
  <2> QED
    BY <2>4
<1>3. ASSUME NEW order \in Menu, invent(order) PROVE \E r : Fed(r)
  <2>1. PICK r \in Rows : /\ r.call = Null /\ r.userId \in runUsers /\ rows' = Append(rows, r)
                          /\ UNCHANGED calls /\ Misbehaves("invent", r.userId)
    BY <1>3, InventIs
  <2> QED
    BY <2>1, MisbehavingIs DEF Fed
<1>4. ASSUME NEW cancel \in cancelling, executeCancel(cancel)
      PROVE  rows' = rows \/ \E id, status : Relabelled(id, status)
  BY <1>4, CancelIs DEF Relabelled, ORDER_STATUSES, vars
<1>5. ASSUME NEW cancel \in cancelling, miscancel(cancel) PROVE \E id, status : Relabelled(id, status)
  <2>1. cancel.answer = "none" /\ faults' = {"miscancel"}
    BY <1>5 DEF miscancel, Misbehaves
  <2> QED
    BY <1>5, <2>1, MiscancelIs DEF Relabelled, ORDER_STATUSES
<1>9. \/ rows' = rows
      \/ \E s \in Slots : execute(s) \/ overspend(s)
      \/ \E order \in Menu : invent(order)
      \/ \E cancel \in cancelling : executeCancel(cancel) \/ miscancel(cancel)
  BY DEF LoadNext, loadVars, StartLoop, tick, shed, answer, loseAnswer, fire,
     answerCancel, loseCancel, portfolioRead, forget,
     start, highWaterMark, prepare, check, fail, NextWave, waitForQuiesce, readLedger, readCash
<1> QED
  BY <1>1, <1>2, <1>3, <1>4, <1>5, <1>9

LEMMA RelabelledIs ==
  ASSUME rows \in Seq(Rows), NEW id, NEW status, Relabelled(id, status)
  PROVE  LET r == [rows[id] EXCEPT !.status = status] IN
         /\ r \in Rows /\ r.status = status /\ r.call = rows[id].call
         /\ rows' \in Seq(Rows) /\ DOMAIN rows' = DOMAIN rows /\ Len(rows') = Len(rows)
         /\ rows'[id] = r /\ \A n \in DOMAIN rows \ {id} : rows'[n] = rows[n]
         /\ \A n \in DOMAIN rows : RowStays(n)
         /\ Relabels(rows, rows', id, r)
<1> DEFINE r == [rows[id] EXCEPT !.status = status]
<1>1. id \in DOMAIN rows /\ rows[id] \in Rows /\ rows[id].status = "NEW" /\ status \in ORDER_STATUSES
      /\ rows' = [rows EXCEPT ![id] = r]
  BY DEF Relabelled
<1>2. /\ r \in Rows /\ r.status = status /\ r.call = rows[id].call /\ r.userId = rows[id].userId
      /\ r.instrumentId = rows[id].instrumentId /\ r.size = rows[id].size /\ r.price = rows[id].price
  BY <1>1 DEF Rows
<1> HIDE DEF r
<1>3. /\ rows' \in Seq(Rows) /\ DOMAIN rows' = DOMAIN rows /\ Len(rows') = Len(rows)
      /\ rows'[id] = r /\ \A n \in DOMAIN rows \ {id} : rows'[n] = rows[n]
  BY <1>1, <1>2
<1>4. \A n \in DOMAIN rows : RowStays(n)
  BY <1>1, <1>2, <1>3 DEF RowStays
<1>5. Relabels(rows, rows', id, r)
  BY <1>1, <1>2 DEF Relabels
<1> QED
  BY <1>2, <1>3, <1>4, <1>5 DEF r

LEMMA FedIs ==
  ASSUME rows \in Seq(Rows), NEW r, Fed(r)
  PROVE  /\ r \in Rows /\ rows' \in Seq(Rows) /\ Extends(rows, rows', r)
         /\ Len(rows) \in Nat /\ Len(rows') = Len(rows) + 1 /\ DOMAIN rows = 1 .. Len(rows)
         /\ DOMAIN rows' = DOMAIN rows \cup {Len(rows')} /\ Len(rows') \notin DOMAIN rows
         /\ rows'[Len(rows')] = r /\ \A n \in DOMAIN rows : rows'[n] = rows[n]
         /\ \A n \in DOMAIN rows : RowStays(n)
<1>1. r \in Rows /\ rows' = Append(rows, r)
  BY DEF Fed
<1>2. rows' \in Seq(Rows) /\ Extends(rows, rows', r)
  BY <1>1, AppendExtends
<1>3. /\ Len(rows) \in Nat /\ Len(rows') = Len(rows) + 1 /\ DOMAIN rows = 1 .. Len(rows)
      /\ DOMAIN rows' = DOMAIN rows \cup {Len(rows')} /\ Len(rows') \notin DOMAIN rows
      /\ rows'[Len(rows')] = r /\ \A n \in DOMAIN rows : rows'[n] = rows[n]
  BY <1>2, BookIs DEF Extends
<1>4. \A n \in DOMAIN rows : RowStays(n)
  BY <1>3 DEF RowStays
<1> QED
  BY <1>1, <1>2, <1>3, <1>4

LEMMA RowsStay ==
  ASSUME SimTypes, rows \in Seq(Rows), [LoadNext]_loadVars
  PROVE  /\ rows' \in Seq(Rows) /\ \A n \in DOMAIN rows : RowStays(n)
         /\ Len(rows) \in Nat /\ Len(rows') \in Nat /\ Len(rows) <= Len(rows')
         /\ DOMAIN rows = 1 .. Len(rows) /\ DOMAIN rows' = 1 .. Len(rows')
<1> DEFINE Stay == rows' \in Seq(Rows) /\ (\A n \in DOMAIN rows : RowStays(n)) /\ Len(rows) <= Len(rows')
<1>0. Len(rows) \in Nat
  BY BookIs
<1>1. ASSUME rows' = rows PROVE Stay
  BY <1>0, <1>1 DEF RowStays
<1>2. ASSUME NEW r, Fed(r) PROVE Stay
  <2>1. Len(rows) <= Len(rows')
    BY <1>2, FedIs
  <2>2. rows' \in Seq(Rows)
    BY <1>2, FedIs
  <2>3. \A n \in DOMAIN rows : RowStays(n)
    BY <1>2, FedIs
  <2> QED
    BY <2>1, <2>2, <2>3
<1>3. ASSUME NEW id, NEW status, Relabelled(id, status) PROVE Stay
  <2>1. Len(rows') = Len(rows)
    BY <1>3, RelabelledIs
  <2>2. rows' \in Seq(Rows)
    BY <1>3, RelabelledIs
  <2>3. \A n \in DOMAIN rows : RowStays(n)
    BY <1>3, RelabelledIs
  <2>4. Len(rows) <= Len(rows')
    BY <1>0, <2>1
  <2> QED
    BY <2>2, <2>3, <2>4
<1>4. Stay
  <2> HIDE DEF Stay
  <2> QED
    BY <1>1, <1>2, <1>3, RowsMove
<1> QED
  BY <1>4, BookIs

-----------------------------------------------------------------------------
(***************************************************************************)
(* Who has a shadow keeps it until the next generation, and goes on being  *)
(* seeded.                                                                 *)
(***************************************************************************)
GoesOn(l, g) ==
  /\ DOMAIN g.users = DOMAIN l.users
  /\ \A u \in DOMAIN l.users : l.users[u].seeded => g.users[u].seeded

LEMMA LoseGoesOn ==
  ASSUME NEW l, IsLedger(l), NEW r \in Reservations
  PROVE  GoesOn(l, lose(l, r))
<1> DEFINE u == r.order.userId  g == lose(l, r)
<1>1. /\ ~ Current(l, r) => g.users = l.users
      /\ Current(l, r) => DiffersAt(l, g, u) /\ g.users[u].seeded = l.users[u].seeded
  BY LoseIs
<1> HIDE DEF g
<1>2. GoesOn(l, g)
  BY <1>1 DEF GoesOn, DiffersAt
<1> QED
  BY <1>2 DEF g

LEMMA SeedGoesOn ==
  ASSUME NEW l, IsLedger(l), NEW generation, NEW u, NEW p \in Portfolios
  PROVE  GoesOn(l, seed(l, generation, u, p))
<1> DEFINE g == seed(l, generation, u, p)
<1>1. \/ g = l
      \/ DiffersAt(l, g, u) /\ g.users[u].seeded
  BY SeedIs
<1> HIDE DEF g
<1>2. GoesOn(l, g)
  BY <1>1 DEF GoesOn, DiffersAt
<1> QED
  BY <1>2 DEF g

LEMMA LedgerGoesOn ==
  ASSUME SimTypes, RunOK, [LoadNext]_loadVars
  PROVE  StartLoop \/ prepare \/ GoesOn(ledger, ledger')
<1>0. IsLedger(ledger)
  BY DEF SimTypes, ServiceOK
<1>1. ASSUME ledger' = ledger PROVE GoesOn(ledger, ledger')
  BY <1>1 DEF GoesOn
<1>2. ASSUME NEW s \in Slots, NEW order \in Menu, place(s, order) PROVE GoesOn(ledger, ledger')
  <2>1. /\ DOMAIN ledger'.users = DOMAIN ledger.users
        /\ \A v \in DOMAIN ledger.users \ {order.userId} : ledger'.users[v] = ledger.users[v]
        /\ order.userId \in DOMAIN ledger.users =>
             SameTrust(ledger.users[order.userId], ledger'.users[order.userId])
    BY <1>2, PlacingIs
  <2> QED
    BY <2>1 DEF GoesOn, SameTrust
<1>3. ASSUME NEW s \in Slots, Answer(s) PROVE GoesOn(ledger, ledger')
  <2>1. s \in InFlight
    BY <1>3, ReturningSettles DEF Returning
  <2>2. held[s] \in Reservations /\ execution[s] \in Decisions \cup {NoExecution}
    BY <2>1, FlightIs DEF SimTypes, CallsTyped
  <2>3. ledger' = settle(ledger, held[s], execution[s])
    BY <1>3 DEF Answer, Returned
  <2> DEFINE g == settle(ledger, held[s], execution[s])  u == held[s].order.userId
  <2>4. /\ ~ Current(ledger, held[s]) => g.users = ledger.users
        /\ Current(ledger, held[s]) =>
             DiffersAt(ledger, g, u) /\ SameTrust(ledger.users[u], g.users[u])
    BY <1>0, <2>2, SettleIs
  <2> HIDE DEF g
  <2>5. GoesOn(ledger, g)
    BY <2>4 DEF GoesOn, DiffersAt, SameTrust
  <2> QED
    BY <2>3, <2>5 DEF g
<1>4. ASSUME NEW s \in Slots, Lose(s) PROVE GoesOn(ledger, ledger')
  <2>1. s \in InFlight
    BY <1>4, ReturningSettles DEF Returning
  <2>2. held[s] \in Reservations
    BY <2>1, FlightIs
  <2> QED
    BY <1>0, <1>4, <2>2, LoseGoesOn DEF Lose, Returned
<1>5. ASSUME NEW read \in reads, portfolioRead(read) PROVE GoesOn(ledger, ledger')
  <2>1. CASE seedUser(read)
    <3>1. read.seen \in Portfolios
      BY <2>1 DEF seedUser, SimTypes, ServiceOK, Reads
    <3> QED
      BY <1>0, <2>1, <3>1, SeedGoesOn DEF seedUser
  <2> QED
    BY <1>1, <1>5, <2>1 DEF portfolioRead, ReadPortfolio, FailRead
<1>6. ASSUME NEW index \in Own, fire(index) PROVE GoesOn(ledger, ledger')
  <2>1. index \in Slots
    BY LoadAssumption
  <2> QED
    BY <1>1, <1>2, <1>6, <2>1, FiringIs DEF vars, service
<1>7. ASSUME NEW s \in Others, NEW order \in LoopOrders, tick(s, order) PROVE GoesOn(ledger, ledger')
  BY <1>2, <1>7, LoadAssumption DEF tick, Others
<1>8. ASSUME NEW s \in Slots, answer(s) \/ loseAnswer(s) PROVE GoesOn(ledger, ledger')
  BY <1>3, <1>4, <1>8 DEF answer, loseAnswer
<1>9. \/ ledger' = ledger \/ StartLoop \/ prepare
      \/ \E index \in Own : fire(index)
      \/ \E s \in Others, order \in LoopOrders : tick(s, order)
      \/ \E s \in Slots : answer(s) \/ loseAnswer(s)
      \/ \E read \in reads : portfolioRead(read)
  BY DEF LoadNext, loadVars, vars, service, execute, Execute, LateCommit, shed, Shed,
     executeCancel, answerCancel, loseCancel, overspend, forget, Misserve, invent, miscancel,
     start, highWaterMark, check, fail, NextWave, waitForQuiesce, readLedger, readCash
<1> QED
  BY <1>1, <1>5, <1>6, <1>7, <1>8, <1>9

-----------------------------------------------------------------------------
(***************************************************************************)
(* Where the run is goes with where its calls are.                         *)
(***************************************************************************)
LEMMA RunOKStays ==
  ASSUME SimTypes, Formed, RunOK, rows \in Seq(Rows), [LoadNext]_loadVars
  PROVE  RunOK'
<1>1. /\ Len(rows) \in Nat /\ Len(rows') \in Nat /\ Len(rows) <= Len(rows')
      /\ \A s \in Slots : Moves(s)
      /\ RunFormed /\ run.phase \in Phases
      /\ run.phase # "idle" => run.profile \in Profiles
      /\ run.mark \in 0 .. Len(rows)
      /\ run.wave # {} => run.phase = "placing"
      /\ run.phase \in Unplaced => cancelling = {} /\ \A s \in Own : at[s] = "unsent"
      /\ run.phase \in Over => cancelling = {} /\ \A s \in Own : s \notin InFlight
      /\ run.phase \in Prepared => DOMAIN ledger.users = LoopUsers \cup runUsers
  BY RowsStay, CallsMove DEF RunOK, Formed
<1>2. RunGoesOn \/ highWaterMark \/ \E profile \in Profiles : start(profile)
  BY RunMoves
<1>3. /\ run'.phase \in Phases /\ (run'.phase # "idle" => run'.profile \in Profiles)
      /\ run'.mark \in 0 .. Len(rows')
  <2>1. CASE RunGoesOn
    BY <1>1, <2>1 DEF RunGoesOn, Follows, Phases
  <2>2. CASE highWaterMark
    BY <1>1, <2>2 DEF highWaterMark, Phases, RunFormed
  <2>3. ASSUME NEW profile \in Profiles, start(profile)
        PROVE  /\ run'.phase \in Phases /\ (run'.phase # "idle" => run'.profile \in Profiles)
               /\ run'.mark \in 0 .. Len(rows')
    BY <1>1, <2>3 DEF start, NoRun, Phases
  <2> QED
    BY <1>2, <2>1, <2>2, <2>3
<1>4. run'.wave # {} => run'.phase = "placing"
  <2>1. CASE run'.wave = run.wave /\ run.wave = {}
    BY <2>1
  <2>2. CASE NextWave
    BY <1>1, <2>2 DEF NextWave, RunFormed, Idle, Firing
  <2>3. ASSUME NEW index \in Own, fire(index) PROVE run'.phase = "placing"
    BY <1>1, <2>3, FiringIs DEF RunFormed
  <2>4. ASSUME NEW profile \in Profiles, start(profile) PROVE run'.wave = {}
    BY <2>4 DEF start, NoRun
  <2>5. CASE highWaterMark \/ prepare
    BY <1>1, <2>5 DEF highWaterMark, prepare, Phase, RunFormed, Unplaced
  <2>6. CASE run' = run
    BY <1>1, <2>6
  <2>7. CASE waitForQuiesce \/ readLedger \/ check \/ fail
    BY <1>1, <2>7 DEF waitForQuiesce, readLedger, check, fail, Phase, RunFormed, Idle, Firing
  <2>8. ASSUME NEW u \in Users, readCash(u) PROVE run'.wave = {}
    BY <1>1, <2>8 DEF readCash, RunFormed, Idle, Firing
  <2>9. \/ run' = run
        \/ \E profile \in Profiles : start(profile)
        \/ highWaterMark \/ prepare \/ NextWave \/ \E index \in Own : fire(index)
        \/ waitForQuiesce \/ readLedger \/ check \/ fail \/ \E u \in Users : readCash(u)
    BY DEF LoadNext, loadVars, runner, StartLoop, tick, execute, shed, answer, loseAnswer,
       executeCancel, answerCancel, loseCancel, portfolioRead, overspend, forget, Misserve, invent, miscancel
  <2> QED
    BY <2>2, <2>3, <2>4, <2>5, <2>6, <2>7, <2>8, <2>9
<1>5. run'.phase \in Unplaced => cancelling' = {} /\ \A s \in Own : at'[s] = "unsent"
  <2> SUFFICES ASSUME run'.phase \in Unplaced
               PROVE  cancelling' = {} /\ \A s \in Own : at'[s] = "unsent"
    OBVIOUS
  <2>1. run.phase \in Unplaced
    <3>1. RunGoesOn => run.phase \in Unplaced
      BY <1>1 DEF RunGoesOn, Follows, Unplaced, Phases
    <3>2. highWaterMark \/ (\E profile \in Profiles : start(profile)) => run.phase \in Unplaced
      BY DEF highWaterMark, start, Unplaced
    <3> QED
      BY <1>2, <3>1, <3>2
  <2>2. cancelling = {} /\ \A s \in Own : at[s] = "unsent"
    BY <1>1, <2>1
  <2>3. cancelling' = {}
    <3>1. ASSUME NEW index \in Own PROVE ~ fire(index)
      BY <2>1, FiringIs DEF Unplaced
    <3> QED
      BY <2>2, <3>1 DEF LoadNext, loadVars, StartLoop, tick, execute, shed, answer, loseAnswer,
         portfolioRead, overspend, forget, Misserve, invent,
         start, highWaterMark, prepare, check, fail, NextWave, waitForQuiesce, readLedger, readCash
  <2>4. \A s \in Own : at'[s] = "unsent"
    BY <1>1, <2>1, <2>2, LoadAssumption DEF Moves, Left, Sent, Served, Back, Landing, InFlight, Unplaced
  <2> QED
    BY <2>3, <2>4
<1>6. run'.phase \in Over => cancelling' = {} /\ \A s \in Own : s \notin InFlight'
  <2> SUFFICES ASSUME run'.phase \in Over
               PROVE  cancelling' = {} /\ \A s \in Own : s \notin InFlight'
    OBVIOUS
  <2>1. ASSUME NEW index \in Own PROVE ~ fire(index)
    BY <1>1, FiringIs DEF RunFormed, Over, Checking
  <2>2. cancelling = {} /\ \A s \in Own : s \notin InFlight
    <3>1. CASE run.phase \in Over
      BY <1>1, <3>1
    <3>2. CASE NextWave
      <4>1. CASE run.phase = "preparing"
        BY <1>1, <4>1 DEF Unplaced, InFlight
      <4>2. CASE run.phase = "placing" /\ ~ Unsettled
        BY <4>2 DEF Unsettled
      <4> QED
        BY <3>2, <4>1, <4>2 DEF NextWave
    <3>3. run.phase \in Over \/ NextWave
      <4>1. run' = run => run.phase \in Over
        OBVIOUS
      <4>2. waitForQuiesce \/ readLedger \/ check \/ fail => run.phase \in Over
        BY <1>1 DEF waitForQuiesce, readLedger, check, fail, Phase, RunFormed, Over, Checking
      <4>3. (\E u \in Users : readCash(u)) => run.phase \in Over
        BY DEF readCash, Over, Checking
      <4>4. ~ highWaterMark /\ ~ prepare /\ ~ \E profile \in Profiles : start(profile)
        BY <1>1 DEF highWaterMark, prepare, Phase, start, RunFormed, NoRun, Over, Checking
      <4>5. \/ run' = run
            \/ \E profile \in Profiles : start(profile)
            \/ highWaterMark \/ prepare \/ NextWave \/ \E index \in Own : fire(index)
            \/ waitForQuiesce \/ readLedger \/ check \/ fail \/ \E u \in Users : readCash(u)
        BY DEF LoadNext, loadVars, runner, StartLoop, tick, execute, shed, answer, loseAnswer,
           executeCancel, answerCancel, loseCancel, portfolioRead, overspend, forget, Misserve,
           invent, miscancel
      <4> QED
        BY <2>1, <4>1, <4>2, <4>3, <4>4, <4>5
    <3> QED
      BY <3>1, <3>2, <3>3
  <2>3. cancelling' = {}
    BY <2>1, <2>2 DEF LoadNext, loadVars, StartLoop, tick, execute, shed, answer, loseAnswer,
       portfolioRead, overspend, forget, Misserve, invent,
       start, highWaterMark, prepare, check, fail, NextWave, waitForQuiesce, readLedger, readCash
  <2>4. ASSUME NEW s \in Own PROVE s \notin InFlight'
    <3>1. s \in Slots /\ Moves(s) /\ at[s] \notin {"sent", "executed"}
      BY <1>1, <2>2, LoadAssumption DEF InFlight
    <3>2. ~ Sent(s)
      <4>1. CASE run.phase = "placing" /\ Sent(s)
        <5>1. NextWave
          <6>1. run' # run
            BY <4>1 DEF Over, Checking
          <6> QED
            BY <2>1, <4>1, <6>1 DEF LoadNext, loadVars, runner, StartLoop, tick, execute, shed, answer,
               loseAnswer, executeCancel, answerCancel, loseCancel, portfolioRead, overspend, forget,
               Misserve, invent, miscancel, start, highWaterMark, prepare, waitForQuiesce, readLedger, check,
               fail, readCash
        <5>2. at' = at
          BY <5>1 DEF NextWave, vars, calls
        <5> QED
          BY <4>1, <5>2 DEF Sent
      <4> QED
        BY <4>1 DEF Sent
    <3> QED
      BY <3>1, <3>2 DEF Moves, Left, Served, Back, Landing, InFlight
  <2> QED
    BY <2>3, <2>4
<1>7. run'.phase \in Prepared => DOMAIN ledger'.users = LoopUsers \cup runUsers'
  <2> SUFFICES ASSUME run'.phase \in Prepared PROVE DOMAIN ledger'.users = LoopUsers \cup runUsers'
    OBVIOUS
  <2>1. CASE prepare
    <3>1. /\ run'.profile = run.profile /\ seedUsers(LoopUsers \cup runUsers)
      BY <1>1, <2>1 DEF prepare, Phase, RunFormed
    <3>2. LoopUsers \cup runUsers \in Rosters
      BY <2>1, RunIs DEF prepare
    <3>3. ledger'.users = [u \in LoopUsers \cup runUsers |-> blank]
      BY <3>1, <3>2, SeedingIs
    <3> QED
      BY <3>1, <3>3 DEF runUsers
  <2>2. CASE ~ prepare
    <3>1. ~ highWaterMark /\ ~ \E profile \in Profiles : start(profile)
      BY <1>1 DEF highWaterMark, RunFormed, start, NoRun, Prepared, Marked
    <3>2. RunGoesOn /\ run'.profile = run.profile
      BY <1>2, <3>1 DEF RunGoesOn
    <3>5. CASE run.phase \in Prepared
      <4>1. ~ StartLoop
        BY <3>5 DEF StartLoop, Prepared, Marked
      <4> QED
        BY <1>1, <2>2, <3>2, <3>5, <4>1, LedgerGoesOn DEF GoesOn, runUsers
    <3>6. CASE run.phase \notin Prepared
      <4>1. run.phase = "marked" /\ run'.phase = "preparing"
        BY <1>1, <3>2, <3>6 DEF RunGoesOn, Follows, Prepared, Marked, Phases
      <4>2. run' # run /\ ~ NextWave /\ ~ waitForQuiesce /\ ~ readLedger /\ ~ check /\ ~ fail
        BY <4>1 DEF NextWave, waitForQuiesce, readLedger, check, fail
      <4>3. (\A u \in Users : ~ readCash(u)) /\ (\A index \in Own : ~ fire(index))
        BY <4>1, FiringIs DEF readCash
      <4> QED
        BY <2>2, <3>1, <4>2, <4>3
           DEF LoadNext, loadVars, runner, StartLoop, tick, execute, shed, answer, loseAnswer,
               executeCancel, answerCancel, loseCancel, portfolioRead, overspend, forget, Misserve,
               invent, miscancel
    <3> QED
      BY <3>5, <3>6
  <2> QED
    BY <2>1, <2>2
<1> QED
  BY <1>3, <1>4, <1>5, <1>6, <1>7 DEF RunOK

(* Before the run places its first order, and unless it began just now.    *)
LEMMA Unbegun ==
  ASSUME RunOK, highWaterMark \/ \E profile \in Profiles : start(profile)
  PROVE  run.phase \in Unplaced /\ run.phase # "placing" /\ \A s \in Own : at[s] = "unsent"
BY DEF RunOK, highWaterMark, start, Unplaced

LEMMA OwnOKStays ==
  ASSUME SimTypes, Formed, RunOK, OwnOK, rows \in Seq(Rows), [LoadNext]_loadVars
  PROVE  OwnOK'
<1>1. (\A s \in Own : s \in Slots /\ Moves(s))
  BY CallsMove, LoadAssumption
<1>2. CASE highWaterMark \/ \E profile \in Profiles : start(profile)
  <2>1. \A s \in Own : at'[s] = "unsent"
    BY <1>1, <1>2, Unbegun DEF Moves, Left, Sent, Served, Back, Landing, InFlight
  <2> QED
    BY <2>1 DEF OwnOK, InFlight
<1>3. CASE RunGoesOn
  <2>1. runUsers' = runUsers
    BY <1>3 DEF RunGoesOn, runUsers
  <2>2. ASSUME NEW s \in Own
        PROVE  /\ s \in InFlight' => UserOf(s)' \in runUsers
               /\ at'[s] = "late" => row'[s].order.userId \in runUsers
    <3>1. /\ s \in InFlight => UserOf(s) \in runUsers
          /\ at[s] = "late" => row[s].order.userId \in runUsers
      BY DEF OwnOK
    <3> QED
      BY <1>1, <3>1 DEF Moves, Left, Sent, Served, Back, Landing, InFlight, UserOf
  <2> QED
    BY <2>1, <2>2 DEF OwnOK
<1> QED
  BY <1>2, <1>3, RunMoves

LEMMA RowsOKStays ==
  ASSUME SimTypes, Formed, RunOK, OwnOK, RowsOK, [LoadNext]_loadVars
  PROVE  RowsOK'
<1>1. /\ rows \in Seq(Rows) /\ rows' \in Seq(Rows) /\ \A n \in DOMAIN rows : RowStays(n)
      /\ Len(rows) \in Nat /\ Len(rows') \in Nat
      /\ DOMAIN rows = 1 .. Len(rows) /\ DOMAIN rows' = 1 .. Len(rows')
      /\ \A s \in Slots : Moves(s)
      /\ \A n \in DOMAIN rows : rows[n] \in Rows
  BY RowsStay, CallsMove DEF RowsOK
<1>2. \/ RunGoesOn /\ runUsers' = runUsers /\ run'.mark = run.mark
      \/ \A s \in Own : at[s] = "unsent"
  BY RunMoves, Unbegun DEF RunGoesOn, runUsers
<1>3. ASSUME NEW n \in DOMAIN rows, rows[n].call # Null
      PROVE  LET call == rows[n].call IN
             /\ at'[call] \in {"executed", "done"}
             /\ at'[call] = "executed" => execution'[call] # NoExecution
             /\ call \in Own => n > run'.mark /\ rows'[n].userId \in runUsers'
  <2>1. /\ rows[n].call \in Slots /\ at[rows[n].call] \in {"executed", "done"}
        /\ at[rows[n].call] = "executed" => execution[rows[n].call] # NoExecution
        /\ rows[n].call \in Own => n > run.mark /\ rows[n].userId \in runUsers
    BY <1>1, <1>3 DEF RowsOK, RowOK, Rows
  <2>2. RowStays(n) /\ Moves(rows[n].call)
    BY <1>1, <2>1
  <2>3. /\ at'[rows[n].call] \in {"executed", "done"}
        /\ at'[rows[n].call] = "executed" => execution'[rows[n].call] # NoExecution
    BY <2>1, <2>2 DEF Moves, Left, Sent, Served, Back, Landing
  <2>4. rows[n].call \in Own => n > run'.mark /\ rows'[n].userId \in runUsers'
    BY <1>2, <2>1, <2>2 DEF RowStays
  <2> QED
    BY <2>3, <2>4
<1>4. CASE DOMAIN rows' = DOMAIN rows
  <2>1. ASSUME NEW n \in DOMAIN rows, NEW m \in DOMAIN rows, rows'[m].call = rows'[n].call, rows'[n].call # Null
        PROVE  m = n
    BY <1>1, <2>1 DEF RowsOK, RowOK, RowStays
  <2>2. \A n \in DOMAIN rows : rows'[n].call = rows[n].call
    BY <1>1 DEF RowStays
  <2> QED
    BY <1>1, <1>3, <1>4, <2>1, <2>2 DEF RowsOK, RowOK
<1>5. ASSUME NEW r, Fed(r) PROVE RowsOK'
  <2> DEFINE new == Len(rows')
  <2>1. /\ DOMAIN rows' = DOMAIN rows \cup {new} /\ new \notin DOMAIN rows /\ r \in Rows
        /\ new = Len(rows) + 1
        /\ rows'[new] = r /\ \A n \in DOMAIN rows : rows'[n] = rows[n]
    BY <1>1, <1>5, FedIs
  <2> HIDE DEF new
  <2>2. r.call # Null =>
          /\ r.call \in Slots /\ at'[r.call] \in {"executed", "done"}
          /\ at'[r.call] = "executed" => execution'[r.call] # NoExecution
          /\ at[r.call] \in {"sent", "late"}
          /\ at[r.call] = "sent" => r.userId = UserOf(r.call)
          /\ at[r.call] = "late" => r.userId = row[r.call].order.userId
    BY <1>5 DEF Fed
  <2>3. r.call # Null =>
          \A n \in DOMAIN rows : rows[n].call # r.call
    BY <2>2 DEF RowsOK, RowOK
  <2>4. r.call \in Own /\ r.call # Null => new > run'.mark /\ r.userId \in runUsers'
    <3>1. run.mark <= Len(rows) /\ run.mark \in Nat
      BY <1>1 DEF RunOK
    <3>2. r.call \in Own /\ r.call # Null => r.userId \in runUsers
      BY <2>2 DEF OwnOK, InFlight
    <3> QED
      BY <1>1, <1>2, <2>1, <2>2, <3>1, <3>2
  <2>5. ASSUME NEW n \in DOMAIN rows' PROVE RowOK(n)'
    <3>1. CASE n = new
      BY <2>1, <2>2, <2>3, <2>4, <3>1 DEF RowOK
    <3>2. CASE n \in DOMAIN rows
      BY <1>3, <2>1, <2>3, <3>2 DEF RowsOK, RowOK
    <3> QED
      BY <2>1, <3>1, <3>2
  <2> QED
    BY <1>1, <2>5 DEF RowsOK
<1>6. ASSUME NEW id, NEW status, Relabelled(id, status) PROVE DOMAIN rows' = DOMAIN rows
  BY <1>1, <1>6, RelabelledIs
<1> QED
  BY <1>1, <1>4, <1>5, <1>6, RowsMove

-----------------------------------------------------------------------------
(***************************************************************************)
(* The ring of attempts names calls that the run made, once each, and      *)
(* orders that are stored.                                                 *)
(***************************************************************************)
LEMMA AnswerableStays ==
  ASSUME SimTypes, rows \in Seq(Rows), [LoadNext]_loadVars, NEW id, Answerable(id)
  PROVE  Answerable(id)'
BY RowsStay DEF Answerable, RowStays

LEMMA IdOfIs ==
  ASSUME rows \in Seq(Rows), NEW s \in Slots
  PROVE  /\ IdOf(s) \in Nat /\ Answerable(IdOf(s))
         /\ \A n \in DOMAIN rows : rows[n].call = s => IdOf(s) \in DOMAIN rows /\ rows[IdOf(s)].call = s
         /\ IdOf(s) # 0 => IdOf(s) \in DOMAIN rows /\ rows[IdOf(s)].call = s
<1>1. s # Null /\ DOMAIN rows \subseteq Nat \ {0}
  BY BookIs, LoadAssumption
<1> QED
  BY <1>1 DEF IdOf, Answerable

Recording(attempt) ==
  attempt \in [id : {0}, kind : {"place", "cancel", "read"}, status : Statuses,
               orderId : Nat \cup {Null}, call : Slots \cup {Null}]

(* What the attempt of a call that is just over tells of it.               *)
Tells(kind, status, id, call) ==
  call # Null =>
    /\ kind = "place" /\ call \in InFlight /\ rows' = rows
    /\ at'[call] \in {"late", "done"}
    /\ status = "none"
         \/ (at'[call] = "done" /\ \A n \in DOMAIN rows : rows[n].call = call => n = id)

LEMMA RecordingIs ==
  ASSUME SimTypes, RowsOK, Formed, losses \in Nat, [LoadNext]_loadVars, store' # store
  PROVE  \E attempt :
           /\ Recording(attempt) /\ store' = record(store, attempt)
           /\ Answerable(attempt.orderId)
           /\ attempt.status = "none" => losses' > 0
           /\ Tells(attempt.kind, attempt.status, attempt.orderId, attempt.call)
<1>0. \A kind, status, id : Tells(kind, status, id, Null)
  BY DEF Tells
<1>10. at \in [Slots -> Positions] /\ \A s \in Slots : s # Null
  BY LoadAssumption DEF SimTypes, CallsTyped
<1>1. ASSUME NEW s \in Slots, answer(s)
      PROVE  \E status \in Statuses \ {"none"} : \E id \in Nat \cup {Null} :
               /\ recordAttempt("place", status, id, s) /\ Answerable(id)
               /\ Tells("place", status, id, s)
  <2>1. IdOf(s) \in Nat /\ Answerable(IdOf(s)) /\ Answerable(Null)
    BY IdOfIs DEF RowsOK, Answerable
  <2>2. at[s] = "executed" /\ s \in InFlight /\ at'[s] = "done" /\ rows' = rows
    BY <1>1, <1>10 DEF answer, Answer, InFlight
  <2>3. ASSUME NEW n \in DOMAIN rows, rows[n].call = s
        PROVE  execution[s] # NoExecution /\ n = IdOf(s)
    <3>1. execution[s] # NoExecution /\ \A m \in DOMAIN rows : rows[m].call = s => m = n
      BY <1>10, <2>2, <2>3 DEF RowsOK, RowOK
    <3>2. IdOf(s) \in DOMAIN rows /\ rows[IdOf(s)].call = s
      BY <2>3, IdOfIs DEF RowsOK
    <3> QED
      BY <3>1, <3>2
  <2>4. CASE execution[s] # NoExecution
    <3>1. recordAttempt("place", "ok", IdOf(s), s)
      BY <1>1, <2>4 DEF answer
    <3>2. Tells("place", "ok", IdOf(s), s)
      BY <2>2, <2>3 DEF Tells
    <3> QED
      BY <2>1, <3>1, <3>2 DEF Statuses
  <2>5. CASE execution[s] = NoExecution
    <3>1. recordAttempt("place", "shed", Null, s)
      BY <1>1, <2>5 DEF answer
    <3>2. Tells("place", "shed", Null, s)
      BY <2>2, <2>3, <2>5 DEF Tells
    <3> QED
      BY <2>1, <3>1, <3>2 DEF Statuses
  <2> QED
    BY <2>4, <2>5
<1>2. ASSUME NEW s \in Slots, loseAnswer(s)
      PROVE  recordAttempt("place", "none", Null, s) /\ losses' > 0 /\ Tells("place", "none", Null, s)
  <2>1. s \in InFlight /\ at'[s] \in {"late", "done"} /\ rows' = rows
    BY <1>2, <1>10 DEF loseAnswer, Lose, InFlight
  <2> QED
    BY <1>2, <2>1 DEF loseAnswer, Lose, Tells
<1>3. ASSUME NEW cancel \in cancelling, answerCancel(cancel)
      PROVE  \E status \in Statuses \ {"none"} : recordAttempt("cancel", status, Null, Null)
  BY <1>3 DEF answerCancel, Formed, CancelsFormed, Statuses
<1>4. ASSUME NEW cancel \in cancelling, loseCancel(cancel)
      PROVE  recordAttempt("cancel", "none", Null, Null) /\ losses' > 0
  BY <1>4 DEF loseCancel
<1>5. ASSUME NEW read \in reads, portfolioRead(read)
      PROVE  \/ \E status \in Statuses \ {"none"} : recordAttempt("read", status, Null, Null)
             \/ recordAttempt("read", "none", Null, Null) /\ losses' > 0
  BY <1>5 DEF portfolioRead, FailRead, Statuses
<1>6. ASSUME NEW u \in Users, readCash(u)
      PROVE  \/ \E status \in Statuses \ {"none"} : recordAttempt("read", status, Null, Null)
             \/ recordAttempt("read", "none", Null, Null) /\ losses' > 0
  BY <1>6 DEF readCash, Statuses
<1>7. \/ \E s \in Slots : answer(s) \/ loseAnswer(s)
      \/ \E cancel \in cancelling : answerCancel(cancel) \/ loseCancel(cancel)
      \/ \E read \in reads : portfolioRead(read)
      \/ \E u \in Users : readCash(u)
  BY DEF LoadNext, loadVars, StartLoop, tick, execute, shed, fire,
     executeCancel, overspend, forget, Misserve, invent, miscancel,
     start, highWaterMark, prepare, check, fail, NextWave, waitForQuiesce, readLedger
<1> DEFINE Leaves(kind, status, id, call) ==
             /\ recordAttempt(kind, status, id, call) /\ Answerable(id)
             /\ status = "none" => losses' > 0
             /\ Tells(kind, status, id, call)
<1>8. \E kind \in {"place", "cancel", "read"}, status \in Statuses, id \in Nat \cup {Null},
         call \in Slots \cup {Null} : Leaves(kind, status, id, call)
  <2>1. Answerable(Null) /\ "none" \in Statuses
    BY DEF Answerable, Statuses
  <2>2. ASSUME NEW s \in Slots, answer(s)
        PROVE  \E status \in Statuses, id \in Nat \cup {Null} : Leaves("place", status, id, s)
    BY <1>1, <2>2
  <2>3. ASSUME NEW s \in Slots, loseAnswer(s) PROVE Leaves("place", "none", Null, s)
    BY <1>2, <2>1, <2>3
  <2>4. ASSUME NEW cancel \in cancelling, answerCancel(cancel) \/ loseCancel(cancel)
        PROVE  \E status \in Statuses : Leaves("cancel", status, Null, Null)
    BY <1>0, <1>3, <1>4, <2>1, <2>4
  <2>5. ASSUME \/ \E read \in reads : portfolioRead(read)
               \/ \E u \in Users : readCash(u)
        PROVE  \E status \in Statuses : Leaves("read", status, Null, Null)
    BY <1>0, <1>5, <1>6, <2>1, <2>5
  <2> HIDE DEF Leaves
  <2> QED
    BY <1>7, <2>1, <2>2, <2>3, <2>4, <2>5
<1>9. PICK kind \in {"place", "cancel", "read"}, status \in Statuses, id \in Nat \cup {Null},
           call \in Slots \cup {Null} : Leaves(kind, status, id, call)
  BY <1>8
<1> DEFINE attempt == [id |-> 0, kind |-> kind, status |-> status, orderId |-> id, call |-> call]
<1>11. /\ Recording(attempt) /\ attempt.orderId = id /\ attempt.status = status
       /\ attempt.kind = kind /\ attempt.call = call
  BY DEF Recording
<1>12. store' = record(store, attempt)
  BY <1>9 DEF recordAttempt
<1> HIDE DEF attempt
<1> QED
  BY <1>9, <1>11, <1>12

LEMMA LossesGrow ==
  ASSUME losses \in Nat, [LoadNext]_loadVars
  PROVE  losses' \in Nat /\ losses' >= losses
<1>1. losses' = losses \/ losses' = losses + 1
  <2>1. losses' = losses => losses' = losses \/ losses' = losses + 1
    OBVIOUS
  <2>2. ASSUME NEW index \in Own, fire(index) PROVE losses' = losses
    BY <2>2 DEF fire, place, vars
  <2>3. ASSUME NEW s \in Others, NEW order \in LoopOrders, tick(s, order) PROVE losses' = losses
    BY <2>3 DEF tick, place
  <2>4. ASSUME NEW s \in Slots, execute(s) \/ shed(s) \/ answer(s) \/ loseAnswer(s)
        PROVE  losses' = losses \/ losses' = losses + 1
    BY <2>4 DEF execute, Execute, LateCommit, shed, Shed, answer, Answer, loseAnswer, Lose
  <2>5. ASSUME NEW cancel \in cancelling,
               executeCancel(cancel) \/ answerCancel(cancel) \/ loseCancel(cancel) \/ miscancel(cancel)
        PROVE  losses' = losses \/ losses' = losses + 1
    BY <2>5 DEF executeCancel, answerCancel, loseCancel, miscancel, vars
  <2>6. ASSUME NEW read \in reads, portfolioRead(read) PROVE losses' = losses \/ losses' = losses + 1
    BY <2>6 DEF portfolioRead, ReadPortfolio, seedUser, FailRead
  <2>7. ASSUME NEW s \in Slots, overspend(s) \/ forget(s) PROVE losses' = losses
    BY <2>7 DEF overspend, forget, Misserve
  <2>8. ASSUME \/ UNCHANGED loadVars \/ StartLoop \/ highWaterMark \/ prepare \/ NextWave
               \/ waitForQuiesce \/ readLedger \/ check \/ fail
               \/ \E profile \in Profiles : start(profile)
               \/ \E u \in Users : readCash(u)
               \/ \E order \in Menu : invent(order)
        PROVE  losses' = losses \/ losses' = losses + 1
    BY <2>8 DEF loadVars, vars, StartLoop, highWaterMark, prepare, NextWave, waitForQuiesce, readLedger,
       check, fail, start, readCash, seedUsers, invent
  <2> QED
    BY <2>2, <2>3, <2>4, <2>5, <2>6, <2>7, <2>8 DEF LoadNext
<1> QED
  BY <1>1

LEMMA RecordIs ==
  ASSUME RingOK, NEW attempt, Recording(attempt), store' = record(store, attempt)
  PROVE  /\ store'.nextId = store.nextId + 1
         /\ store'.cursor \in 0 .. ATTEMPTS_CAPACITY - 1
         /\ store'.buffer \in Seq(Recorded) /\ Len(store'.buffer) <= ATTEMPTS_CAPACITY
         /\ \E new \in DOMAIN store'.buffer :
              /\ store'.buffer[new] = [attempt EXCEPT !.id = store.nextId]
              /\ \A i \in DOMAIN store'.buffer \ {new} :
                   i \in DOMAIN store.buffer /\ store'.buffer[i] = store.buffer[i]
<1> DEFINE a == [attempt EXCEPT !.id = store.nextId]  C == ATTEMPTS_CAPACITY
           b == store.buffer  size == Len(b)
<1>1. /\ C \in Nat \ {0} /\ store.nextId \in Nat \ {0} /\ store.cursor \in 0 .. C - 1
      /\ b \in Seq(Recorded) /\ size <= C /\ size \in Nat /\ DOMAIN b = 1 .. size
  BY CapacityAssumption DEF RingOK
<1>2. a \in Recorded
  BY <1>1 DEF Recording, Recorded
<1> DEFINE B == IF size < C THEN Append(b, a) ELSE [b EXCEPT ![store.cursor + 1] = a]
<1>3. store' = [buffer |-> B, cursor |-> (store.cursor + 1) % C, nextId |-> store.nextId + 1]
  BY DEF record
<1> HIDE DEF a
<1>4. /\ B \in Seq(Recorded) /\ Len(B) <= C
      /\ \E new \in DOMAIN B :
           B[new] = a /\ \A i \in DOMAIN B \ {new} : i \in DOMAIN b /\ B[i] = b[i]
  <2> HIDE DEF b
  <2>1. CASE size < C
    <3>1. /\ B = Append(b, a) /\ B \in Seq(Recorded) /\ Len(B) = size + 1 /\ DOMAIN B = 1 .. size + 1
          /\ B[size + 1] = a /\ \A i \in 1 .. size : B[i] = b[i]
      BY <1>1, <1>2, <2>1
    <3> HIDE DEF B
    <3> QED
      BY <1>1, <2>1, <3>1
  <2>2. CASE ~ (size < C)
    <3> DEFINE p == store.cursor + 1
    <3>3. C \in Nat /\ size \in Nat /\ size <= C /\ store.cursor \in 0 .. C - 1
      BY <1>1
    <3>4. size = C
      BY <2>2, <3>3
    <3>1. p \in 1 .. size /\ size = C
      BY <3>3, <3>4
    <3>2. /\ B \in Seq(Recorded) /\ Len(B) = size /\ DOMAIN B = 1 .. size
          /\ B[p] = a /\ \A i \in (1 .. size) \ {p} : B[i] = b[i]
      BY <1>1, <1>2, <2>2, <3>1
    <3> HIDE DEF B, p
    <3> QED
      BY <1>1, <3>1, <3>2
  <2> QED
    BY <2>1, <2>2
<1>5. (store.cursor + 1) % C \in 0 .. C - 1
  BY <1>1
<1> HIDE DEF B
<1>6. store'.buffer = B /\ store'.cursor = (store.cursor + 1) % C /\ store'.nextId = store.nextId + 1
  BY <1>3
<1> QED
  BY <1>4, <1>5, <1>6 DEF a

LEMMA RingOKStays ==
  ASSUME SimTypes, Formed, RowsOK, RingOK, losses \in Nat, [LoadNext]_loadVars
  PROVE  RingOK'
<1>1. losses' \in Nat /\ losses' >= losses
  BY LossesGrow
<1>2. rows \in Seq(Rows) /\ \A id : Answerable(id) => Answerable(id)'
  BY AnswerableStays DEF RowsOK
<1>3. CASE store' = store
  BY <1>1, <1>2, <1>3 DEF RingOK
<1>4. CASE store' # store
  <2>1. PICK attempt :
          /\ Recording(attempt) /\ store' = record(store, attempt)
          /\ Answerable(attempt.orderId)
          /\ attempt.status = "none" => losses' > 0
    BY <1>4, RecordingIs
  <2>2. /\ store'.nextId = store.nextId + 1
        /\ store'.cursor \in 0 .. ATTEMPTS_CAPACITY - 1
        /\ store'.buffer \in Seq(Recorded) /\ Len(store'.buffer) <= ATTEMPTS_CAPACITY
    BY <2>1, RecordIs
  <2>3. PICK new \in DOMAIN store'.buffer :
          /\ store'.buffer[new] = [attempt EXCEPT !.id = store.nextId]
          /\ \A i \in DOMAIN store'.buffer \ {new} :
               i \in DOMAIN store.buffer /\ store'.buffer[i] = store.buffer[i]
    BY <2>1, RecordIs
  <2>4. /\ store'.buffer[new].id = store.nextId /\ store'.buffer[new].status = attempt.status
        /\ store'.buffer[new].orderId = attempt.orderId
    BY <2>1, <2>3 DEF Recording
  <2>5. /\ store.nextId \in Nat \ {0} /\ store.buffer \in Seq(Recorded)
        /\ \A i \in DOMAIN store.buffer : store.buffer[i] \in Recorded
    BY DEF RingOK
  <2>7. \A i \in DOMAIN store.buffer :
          /\ store.buffer[i].id \in Nat /\ store.buffer[i].id < store.nextId
          /\ store.buffer[i].status = "none" => losses > 0
          /\ Answerable(store.buffer[i].orderId)
          /\ \A j \in DOMAIN store.buffer : store.buffer[j].id = store.buffer[i].id => j = i
    BY <2>5 DEF RingOK, Recorded
  <2> DEFINE B == store'.buffer  N == store.nextId
  <2>8. /\ new \in DOMAIN B /\ B[new].id = N /\ B[new].status = attempt.status
        /\ B[new].orderId = attempt.orderId /\ store'.nextId = N + 1 /\ N \in Nat
        /\ \A i \in DOMAIN B \ {new} : i \in DOMAIN store.buffer /\ B[i] = store.buffer[i]
    BY <2>2, <2>3, <2>4, <2>5
  <2>9. \A i \in DOMAIN B \ {new} :
          /\ B[i].id \in Nat /\ B[i].id < N
          /\ B[i].status = "none" => losses > 0
          /\ Answerable(B[i].orderId)
    BY <2>7, <2>8
  <2> HIDE DEF B, N
  <2>10. ASSUME NEW i \in DOMAIN B
         PROVE  B[i].id < N + 1 /\ (B[i].status = "none" => losses' > 0) /\ Answerable(B[i].orderId)
    <3>1. CASE i = new
      <4>1. B[i].id = N /\ B[i].status = attempt.status /\ B[i].orderId = attempt.orderId /\ N \in Nat
        BY <2>8, <3>1
      <4> QED
        BY <2>1, <4>1
    <3>2. CASE i # new
      <4>1. /\ B[i].id \in Nat /\ B[i].id < N /\ N \in Nat
            /\ B[i].status = "none" => losses > 0
            /\ Answerable(B[i].orderId)
        BY <2>8, <2>9, <3>2
      <4> QED
        BY <1>1, <4>1
    <3> QED
      BY <3>1, <3>2
  <2>13. ASSUME NEW i \in DOMAIN B, NEW j \in DOMAIN B, B[j].id = B[i].id PROVE j = i
    <3>4. N \in Nat /\ \A k \in DOMAIN B \ {new} : B[k].id \in Nat /\ B[k].id < N
      BY <2>8, <2>9
    <3>5. \A k \in DOMAIN B \ {new} : B[k].id # N
      BY <3>4
    <3>1. i # new => B[i].id # N
      BY <3>5
    <3>2. j # new => B[j].id # N
      BY <3>5
    <3>3. CASE i # new /\ j # new
      BY <2>7, <2>8, <2>13, <3>3
    <3> QED
      BY <2>8, <2>13, <3>1, <3>2, <3>3
  <2>14. ASSUME NEW i \in DOMAIN B
         PROVE  \/ B[i].orderId \in {0, Null}
                \/ B[i].orderId \in DOMAIN rows' /\ rows'[B[i].orderId].call # Null
    <3>1. Answerable(B[i].orderId)
      BY <2>10
    <3> QED
      BY <1>2, <3>1 DEF Answerable
  <2>15. /\ store'.nextId \in Nat \ {0} /\ store'.nextId = N + 1
    BY <2>8
  <2>16. B = store'.buffer
    BY DEF B
  <2> QED
    BY <2>2, <2>10, <2>13, <2>14, <2>15, <2>16 DEF RingOK, Answerable
<1> QED
  BY <1>3, <1>4

(* What the ring shows of a call stays true of it: a call that is over     *)
(* stores a row only when it was lost.                                     *)
LEMMA TracedStays ==
  ASSUME SimTypes, Formed, RunOK, RowsOK, RingOK, Traced, losses \in Nat, [LoadNext]_loadVars
  PROVE  Traced'
<1> DEFINE Shows(e) ==
             e.call # Null =>
               /\ e.kind = "place" /\ at'[e.call] \in {"late", "done"}
               /\ e.status = "none"
                    \/ (/\ at'[e.call] = "done"
                        /\ \A n \in DOMAIN rows' : rows'[n].call = e.call => n = e.orderId)
<1>1. ASSUME NEW i \in DOMAIN store.buffer PROVE Shows(store.buffer[i])
  <2> DEFINE e == store.buffer[i]  c == e.call
  <2> SUFFICES ASSUME c # Null PROVE Shows(e)
    BY DEF Shows
  <2>1. c \in Slots
    <3>1. e \in Recorded
      BY DEF RingOK
    <3> HIDE DEF e
    <3> QED
      BY <3>1 DEF Recorded
  <2>2. /\ e.kind = "place" /\ at[c] \in {"late", "done"}
        /\ e.status = "none" \/ (at[c] = "done" /\ \A n \in DOMAIN rows : rows[n].call = c => n = e.orderId)
    BY DEF Traced
  <2>3. at'[c] \in {"late", "done"} /\ (at[c] = "done" => at'[c] = "done")
    BY <2>1, <2>2, CallsMove DEF Moves, Left, Sent, Served, Back, Landing, InFlight
  <2>4. ASSUME at[c] = "done", NEW n \in DOMAIN rows', rows'[n].call = c
        PROVE  n \in DOMAIN rows /\ rows[n].call = c
    <3>1. rows \in Seq(Rows) /\ \A m \in DOMAIN rows : RowStays(m)
      BY RowsStay DEF RowsOK
    <3>2. n \in DOMAIN rows => rows[n].call = c
      BY <2>4, <3>1 DEF RowStays
    <3>3. ASSUME NEW r, Fed(r) PROVE n \in DOMAIN rows
      <4>1. r.call # c
        BY <2>1, <2>4, <3>3, LoadAssumption DEF Fed
      <4> QED
        BY <2>4, <3>1, <3>3, <4>1, FedIs
    <3>4. ASSUME NEW id, NEW status, Relabelled(id, status) PROVE n \in DOMAIN rows
      BY <2>4, <3>1, <3>4 DEF Relabelled
    <3> QED
      BY <2>4, <3>1, <3>2, <3>3, <3>4, RowsMove
  <2> HIDE DEF c, e
  <2>5. e.call = c
    BY DEF c
  <2> QED
    BY <2>2, <2>3, <2>4, <2>5
<1> HIDE DEF Shows
<1>2. \A i, j \in DOMAIN store.buffer :
        store.buffer[i].call # Null /\ store.buffer[j].call = store.buffer[i].call => j = i
  BY DEF Traced
<1>3. CASE store' = store
  BY <1>1, <1>2, <1>3 DEF Traced, Shows
<1>4. CASE store' # store
  <2>1. PICK attempt :
          /\ Recording(attempt) /\ store' = record(store, attempt)
          /\ Tells(attempt.kind, attempt.status, attempt.orderId, attempt.call)
    BY <1>4, RecordingIs
  <2>2. PICK new \in DOMAIN store'.buffer :
          /\ store'.buffer[new] = [attempt EXCEPT !.id = store.nextId]
          /\ \A i \in DOMAIN store'.buffer \ {new} :
               i \in DOMAIN store.buffer /\ store'.buffer[i] = store.buffer[i]
    BY <2>1, RecordIs
  <2> DEFINE B == store'.buffer  a == B[new]
  <2>3. /\ a.call = attempt.call /\ a.kind = attempt.kind
        /\ a.status = attempt.status /\ a.orderId = attempt.orderId
    BY <2>1, <2>2 DEF Recording
  <2>4. Shows(a)
    BY <2>1, <2>3 DEF Shows, Tells
  <2>5. a.call # Null => at[a.call] \in {"sent", "executed"}
    BY <2>1, <2>3 DEF Tells, InFlight
  <2>6. ASSUME NEW i \in DOMAIN B \ {new}, a.call # Null PROVE B[i].call # a.call
    <3>1. i \in DOMAIN store.buffer /\ B[i] = store.buffer[i]
      BY <2>2
    <3>2. B[i].call # Null => at[B[i].call] \in {"late", "done"}
      BY <3>1 DEF Traced
    <3> QED
      BY <2>5, <2>6, <3>2
  <2>7. \A i \in DOMAIN B \ {new} : i \in DOMAIN store.buffer /\ B[i] = store.buffer[i]
    BY <2>2
  <2> HIDE DEF B
  <2>8. ASSUME NEW i \in DOMAIN B PROVE Shows(B[i])
    BY <1>1, <2>4, <2>7
  <2>9. ASSUME NEW i \in DOMAIN B, NEW j \in DOMAIN B, B[i].call # Null, B[j].call = B[i].call
        PROVE  j = i
    BY <1>2, <2>6, <2>7, <2>9
  <2> QED
    BY <2>8, <2>9 DEF B, Traced, Shows
<1> QED
  BY <1>3, <1>4

-----------------------------------------------------------------------------
(***************************************************************************)
(* Counting.                                                               *)
(***************************************************************************)
LEMMA ImageCounts ==
  ASSUME NEW S, IsFiniteSet(S), NEW f
  PROVE  LET T == {f[x] : x \in S} IN
         /\ IsFiniteSet(T) /\ Cardinality(T) <= Cardinality(S)
         /\ (\A x, y \in S : f[x] = f[y] => x = y) => Cardinality(T) = Cardinality(S)
<1> DEFINE T == {f[x] : x \in S}  g == [x \in S |-> f[x]]
<1>1. g \in [S -> T] /\ \A y \in T : \E x \in S : g[x] = y
  OBVIOUS
<1>2. g \in Surjection(S, T)
  BY <1>1 DEF Surjection
<1>3. IsFiniteSet(T) /\ Cardinality(T) <= Cardinality(S)
  BY <1>2, FS_Surjection
<1>4. ASSUME \A x, y \in S : f[x] = f[y] => x = y PROVE Cardinality(T) = Cardinality(S)
  <2>1. g \in Bijection(S, T)
    BY <1>1, <1>2, <1>4 DEF Bijection, Injection, IsInjective
  <2>2. ExistsBijection(S, T)
    BY <2>1 DEF ExistsBijection
  <2> QED
    BY <2>2, FS_Bijection
<1> QED
  BY <1>3, <1>4

LEMMA TwoParts ==
  ASSUME NEW S, NEW T, IsFiniteSet(S), IsFiniteSet(T), S \cap T = {}
  PROVE  /\ IsFiniteSet(S \cup T)
         /\ Cardinality(S \cup T) = Cardinality(S) + Cardinality(T)
         /\ Cardinality(S) \in Nat /\ Cardinality(T) \in Nat
<1>1. Cardinality({}) = 0
  BY FS_EmptySet
<1>2. Cardinality(S) \in Nat /\ Cardinality(T) \in Nat
  BY FS_CardinalityType
<1>3. /\ IsFiniteSet(S \cup T)
      /\ Cardinality(S \cup T) = Cardinality(S) + Cardinality(T) - Cardinality(S \cap T)
  BY FS_Union
<1>4. Cardinality(S \cap T) = 0
  BY <1>1, Zenon
<1> QED
  BY <1>2, <1>3, <1>4

LEMMA StatusCounts ==
  ASSUME NEW S, IsFiniteSet(S), NEW f, \A x \in S : f[x] \in Statuses
  PROVE  /\ \A status : Cardinality({x \in S : f[x] = status}) \in Nat
         /\ Cardinality(S) = Cardinality({x \in S : f[x] = "ok"})
                               + Cardinality({x \in S : f[x] = "refused"})
                               + Cardinality({x \in S : f[x] = "shed"})
                               + Cardinality({x \in S : f[x] = "none"})
<1> DEFINE Of(status) == {x \in S : f[x] = status}
<1>1. \A status : IsFiniteSet(Of(status)) /\ Cardinality(Of(status)) \in Nat
  <2> TAKE status
  <2>1. Of(status) \in SUBSET S
    OBVIOUS
  <2>2. IsFiniteSet(Of(status))
    BY <2>1, FS_Subset
  <2> QED
    BY <2>2, FS_CardinalityType
<1>2. /\ IsFiniteSet(Of("ok")) /\ IsFiniteSet(Of("refused"))
      /\ IsFiniteSet(Of("shed")) /\ IsFiniteSet(Of("none"))
  BY <1>1
<1> DEFINE A == Of("ok") \cup Of("refused")  B == Of("shed") \cup Of("none")
<1>3. IsFiniteSet(A) /\ Cardinality(A) = Cardinality(Of("ok")) + Cardinality(Of("refused"))
  <2>1. Of("ok") \cap Of("refused") = {}
    OBVIOUS
  <2> QED
    BY <1>2, <2>1, TwoParts
<1>4. IsFiniteSet(B) /\ Cardinality(B) = Cardinality(Of("shed")) + Cardinality(Of("none"))
  <2>1. Of("shed") \cap Of("none") = {}
    OBVIOUS
  <2> QED
    BY <1>2, <2>1, TwoParts
<1>5. Cardinality(A \cup B) = Cardinality(A) + Cardinality(B)
  <2>1. A \cap B = {}
    OBVIOUS
  <2> QED
    BY <1>3, <1>4, <2>1, TwoParts
<1>6. A \cup B = S
  BY DEF Statuses
<1>7. Cardinality(S) = Cardinality(A) + Cardinality(B)
  BY <1>5, <1>6, Zenon
<1>8. /\ Cardinality(Of("ok")) \in Nat /\ Cardinality(Of("refused")) \in Nat
      /\ Cardinality(Of("shed")) \in Nat /\ Cardinality(Of("none")) \in Nat
  BY <1>1
<1> HIDE DEF A, B
<1>9. Cardinality(S) = Cardinality(Of("ok")) + Cardinality(Of("refused"))
                         + Cardinality(Of("shed")) + Cardinality(Of("none"))
  <2> HIDE DEF Of
  <2> QED
    BY <1>3, <1>4, <1>7, <1>8
<1> QED
  BY <1>1, <1>9

(* Within a round no two have the same remainder.                          *)
LEMMA RemaindersDiffer ==
  ASSUME NEW d \in Nat \ {0}, NEW a \in Nat, NEW b \in Nat, a < b, b < a + d
  PROVE  a % d # b % d
<1> SUFFICES ASSUME a % d = b % d PROVE FALSE
  OBVIOUS
<1>0. \A n \in Nat : n % d \in 0 .. d - 1 /\ n \div d \in Nat
  OBVIOUS
<1>1. \A n \in Nat : n = (n \div d) * d + (n % d)
  BY Z3
<1>2. PICK p \in Nat, r \in 0 .. d - 1 : a = (p * d) + r /\ r = a % d
  BY <1>0, <1>1
<1>3. PICK q \in Nat : b = (q * d) + r
  BY <1>0, <1>1, <1>2
<1>4. PICK k \in Int : k = q - p
  OBVIOUS
<1>5. b - a = k * d
  BY <1>2, <1>3, <1>4
<1>6. CASE k >= 1
  <2>1. k * d >= d
    BY <1>6
  <2> QED
    BY <1>5, <2>1
<1>7. CASE k <= 0
  <2>1. k * d <= 0
    BY <1>7
  <2> QED
    BY <1>5, <2>1
<1> QED
  BY <1>6, <1>7

LEMMA SmallerIsMin ==
  ASSUME NEW a \in Nat, NEW b \in Nat, b <= a
  PROVE  Min({a, b}) = b
<1>1. \A x \in {a, b} : (\A y \in {a, b} : x =< y) => x = b
  OBVIOUS
<1>2. b \in {a, b} /\ \A y \in {a, b} : b =< y
  OBVIOUS
<1> QED
  BY <1>1, <1>2 DEF Min

(* recent(): rows of the ring, each at most once.                          *)
LEMMA NewestIs ==
  ASSUME RingOK
  PROVE  /\ IsFiniteSet(DOMAIN Newest)
         /\ \A i \in DOMAIN Newest : \E k \in DOMAIN store.buffer : Newest[i] = store.buffer[k]
         /\ \A i, j \in DOMAIN Newest : Newest[i].id = Newest[j].id => i = j
<1> DEFINE size == Len(store.buffer)  c == store.cursor
           x(back) == c - back + size  at1(back) == 1 + (x(back) % size)
<1>1. size \in Nat /\ size <= ATTEMPTS_CAPACITY /\ c \in Nat /\ DOMAIN store.buffer = 1 .. size
  BY CapacityAssumption DEF RingOK
<1>2. Min({ATTEMPTS_CAPACITY, size}) = size
  BY <1>1, SmallerIsMin, CapacityAssumption
<1>3. Newest = [back \in 1 .. size |-> store.buffer[at1(back)]]
  BY <1>2 DEF Newest, recent
<1> HIDE DEF size, c
<1>4. ASSUME NEW back \in 1 .. size PROVE x(back) \in Nat /\ at1(back) \in 1 .. size
  <2>1. x(back) \in Nat /\ size \in Nat \ {0}
    BY <1>1
  <2>2. x(back) % size \in 0 .. size - 1
    BY <2>1
  <2> QED
    BY <2>1, <2>2
<1>5. ASSUME NEW a \in 1 .. size, NEW b \in 1 .. size, b < a PROVE at1(a) # at1(b)
  <2>1. x(a) \in Nat /\ x(b) \in Nat /\ size \in Nat \ {0} /\ x(a) < x(b) /\ x(b) < x(a) + size
    BY <1>1, <1>4, <1>5
  <2>2. x(a) % size \in Nat /\ x(b) % size \in Nat
    BY <2>1
  <2>3. x(a) % size # x(b) % size
    BY <2>1, RemaindersDiffer
  <2> QED
    BY <2>2, <2>3
<1> HIDE DEF at1
<1>6. DOMAIN Newest = 1 .. size /\ \A i \in 1 .. size : Newest[i] = store.buffer[at1(i)] /\ at1(i) \in DOMAIN store.buffer
  BY <1>1, <1>3, <1>4
<1>7. ASSUME NEW i \in DOMAIN Newest, NEW j \in DOMAIN Newest, Newest[i].id = Newest[j].id PROVE i = j
  <2>1. at1(i) = at1(j)
    BY <1>6, <1>7 DEF RingOK
  <2> QED
    BY <1>1, <1>5, <1>6, <2>1
<1>8. IsFiniteSet(1 .. size)
  BY <1>1, FS_Interval
<1> QED
  BY <1>6, <1>7, <1>8

-----------------------------------------------------------------------------
(***************************************************************************)
(* fold: every call that was pending is counted, or goes on pending.       *)
(***************************************************************************)
Counts == tally.byStatus["ok"] + tally.byStatus["refused"] + tally.byStatus["shed"] + tally.byStatus["none"]

LEMMA PendingIs ==
  ASSUME RingOK, tally.pending \subseteq 1 .. store.nextId - 1
  PROVE  /\ IsFiniteSet(tally.pending) /\ Cardinality(tally.pending) \in Nat
         /\ \A ids \in SUBSET tally.pending : IsFiniteSet(ids) /\ Cardinality(ids) \in Nat
<1>1. store.nextId \in Nat \ {0}
  BY DEF RingOK
<1>2. IsFiniteSet(1 .. store.nextId - 1)
  BY <1>1, FS_Interval
<1> QED
  BY <1>2, FS_Subset, FS_CardinalityType

LEMMA FoldIs ==
  ASSUME Formed, RingOK, tally.pending \subseteq 1 .. store.nextId - 1,
         tally.byStatus \in [Statuses -> Nat], NEW g, g = fold
  PROVE  /\ g.pending \subseteq tally.pending
         /\ g.byStatus \in [Statuses -> Nat]
         /\ Cardinality(g.pending)
              + (g.byStatus["ok"] + g.byStatus["refused"] + g.byStatus["shed"] + g.byStatus["none"])
              = Cardinality(tally.pending) + Counts
         /\ losses = 0 => g.byStatus["none"] = tally.byStatus["none"]
         /\ Cardinality(Quiet)
              <= Cardinality({id \in Quiet : id \in g.pending})
                   + (g.byStatus["none"] - tally.byStatus["none"])
         /\ g.sent = tally.sent /\ g.placements = tally.placements
         /\ g.resting = tally.resting /\ g.cancelled = tally.cancelled
<1> DEFINE P == tally.pending  ids == {Newest[i].id : i \in Foldable}
           Of(status) == {i \in Foldable : Newest[i].status = status}
           n(status) == Cardinality(Of(status))
<1>1. /\ IsFiniteSet(DOMAIN Newest)
      /\ \A i \in DOMAIN Newest : \E k \in DOMAIN store.buffer : Newest[i] = store.buffer[k]
      /\ \A i, j \in DOMAIN Newest : Newest[i].id = Newest[j].id => i = j
  BY NewestIs
<1>2. Foldable \in SUBSET DOMAIN Newest /\ IsFiniteSet(Foldable)
  BY <1>1, FS_Subset DEF Foldable
<1>3. \A i \in DOMAIN Newest : Newest[i].status \in Statuses
  <2>1. \A k \in DOMAIN store.buffer : store.buffer[k].status \in Statuses
    <3>1. \A k \in DOMAIN store.buffer : store.buffer[k] \in Recorded
      BY DEF RingOK
    <3> QED
      BY <3>1 DEF Recorded
  <2> QED
    BY <1>1, <2>1
<1>4. /\ \A status : n(status) \in Nat
      /\ Cardinality(Foldable) = n("ok") + n("refused") + n("shed") + n("none")
  <2> DEFINE f == [i \in Foldable |-> Newest[i].status]
  <2>1. \A i \in Foldable : f[i] \in Statuses
    BY <1>2, <1>3
  <2>2. \A status : {i \in Foldable : f[i] = status} = Of(status)
    OBVIOUS
  <2> HIDE DEF f, Of
  <2>3. /\ \A status : Cardinality({x \in Foldable : f[x] = status}) \in Nat
        /\ Cardinality(Foldable) = Cardinality({x \in Foldable : f[x] = "ok"})
                               + Cardinality({x \in Foldable : f[x] = "refused"})
                               + Cardinality({x \in Foldable : f[x] = "shed"})
                               + Cardinality({x \in Foldable : f[x] = "none"})
    BY <1>2, <2>1, StatusCounts
  <2> QED
    BY <2>2, <2>3
<1>5. /\ g.pending = P \ ids /\ g.byStatus = [s \in DOMAIN tally.byStatus |-> tally.byStatus[s] + n(s)]
      /\ g.sent = tally.sent /\ g.placements = tally.placements
      /\ g.resting = tally.resting /\ g.cancelled = tally.cancelled
  BY DEF fold, Formed, TallyFormed
<1> HIDE DEF n
<1>6. /\ g.byStatus \in [Statuses -> Nat]
      /\ \A s \in Statuses : g.byStatus[s] = tally.byStatus[s] + n(s)
  BY <1>4, <1>5
<1>7. ids \in SUBSET P /\ Cardinality(ids) = Cardinality(Foldable)
  <2> DEFINE f == [i \in Foldable |-> Newest[i].id]
  <2>1. ids = {f[i] : i \in Foldable} /\ \A x, y \in Foldable : f[x] = f[y] => x = y
    BY <1>1, <1>2
  <2> HIDE DEF f, ids
  <2>2. Cardinality({f[i] : i \in Foldable}) = Cardinality(Foldable)
    BY <1>2, <2>1, ImageCounts
  <2>3. Cardinality(ids) = Cardinality(Foldable)
    BY <2>1, <2>2, Zenon
  <2>4. ids \in SUBSET P
    BY DEF ids, Foldable
  <2> QED
    BY <2>3, <2>4
<1>8. /\ IsFiniteSet(P) /\ Cardinality(P) \in Nat
      /\ \A T \in SUBSET P : IsFiniteSet(T) /\ Cardinality(T) \in Nat
  BY PendingIs
<1>9. Cardinality(P \ ids) + Cardinality(ids) = Cardinality(P)
  <2> HIDE DEF ids
  <2>1. (P \ ids) \cup ids = P /\ (P \ ids) \cap ids = {} /\ (P \ ids) \in SUBSET P
    BY <1>7
  <2>2. IsFiniteSet(P \ ids) /\ IsFiniteSet(ids)
    BY <1>7, <1>8, <2>1
  <2>3. /\ Cardinality((P \ ids) \cup ids) = Cardinality(P \ ids) + Cardinality(ids)
    BY <2>1, <2>2, TwoParts
  <2> QED
    BY <2>1, <2>3, Zenon
<1>10. Cardinality(g.pending) + (g.byStatus["ok"] + g.byStatus["refused"] + g.byStatus["shed"] + g.byStatus["none"])
         = Cardinality(P) + Counts
  <2>1. /\ Cardinality(g.pending) \in Nat
        /\ Cardinality(g.pending) + (n("ok") + n("refused") + n("shed") + n("none")) = Cardinality(P)
    <3>1. Cardinality(g.pending) = Cardinality(P \ ids)
      BY <1>5, Zenon
    <3>2. Cardinality(P \ ids) \in Nat
      BY <1>8
    <3> HIDE DEF ids
    <3> QED
      BY <1>4, <1>7, <1>9, <3>1, <3>2
  <2>2. /\ tally.byStatus["ok"] \in Nat /\ g.byStatus["ok"] = tally.byStatus["ok"] + n("ok")
        /\ tally.byStatus["refused"] \in Nat /\ g.byStatus["refused"] = tally.byStatus["refused"] + n("refused")
        /\ tally.byStatus["shed"] \in Nat /\ g.byStatus["shed"] = tally.byStatus["shed"] + n("shed")
        /\ tally.byStatus["none"] \in Nat /\ g.byStatus["none"] = tally.byStatus["none"] + n("none")
    BY <1>6 DEF Statuses
  <2>3. n("ok") \in Nat /\ n("refused") \in Nat /\ n("shed") \in Nat /\ n("none") \in Nat
    BY <1>4
  <2> QED
    BY <1>8, <2>1, <2>2, <2>3 DEF Counts
<1>11. losses = 0 => g.byStatus["none"] = tally.byStatus["none"]
  <2> SUFFICES ASSUME losses = 0 PROVE g.byStatus["none"] = tally.byStatus["none"]
    OBVIOUS
  <2>1. \A i \in DOMAIN Newest : Newest[i].status # "none"
    BY <1>1 DEF RingOK
  <2>2. Of("none") = {}
    BY <1>2, <2>1
  <2>3. n("none") = 0
    BY <2>2, FS_EmptySet, Zenon DEF n
  <2>4. tally.byStatus["none"] \in Nat /\ g.byStatus["none"] = tally.byStatus["none"] + n("none")
    BY <1>6 DEF Statuses
  <2> QED
    BY <2>3, <2>4
<1>12. Cardinality(Quiet) <= Cardinality({id \in Quiet : id \in g.pending}) + n("none")
  <2> DEFINE kept == {id \in Quiet : id \in g.pending}  gone == Quiet \ kept
             f == [i \in Of("none") |-> Newest[i].id]  T == {f[i] : i \in Of("none")}
  <2>1. Quiet \in SUBSET P /\ kept \in SUBSET P /\ gone \in SUBSET P
    BY DEF Quiet
  <2>2. Quiet = kept \cup gone /\ kept \cap gone = {}
    OBVIOUS
  <2>3. gone \in SUBSET T
    <3> SUFFICES ASSUME NEW id \in gone PROVE id \in T
      OBVIOUS
    <3>1. id \in ids /\ id \in Quiet
      BY <1>5 DEF Quiet
    <3>2. PICK i \in Foldable : Newest[i].id = id
      BY <3>1
    <3>3. Newest[i].status = "none"
      BY <1>1, <1>2, <3>1, <3>2 DEF Quiet
    <3>4. i \in Of("none") /\ f[i] = id
      BY <3>2, <3>3
    <3> QED
      BY <3>4
  <2>4. IsFiniteSet(Of("none"))
    BY <1>2, FS_Subset
  <2>5. IsFiniteSet(T) /\ Cardinality(T) <= n("none")
    <3> HIDE DEF f
    <3>1. IsFiniteSet(T) /\ Cardinality(T) <= Cardinality(Of("none"))
      <4> HIDE DEF Of
      <4> QED
        BY <2>4, ImageCounts
    <3> QED
      BY <3>1 DEF n
  <2> HIDE DEF kept, T, f
  <2>6. IsFiniteSet(kept) /\ IsFiniteSet(gone)
    BY <1>8, <2>1
  <2>7. Cardinality(gone) <= Cardinality(T)
    BY <2>3, <2>5, FS_Subset
  <2> HIDE DEF gone
  <2>8. /\ Cardinality(kept \cup gone) = Cardinality(kept) + Cardinality(gone)
        /\ Cardinality(kept) \in Nat /\ Cardinality(gone) \in Nat
    BY <2>2, <2>6, TwoParts
  <2>9. Cardinality(Quiet) = Cardinality(kept) + Cardinality(gone)
    BY <2>2, <2>8, Zenon
  <2>10. Cardinality(T) \in Nat /\ n("none") \in Nat
    BY <1>4, <2>5, FS_CardinalityType
  <2>11. Cardinality(Quiet) <= Cardinality(kept) + n("none")
    BY <2>5, <2>7, <2>8, <2>9, <2>10
  <2> QED
    BY <2>11 DEF kept
<1>13. tally.byStatus["none"] \in Nat /\ g.byStatus["none"] = tally.byStatus["none"] + n("none") /\ n("none") \in Nat
  BY <1>4, <1>6 DEF Statuses
<1>14. g.byStatus["none"] - tally.byStatus["none"] = n("none")
  BY <1>13
<1>15. g.pending \subseteq tally.pending
  BY <1>5
<1> QED
  BY <1>5, <1>6, <1>10, <1>11, <1>12, <1>14, <1>15

-----------------------------------------------------------------------------
(***************************************************************************)
(* What a step makes of the tally.                                         *)
(***************************************************************************)
LEMMA CallsReturn ==
  ASSUME SimTypes, RunOK, [LoadNext]_loadVars, NEW s \in Slots, s \in InFlight,
         at'[s] \in {"late", "done"}
  PROVE  answer(s) \/ loseAnswer(s)
<1>0. CallsTyped /\ at[s] \in {"sent", "executed"}
  BY DEF SimTypes, InFlight
<1>1. ~ UNCHANGED at
  BY <1>0
<1>2. ASSUME NEW t \in Slots, NEW order \in Menu, place(t, order) PROVE FALSE
  <2>1. at[t] = "unsent" /\ at' = [at EXCEPT ![t] = "sent"]
    BY <1>2 DEF place
  <2> QED
    BY <1>0, <2>1 DEF CallsTyped
<1>3. ASSUME NEW index \in Own, fire(index) PROVE FALSE
  <2>1. index \in Slots
    BY LoadAssumption
  <2> QED
    BY <1>1, <1>2, <1>3, <2>1, FiringIs DEF vars, calls
<1>4. ASSUME NEW t \in Others, NEW order \in LoopOrders, tick(t, order) PROVE FALSE
  BY <1>2, <1>4, LoadAssumption DEF tick, Others
<1>5. ASSUME NEW t \in Slots, execute(t) PROVE FALSE
  <2>1. PICK order, d, r : Executes(t, order, d, r)
    BY <1>5, ExecuteIs
  <2>2. \/ at[t] = "sent" /\ at' = [at EXCEPT ![t] = "executed"]
        \/ at[t] = "late" /\ at' = [at EXCEPT ![t] = "done"]
    BY <2>1 DEF Executes
  <2> QED
    BY <1>0, <2>2 DEF CallsTyped
<1>6. ASSUME NEW t \in Slots, at' = [at EXCEPT ![t] = "executed"] PROVE FALSE
  BY <1>0, <1>6 DEF CallsTyped
<1>7. ASSUME NEW t \in Slots, answer(t) \/ loseAnswer(t) PROVE answer(s) \/ loseAnswer(s)
  <2>1. \/ at' = [at EXCEPT ![t] = "done"]
        \/ at' = [at EXCEPT ![t] = "late"]
    BY <1>7 DEF answer, loseAnswer, Answer, Lose
  <2>2. t = s
    BY <1>0, <2>1 DEF CallsTyped
  <2> QED
    BY <1>7, <2>2
<1>8. \/ UNCHANGED at
      \/ \E index \in Own : fire(index)
      \/ \E t \in Others, order \in LoopOrders : tick(t, order)
      \/ \E t \in Slots : execute(t) \/ answer(t) \/ loseAnswer(t)
      \/ \E t \in Slots : at' = [at EXCEPT ![t] = "executed"]
  BY DEF LoadNext, loadVars, vars, calls, start, StartLoop, seedUsers, highWaterMark, prepare, Phase, NextWave,
     shed, Shed, executeCancel, answerCancel, loseCancel, portfolioRead, ReadPortfolio, seedUser,
     FailRead, Landed, waitForQuiesce, readCash, readLedger, check, fail, overspend, forget,
     Misserve, invent, miscancel
<1> QED
  BY <1>1, <1>3, <1>4, <1>5, <1>6, <1>7, <1>8

Keeps ==
  /\ tally'.sent = tally.sent /\ tally'.pending = tally.pending
  /\ tally'.byStatus = tally.byStatus /\ tally'.placements = tally.placements
  /\ tally'.cancelled = tally.cancelled /\ tally'.resting \in Seq(Nat)

Issues ==
  /\ tally'.sent = tally.sent + 1 /\ tally'.pending = tally.pending \cup {store.nextId}
  /\ tally'.byStatus = tally.byStatus /\ tally'.resting \in Seq(Nat)
  /\ tally.placements \subseteq tally'.placements
  /\ \A p \in tally'.placements : p \in tally.placements \/ Answerable(p.orderId)
  /\ store' # store

LEMMA RecordingChanges ==
  ASSUME RingOK, NEW kind, NEW status, NEW id, NEW call, recordAttempt(kind, status, id, call)
  PROVE  store' # store
<1>1. store'.nextId = store.nextId + 1 /\ store.nextId \in Nat
  BY DEF recordAttempt, record, RingOK
<1> QED
  BY <1>1

LEMMA TallyMoves ==
  ASSUME SimTypes, Formed, RowsOK, RingOK, RunOK, tally.resting \in Seq(Nat), [LoadNext]_loadVars
  PROVE  Keeps \/ (NextWave /\ tally' = fold) \/ Issues
<1>1. TallyFormed
  BY DEF Formed
<1>2. ASSUME tally' = tally PROVE Keeps
  BY <1>2 DEF Keeps
<1>3. ASSUME tally' = issued, store' # store PROVE Issues
  BY <1>1, <1>3 DEF issued, Issues, TallyFormed
<1>4. ASSUME NEW index \in Own, fire(index) PROVE Keeps
  <2>1. CASE tally.resting # <<>> /\ tally' = [tally EXCEPT !.resting = Tail(@)]
    <3>1. Tail(tally.resting) \in Seq(Nat)
      BY <2>1
    <3> QED
      BY <1>1, <2>1, <3>1 DEF Keeps, TallyFormed
  <2> QED
    BY <1>2, <1>4, <2>1, FiringIs
<1>5. ASSUME NEW s \in Slots, answer(s) PROVE Keeps \/ Issues
  <2>1. store' # store
    BY <1>5, RecordingChanges DEF answer
  <2>2. CASE tally' = Noted(s, execution[s])
    <3> DEFINE p == [orderId |-> IdOf(s), status |-> execution[s].status,
                     size |-> held[s].order.size, price |-> execution[s].price]
    <3>1. IdOf(s) \in Nat /\ Answerable(IdOf(s)) /\ p.orderId = IdOf(s)
      BY IdOfIs DEF RowsOK
    <3>2. /\ tally'.sent = tally.sent + 1 /\ tally'.pending = tally.pending \cup {store.nextId}
          /\ tally'.byStatus = tally.byStatus /\ tally'.placements = tally.placements \cup {p}
          /\ tally'.resting = IF execution[s].status = "NEW" THEN Append(tally.resting, IdOf(s))
                              ELSE tally.resting
      BY <1>1, <2>2 DEF Noted, issued, TallyFormed
    <3> HIDE DEF p
    <3>3. tally'.resting \in Seq(Nat)
      BY <3>1, <3>2
    <3> QED
      BY <2>1, <3>1, <3>2, <3>3 DEF Issues
  <2>3. tally' = tally \/ tally' = issued \/ tally' = Noted(s, execution[s])
    BY <1>5 DEF answer
  <2>4. tally' = issued => Issues
    BY <1>3, <2>1
  <2>5. tally' = tally => Keeps
    BY <1>2
  <2> QED
    BY <2>2, <2>3, <2>4, <2>5
<1>6. ASSUME NEW s \in Slots, loseAnswer(s) PROVE Keeps \/ Issues
  <2>1. store' # store
    BY <1>6, RecordingChanges DEF loseAnswer
  <2>3. tally' = tally \/ tally' = issued
    BY <1>6 DEF loseAnswer
  <2>4. tally' = issued => Issues
    BY <1>3, <2>1
  <2>5. tally' = tally => Keeps
    BY <1>2
  <2> QED
    BY <2>3, <2>4, <2>5
<1>7. ASSUME NEW cancel \in cancelling, answerCancel(cancel) \/ loseCancel(cancel) PROVE Issues
  <2>1. store' # store
    BY <1>7, RecordingChanges DEF answerCancel, loseCancel
  <2> QED
    BY <1>1, <1>3, <1>7, <2>1 DEF answerCancel, loseCancel, issued, Issues, TallyFormed
<1>8. \/ tally' = tally \/ (NextWave /\ tally' = fold)
      \/ \E index \in Own : fire(index)
      \/ \E s \in Slots : answer(s) \/ loseAnswer(s)
      \/ \E cancel \in cancelling : answerCancel(cancel) \/ loseCancel(cancel)
  BY DEF LoadNext, loadVars, runner, StartLoop, tick, execute, shed,
     executeCancel, portfolioRead, overspend, forget, Misserve, invent, miscancel,
     start, highWaterMark, prepare, waitForQuiesce, readLedger, check, fail, readCash, NextWave
<1> QED
  BY <1>2, <1>4, <1>5, <1>6, <1>7, <1>8

LEMMA PlacementsStay ==
  ASSUME SimTypes, Formed, RowsOK, RingOK, RunOK, tally.resting \in Seq(Nat),
         tally.pending \subseteq 1 .. store.nextId - 1, tally.byStatus \in [Statuses -> Nat],
         [LoadNext]_loadVars
  PROVE  tally.placements \subseteq tally'.placements
<1>1. NextWave /\ tally' = fold => tally'.placements = tally.placements
  BY DEF Formed, TallyFormed, fold
<1> QED
  BY <1>1, TallyMoves DEF Keeps, Issues

(* An own call whose order is stored and whose answer the run never saw.   *)
LEMMA LostOwnMoves ==
  ASSUME SimTypes, Formed, RowsOK, RingOK, RunOK, tally.resting \in Seq(Nat),
         tally.pending \subseteq 1 .. store.nextId - 1, tally.byStatus \in [Statuses -> Nat],
         [LoadNext]_loadVars, NEW s \in Own, s \in LostOwn'
  PROVE  s \in LostOwn \/ loseAnswer(s)
<1>1. /\ s \in Slots /\ s # Null /\ Moves(s) /\ rows \in Seq(Rows)
      /\ tally.placements \subseteq tally'.placements
      /\ DOMAIN rows = 1 .. Len(rows)
  BY CallsMove, PlacementsStay, LoadAssumption, BookIs DEF RowsOK
<1>2. \/ at'[s] = "late"
      \/ /\ at'[s] = "done"
         /\ \E n \in DOMAIN rows' :
              rows'[n].call = s /\ \A placement \in tally'.placements : placement.orderId # n
  BY DEF LostOwn
<1>3. ASSUME NEW n \in DOMAIN rows', rows'[n].call = s
      PROVE  (n \in DOMAIN rows /\ rows[n].call = s) \/ at[s] \in {"sent", "late"}
  <2>1. CASE rows' = rows
    BY <1>3, <2>1
  <2>2. ASSUME NEW r, Fed(r) PROVE (n \in DOMAIN rows /\ rows[n].call = s) \/ at[s] \in {"sent", "late"}
    <3>1. n \in DOMAIN rows => rows[n].call = s
      BY <1>1, <1>3, <2>2, FedIs
    <3>2. n \notin DOMAIN rows => r.call = s
      BY <1>1, <1>3, <2>2, FedIs
    <3>3. r.call = s => at[s] \in {"sent", "late"}
      BY <1>1, <2>2 DEF Fed
    <3> QED
      BY <3>1, <3>2, <3>3
  <2>3. ASSUME NEW id, NEW status, Relabelled(id, status)
        PROVE  n \in DOMAIN rows /\ rows[n].call = s
    <3>1. DOMAIN rows' = DOMAIN rows /\ RowStays(n)
      BY <1>1, <1>3, <2>3, RelabelledIs
    <3> QED
      BY <1>3, <3>1 DEF RowStays
  <2> QED
    BY <1>1, <2>1, <2>2, <2>3, RowsMove
<1>4. CASE at[s] = "late"
  BY <1>4 DEF LostOwn
<1>5. CASE Left(s) /\ at[s] = "done"
  BY <1>1, <1>2, <1>3, <1>5 DEF Left, LostOwn
<1>6. CASE Back(s)
  <2>1. s \in InFlight /\ at'[s] \in {"late", "done"}
    BY <1>6 DEF Back
  <2>2. answer(s) \/ loseAnswer(s)
    BY <1>1, <2>1, CallsReturn
  <2>3. ASSUME answer(s) PROVE FALSE
    <3>1. at[s] = "executed" /\ at' = [at EXCEPT ![s] = "done"] /\ rows' = rows
      BY <2>3 DEF answer, Answer
    <3>2. at'[s] = "done"
      BY <1>1, <3>1 DEF SimTypes, CallsTyped
    <3>3. PICK n \in DOMAIN rows : /\ rows[n].call = s
                                   /\ \A placement \in tally'.placements : placement.orderId # n
      BY <1>2, <3>1, <3>2
    <3>4. execution[s] # NoExecution /\ \A m \in DOMAIN rows : rows[m].call = s => m = n
      BY <1>1, <3>1, <3>3 DEF RowsOK, RowOK
    <3>5. IdOf(s) = n
      <4>1. IdOf(s) \in DOMAIN rows /\ rows[IdOf(s)].call = s
        BY <1>1, <3>3, IdOfIs
      <4> QED
        BY <3>4, <4>1
    <3>6. tally' = Noted(s, execution[s])
      BY <2>3, <3>4 DEF answer
    <3> DEFINE p == [orderId |-> IdOf(s), status |-> execution[s].status,
                     size |-> held[s].order.size, price |-> execution[s].price]
    <3>8. tally'.placements = tally.placements \cup {p} /\ p.orderId = IdOf(s)
      BY <3>6 DEF Noted, issued, Formed, TallyFormed
    <3> HIDE DEF p
    <3>7. \E q \in tally'.placements : q.orderId = IdOf(s)
      BY <3>8
    <3> QED
      BY <3>3, <3>5, <3>7
  <2> QED
    BY <2>2, <2>3
<1>7. at[s] = "late" \/ (Left(s) /\ at[s] = "done") \/ Back(s)
  BY <1>1, <1>2 DEF Moves, Left, Sent, Served, Landing
<1> QED
  BY <1>4, <1>5, <1>6, <1>7

LEMMA QuietStays ==
  ASSUME SimTypes, RowsOK, Formed, RingOK, losses \in Nat, [LoadNext]_loadVars,
         tally.pending \subseteq 1 .. store.nextId - 1, tally.pending \subseteq tally'.pending
  PROVE  Quiet \subseteq Quiet'
<1> SUFFICES ASSUME NEW id \in Quiet PROVE id \in Quiet'
  OBVIOUS
<1>1. /\ id \in tally'.pending /\ id # store.nextId
      /\ \A i \in DOMAIN store.buffer : store.buffer[i].id = id => store.buffer[i].status = "none"
  BY DEF Quiet, RingOK
<1>2. CASE store' = store
  BY <1>1, <1>2 DEF Quiet
<1>3. CASE store' # store
  <2>1. PICK attempt : Recording(attempt) /\ store' = record(store, attempt)
    BY <1>3, RecordingIs
  <2>2. PICK new \in DOMAIN store'.buffer :
          /\ store'.buffer[new] = [attempt EXCEPT !.id = store.nextId]
          /\ \A i \in DOMAIN store'.buffer \ {new} :
               i \in DOMAIN store.buffer /\ store'.buffer[i] = store.buffer[i]
    BY <2>1, RecordIs
  <2>3. store'.buffer[new].id = store.nextId
    BY <2>1, <2>2 DEF Recording
  <2>4. ASSUME NEW i \in DOMAIN store'.buffer, store'.buffer[i].id = id
        PROVE  store'.buffer[i].status = "none"
    <3>1. i # new
      BY <1>1, <2>3, <2>4
    <3>2. i \in DOMAIN store.buffer /\ store'.buffer[i] = store.buffer[i]
      BY <2>2, <3>1
    <3> QED
      BY <1>1, <2>4, <3>2
  <2> QED
    BY <1>1, <2>4 DEF Quiet
<1> QED
  BY <1>2, <1>3

(* The answer that is lost leaves a call that will always be quiet.        *)
LEMMA LossIsQuiet ==
  ASSUME SimTypes, RowsOK, Formed, RingOK, NEW s \in Own, loseAnswer(s),
         tally.pending \subseteq 1 .. store.nextId - 1
  PROVE  store.nextId \in Quiet' /\ store.nextId \notin Quiet
<1>1. /\ tally' = issued
      /\ store' = record(store, [id |-> 0, kind |-> "place", status |-> "none", orderId |-> Null,
                               call |-> s])
  BY DEF loseAnswer, recordAttempt
<1> DEFINE attempt == [id |-> 0, kind |-> "place", status |-> "none", orderId |-> Null, call |-> s]
<1>2. Recording(attempt) /\ attempt.status = "none"
  BY LoadAssumption DEF Recording, Statuses
<1>3. store' = record(store, attempt)
  BY <1>1
<1> HIDE DEF attempt
<1>4. PICK new \in DOMAIN store'.buffer :
        /\ store'.buffer[new] = [attempt EXCEPT !.id = store.nextId]
        /\ \A i \in DOMAIN store'.buffer \ {new} :
             i \in DOMAIN store.buffer /\ store'.buffer[i] = store.buffer[i]
  BY <1>2, <1>3, RecordIs
<1>5. store'.buffer[new].status = "none"
  BY <1>2, <1>4 DEF Recording
<1>6. \A i \in DOMAIN store.buffer : store.buffer[i].id # store.nextId
  <2>1. \A i \in DOMAIN store.buffer : store.buffer[i] \in Recorded /\ store.buffer[i].id < store.nextId
    BY DEF RingOK
  <2>2. store.nextId \in Nat
    BY DEF RingOK
  <2> QED
    BY <2>1, <2>2 DEF Recorded
<1>7. \A i \in DOMAIN store'.buffer :
        store'.buffer[i].id = store.nextId => store'.buffer[i].status = "none"
  BY <1>4, <1>5, <1>6
<1>8. store.nextId \in tally'.pending
  BY <1>1 DEF issued, Formed, TallyFormed
<1>9. store.nextId \notin tally.pending
  BY DEF RingOK
<1> QED
  BY <1>7, <1>8, <1>9 DEF Quiet

LEMMA LosesOne ==
  ASSUME SimTypes, NEW s \in Slots, NEW t \in Slots, loseAnswer(s), loseAnswer(t)
  PROVE  s = t
<1>1. /\ at[s] \in {"sent", "executed"} /\ at[t] \in {"sent", "executed"}
      /\ at' = [at EXCEPT ![s] = "late"] \/ at' = [at EXCEPT ![s] = "done"]
      /\ at' = [at EXCEPT ![t] = "late"] \/ at' = [at EXCEPT ![t] = "done"]
  BY DEF loseAnswer, Lose
<1>2. at \in [Slots -> Positions]
  BY DEF SimTypes, CallsTyped
<1> QED
  BY <1>1, <1>2

LEMMA TallyOKStays ==
  ASSUME SimTypes, Formed, RowsOK, RingOK, RunOK, TallyOK, [LoadNext]_loadVars
  PROVE  TallyOK'
<1>1. /\ tally.pending \subseteq 1 .. store.nextId - 1 /\ tally.byStatus \in [Statuses -> Nat]
      /\ losses \in Nat /\ (losses = 0 => tally.byStatus["none"] = 0)
      /\ tally.resting \in Seq(Nat)
      /\ \A placement \in tally.placements : Answerable(placement.orderId)
      /\ IsFiniteSet(LostOwn)
      /\ Cardinality(LostOwn) <= tally.byStatus["none"] + Cardinality(Quiet)
      /\ store.nextId \in Nat \ {0} /\ rows \in Seq(Rows) /\ TallyFormed
  BY DEF TallyOK, RingOK, RowsOK, Formed
<1>0. ASSUME NEW n \in Nat, NEW by \in [Statuses -> Nat]
      PROVE  n + by["ok"] + by["refused"] + by["shed"] + by["none"]
               = n + (by["ok"] + by["refused"] + by["shed"] + by["none"])
  <2>1. by["ok"] \in Nat /\ by["refused"] \in Nat /\ by["shed"] \in Nat /\ by["none"] \in Nat
    BY DEF Statuses
  <2> QED
    BY <2>1
<1>2. losses' \in Nat /\ losses' >= losses
  BY <1>1, LossesGrow
<1>3. /\ IsFiniteSet(tally.pending) /\ Cardinality(tally.pending) \in Nat
      /\ \A ids \in SUBSET tally.pending : IsFiniteSet(ids) /\ Cardinality(ids) \in Nat
  BY <1>1, PendingIs
<1>20. tally.sent = Cardinality(tally.pending) + Counts
  BY <1>0, <1>1, <1>3 DEF TallyOK, Counts
<1>4. RingOK'
  BY <1>1, RingOKStays
<1>5. \A id : Answerable(id) => Answerable(id)'
  BY <1>1, AnswerableStays
<1>6. Keeps \/ (NextWave /\ tally' = fold) \/ Issues
  BY <1>1, TallyMoves
<1>7. ASSUME NextWave, tally' = fold
      PROVE  /\ tally'.pending \subseteq tally.pending
             /\ tally'.byStatus \in [Statuses -> Nat]
             /\ Cardinality(tally'.pending) + Counts' = Cardinality(tally.pending) + Counts
             /\ losses = 0 => tally'.byStatus["none"] = tally.byStatus["none"]
             /\ Cardinality(Quiet)
                  <= Cardinality({id \in Quiet : id \in tally'.pending})
                       + (tally'.byStatus["none"] - tally.byStatus["none"])
             /\ tally'.sent = tally.sent /\ tally'.placements = tally.placements
             /\ tally'.resting = tally.resting
             /\ UNCHANGED <<store, losses>>
  <2>1. PICK g : g = tally'
    OBVIOUS
  <2>2. g = fold
    BY <1>7, <2>1
  <2>3. /\ g.pending \subseteq tally.pending
        /\ g.byStatus \in [Statuses -> Nat]
        /\ Cardinality(g.pending)
             + (g.byStatus["ok"] + g.byStatus["refused"] + g.byStatus["shed"] + g.byStatus["none"])
             = Cardinality(tally.pending) + Counts
        /\ losses = 0 => g.byStatus["none"] = tally.byStatus["none"]
        /\ Cardinality(Quiet)
             <= Cardinality({id \in Quiet : id \in g.pending})
                  + (g.byStatus["none"] - tally.byStatus["none"])
        /\ g.sent = tally.sent /\ g.placements = tally.placements
        /\ g.resting = tally.resting
    BY <1>1, <2>2, FoldIs
  <2>4. Counts' = g.byStatus["ok"] + g.byStatus["refused"] + g.byStatus["shed"] + g.byStatus["none"]
    BY <2>1 DEF Counts
  <2>5. UNCHANGED <<store, losses>>
    BY <1>7 DEF NextWave, vars
  <2> QED
    BY <2>1, <2>3, <2>4, <2>5
<1>8. store'.nextId \in Nat /\ store'.nextId >= store.nextId /\ (store' # store => store'.nextId = store.nextId + 1)
  <2>1. CASE store' # store
    <3>1. PICK attempt : Recording(attempt) /\ store' = record(store, attempt)
      BY <1>1, <2>1, RecordingIs
    <3>2. store'.nextId = store.nextId + 1
      BY <3>1, RecordIs
    <3> QED
      BY <1>1, <3>2
  <2> QED
    BY <1>1, <2>1
<1>9. tally'.pending \subseteq 1 .. store'.nextId - 1 /\ tally'.byStatus \in [Statuses -> Nat]
  <2>1. CASE Keeps
    BY <1>1, <1>8, <2>1 DEF Keeps
  <2>2. CASE Issues
    BY <1>1, <1>8, <2>2 DEF Issues
  <2>3. CASE NextWave /\ tally' = fold
    BY <1>1, <1>7, <1>8, <2>3
  <2> QED
    BY <1>6, <2>1, <2>2, <2>3
<1>10. tally'.sent = Cardinality(tally'.pending) + Counts'
  <2>0. Counts \in Nat
    BY <1>1 DEF Counts, Statuses
  <2>1. CASE Keeps
    BY <1>20, <2>1 DEF Keeps, Counts
  <2>2. CASE Issues
    <3>1. store.nextId \notin tally.pending
      BY <1>1
    <3>2. Cardinality(tally.pending \cup {store.nextId}) = Cardinality(tally.pending) + 1
      BY <1>3, <3>1, FS_AddElement
    <3>3. /\ Cardinality(tally'.pending) = Cardinality(tally.pending) + 1 /\ Counts' = Counts
          /\ tally'.sent = tally.sent + 1
      BY <2>2, <3>2 DEF Issues, Counts
    <3> QED
      BY <1>3, <1>20, <2>0, <3>3
  <2>3. CASE NextWave /\ tally' = fold
    BY <1>7, <1>20, <2>3
  <2> QED
    BY <1>6, <2>1, <2>2, <2>3
<1>11. losses' = 0 => tally'.byStatus["none"] = 0
  <2> SUFFICES ASSUME losses' = 0 PROVE tally'.byStatus["none"] = 0
    OBVIOUS
  <2>1. losses = 0
    BY <1>1, <1>2
  <2> QED
    BY <1>1, <1>6, <1>7, <2>1 DEF Keeps, Issues
<1>12. tally'.resting \in Seq(Nat)
  BY <1>1, <1>6, <1>7 DEF Keeps, Issues
<1>13. \A placement \in tally'.placements : Answerable(placement.orderId)
  BY <1>1, <1>6, <1>7 DEF Keeps, Issues
<1>14. IsFiniteSet(Quiet') /\ Cardinality(Quiet') \in Nat /\ IsFiniteSet(Quiet) /\ Cardinality(Quiet) \in Nat
  <2>1. Quiet' \subseteq tally'.pending /\ Quiet \subseteq tally.pending
    BY DEF Quiet
  <2>2. IsFiniteSet(1 .. store'.nextId - 1)
    BY <1>8, FS_Interval
  <2>3. IsFiniteSet(Quiet')
    BY <1>9, <2>1, <2>2, FS_Subset
  <2> QED
    BY <1>3, <2>1, <2>3, FS_CardinalityType
<1>15. Cardinality(LostOwn) \in Nat /\ tally.byStatus["none"] \in Nat /\ tally'.byStatus["none"] \in Nat
  BY <1>1, <1>9, FS_CardinalityType DEF Statuses
<1>16. ASSUME NEW s \in Own, loseAnswer(s)
       PROVE  IsFiniteSet(LostOwn') /\ Cardinality(LostOwn') <= tally'.byStatus["none"] + Cardinality(Quiet')
  <2>1. LostOwn' \subseteq LostOwn \cup {s}
    BY <1>1, <1>16, LostOwnMoves, LosesOne, LoadAssumption DEF LostOwn
  <2>12. IsFiniteSet(LostOwn)
    BY <1>1
  <2>13. /\ IsFiniteSet(LostOwn \cup {s})
         /\ Cardinality(LostOwn \cup {s}) = IF s \in LostOwn THEN Cardinality(LostOwn) ELSE Cardinality(LostOwn) + 1
    BY <2>12, FS_AddElement
  <2>2. IsFiniteSet(LostOwn \cup {s}) /\ Cardinality(LostOwn \cup {s}) <= Cardinality(LostOwn) + 1
    BY <1>15, <2>13
  <2>3. /\ IsFiniteSet(LostOwn') /\ Cardinality(LostOwn') \in Nat
        /\ Cardinality(LostOwn') <= Cardinality(LostOwn \cup {s})
    BY <2>1, <2>2, FS_Subset, FS_CardinalityType
  <2>4. Cardinality(LostOwn \cup {s}) \in Nat
    BY <2>2, FS_CardinalityType
  <2>5. tally' = issued
    BY <1>16 DEF loseAnswer
  <2>6. tally'.byStatus = tally.byStatus /\ tally.pending \subseteq tally'.pending
    BY <1>1, <2>5 DEF issued, TallyFormed
  <2>7. Quiet \subseteq Quiet'
    BY <1>1, <2>6, QuietStays
  <2>8. store.nextId \in Quiet' /\ store.nextId \notin Quiet
    BY <1>1, <1>16, LossIsQuiet
  <2>9. Cardinality(Quiet \cup {store.nextId}) = Cardinality(Quiet) + 1
    BY <1>14, <2>8, FS_AddElement
  <2>10. Quiet \cup {store.nextId} \in SUBSET Quiet'
    BY <2>7, <2>8
  <2>11. Cardinality(Quiet \cup {store.nextId}) <= Cardinality(Quiet')
    BY <1>14, <2>10, FS_Subset
  <2> QED
    BY <1>1, <1>14, <1>15, <2>2, <2>3, <2>4, <2>6, <2>9, <2>11
<1>17. ASSUME \A s \in Own : ~ loseAnswer(s)
       PROVE  IsFiniteSet(LostOwn') /\ Cardinality(LostOwn') <= tally'.byStatus["none"] + Cardinality(Quiet')
  <2>1. LostOwn' \subseteq LostOwn
    BY <1>1, <1>17, LostOwnMoves DEF LostOwn
  <2>2. /\ IsFiniteSet(LostOwn') /\ Cardinality(LostOwn') \in Nat
        /\ Cardinality(LostOwn') <= Cardinality(LostOwn)
    BY <1>1, <2>1, FS_Subset, FS_CardinalityType
  <2>3. CASE Keeps \/ Issues
    <3>1. tally'.byStatus = tally.byStatus /\ tally.pending \subseteq tally'.pending
      BY <2>3 DEF Keeps, Issues
    <3>2. Quiet \subseteq Quiet'
      BY <1>1, <3>1, QuietStays
    <3>3. Cardinality(Quiet) <= Cardinality(Quiet')
      BY <1>14, <3>2, FS_Subset
    <3> QED
      BY <1>1, <1>14, <1>15, <2>2, <3>1, <3>3
  <2>4. CASE NextWave /\ tally' = fold
    <3> DEFINE Q == {id \in Quiet : id \in tally'.pending}
    <3>1. Q = Quiet'
      BY <1>7, <2>4 DEF Quiet
    <3>2. Cardinality(Quiet) <= Cardinality(Q) + (tally'.byStatus["none"] - tally.byStatus["none"])
      BY <1>7, <2>4
    <3>3. Cardinality(Q) = Cardinality(Quiet')
      BY <3>1, Zenon
    <3> HIDE DEF Q
    <3> QED
      BY <1>1, <1>14, <1>15, <2>2, <3>2, <3>3
  <2> QED
    BY <1>6, <2>3, <2>4
<1>18. IsFiniteSet(LostOwn') /\ Cardinality(LostOwn') <= tally'.byStatus["none"] + Cardinality(Quiet')
  BY <1>16, <1>17
<1>19. \A placement \in tally'.placements : Answerable(placement.orderId)'
  BY <1>5, <1>13 DEF Answerable
<1>21. tally'.sent = Cardinality(tally'.pending) + tally'.byStatus["ok"] + tally'.byStatus["refused"]
                       + tally'.byStatus["shed"] + tally'.byStatus["none"]
  <2>1. IsFiniteSet(1 .. store'.nextId - 1)
    BY <1>8, FS_Interval
  <2>2. Cardinality(tally'.pending) \in Nat
    BY <1>9, <2>1, FS_Subset, FS_CardinalityType
  <2> QED
    BY <1>0, <1>9, <1>10, <2>2 DEF Counts
<1> QED
  BY <1>2, <1>9, <1>11, <1>12, <1>18, <1>19, <1>21 DEF TallyOK

-----------------------------------------------------------------------------
(***************************************************************************)
(* A target that does its job: the answers agree with the rows.            *)
(***************************************************************************)
LEMMA Serving ==
  ASSUME RunOK, [LoadNext]_loadVars, faults' = {}
  PROVE  ~ Misserving /\ faults = {}
<1>1. Misserving => faults' # {}
  <2>1. ASSUME NEW s \in Slots, overspend(s) \/ forget(s) PROVE faults' # {}
    BY <2>1, MisbehavingIs DEF overspend, forget
  <2>2. ASSUME NEW order \in Menu, invent(order) PROVE faults' # {}
    BY <2>2, MisbehavingIs DEF invent
  <2>3. ASSUME NEW cancel \in cancelling, miscancel(cancel) PROVE faults' # {}
    BY <2>3, MisbehavingIs DEF miscancel
  <2> QED
    BY <2>1, <2>2, <2>3 DEF Misserving
<1> QED
  BY <1>1, RunStepIsSimulationStep

LEMMA Serves ==
  ASSUME SimTypes, RunOK, [LoadNext]_loadVars, ~ Misserving, NEW s \in Slots, Served(s)
  PROVE  execute(s) \/ shed(s)
<1>0. CallsTyped /\ at[s] = "sent" /\ at'[s] = "executed"
  BY DEF SimTypes, Served
<1>1. ~ UNCHANGED at
  BY <1>0
<1>2. ASSUME NEW t \in Slots, NEW order \in Menu, place(t, order) PROVE FALSE
  <2>1. at[t] = "unsent" /\ at' = [at EXCEPT ![t] = "sent"]
    BY <1>2 DEF place
  <2> QED
    BY <1>0, <2>1 DEF CallsTyped
<1>3. ASSUME NEW index \in Own, fire(index) PROVE FALSE
  <2>1. index \in Slots
    BY LoadAssumption
  <2> QED
    BY <1>1, <1>2, <1>3, <2>1, FiringIs DEF vars, calls
<1>4. ASSUME NEW t \in Others, NEW order \in LoopOrders, tick(t, order) PROVE FALSE
  BY <1>2, <1>4, LoadAssumption DEF tick, Others
<1>5. ASSUME NEW t \in Slots, execute(t) \/ shed(t) PROVE execute(s) \/ shed(s)
  <2>1. \/ at[t] = "sent" /\ at' = [at EXCEPT ![t] = "executed"]
        \/ at[t] = "late" /\ at' = [at EXCEPT ![t] = "done"]
    BY <1>5 DEF execute, shed, Execute, LateCommit, Shed
  <2>2. t = s
    BY <1>0, <2>1 DEF CallsTyped
  <2> QED
    BY <1>5, <2>2
<1>6. ASSUME NEW t \in Slots, answer(t) \/ loseAnswer(t) PROVE FALSE
  <2>1. \/ at' = [at EXCEPT ![t] = "done"]
        \/ at' = [at EXCEPT ![t] = "late"]
    BY <1>6 DEF answer, loseAnswer, Answer, Lose
  <2> QED
    BY <1>0, <2>1 DEF CallsTyped
<1>7. \/ UNCHANGED at
      \/ \E index \in Own : fire(index)
      \/ \E t \in Others, order \in LoopOrders : tick(t, order)
      \/ \E t \in Slots : execute(t) \/ shed(t)
      \/ \E t \in Slots : answer(t) \/ loseAnswer(t)
  BY DEF LoadNext, loadVars, vars, calls, start, StartLoop, seedUsers, highWaterMark, prepare, Phase, NextWave,
     executeCancel, answerCancel, loseCancel, portfolioRead, ReadPortfolio, seedUser,
     FailRead, Landed, waitForQuiesce, readCash, readLedger, check, fail, Misserving
<1> QED
  BY <1>1, <1>3, <1>4, <1>5, <1>6, <1>7

LEMMA TallyGains ==
  ASSUME Formed, [LoadNext]_loadVars, RunOK
  PROVE  \/ /\ UNCHANGED <<tally.placements, tally.cancelled>>
            /\ tally'.resting = tally.resting
                 \/ (tally.resting # <<>> /\ tally'.resting = Tail(tally.resting))
         \/ \E s \in Slots \cap Own : answer(s) /\ execution[s] # NoExecution /\ tally' = Noted(s, execution[s])
         \/ \E cancel \in cancelling :
              /\ cancel.answer = "ok"
              /\ tally'.cancelled = tally.cancelled \cup {cancel.orderId}
              /\ UNCHANGED <<tally.placements, tally.resting>>
<1> DEFINE Same == /\ UNCHANGED <<tally.placements, tally.cancelled>>
                   /\ tally'.resting = tally.resting
                        \/ (tally.resting # <<>> /\ tally'.resting = Tail(tally.resting))
<1>0. TallyFormed
  BY DEF Formed
<1>1. ASSUME tally' = tally PROVE Same
  BY <1>1
<1>2. ASSUME tally' = issued \/ tally' = fold PROVE Same
  BY <1>0, <1>2 DEF issued, fold, TallyFormed
<1>3. ASSUME NEW index \in Own, fire(index) PROVE Same
  <2>1. CASE tally.resting # <<>> /\ tally' = [tally EXCEPT !.resting = Tail(@)]
    BY <1>0, <2>1 DEF TallyFormed
  <2> QED
    BY <1>1, <1>3, <2>1, FiringIs
<1> HIDE DEF Same
<1>4. ASSUME NEW s \in Slots, answer(s)
      PROVE  Same \/ (s \in Own /\ execution[s] # NoExecution /\ tally' = Noted(s, execution[s]))
  <2>1. \/ tally' = tally \/ tally' = issued
        \/ (s \in Own /\ execution[s] # NoExecution /\ tally' = Noted(s, execution[s]))
    BY <1>4 DEF answer
  <2> QED
    BY <1>1, <1>2, <2>1
<1>5. ASSUME NEW cancel \in cancelling, answerCancel(cancel)
      PROVE  \/ Same
             \/ /\ cancel.answer = "ok"
                /\ tally'.cancelled = tally.cancelled \cup {cancel.orderId}
                /\ UNCHANGED <<tally.placements, tally.resting>>
  BY <1>0, <1>5 DEF answerCancel, issued, TallyFormed, Same
<1>6. \/ tally' = tally \/ tally' = issued \/ tally' = fold
      \/ \E index \in Own : fire(index)
      \/ \E s \in Slots : answer(s)
      \/ \E cancel \in cancelling : answerCancel(cancel)
  BY DEF LoadNext, loadVars, runner, StartLoop, tick, execute, shed, loseAnswer, loseCancel,
     executeCancel, portfolioRead, overspend, forget, Misserve, invent, miscancel,
     start, highWaterMark, prepare, waitForQuiesce, readLedger, check, fail, readCash, NextWave
<1> QED
  BY <1>1, <1>2, <1>3, <1>4, <1>5, <1>6 DEF Same

(* Cancellations name orders that rest, and say what was done.             *)
LEMMA CancellingMoves ==
  ASSUME rows \in Seq(Rows), Formed, RunOK, [LoadNext]_loadVars, ~ Misserving, NEW c \in cancelling'
  PROVE  \/ c \in cancelling
         \/ tally.resting # <<>> /\ c = [orderId |-> Head(tally.resting), answer |-> "none"]
         \/ \E d \in cancelling : /\ c.orderId = d.orderId
                                  /\ c.answer = "ok" =>
                                       c.orderId \in DOMAIN rows' /\ rows'[c.orderId].status = "CANCELLED"
<1>1. ASSUME NEW index \in Own, fire(index)
      PROVE  \/ c \in cancelling
             \/ tally.resting # <<>> /\ c = [orderId |-> Head(tally.resting), answer |-> "none"]
  BY <1>1, FiringIs
<1>2. ASSUME NEW d \in cancelling, executeCancel(d)
      PROVE  \/ c \in cancelling
             \/ /\ c.orderId = d.orderId
                /\ c.answer = "ok" => c.orderId \in DOMAIN rows' /\ rows'[c.orderId].status = "CANCELLED"
  <2> DEFINE id == d.orderId
  <2>1. d = [orderId |-> id, answer |-> d.answer]
    BY DEF Formed, CancelsFormed
  <2>2. ASSUME c = [d EXCEPT !.answer = "refused"]
        PROVE  c.orderId = id /\ c.answer # "ok"
    BY <2>1, <2>2
  <2>3. ASSUME c = [d EXCEPT !.answer = "ok"], NEW r \in Rows, r.status = "CANCELLED", id \in DOMAIN rows,
               rows' = [rows EXCEPT ![id] = r]
        PROVE  c.orderId = id /\ id \in DOMAIN rows' /\ rows'[id].status = "CANCELLED"
    BY <2>1, <2>3
  <2> DEFINE new == [rows[id] EXCEPT !.status = "CANCELLED"]
  <2>4. \/ cancelling' = (cancelling \ {d}) \cup {[d EXCEPT !.answer = "refused"]}
        \/ /\ id \in DOMAIN rows /\ new \in Rows /\ rows' = [rows EXCEPT ![id] = new]
           /\ cancelling' = (cancelling \ {d}) \cup {[d EXCEPT !.answer = "ok"]}
    BY <1>2, CancelIs
  <2>5. id \in DOMAIN rows => new.status = "CANCELLED"
    <3>1. id \in DOMAIN rows => rows[id] \in Rows
      OBVIOUS
    <3> QED
      BY <3>1 DEF Rows
  <2> HIDE DEF new, id
  <2>6. CASE cancelling' = (cancelling \ {d}) \cup {[d EXCEPT !.answer = "refused"]}
    BY <2>2, <2>6 DEF id
  <2>7. CASE /\ id \in DOMAIN rows /\ new \in Rows /\ rows' = [rows EXCEPT ![id] = new]
             /\ cancelling' = (cancelling \ {d}) \cup {[d EXCEPT !.answer = "ok"]}
    <3>1. ASSUME c = [d EXCEPT !.answer = "ok"]
          PROVE  c.orderId = id /\ id \in DOMAIN rows' /\ rows'[id].status = "CANCELLED"
      BY <2>3, <2>5, <2>7, <3>1
    <3> QED
      BY <2>7, <3>1 DEF id
  <2> QED
    BY <2>4, <2>6, <2>7
<1>3. \/ cancelling' \subseteq cancelling
      \/ \E index \in Own : fire(index)
      \/ \E d \in cancelling : executeCancel(d)
  BY DEF LoadNext, loadVars, StartLoop, tick, execute, shed, answer, loseAnswer, answerCancel,
     loseCancel, portfolioRead, Misserving,
     start, highWaterMark, prepare, check, fail, NextWave, waitForQuiesce, readLedger, readCash
<1> QED
  BY <1>1, <1>2, <1>3

LEMMA TakenStays ==
  ASSUME SimTypes, RowsOK, RunOK, [LoadNext]_loadVars, NEW id, Taken(id)
  PROVE  Taken(id)'
<1>1. id \in DOMAIN rows /\ rows[id].call \in Own /\ at[rows[id].call] = "done"
  BY DEF Taken
<1>2. RowStays(id) /\ Moves(rows[id].call)
  BY <1>1, RowsStay, CallsMove, LoadAssumption DEF RowsOK
<1> QED
  BY <1>1, <1>2 DEF RowStays, Moves, Left, Sent, Served, Back, Landing, InFlight, Taken

LEMMA RowKeeps ==
  ASSUME SimTypes, RowsOK, RunOK, AnswersOK, [LoadNext]_loadVars, faults' = {}, NEW n \in DOMAIN rows
  PROVE  /\ RowStays(n)
         /\ \/ rows'[n].status = rows[n].status
            \/ rows[n].status = "NEW" /\ rows'[n].status = "CANCELLED" /\ Taken(n)
<1>1. rows \in Seq(Rows) /\ RowStays(n)
  BY RowsStay DEF RowsOK
<1>2. ASSUME NEW r, Fed(r) PROVE rows'[n].status = rows[n].status
  BY <1>1, <1>2, FedIs
<1>3. ASSUME NEW id, NEW status, Relabelled(id, status)
      PROVE  \/ rows'[n].status = rows[n].status
             \/ rows[n].status = "NEW" /\ rows'[n].status = "CANCELLED" /\ Taken(n)
  <2> DEFINE r == [rows[id] EXCEPT !.status = status]
  <2>1. r.status = status /\ rows'[id] = r /\ \A m \in DOMAIN rows \ {id} : rows'[m] = rows[m]
    BY <1>1, <1>3, RelabelledIs
  <2>2. status = "CANCELLED" /\ rows[id].status = "NEW" /\ Taken(id)
    BY <1>3 DEF Relabelled, AnswersOK
  <2> HIDE DEF r
  <2> QED
    BY <2>1, <2>2
<1> QED
  BY <1>1, <1>2, <1>3, RowsMove

LEMMA AnswersOKStays ==
  ASSUME SimTypes, Formed, RowsOK, RunOK, TallyOK, AnswersOK, [LoadNext]_loadVars, faults' = {}
  PROVE  AnswersOK'
<1>1. /\ rows \in Seq(Rows) /\ rows' \in Seq(Rows) /\ \A s \in Slots : Moves(s)
      /\ ~ Misserving /\ tally.resting \in Seq(Nat)
      /\ \A id : Taken(id) => Taken(id)'
  BY RowsStay, CallsMove, Serving, TakenStays DEF RowsOK, TallyOK
<1>2. \A n \in DOMAIN rows :
        /\ RowStays(n)
        /\ \/ rows'[n].status = rows[n].status
           \/ rows[n].status = "NEW" /\ rows'[n].status = "CANCELLED" /\ Taken(n)
  BY RowKeeps
<1>3. /\ \A s \in Slots : at[s] = "executed" /\ execution[s] # NoExecution =>
           \E n \in DOMAIN rows :
             /\ rows[n].call = s /\ rows[n].size = held[s].order.size
             /\ rows[n].price = execution[s].price /\ rows[n].status = execution[s].status
      /\ \A p \in tally.placements : StoredAs(p)
      /\ \A i \in DOMAIN tally.resting : Taken(tally.resting[i])
      /\ \A id \in tally.cancelled : Cancelled(id)
      /\ \A c \in cancelling : Taken(c.orderId) /\ (c.answer = "ok" => Cancelled(c.orderId))
  BY DEF AnswersOK
<1>4. \A id : Cancelled(id) => Cancelled(id)'
  BY <1>1, <1>2 DEF Cancelled, Taken
<1>5. \A p : StoredAs(p) => StoredAs(p)'
  <2> TAKE p
  <2> SUFFICES ASSUME StoredAs(p) PROVE StoredAs(p)'
    OBVIOUS
  <2>1. /\ p.orderId \in DOMAIN rows /\ Taken(p.orderId)'
        /\ rows[p.orderId].size = p.size /\ rows[p.orderId].price = p.price
        /\ rows[p.orderId].status = p.status \/ (p.status = "NEW" /\ rows[p.orderId].status = "CANCELLED")
    BY <1>1 DEF StoredAs, Taken
  <2>2. rows'[p.orderId].size = p.size /\ rows'[p.orderId].price = p.price
    BY <1>2, <2>1 DEF RowStays
  <2>3. rows'[p.orderId].status = p.status \/ (p.status = "NEW" /\ rows'[p.orderId].status = "CANCELLED")
    BY <1>2, <2>1
  <2> QED
    BY <2>1, <2>2, <2>3 DEF StoredAs
<1>6. ASSUME NEW s \in Slots, at'[s] = "executed", execution'[s] # NoExecution
      PROVE  \E n \in DOMAIN rows' :
               /\ rows'[n].call = s /\ rows'[n].size = held'[s].order.size
               /\ rows'[n].price = execution'[s].price /\ rows'[n].status = execution'[s].status
  <2>1. CASE Left(s)
    <3>1. PICK n \in DOMAIN rows :
             /\ rows[n].call = s /\ rows[n].size = held[s].order.size
             /\ rows[n].price = execution[s].price /\ rows[n].status = execution[s].status
      BY <1>3, <1>6, <2>1 DEF Left
    <3>2. at[s] = "executed"
      BY <1>6, <2>1 DEF Left
    <3>3. rows'[n].status = rows[n].status /\ RowStays(n)
      BY <1>2, <3>1, <3>2 DEF Taken
    <3> QED
      BY <2>1, <3>1, <3>3 DEF Left, RowStays
  <2>2. CASE Served(s)
    <3>1. execute(s) \/ shed(s)
      BY <1>1, <2>2, Serves
    <3>2. at[s] = "sent" /\ execution[s] = NoExecution
      BY <2>2 DEF Served, SimTypes, CallOK
    <3>3. ~ shed(s)
      BY <1>6, <3>2 DEF shed, Shed
    <3>4. PICK order, d, r : Executes(s, order, d, r)
      BY <3>1, <3>3, ExecuteIs
    <3>5. /\ order = held[s].order /\ execution' = [execution EXCEPT ![s] = d] /\ held' = held
          /\ r = RowOf(s, order, d) /\ r \in Rows /\ rows' = Append(rows, r)
      BY <3>2, <3>4 DEF Executes
    <3>6. execution'[s] = d
      BY <3>5 DEF SimTypes, CallsTyped
    <3>7. r.call = s /\ r.size = order.size /\ r.price = d.price /\ r.status = d.status
      BY <3>5 DEF RowOf
    <3>8. Len(rows) + 1 \in DOMAIN rows' /\ rows'[Len(rows) + 1] = r
      BY <1>1, <3>5
    <3> QED
      BY <3>5, <3>6, <3>7, <3>8
  <2> QED
    BY <1>1, <1>6, <2>1, <2>2 DEF Moves, Sent, Back, Landing
<1>7. ASSUME NEW s \in Slots \cap Own, answer(s), execution[s] # NoExecution
      PROVE  \E n, p : /\ n = IdOf(s)
                       /\ p = [orderId |-> IdOf(s), status |-> execution[s].status,
                               size |-> held[s].order.size, price |-> execution[s].price]
                       /\ Taken(n)' /\ StoredAs(p)'
  <2>1. at[s] = "executed" /\ at' = [at EXCEPT ![s] = "done"] /\ rows' = rows
    BY <1>7 DEF answer, Answer
  <2>2. at'[s] = "done"
    BY <2>1 DEF SimTypes, CallsTyped
  <2>3. PICK n \in DOMAIN rows :
          /\ rows[n].call = s /\ rows[n].size = held[s].order.size
          /\ rows[n].price = execution[s].price /\ rows[n].status = execution[s].status
    BY <1>3, <1>7, <2>1
  <2>4. IdOf(s) \in DOMAIN rows /\ rows[IdOf(s)].call = s
    BY <1>1, <2>3, IdOfIs
  <2>5. s # Null
    BY LoadAssumption
  <2>6. IdOf(s) = n
    BY <2>3, <2>4, <2>5 DEF RowsOK, RowOK
  <2> DEFINE p == [orderId |-> IdOf(s), status |-> execution[s].status,
                       size |-> held[s].order.size, price |-> execution[s].price]
  <2>7. p.orderId = n /\ p.status = rows[n].status /\ p.size = rows[n].size /\ p.price = rows[n].price
    BY <2>3, <2>6
  <2> HIDE DEF p
  <2>8. n \in DOMAIN rows' /\ rows'[n].call \in Own /\ at'[rows'[n].call] = "done" /\ rows'[n] = rows[n]
    BY <1>7, <2>1, <2>2, <2>3
  <2>9. PICK q : q = p
    OBVIOUS
  <2>10. Taken(n)'
    BY <2>8 DEF Taken
  <2>11. StoredAs(q)'
    BY <2>7, <2>8, <2>9, <2>10 DEF StoredAs
  <2> QED
    BY <2>6, <2>9, <2>10, <2>11 DEF p
<1>8. \/ /\ UNCHANGED <<tally.placements, tally.cancelled>>
         /\ tally'.resting = tally.resting
              \/ (tally.resting # <<>> /\ tally'.resting = Tail(tally.resting))
      \/ \E s \in Slots \cap Own : answer(s) /\ execution[s] # NoExecution /\ tally' = Noted(s, execution[s])
      \/ \E cancel \in cancelling :
           /\ cancel.answer = "ok"
           /\ tally'.cancelled = tally.cancelled \cup {cancel.orderId}
           /\ UNCHANGED <<tally.placements, tally.resting>>
  BY TallyGains
<1> DEFINE Gained == /\ \A p \in tally'.placements : StoredAs(p)'
                     /\ \A i \in DOMAIN tally'.resting : \E id : id = tally'.resting[i] /\ Taken(id)'
                     /\ \A id \in tally'.cancelled : Cancelled(id)'
<1>9. ASSUME UNCHANGED <<tally.placements, tally.cancelled>>,
             tally'.resting = tally.resting
               \/ (tally.resting # <<>> /\ tally'.resting = Tail(tally.resting))
      PROVE  Gained
  <2>1. \A i \in DOMAIN tally'.resting : \E j \in DOMAIN tally.resting : tally'.resting[i] = tally.resting[j]
    <3>1. CASE tally'.resting = tally.resting
      BY <3>1
    <3>2. ASSUME tally.resting # <<>>, tally'.resting = Tail(tally.resting), NEW i \in DOMAIN tally'.resting
          PROVE  \E j \in DOMAIN tally.resting : tally'.resting[i] = tally.resting[j]
      <4>1. PICK q \in Seq(Nat) : q = tally.resting
        BY <1>1
      <4>2. i \in DOMAIN Tail(q) /\ q # <<>>
        BY <3>2, <4>1
      <4>3. i + 1 \in DOMAIN q /\ Tail(q)[i] = q[i + 1]
        BY <4>2
      <4> QED
        BY <3>2, <4>1, <4>3
    <3> QED
      BY <1>9, <3>1, <3>2
  <2> QED
    BY <1>1, <1>3, <1>4, <1>5, <1>9, <2>1
<1>10. ASSUME NEW s \in Slots \cap Own, answer(s), execution[s] # NoExecution, tally' = Noted(s, execution[s])
       PROVE  Gained
  <2>1. PICK n, p : /\ n = IdOf(s)
                    /\ p = [orderId |-> IdOf(s), status |-> execution[s].status,
                            size |-> held[s].order.size, price |-> execution[s].price]
                    /\ Taken(n)' /\ StoredAs(p)'
    BY <1>7, <1>10
  <2>2. /\ tally'.placements = tally.placements \cup {p} /\ tally'.cancelled = tally.cancelled
        /\ tally'.resting = tally.resting \/ tally'.resting = Append(tally.resting, n)
    BY <1>10, <2>1 DEF Noted, issued, Formed, TallyFormed
  <2>3. n \in Nat
    BY <1>1, <2>1, IdOfIs
  <2>4. \A i \in DOMAIN tally'.resting :
          tally'.resting[i] = n \/ \E j \in DOMAIN tally.resting : tally'.resting[i] = tally.resting[j]
    <3>1. CASE tally'.resting = tally.resting
      BY <3>1
    <3>2. CASE tally'.resting = Append(tally.resting, n)
      BY <1>1, <2>3, <3>2
    <3> QED
      BY <2>2, <3>1, <3>2
  <2> QED
    BY <1>1, <1>3, <1>4, <1>5, <2>1, <2>2, <2>4
<1>11. ASSUME NEW cancel \in cancelling, cancel.answer = "ok",
              tally'.cancelled = tally.cancelled \cup {cancel.orderId},
              UNCHANGED <<tally.placements, tally.resting>>
       PROVE  Gained
  BY <1>1, <1>3, <1>4, <1>5, <1>11
<1>12. Gained
  <2> HIDE DEF Gained
  <2> QED
    BY <1>8, <1>9, <1>10, <1>11
<1>13. ASSUME NEW c \in cancelling'
       PROVE  \E id : id = c.orderId /\ Taken(id)' /\ (c.answer = "ok" => Cancelled(id)')
  <2>1. CASE c \in cancelling
    BY <1>1, <1>3, <1>4, <2>1
  <2>2. CASE tally.resting # <<>> /\ c = [orderId |-> Head(tally.resting), answer |-> "none"]
    <3>1. 1 \in DOMAIN tally.resting /\ Head(tally.resting) = tally.resting[1]
      BY <1>1, <2>2
    <3> QED
      BY <1>1, <1>3, <2>2, <3>1
  <2>3. ASSUME NEW d \in cancelling, c.orderId = d.orderId,
               c.answer = "ok" => c.orderId \in DOMAIN rows' /\ rows'[c.orderId].status = "CANCELLED"
        PROVE  \E id : id = c.orderId /\ Taken(id)' /\ (c.answer = "ok" => Cancelled(id)')
    <3>1. PICK id : id = c.orderId
      OBVIOUS
    <3>2. Taken(id)'
      BY <1>1, <1>3, <2>3, <3>1
    <3>3. c.answer = "ok" => Cancelled(id)'
      BY <2>3, <3>1, <3>2 DEF Cancelled
    <3> QED
      BY <3>1, <3>2, <3>3
  <2> QED
    BY <1>1, <2>1, <2>2, <2>3, CancellingMoves
<1>14. \A i \in DOMAIN tally'.resting : Taken(tally.resting[i])'
  BY <1>12 DEF Taken
<1>15. \A c \in cancelling' : Taken(c.orderId)' /\ (c.answer = "ok" => Cancelled(c.orderId)')
  BY <1>13 DEF Taken, Cancelled
<1> QED
  BY <1>6, <1>12, <1>14, <1>15 DEF AnswersOK

-----------------------------------------------------------------------------
(***************************************************************************)
(* A target that does its job fills what is covered, so no balance goes    *)
(* under nothing and no position under the lowest it had been.             *)
(***************************************************************************)
LEMMA LevelsGrow ==
  ASSUME NEW b \in Seq(Rows), NEW c \in Seq(Rows), NEW r \in Rows, Extends(b, c, r),
         noOverdraft(b), cashFold(c, OwnedBy(c, r.userId)) >= 0
  PROVE  noOverdraft(c)
<1>1. /\ DOMAIN b = 1 .. Len(b) /\ Len(b) \in Nat /\ DOMAIN c = 1 .. Len(c)
      /\ Len(c) = Len(b) + 1 /\ c[Len(c)] = r /\ \A n \in DOMAIN b : c[n] = b[n]
  BY BookIs DEF Extends
<1>2. ASSUME NEW n \in DOMAIN b PROVE cashFold(c, Upto(OwnedBy(c, c[n].userId), n)) >= 0
  <2>1. c[n] = b[n] /\ n \in 0 .. Len(b)
    BY <1>1
  <2>2. cashFold(c, Upto(OwnedBy(c, b[n].userId), n)) = cashFold(b, Upto(OwnedBy(b, b[n].userId), n))
    BY <2>1, LevelsExtended
  <2> QED
    BY <2>1, <2>2 DEF noOverdraft
<1>3. cashFold(c, Upto(OwnedBy(c, c[Len(c)].userId), Len(c))) >= 0
  BY <1>1, LastLevel
<1> QED
  BY <1>1, <1>2, <1>3 DEF noOverdraft

LEMMA PositionsGrow ==
  ASSUME NEW b \in Seq(Rows), NEW c \in Seq(Rows), NEW r \in Rows, Extends(b, c, r),
         NEW mark \in 0 .. Len(b), noOversell(b, mark),
         HoldsUp(c, r.userId, r.instrumentId, mark, shareFold(c, Position(c, r.userId, r.instrumentId)))
  PROVE  noOversell(c, mark)
<1>1. /\ DOMAIN b = 1 .. Len(b) /\ Len(b) \in Nat /\ DOMAIN c = 1 .. Len(c)
      /\ Len(c) = Len(b) + 1 /\ c[Len(c)] = r /\ \A n \in DOMAIN b : c[n] = b[n]
  BY BookIs DEF Extends
<1>2. ASSUME NEW n \in DOMAIN b, n > mark
      PROVE  HoldsUp(c, c[n].userId, c[n].instrumentId, mark,
                     shareFold(c, Upto(Position(c, c[n].userId, c[n].instrumentId), n)))
  <2>1. c[n] = b[n] /\ n \in 0 .. Len(b)
    BY <1>1
  <2>2. PICK u, i : u = b[n].userId /\ i = b[n].instrumentId
    OBVIOUS
  <2>3. /\ cashFold(c, Upto(OwnedBy(c, u), n)) = cashFold(b, Upto(OwnedBy(b, u), n))
        /\ \A j : shareFold(c, Upto(Position(c, u, j), n)) = shareFold(b, Upto(Position(b, u, j), n))
    BY <2>1, LevelsExtended
  <2>4. HoldsUp(b, u, i, mark, shareFold(b, Upto(Position(b, u, i), n)))
    BY <1>2, <2>2 DEF noOversell
  <2>5. \A shares : HoldsUp(c, u, i, mark, shares) <=> HoldsUp(b, u, i, mark, shares)
    BY FloorsExtended
  <2> QED
    BY <2>1, <2>2, <2>3, <2>4, <2>5
<1>3. HoldsUp(c, c[Len(c)].userId, c[Len(c)].instrumentId, mark,
              shareFold(c, Upto(Position(c, c[Len(c)].userId, c[Len(c)].instrumentId), Len(c))))
  BY <1>1, LastLevel
<1> QED
  BY <1>1, <1>2, <1>3 DEF noOversell

(* Nothing is a floor, and what holds up goes on to when it grows.         *)
LEMMA HoldsUpIs ==
  ASSUME NEW b \in Seq(Rows), NEW mark \in Nat, NEW u, NEW i, NEW shares \in Int
  PROVE  /\ shares >= 0 => HoldsUp(b, u, i, mark, shares)
         /\ \A more \in Int :
              more >= shares => (HoldsUp(b, u, i, mark, shares) => HoldsUp(b, u, i, mark, more))
         /\ mark = Len(b) => HoldsUp(b, u, i, mark, shareFold(b, Position(b, u, i)))
<1> DEFINE P == Position(b, u, i)
<1>1. IsBook(b) /\ DOMAIN b = 1 .. Len(b) /\ Len(b) \in Nat
  BY BookIs
<1>2. P \in SUBSET DOMAIN b /\ \A n : Upto(P, n) \in SUBSET DOMAIN b
  BY DEF Position, OwnedBy, Upto
<1>3. Upto(P, 0) = {} /\ Upto(P, Len(b)) = P
  BY <1>1, LastLevel DEF Upto, Position, OwnedBy
<1>4. \A n : shareFold(b, Upto(P, n)) \in Int
  BY <1>1, <1>2, FoldsAreInts
<1>5. 0 \in 0 .. mark /\ mark \in 0 .. mark
  OBVIOUS
<1>6. 0 \in Floors(b, P, mark)
  BY <1>3, <1>5, FoldsOfNone DEF Floors
<1>7. mark = Len(b) => shareFold(b, P) \in Floors(b, P, mark)
  BY <1>3, <1>5 DEF Floors
<1>8. \A floor \in Floors(b, P, mark) : floor \in Int
  BY <1>4 DEF Floors
<1>9. shareFold(b, P) \in Int
  BY <1>1, <1>2, FoldsAreInts
<1> HIDE DEF P
<1>10. shares >= 0 => \E floor \in Floors(b, P, mark) : shares >= floor
  BY <1>6
<1>11. \A more \in Int :
         more >= shares =>
           ((\E floor \in Floors(b, P, mark) : shares >= floor) => \E floor \in Floors(b, P, mark) : more >= floor)
  BY <1>8
<1>12. mark = Len(b) => \E floor \in Floors(b, P, mark) : shareFold(b, P) >= floor
  BY <1>7, <1>9
<1> QED
  BY <1>10, <1>11, <1>12 DEF HoldsUp, P

LEMMA ExecutionFits ==
  ASSUME SimTypes, NEW s \in Slots, execute(s)
  PROVE  \E r \in Rows :
           /\ rows' = Append(rows, r) /\ BookedBy(r)
           /\ cashDelta(r) >= 0 \/ portfolio[r.userId].cash + cashDelta(r) >= 0
           /\ \/ shareDelta(r) >= 0
              \/ portfolio[r.userId].shares[r.instrumentId] + shareDelta(r) >= 0
<1>1. PICK order, d, r : Executes(s, order, d, r)
  BY ExecuteIs
<1>2. /\ order \in Orders /\ d \in Decisions /\ d # NoExecution /\ DecidedFor(order, d)
      /\ d = Decision(order) /\ r = RowOf(s, order, d) /\ r \in Rows
      /\ rows' = Append(rows, r) /\ BookedBy(r)
  BY <1>1 DEF Executes
<1>3. /\ cashDelta(r) = CashMove(order, d) /\ shareDelta(r) = IF Fills(d) THEN Bought(order) ELSE 0
      /\ r.userId = order.userId /\ r.instrumentId = order.instrumentId
  BY <1>2, DeltasOfRow DEF RowOf
<1>4. portfolio \in [Users -> Portfolios] /\ portfolio[order.userId] \in Portfolios
  BY <1>2 DEF SimTypes, WorldOK, Orders
<1>5. CASE ~ Fills(d)
  BY <1>2, <1>3, <1>5 DEF CashMove
<1>6. CASE Fills(d)
  <2> DEFINE own == portfolio[order.userId]
  <2>1. order.type = "MARKET" /\ d.price = Close[order.instrumentId]
    BY <1>2, <1>6 DEF DecidedFor
  <2>2. Covers(own, order)
    BY <1>2, <1>4, <1>6, <2>1, DecisionIs
  <2>3. /\ Cost(order) \in Nat /\ order.size \in Nat /\ Close[order.instrumentId] \in Nat
        /\ own.cash \in Int /\ own.shares[order.instrumentId] \in Int
    BY <1>2, <1>4, CostIs DEF Portfolios
  <2>4. CASE order.side = "BUY"
    <3>1. cashDelta(r) = - Cost(order) /\ shareDelta(r) = order.size /\ own.cash >= Cost(order)
      BY <1>3, <1>6, <2>1, <2>2, <2>4 DEF CashMove, Bought, Cost, Covers
    <3> HIDE DEF own
    <3>2. own.cash + cashDelta(r) >= 0 /\ shareDelta(r) >= 0
      BY <2>3, <3>1
    <3> QED
      BY <1>2, <1>3, <3>2 DEF own
  <2>5. CASE order.side # "BUY"
    <3>1. /\ shareDelta(r) = - order.size /\ own.shares[order.instrumentId] >= order.size
          /\ cashDelta(r) = - (Close[order.instrumentId] * (- order.size))
      BY <1>3, <1>6, <2>1, <2>2, <2>5 DEF CashMove, Bought, Covers
    <3>2. \A a, z \in Nat : - (a * (- z)) = a * z
      OBVIOUS
    <3>3. cashDelta(r) = Cost(order)
      BY <2>3, <3>1, <3>2 DEF Cost
    <3> HIDE DEF own
    <3>4. cashDelta(r) >= 0 /\ own.shares[order.instrumentId] + shareDelta(r) >= 0
      BY <2>3, <3>1, <3>3
    <3> QED
      BY <1>2, <1>3, <3>4 DEF own
  <2> QED
    BY <2>4, <2>5
<1> QED
  BY <1>5, <1>6

LEMMA RowsServed ==
  ASSUME RunOK, [LoadNext]_loadVars, ~ Misserving
  PROVE  \/ rows' = rows
         \/ \E s \in Slots : execute(s)
         \/ \E cancel \in cancelling : executeCancel(cancel)
BY DEF LoadNext, loadVars, Misserving, start, StartLoop, highWaterMark, prepare, NextWave, fire, tick,
   shed, answer, loseAnswer, answerCancel, loseCancel, portfolioRead, waitForQuiesce, readCash,
   readLedger, check, fail

LEMMA LevelsOKStays ==
  ASSUME SimTypes, Formed, RunOK, Conserved, Conserved', rows \in Seq(Rows), LevelsOK,
         [LoadNext]_loadVars, faults' = {}
  PROVE  LevelsOK'
<1> DEFINE Upheld(b, mark, p) ==
             /\ noOversell(b, mark)
             /\ \A u \in Users, i \in Instruments : HoldsUp(b, u, i, mark, p[u].shares[i])
<1>1. /\ rows' \in Seq(Rows) /\ Len(rows) \in Nat /\ ~ Misserving /\ DOMAIN rows = 1 .. Len(rows)
      /\ portfolio \in [Users -> Portfolios] /\ run.mark \in 0 .. Len(rows)
  BY RowsStay, Serving DEF RunOK, SimTypes, WorldOK
<1>2. \A u \in Users : portfolio[u].cash \in Int /\ \A i \in Instruments : portfolio[u].shares[i] \in Int
  BY <1>1 DEF Portfolios
<1>3. /\ noOverdraft(rows) /\ \A u \in Users : portfolio[u].cash >= 0
      /\ run.phase \in Marked => Upheld(rows, run.mark, portfolio)
  BY DEF LevelsOK
<1>4. run'.phase \in Marked => highWaterMark \/ (run.phase \in Marked /\ run'.mark = run.mark)
  <2>1. ASSUME NEW profile \in Profiles, start(profile) PROVE run'.phase \notin Marked
    BY <2>1 DEF start, NoRun, Marked
  <2>2. RunGoesOn /\ run'.phase \in Marked => run.phase \in Marked /\ run'.mark = run.mark
    BY DEF RunGoesOn, Follows, Marked, Phases, RunOK
  <2> QED
    BY <2>1, <2>2, RunMoves
<1>5. CASE rows' = rows
  <2>1. \A u \in Users :
          /\ portfolio'[u].cash = portfolio[u].cash
          /\ \A i \in Instruments : portfolio'[u].shares[i] = portfolio[u].shares[i]
    BY <1>5 DEF Conserved
  <2>2. noOverdraft(rows') /\ \A u \in Users : portfolio'[u].cash >= 0
    BY <1>3, <1>5, <2>1
  <2>3. run.phase \in Marked => Upheld(rows', run.mark, portfolio')
    BY <1>3, <1>5, <2>1
  <2>4. ASSUME highWaterMark PROVE Upheld(rows', run'.mark, portfolio')
    <3>1. run'.mark = Len(rows)
      BY <2>4 DEF highWaterMark, Formed, RunFormed
    <3>2. noOversell(rows', Len(rows))
      BY <1>1, <1>5 DEF noOversell
    <3>3. ASSUME NEW u \in Users, NEW i \in Instruments
          PROVE  HoldsUp(rows', u, i, Len(rows), portfolio'[u].shares[i])
      <4>1. portfolio'[u].shares[i] = shareFold(rows, Position(rows, u, i))
        BY <2>1 DEF Conserved
      <4>2. portfolio[u].shares[i] \in Int
        BY <1>2
      <4> QED
        BY <1>1, <1>5, <4>1, <4>2, HoldsUpIs
    <3> QED
      BY <3>1, <3>2, <3>3
  <2>5. run'.phase \in Marked => Upheld(rows', run'.mark, portfolio')
    <3> HIDE DEF Upheld
    <3> QED
      BY <1>4, <2>3, <2>4
  <2> QED
    BY <2>2, <2>5 DEF LevelsOK
<1>6. ASSUME NEW s \in Slots, execute(s) PROVE LevelsOK'
  <2>1. PICK r \in Rows :
          /\ rows' = Append(rows, r) /\ BookedBy(r)
          /\ cashDelta(r) >= 0 \/ portfolio[r.userId].cash + cashDelta(r) >= 0
          /\ \/ shareDelta(r) >= 0
             \/ portfolio[r.userId].shares[r.instrumentId] + shareDelta(r) >= 0
    BY <1>6, ExecutionFits
  <2>2. /\ run' = run /\ Extends(rows, rows', r) /\ r.userId \in Users /\ r.instrumentId \in Instruments
        /\ cashDelta(r) \in Int /\ shareDelta(r) \in Int
    BY <1>6, <2>1, AppendExtends, DeltasAreInts DEF execute, runner, Rows
  <2>3. \A u \in Users :
          /\ portfolio'[u].cash = portfolio[u].cash + (IF r.userId = u THEN cashDelta(r) ELSE 0)
          /\ \A i \in Instruments :
               portfolio'[u].shares[i]
                 = portfolio[u].shares[i]
                     + (IF r.userId = u /\ r.instrumentId = i THEN shareDelta(r) ELSE 0)
    BY <2>1 DEF BookedBy
  <2>4. \A u \in Users : portfolio'[u].cash >= 0
    BY <1>2, <1>3, <2>1, <2>2, <2>3
  <2>5. cashFold(rows', OwnedBy(rows', r.userId)) >= 0
    BY <2>2, <2>4 DEF Conserved
  <2>6. noOverdraft(rows')
    BY <1>1, <1>3, <2>2, <2>5, LevelsGrow
  <2>7. ASSUME run.phase \in Marked PROVE Upheld(rows', run.mark, portfolio')
    <3>1. Upheld(rows, run.mark, portfolio)
      BY <1>3, <2>7
    <3>2. ASSUME NEW u \in Users, NEW i \in Instruments
          PROVE  HoldsUp(rows', u, i, run.mark, portfolio'[u].shares[i])
      <4>1. HoldsUp(rows', u, i, run.mark, portfolio[u].shares[i])
        BY <1>1, <2>2, <3>1, FloorsExtended
      <4>2. /\ portfolio'[u].shares[i]
                 = portfolio[u].shares[i]
                     + (IF r.userId = u /\ r.instrumentId = i THEN shareDelta(r) ELSE 0)
            /\ portfolio[u].shares[i] \in Int
        BY <1>2, <2>3
      <4>3. /\ portfolio'[u].shares[i] \in Int
            /\ portfolio'[u].shares[i] >= portfolio[u].shares[i] \/ portfolio'[u].shares[i] >= 0
        BY <2>1, <2>2, <4>2
      <4>4. run.mark \in Nat
        BY <1>1
      <4> QED
        BY <1>1, <4>1, <4>2, <4>3, <4>4, HoldsUpIs
    <3>3. portfolio'[r.userId].shares[r.instrumentId] = shareFold(rows', Position(rows', r.userId, r.instrumentId))
      BY <2>2 DEF Conserved
    <3>4. HoldsUp(rows', r.userId, r.instrumentId, run.mark, shareFold(rows', Position(rows', r.userId, r.instrumentId)))
      BY <2>2, <3>2, <3>3
    <3>5. noOversell(rows', run.mark)
      BY <1>1, <2>2, <3>1, <3>4, PositionsGrow
    <3> QED
      BY <3>2, <3>5
  <2> QED
    BY <2>2, <2>4, <2>6, <2>7 DEF LevelsOK
<1>7. ASSUME NEW cancel \in cancelling, executeCancel(cancel) PROVE LevelsOK'
  <2>1. run' = run /\ portfolio' = portfolio
    BY <1>1, <1>7, CancelIs DEF runner, vars
  <2>2. CASE rows' = rows
    BY <1>5, <2>2
  <2>3. ASSUME NEW id, NEW r, id \in DOMAIN rows, rows[id].status = "NEW", r \in Rows, r.status = "CANCELLED",
               r.userId = rows[id].userId, r.instrumentId = rows[id].instrumentId,
               rows' = [rows EXCEPT ![id] = r]
        PROVE  LevelsOK'
    <3>1. Relabels(rows, rows', id, r)
      BY <2>3 DEF Relabels
    <3>2. SameMoves(rows, rows')
      BY <1>1, <2>3, <3>1, RelabellingMoves
    <3>3. noOverdraft(rows') /\ (noOversell(rows', run.mark) <=> noOversell(rows, run.mark))
      BY <1>3, <3>2, StatementsSame
    <3>4. \A u, i, mark, shares : HoldsUp(rows', u, i, mark, shares) <=> HoldsUp(rows, u, i, mark, shares)
      BY <3>2, LevelsSame
    <3> QED
      BY <1>3, <2>1, <3>3, <3>4 DEF LevelsOK
  <2> QED
    <3>1. CASE rows' # rows
      <4> DEFINE id == cancel.orderId  r == [rows[id] EXCEPT !.status = "CANCELLED"]
      <4>1. /\ id \in DOMAIN rows /\ rows[id].status = "NEW" /\ r \in Rows
            /\ rows' = [rows EXCEPT ![id] = r]
        BY <1>1, <1>7, <3>1, CancelIs
      <4>2. rows[id] \in Rows
        BY <1>1, <4>1
      <4>3. r.status = "CANCELLED" /\ r.userId = rows[id].userId /\ r.instrumentId = rows[id].instrumentId
        BY <4>2 DEF Rows
      <4> HIDE DEF r, id
      <4> QED
        BY <2>3, <4>1, <4>3 DEF id
    <3> QED
      BY <2>2, <3>1
<1> QED
  BY <1>1, <1>5, <1>6, <1>7, RowsServed

-----------------------------------------------------------------------------
(***************************************************************************)
(* The evidence: what it is of the world it was gathered in.               *)
(***************************************************************************)
(* One balance more in the record of a reading, or none.                   *)
OneMore(reading, after, u) ==
  \/ after = reading
  \/ after = [v \in DOMAIN reading \cup {u} |-> IF v = u THEN portfolio[u].cash ELSE reading[v]]

World == <<portfolio, ledger, filled, mishaps, rows, tally, faults>>

LEMMA CashReadIs ==
  ASSUME Formed, NEW u, readCash(u)
  PROVE  /\ UNCHANGED World /\ run'.profile = run.profile /\ run'.mark = run.mark
         /\ evidence'.before = evidence.before /\ evidence'.rows = evidence.rows
         /\ \/ /\ run.phase = "first" /\ run'.phase \in {"first", "ledger"}
               /\ evidence'.second = evidence.second
               /\ OneMore(evidence.first, evidence'.first, u)
            \/ /\ run.phase = "second" /\ run'.phase \in {"second", "judging"}
               /\ evidence'.first = evidence.first
               /\ OneMore(evidence.second, evidence'.second, u)
<1>1. RunFormed /\ EvidenceFormed
  BY DEF Formed
<1>2. UNCHANGED World
  BY DEF readCash, World, service, history
<1>3. run.phase \in {"first", "second"} /\ run' = [run EXCEPT !.left = @ \ {u}, !.phase = IF run.left = {u} THEN AfterCash ELSE @]
  BY DEF readCash
<1>4. /\ run'.profile = run.profile /\ run'.mark = run.mark
      /\ run.phase = "first" => run'.phase \in {"first", "ledger"}
      /\ run.phase = "second" => run'.phase \in {"second", "judging"}
  BY <1>1, <1>3 DEF RunFormed, AfterCash
<1>5. CASE evidence' = evidence
  BY <1>2, <1>3, <1>4, <1>5 DEF OneMore
<1>6. CASE evidence' = [evidence EXCEPT ![run.phase] =
                          [v \in DOMAIN @ \cup {u} |-> IF v = u THEN portfolio[u].cash ELSE @[v]]]
  <2>1. CASE run.phase = "first"
    <3>1. /\ evidence'.first = [v \in DOMAIN evidence.first \cup {u} |->
                                  IF v = u THEN portfolio[u].cash ELSE evidence.first[v]]
          /\ evidence'.before = evidence.before /\ evidence'.rows = evidence.rows
          /\ evidence'.second = evidence.second
      BY <1>1, <1>6, <2>1 DEF EvidenceFormed
    <3> QED
      BY <1>2, <1>4, <2>1, <3>1 DEF OneMore
  <2>2. CASE run.phase = "second"
    <3>1. /\ evidence'.second = [v \in DOMAIN evidence.second \cup {u} |->
                                  IF v = u THEN portfolio[u].cash ELSE evidence.second[v]]
          /\ evidence'.before = evidence.before /\ evidence'.rows = evidence.rows
          /\ evidence'.first = evidence.first
      BY <1>1, <1>6, <2>2 DEF EvidenceFormed
    <3> QED
      BY <1>2, <1>4, <2>2, <3>1 DEF OneMore
  <2> QED
    BY <1>3, <2>1, <2>2
<1> QED
  BY <1>5, <1>6 DEF readCash

LEMMA QuiesceIs ==
  ASSUME Formed, waitForQuiesce
  PROVE  /\ UNCHANGED World /\ run'.profile = run.profile /\ run'.mark = run.mark
         /\ run.phase = "quiescing" /\ run'.phase = "first"
         /\ evidence'.before = Snapshot /\ evidence'.first = evidence.first
         /\ evidence'.rows = evidence.rows /\ evidence'.second = evidence.second
BY DEF waitForQuiesce, Formed, RunFormed, EvidenceFormed, World, vars, service, history

LEMMA LedgerReadIs ==
  ASSUME Formed, rows \in Seq(Rows), readLedger
  PROVE  /\ UNCHANGED World /\ run'.profile = run.profile /\ run'.mark = run.mark
         /\ run.phase = "ledger" /\ run'.phase = "second"
         /\ evidence'.rows = Excerpt(rows, Len(rows), runUsers)
         /\ evidence'.before = evidence.before /\ evidence'.first = evidence.first
         /\ evidence'.second = evidence.second
<1>1. DOMAIN rows = 1 .. Len(rows)
  OBVIOUS
<1> QED
  BY <1>1 DEF readLedger, Formed, RunFormed, EvidenceFormed, World, vars, service, history, Excerpt

LEMMA EvidenceMoves ==
  ASSUME Formed, RunOK, [LoadNext]_loadVars
  PROVE  \/ waitForQuiesce \/ readLedger \/ \E u \in Users : readCash(u)
         \/ /\ evidence' = evidence
            /\ run'.phase \in Checking <=> run.phase \in Checking /\ run'.phase # "failed"
            /\ run'.phase \in Read <=> run.phase \in Read
            /\ run.phase = "failed" => run'.phase = "failed"
            /\ run'.phase \in Checking => run'.mark = run.mark /\ run'.profile = run.profile
<1> DEFINE Goal ==
             /\ evidence' = evidence
             /\ run'.phase \in Checking <=> run.phase \in Checking /\ run'.phase # "failed"
             /\ run'.phase \in Read <=> run.phase \in Read
             /\ run.phase = "failed" => run'.phase = "failed"
             /\ run'.phase \in Checking => run'.mark = run.mark /\ run'.profile = run.profile
<1>1. RunFormed
  BY DEF Formed
<1>2. ASSUME run' = run, evidence' = evidence PROVE Goal
  BY <1>2 DEF Checking
<1>3. ASSUME NextWave PROVE Goal
  BY <1>1, <1>3, RunIs DEF NextWave, RunFormed, Checking, Read
<1>4. ASSUME NEW index \in Own, fire(index) PROVE Goal
  BY <1>1, <1>4, FiringIs DEF RunFormed, Checking, Read
<1>5. ASSUME check \/ fail PROVE Goal
  BY <1>1, <1>5 DEF check, fail, Phase, RunFormed, Checking, Read
<1>6. ASSUME NEW profile \in Profiles, start(profile) PROVE Goal
  BY <1>6 DEF start, NoRun, Checking, Read
<1>7. ASSUME highWaterMark \/ prepare PROVE Goal
  BY <1>1, <1>7 DEF highWaterMark, prepare, Phase, RunFormed, Checking, Read
<1>8. \/ run' = run /\ evidence' = evidence
      \/ \E profile \in Profiles : start(profile)
      \/ highWaterMark \/ prepare \/ NextWave \/ \E index \in Own : fire(index)
      \/ waitForQuiesce \/ readLedger \/ check \/ fail \/ \E u \in Users : readCash(u)
  BY DEF LoadNext, loadVars, runner, StartLoop, tick, execute, shed, answer, loseAnswer,
     executeCancel, answerCancel, loseCancel, portfolioRead, overspend, forget, Misserve, invent, miscancel
<1> HIDE DEF Goal
<1>9. Goal \/ waitForQuiesce \/ readLedger \/ \E u \in Users : readCash(u)
  BY <1>2, <1>3, <1>4, <1>5, <1>6, <1>7, <1>8
<1> QED
  BY <1>9 DEF Goal

(* When the orders of the run are in, a row stays as it is.                *)
LEMMA RowsStand ==
  ASSUME SimTypes, RunOK, rows \in Seq(Rows), [LoadNext]_loadVars, run.phase \in Over
  PROVE  Len(rows) \in Nat /\ DOMAIN rows = 1 .. Len(rows) /\ \A n \in DOMAIN rows : rows'[n] = rows[n]
<1>1. cancelling = {}
  BY DEF RunOK
<1>2. \A id, status : ~ Relabelled(id, status)
  BY <1>1 DEF Relabelled
<1> QED
  BY <1>2, RowsMove, FedIs, RowsStay

LEMMA ExcerptStays ==
  ASSUME NEW b, NEW c, NEW last \in Nat, NEW owners, \A n \in 1 .. last : c[n] = b[n]
  PROVE  Excerpt(c, last, owners) = Excerpt(b, last, owners)
<1>1. {m \in 1 .. last : c[m].userId \in owners} = {m \in 1 .. last : b[m].userId \in owners}
  OBVIOUS
<1> QED
  BY <1>1 DEF Excerpt

LEMMA SeededStays ==
  ASSUME SimTypes, RunOK, [LoadNext]_loadVars, run.phase \in Checking
  PROVE  \A u \in runUsers : ledger.users[u].seeded => ledger'.users[u].seeded
<1>1. GoesOn(ledger, ledger')
  BY LedgerGoesOn DEF Checking, StartLoop, prepare
<1>2. runUsers \subseteq DOMAIN ledger.users
  BY DEF RunOK, Prepared, Marked, Checking, Phases
<1> QED
  BY <1>1, <1>2 DEF GoesOn

LEMMA EvidenceOKStays ==
  ASSUME SimTypes, Formed, RunOK, rows \in Seq(Rows), EvidenceOK, [LoadNext]_loadVars
  PROVE  EvidenceOK'
<1>1. /\ run.phase \notin Checking \cup {"failed"} => DOMAIN evidence.first = {}
      /\ run.phase \notin Read => evidence.rows = <<>> /\ DOMAIN evidence.second = {}
      /\ run.phase \in Read => \E last \in run.mark .. Len(rows) : evidence.rows = Excerpt(rows, last, runUsers)
      /\ run.phase \in Checking =>
           /\ DOMAIN evidence.before = runUsers
           /\ \A u \in runUsers : evidence.before[u].seeded => ledger.users[u].seeded
      /\ Len(rows) \in Nat /\ run.mark \in 0 .. Len(rows)
  BY DEF EvidenceOK, RunOK
<1>2. CASE waitForQuiesce
  <2>1. /\ UNCHANGED World /\ run'.profile = run.profile
        /\ run.phase = "quiescing" /\ run'.phase = "first"
        /\ evidence'.before = Snapshot
        /\ evidence'.rows = evidence.rows /\ evidence'.second = evidence.second
    BY <1>2, QuiesceIs
  <2>2. runUsers' = runUsers /\ ledger' = ledger
    BY <2>1 DEF runUsers, World
  <2> QED
    BY <1>1, <2>1, <2>2 DEF EvidenceOK, Checking, Read, Snapshot
<1>3. CASE readLedger
  <2>1. /\ UNCHANGED World /\ run'.profile = run.profile /\ run'.mark = run.mark
        /\ run.phase = "ledger" /\ run'.phase = "second"
        /\ evidence'.rows = Excerpt(rows, Len(rows), runUsers)
        /\ evidence'.before = evidence.before
    BY <1>3, LedgerReadIs
  <2>2. runUsers' = runUsers /\ ledger' = ledger /\ rows' = rows
    BY <2>1 DEF runUsers, World
  <2>3. Len(rows) \in run.mark .. Len(rows)
    BY <1>1
  <2> QED
    BY <1>1, <2>1, <2>2, <2>3 DEF EvidenceOK, Checking, Read
<1>4. ASSUME NEW u \in Users, readCash(u) PROVE EvidenceOK'
  <2>1. /\ UNCHANGED World /\ run'.profile = run.profile /\ run'.mark = run.mark
        /\ evidence'.before = evidence.before /\ evidence'.rows = evidence.rows
        /\ \/ run.phase = "first" /\ run'.phase \in {"first", "ledger"} /\ evidence'.second = evidence.second
           \/ run.phase = "second" /\ run'.phase \in {"second", "judging"}
    BY <1>4, CashReadIs
  <2>2. runUsers' = runUsers /\ ledger' = ledger /\ rows' = rows
    BY <2>1 DEF runUsers, World
  <2> QED
    BY <1>1, <2>1, <2>2 DEF EvidenceOK, Checking, Read
<1>5. ASSUME evidence' = evidence,
             run'.phase \in Checking <=> run.phase \in Checking /\ run'.phase # "failed",
             run'.phase \in Read <=> run.phase \in Read,
             run.phase = "failed" => run'.phase = "failed",
             run'.phase \in Checking => run'.mark = run.mark /\ run'.profile = run.profile
      PROVE  EvidenceOK'
  <2>1. run'.phase \notin Checking \cup {"failed"} => DOMAIN evidence'.first = {}
    BY <1>1, <1>5
  <2>2. run'.phase \notin Read => evidence'.rows = <<>> /\ DOMAIN evidence'.second = {}
    BY <1>1, <1>5
  <2>3. ASSUME run'.phase \in Read
        PROVE  \E last \in run'.mark .. Len(rows') : evidence'.rows = Excerpt(rows', last, runUsers')
    <3>1. run.phase \in Read /\ run'.phase \in Checking /\ run.phase \in Over
      BY <1>5, <2>3 DEF Read, Checking, Over
    <3>2. runUsers' = runUsers /\ run'.mark = run.mark
      BY <1>5, <3>1 DEF runUsers
    <3>3. PICK last \in run.mark .. Len(rows) : evidence.rows = Excerpt(rows, last, runUsers)
      BY <1>1, <3>1
    <3>4. DOMAIN rows = 1 .. Len(rows) /\ \A n \in DOMAIN rows : rows'[n] = rows[n]
      BY <3>1, RowsStand
    <3>5. last \in Nat /\ \A n \in 1 .. last : n \in DOMAIN rows
      BY <1>1, <3>4
    <3>6. Excerpt(rows', last, runUsers) = Excerpt(rows, last, runUsers)
      <4>1. \A n \in 1 .. last : rows'[n] = rows[n]
        BY <3>4, <3>5
      <4>2. PICK c, owners : c = rows' /\ owners = runUsers
        OBVIOUS
      <4>3. Excerpt(c, last, owners) = Excerpt(rows, last, owners)
        BY <3>5, <4>1, <4>2, ExcerptStays
      <4> QED
        BY <4>2, <4>3
    <3>7. Len(rows) \in Nat /\ Len(rows') \in Nat /\ Len(rows) <= Len(rows')
      BY RowsStay
    <3>8. last \in run'.mark .. Len(rows')
      BY <1>1, <3>2, <3>7
    <3> QED
      BY <1>5, <3>2, <3>3, <3>6, <3>8
  <2>4. run'.phase \in Checking =>
          /\ DOMAIN evidence'.before = runUsers'
          /\ \A u \in runUsers' : evidence'.before[u].seeded => ledger'.users[u].seeded
    BY <1>1, <1>5, SeededStays DEF runUsers
  <2> QED
    BY <2>1, <2>2, <2>3, <2>4 DEF EvidenceOK
<1>6. \/ waitForQuiesce \/ readLedger \/ \E u \in Users : readCash(u)
      \/ /\ evidence' = evidence
         /\ run'.phase \in Checking <=> run.phase \in Checking /\ run'.phase # "failed"
         /\ run'.phase \in Read <=> run.phase \in Read
         /\ run.phase = "failed" => run'.phase = "failed"
         /\ run'.phase \in Checking => run'.mark = run.mark /\ run'.profile = run.profile
  BY EvidenceMoves
<1> QED
  BY <1>2, <1>3, <1>4, <1>5, <1>6

LEMMA FillsMove ==
  ASSUME SimTypes, RunOK, [LoadNext]_loadVars, faults' = {}
  PROVE  /\ mishaps \subseteq mishaps' /\ filled \subseteq filled'
         /\ run.phase \in Over /\ Fresh' =>
              \/ \A u \in Users : portfolio'[u].cash = portfolio[u].cash
              \/ \E s \in Others : s \notin filled /\ s \in filled'
<1>1. [Next]_simVars
  BY Serving, RunStepIsSimulationStep
<1>2. mishaps \subseteq mishaps'
  BY <1>1, MishapsStay
<1> DEFINE Goal == /\ filled \subseteq filled'
                   /\ run.phase \in Over /\ Fresh' =>
                        \/ \A u \in Users : portfolio'[u].cash = portfolio[u].cash
                        \/ \E s \in Others : s \notin filled /\ s \in filled'
<1>3. Seeding \/ Reading \/ UNCHANGED simVars => UNCHANGED <<portfolio, filled>>
  BY SeedingIs, ReadingIs DEF Seeding, simVars, history
<1>4. ASSUME NEW s \in Slots, Placing(s) \/ Shed(s) \/ Returning(s)
      PROVE  UNCHANGED <<portfolio, filled>>
  BY <1>4 DEF Placing, place, Shed, history, Returning, Answer, Lose
<1>5. ASSUME UNCHANGED <<portfolio, filled>> PROVE Goal
  BY <1>5
<1>6. ASSUME NEW s \in Slots, Executing(s) PROVE Goal
  <2>1. PICK order \in Orders :
          LET d == Decision(order) IN
          /\ \A u \in Users \ {order.userId} : portfolio'[u] = portfolio[u]
          /\ Moved(portfolio[order.userId], portfolio'[order.userId], order, d)
          /\ filled' = IF Fills(d) THEN filled \cup {s} ELSE filled
          /\ at[s] = "sent" \/ Note("late", TRUE)
    BY <1>6, ExecutingIs
  <2> DEFINE d == Decision(order)  u == order.userId
  <2>2. /\ \A v \in Users \ {u} : portfolio'[v] = portfolio[v]
        /\ portfolio'[u].cash = portfolio[u].cash + CashMove(order, d)
        /\ filled' = IF Fills(d) THEN filled \cup {s} ELSE filled
    BY <2>1 DEF Moved
  <2> HIDE DEF d
  <2>3. portfolio[u].cash \in Int
    BY DEF Orders, SimTypes, WorldOK, Portfolios
  <2>4. CASE ~ Fills(d)
    <3>1. CashMove(order, d) = 0
      BY <2>4 DEF CashMove
    <3> QED
      BY <2>2, <2>3, <2>4, <3>1
  <2>5. CASE Fills(d)
    <3>1. CASE Note("late", TRUE)
      BY <2>2, <3>1 DEF Note, Fresh
    <3>2. CASE at[s] = "sent"
      <4>1. s \notin filled /\ s \in InFlight
        BY <3>2 DEF SimTypes, CallOK, InFlight
      <4>2. run.phase \in Over => s \in Others
        BY <4>1 DEF RunOK, Others
      <4> QED
        BY <2>2, <2>5, <4>1, <4>2
    <3> QED
      BY <2>1, <3>1, <3>2
  <2> QED
    BY <2>4, <2>5
<1>7. Goal
  <2> HIDE DEF Goal
  <2> QED
    BY <1>1, <1>3, <1>4, <1>5, <1>6, NextIs
<1> QED
  BY <1>2, <1>7

LEMMA ExcerptFolds ==
  ASSUME NEW b, NEW last, NEW owners, NEW u \in owners, DOMAIN b = 1 .. last
  PROVE  LET e == Excerpt(b, last, owners) IN
         cashFold(e, OwnedBy(e, u)) = cashFold(b, OwnedBy(b, u))
<1> DEFINE e == Excerpt(b, last, owners)  S == OwnedBy(b, u)
<1>1. OwnedBy(e, u) = S
  BY DEF Excerpt, OwnedBy
<1>2. \A n \in S : e[n] = b[n]
  BY DEF Excerpt, OwnedBy
<1> HIDE DEF e, S
<1>3. cashFold(e, S) = cashFold(b, S)
  BY <1>2, FoldsAgree
<1> QED
  BY <1>1, <1>3 DEF e, S

(* Whose shadow can be trusted when the evidence is opened has that cash.  *)
LEMMA TrustedIsRight ==
  ASSUME SimInv, Fresh, NEW u \in DOMAIN ledger.users,
         ledger.users[u].seeded, ~ ledger.users[u].uncertain, ledger.users[u].outstanding = 0
  PROVE  ledger.users[u].cash = portfolio[u].cash
<1>1. ShadowMatches
  BY InStepSuffices DEF SimInv
<1> QED
  BY <1>1 DEF ShadowMatches, Trusted, Shadowed

LEMMA TracksStays ==
  ASSUME NEW u \in Users, NEW cash, Tracks(u, cash), filled \subseteq filled', OneFill',
         \/ \A v \in Users : portfolio'[v].cash = portfolio[v].cash
         \/ \E s \in Others : s \notin filled /\ s \in filled',
         evidence'.rows = evidence.rows, run'.phase \in Read <=> run.phase \in Read
  PROVE  Tracks(u, cash)'
<1>1. Db(u)' = Db(u) /\ FillsOfTheLoop \subseteq FillsOfTheLoop'
  BY DEF Db, FillsOfTheLoop
<1>2. CASE portfolio'[u].cash = portfolio[u].cash
  BY <1>1, <1>2 DEF Tracks
<1>3. ASSUME NEW s \in Others, s \notin filled, s \in filled' PROVE Tracks(u, cash)'
  <2>1. s \in FillsOfTheLoop' /\ s \notin FillsOfTheLoop
    BY <1>3 DEF FillsOfTheLoop, Others
  <2>2. FillsOfTheLoop = {}
    BY <1>1, <2>1 DEF OneFill
  <2> QED
    BY <1>1, <2>1, <2>2 DEF Tracks
<1> QED
  BY <1>2, <1>3

LEMMA ReadingsOKStays ==
  ASSUME SimInv, Formed, RunOK, rows \in Seq(Rows), Conserved, EvidenceOK, ReadingsOK,
         [LoadNext]_loadVars, faults' = {}
  PROVE  ReadingsOK'
<1> SUFFICES ASSUME run'.phase \in Checking, Fresh', OneFill' PROVE BalancesOK'
  BY DEF ReadingsOK
<1>1. /\ SimTypes /\ mishaps \subseteq mishaps' /\ filled \subseteq filled'
      /\ run.phase \in Over =>
           \/ \A u \in Users : portfolio'[u].cash = portfolio[u].cash
           \/ \E s \in Others : s \notin filled /\ s \in filled'
  BY FillsMove DEF SimInv
<1>2. Fresh /\ OneFill
  BY <1>1 DEF Fresh, OneFill, FillsOfTheLoop
<1>3. run.phase \in Checking => BalancesOK
  BY <1>2 DEF ReadingsOK
<1>4. CASE waitForQuiesce
  <2>1. /\ UNCHANGED World /\ run'.profile = run.profile
        /\ run.phase = "quiescing" /\ run'.phase = "first"
        /\ evidence'.before = Snapshot /\ evidence'.first = evidence.first
        /\ evidence'.second = evidence.second
    BY <1>4, QuiesceIs
  <2>2. DOMAIN evidence'.first = {} /\ runUsers \subseteq DOMAIN ledger.users /\ runUsers' = runUsers
    BY <2>1 DEF EvidenceOK, Checking, RunOK, Prepared, Marked, Phases, runUsers
  <2>3. ASSUME NEW u \in runUsers, TrustedBefore(u)' PROVE Tracks(u, evidence.before[u].cash)'
    <3>1. evidence'.before[u] = ledger.users[u]
      BY <2>1 DEF Snapshot
    <3>2. portfolio[u].cash = ledger.users[u].cash
      BY <1>2, <2>2, <2>3, <3>1, TrustedIsRight DEF TrustedBefore
    <3> QED
      BY <2>1, <3>1, <3>2 DEF Tracks, Read, World
  <2> QED
    BY <2>2, <2>3 DEF BalancesOK
<1>5. CASE readLedger
  <2>1. /\ UNCHANGED World /\ run'.profile = run.profile
        /\ run.phase = "ledger" /\ run'.phase = "second"
        /\ evidence'.rows = Excerpt(rows, Len(rows), runUsers)
        /\ evidence'.before = evidence.before /\ evidence'.first = evidence.first
        /\ evidence'.second = evidence.second
    BY <1>5, LedgerReadIs
  <2>2. DOMAIN evidence'.second = {} /\ runUsers' = runUsers /\ BalancesOK /\ portfolio' = portfolio /\ filled' = filled
    BY <1>3, <2>1 DEF EvidenceOK, Read, Checking, runUsers, World
  <2>3. ASSUME NEW u \in runUsers PROVE Db(u)' = portfolio[u].cash
    <3>1. cashFold(evidence'.rows, OwnedBy(evidence'.rows, u)) = cashFold(rows, OwnedBy(rows, u))
      BY <2>1, ExcerptFolds
    <3>2. u \in Users
      BY <2>1, RunIs, SimulationAssumption
    <3> QED
      BY <3>1, <3>2 DEF Conserved, Db
  <2>4. ASSUME NEW u \in runUsers, NEW cash, Tracks(u, cash)
        PROVE  \E x : x = cash /\ Tracks(u, x)'
    <3>1. portfolio[u].cash = cash \/ FillsOfTheLoop # {}
      BY <2>1, <2>4 DEF Tracks, Read
    <3>2. FillsOfTheLoop' = FillsOfTheLoop
      BY <2>2 DEF FillsOfTheLoop
    <3>3. run'.phase \in Read
      BY <2>1 DEF Read
    <3>4. PICK x : x = cash
      OBVIOUS
    <3>5. Db(u)' = x \/ (FillsOfTheLoop' # {} /\ portfolio'[u].cash = Db(u)')
      BY <2>2, <2>3, <3>1, <3>2, <3>4
    <3>6. Tracks(u, x)'
      BY <3>3, <3>5 DEF Tracks
    <3> QED
      BY <3>4, <3>6
  <2>5. ASSUME NEW u \in runUsers
        PROVE  /\ TrustedBefore(u)' => Tracks(u, evidence.before[u].cash)'
               /\ u \in DOMAIN evidence'.first => Tracks(u, evidence.first[u])'
    <3>1. TrustedBefore(u)' => Tracks(u, evidence.before[u].cash)
      BY <2>1, <2>2 DEF BalancesOK, TrustedBefore
    <3>2. u \in DOMAIN evidence'.first => Tracks(u, evidence.first[u])
      BY <2>1, <2>2 DEF BalancesOK
    <3>3. PICK c, d : c = evidence.before[u].cash /\ d = evidence.first[u]
      OBVIOUS
    <3>4. c = evidence'.before[u].cash /\ d = evidence'.first[u]
      BY <2>1, <3>3
    <3>5. TrustedBefore(u)' => Tracks(u, c)'
      BY <2>4, <3>1, <3>3
    <3>6. u \in DOMAIN evidence'.first => Tracks(u, d)'
      BY <2>4, <3>2, <3>3
    <3> QED
      BY <3>4, <3>5, <3>6
  <2> QED
    BY <2>2, <2>5 DEF BalancesOK
<1>6. ASSUME NEW w \in Users, readCash(w) PROVE BalancesOK'
  <2>1. /\ UNCHANGED World /\ run'.profile = run.profile
        /\ evidence'.before = evidence.before /\ evidence'.rows = evidence.rows
        /\ \/ /\ run.phase = "first" /\ run'.phase \in {"first", "ledger"}
              /\ evidence'.second = evidence.second
              /\ OneMore(evidence.first, evidence'.first, w)
           \/ /\ run.phase = "second" /\ run'.phase \in {"second", "judging"}
              /\ evidence'.first = evidence.first
              /\ OneMore(evidence.second, evidence'.second, w)
    BY <1>6, CashReadIs
  <2>2. /\ runUsers' = runUsers /\ portfolio' = portfolio /\ filled' = filled
        /\ BalancesOK
        /\ run'.phase \in Read <=> run.phase \in Read
    BY <1>3, <2>1 DEF runUsers, World, Read, Checking
  <2>3. ASSUME NEW u \in runUsers PROVE u \in Users
    BY <2>1, <2>3, RunIs, SimulationAssumption
  <2>4. ASSUME NEW u \in runUsers, NEW x, Tracks(u, x) PROVE Tracks(u, x)'
    BY <1>2, <2>1, <2>2, <2>3, <2>4, TracksStays
  <2>5. ASSUME NEW u \in runUsers, TrustedBefore(u)' PROVE Tracks(u, evidence.before[u].cash)'
    <3>1. PICK x : x = evidence.before[u].cash
      OBVIOUS
    <3>2. Tracks(u, x)
      BY <2>1, <2>2, <2>5, <3>1 DEF BalancesOK, TrustedBefore
    <3>3. Tracks(u, x)' /\ evidence'.before[u].cash = x
      BY <2>1, <2>4, <3>1, <3>2
    <3> QED
      BY <3>3
  <2>6. CASE run.phase = "first"
    <3>1. DOMAIN evidence'.second = {}
      BY <2>1, <2>6 DEF EvidenceOK, Read
    <3>2. ASSUME NEW u \in runUsers, u \in DOMAIN evidence'.first PROVE Tracks(u, evidence.first[u])'
      <4>1. evidence'.first[u] = portfolio[u].cash \/ (u \in DOMAIN evidence.first /\ evidence'.first[u] = evidence.first[u])
        BY <2>1, <2>6, <3>2 DEF OneMore
      <4>2. PICK x : x = evidence'.first[u]
        OBVIOUS
      <4>3. Tracks(u, x)
        BY <2>2, <2>6, <4>1, <4>2 DEF BalancesOK, Tracks, Read
      <4>4. Tracks(u, x)'
        BY <2>4, <4>3
      <4> QED
        BY <4>2, <4>4
    <3> QED
      BY <2>2, <2>5, <3>1, <3>2 DEF BalancesOK
  <2>7. CASE run.phase = "second"
    <3>1. ASSUME NEW u \in runUsers, u \in DOMAIN evidence'.first PROVE Tracks(u, evidence.first[u])'
      <4>1. PICK x : x = evidence'.first[u]
        OBVIOUS
      <4>2. Tracks(u, x)
        BY <2>1, <2>2, <2>7, <3>1, <4>1 DEF BalancesOK
      <4>3. Tracks(u, x)'
        BY <2>4, <4>2
      <4> QED
        BY <4>1, <4>3
    <3>2. ASSUME NEW u \in runUsers, u \in DOMAIN evidence'.first \cap DOMAIN evidence'.second,
                 evidence'.second[u] = evidence'.first[u]
          PROVE  Db(u)' = evidence'.first[u]
      <4>1. /\ u \in DOMAIN evidence.first /\ evidence'.first = evidence.first /\ Db(u)' = Db(u)
            /\ \/ evidence'.second[u] = portfolio[u].cash
               \/ u \in DOMAIN evidence.second /\ evidence'.second[u] = evidence.second[u]
        BY <2>1, <2>7, <3>2 DEF OneMore, Db
      <4>2. CASE evidence'.second[u] = portfolio[u].cash
        <5>1. Tracks(u, evidence.first[u]) /\ portfolio[u].cash = evidence.first[u]
          BY <2>2, <3>2, <4>1, <4>2 DEF BalancesOK
        <5> QED
          BY <2>7, <4>1, <5>1 DEF Tracks, Read
      <4>3. CASE u \in DOMAIN evidence.second /\ evidence'.second[u] = evidence.second[u]
        BY <2>2, <3>2, <4>1, <4>3 DEF BalancesOK
      <4> QED
        BY <4>1, <4>2, <4>3
    <3> QED
      BY <2>2, <2>5, <3>1, <3>2 DEF BalancesOK
  <2> QED
    BY <2>1, <2>6, <2>7
<1>7. ASSUME evidence' = evidence, run.phase \in Checking,
             run'.phase \in Read <=> run.phase \in Read, run'.profile = run.profile
      PROVE  BalancesOK'
  <2>1. runUsers' = runUsers /\ BalancesOK /\ run.phase \in Over /\ run.phase # "idle"
    BY <1>3, <1>7 DEF runUsers, Over, Checking
  <2>2. ASSUME NEW u \in runUsers PROVE u \in Users
    BY <2>1, <2>2, RunIs, SimulationAssumption
  <2>3. ASSUME NEW u \in runUsers, NEW x, Tracks(u, x) PROVE Tracks(u, x)'
    BY <1>1, <1>7, <2>1, <2>2, <2>3, TracksStays
  <2>4. ASSUME NEW u \in runUsers
        PROVE  /\ TrustedBefore(u)' => Tracks(u, evidence.before[u].cash)'
               /\ u \in DOMAIN evidence'.first => Tracks(u, evidence.first[u])'
               /\ (/\ u \in DOMAIN evidence'.first \cap DOMAIN evidence'.second
                   /\ evidence'.second[u] = evidence'.first[u]) => Db(u)' = evidence'.first[u]
    <3>1. PICK c, d : c = evidence.before[u].cash /\ d = evidence.first[u]
      OBVIOUS
    <3>2. /\ TrustedBefore(u) => Tracks(u, c)
          /\ u \in DOMAIN evidence.first => Tracks(u, d)
          /\ (/\ u \in DOMAIN evidence.first \cap DOMAIN evidence.second
              /\ evidence.second[u] = evidence.first[u]) => Db(u) = evidence.first[u]
      BY <2>1, <3>1 DEF BalancesOK
    <3>3. (TrustedBefore(u)' <=> TrustedBefore(u)) /\ Db(u)' = Db(u)
      BY <1>7 DEF TrustedBefore, Db
    <3>4. /\ TrustedBefore(u)' => Tracks(u, c)'
          /\ u \in DOMAIN evidence'.first => Tracks(u, d)'
      BY <1>7, <2>3, <3>2, <3>3
    <3> QED
      BY <1>7, <3>1, <3>2, <3>3, <3>4
  <2> QED
    BY <2>1, <2>4 DEF BalancesOK
<1> QED
  BY <1>4, <1>5, <1>6, <1>7, EvidenceMoves

LEMMA WitnessedStays ==
  ASSUME SimTypes, Formed, RunOK, RowsOK, AnswersOK, Witnessed, [LoadNext]_loadVars, faults' = {}
  PROVE  Witnessed'
<1>1. /\ rows \in Seq(Rows) /\ Len(rows) \in Nat /\ DOMAIN rows = 1 .. Len(rows) /\ RunFormed
  BY RowsStay DEF RowsOK, Formed
<1>2. ASSUME run'.phase \in Marked, NEW n \in DOMAIN rows', n > run'.mark PROVE rows'[n].call # Null
  <2>1. ASSUME NEW profile \in Profiles, start(profile) PROVE FALSE
    BY <1>2, <2>1 DEF start, NoRun, Marked
  <2>2. ASSUME highWaterMark PROVE FALSE
    <3>1. run'.mark = Len(rows) /\ rows' = rows
      BY <1>1, <2>2 DEF highWaterMark, RunFormed
    <3> QED
      BY <1>1, <1>2, <3>1
  <2>3. RunGoesOn
    BY <2>1, <2>2, RunMoves
  <2>4. run.phase \in Marked /\ run'.mark = run.mark
    BY <1>2, <2>3 DEF RunGoesOn, Follows, Marked, Phases, RunOK
  <2>5. \A m \in DOMAIN rows : m > run.mark => rows[m].call # Null
    BY <2>4 DEF Witnessed
  <2>6. ASSUME NEW r, Fed(r) PROVE rows'[n].call # Null
    <3>1. r.call # Null
      BY <2>6, LoadAssumption DEF Fed
    <3> QED
      BY <1>1, <1>2, <2>4, <2>5, <2>6, <3>1, FedIs
  <2>7. ASSUME NEW id, NEW status, Relabelled(id, status) PROVE rows'[n].call # Null
    <3>1. DOMAIN rows' = DOMAIN rows /\ \A m \in DOMAIN rows : RowStays(m)
      BY <1>1, <2>7, RelabelledIs
    <3> QED
      BY <1>2, <2>4, <2>5, <3>1 DEF RowStays
  <2> QED
    BY <1>1, <1>2, <2>4, <2>5, <2>6, <2>7, RowsMove
<1>3. ASSUME run'.phase \in Read
      PROVE  /\ \A p \in tally'.placements : p.orderId \in DOMAIN evidence'.rows
             /\ tally'.cancelled \subseteq DOMAIN evidence'.rows
  <2>1. CASE readLedger
    <3>1. /\ UNCHANGED World /\ run.phase = "ledger"
          /\ evidence'.rows = Excerpt(rows, Len(rows), runUsers)
      BY <1>1, <2>1, LedgerReadIs
    <3>2. ASSUME NEW id, Taken(id) PROVE id \in DOMAIN evidence'.rows
      <4>1. id \in 1 .. Len(rows) /\ rows[id].call \in Own /\ rows[id].call # Null
        BY <1>1, <3>2, LoadAssumption DEF Taken
      <4>2. rows[id].userId \in runUsers
        BY <1>1, <4>1 DEF RowsOK, RowOK
      <4> QED
        BY <3>1, <4>1, <4>2 DEF Excerpt
    <3> QED
      BY <3>1, <3>2 DEF AnswersOK, StoredAs, Cancelled, World
  <2>2. CASE ~ readLedger
    <3>1. /\ run.phase \in Read /\ evidence'.rows = evidence.rows
      <4>1. ASSUME NEW u \in Users, readCash(u) PROVE run.phase \in Read /\ evidence'.rows = evidence.rows
        BY <1>3, <4>1, CashReadIs DEF Read
      <4>2. waitForQuiesce => FALSE
        BY <1>3, QuiesceIs DEF Read
      <4> QED
        BY <1>3, <2>2, <4>1, <4>2, EvidenceMoves
    <3>2. run.phase \in Over /\ cancelling = {} /\ \A s \in Own : s \notin InFlight
      BY <3>1 DEF Read, Over, Checking, RunOK
    <3>3. \A s \in Slots \cap Own : ~ answer(s)
      BY <3>2 DEF answer, Answer, InFlight
    <3>4. UNCHANGED <<tally.placements, tally.cancelled>>
      BY <3>2, <3>3, TallyGains
    <3> QED
      BY <3>1, <3>4 DEF Witnessed
  <2> QED
    BY <2>1, <2>2
<1> QED
  BY <1>2, <1>3 DEF Witnessed

-----------------------------------------------------------------------------
(***************************************************************************)
(* What a target does wrong leaves a row that shows it, and the row is     *)
(* among those that are read.                                              *)
(***************************************************************************)
LEMMA OverspentStays ==
  ASSUME SimTypes, RunOK, rows \in Seq(Rows), [LoadNext]_loadVars, ~ Misserving,
         run'.mark = run.mark, NEW n \in DOMAIN rows, Overspent(n)
  PROVE  Overspent(n)'
<1> DEFINE u == rows[n].userId  i == rows[n].instrumentId
           Short(b) == \/ cashFold(b, Upto(OwnedBy(b, u), n)) < 0
                       \/ /\ n > run.mark
                          /\ ~ HoldsUp(b, u, i, run.mark, shareFold(b, Upto(Position(b, u, i), n)))
<1>1. /\ Short(rows) /\ RowStays(n) /\ n \in 0 .. Len(rows) /\ run.mark \in 0 .. Len(rows)
      /\ rows' \in Seq(Rows)
  BY RowsStay DEF Overspent, RunOK
<1>2. Short(rows') => Overspent(n)'
  BY <1>1 DEF Overspent, RowStays
<1>3. ASSUME NEW s \in Slots, execute(s) PROVE Short(rows')
  <2>1. PICK r \in Rows : rows' = Append(rows, r)
    BY <1>3, ExecutionFits
  <2>2. Extends(rows, rows', r)
    BY <2>1, AppendExtends
  <2>3. PICK v, j : v = u /\ j = i
    OBVIOUS
  <2>4. /\ cashFold(rows', Upto(OwnedBy(rows', v), n)) = cashFold(rows, Upto(OwnedBy(rows, v), n))
        /\ \A k : shareFold(rows', Upto(Position(rows', v, k), n)) = shareFold(rows, Upto(Position(rows, v, k), n))
    BY <1>1, <2>2, LevelsExtended
  <2>5. \A shares : HoldsUp(rows', v, j, run.mark, shares) <=> HoldsUp(rows, v, j, run.mark, shares)
    BY <1>1, <2>2, FloorsExtended
  <2> QED
    BY <1>1, <2>3, <2>4, <2>5
<1>4. ASSUME NEW cancel \in cancelling, executeCancel(cancel), rows' # rows PROVE Short(rows')
  <2> DEFINE id == cancel.orderId  r == [rows[id] EXCEPT !.status = "CANCELLED"]
  <2>1. /\ id \in DOMAIN rows /\ rows[id].status = "NEW" /\ r \in Rows
        /\ rows' = [rows EXCEPT ![id] = r]
    BY <1>4, CancelIs
  <2>2. rows[id] \in Rows
    BY <2>1
  <2>3. r.status = "CANCELLED" /\ r.userId = rows[id].userId /\ r.instrumentId = rows[id].instrumentId
    BY <2>2 DEF Rows
  <2> HIDE DEF r, id
  <2>4. Relabels(rows, rows', id, r)
    BY <2>1, <2>3 DEF Relabels
  <2>5. SameMoves(rows, rows')
    BY <2>1, <2>3, <2>4, RelabellingMoves
  <2>6. /\ \A m, v : cashFold(rows', Upto(OwnedBy(rows', v), m)) = cashFold(rows, Upto(OwnedBy(rows, v), m))
        /\ \A m, v, k : shareFold(rows', Upto(Position(rows', v, k), m)) = shareFold(rows, Upto(Position(rows, v, k), m))
        /\ \A v, k, mark, shares : HoldsUp(rows', v, k, mark, shares) <=> HoldsUp(rows, v, k, mark, shares)
    BY <2>5, LevelsSame
  <2> QED
    BY <1>1, <2>6
<1> HIDE DEF Short
<1> QED
  BY <1>1, <1>2, <1>3, <1>4, RowsServed

LEMMA SeenStays ==
  ASSUME SimTypes, Formed, RunOK, rows \in Seq(Rows), [LoadNext]_loadVars,
         NEW n \in DOMAIN rows, Seen(n), rows[n].userId \in runUsers
  PROVE  Seen(n)'
<1>1. n \in DOMAIN rows' /\ DOMAIN rows = 1 .. Len(rows)
  BY RowsStay DEF RowStays
<1>2. ASSUME run'.phase \in Read PROVE n \in DOMAIN evidence'.rows
  <2>1. CASE readLedger
    <3>1. evidence'.rows = Excerpt(rows, Len(rows), runUsers)
      BY <2>1, LedgerReadIs
    <3> QED
      BY <1>1, <3>1 DEF Excerpt
  <2>2. CASE ~ readLedger
    <3>1. run.phase \in Read /\ evidence'.rows = evidence.rows
      <4>1. ASSUME NEW u \in Users, readCash(u) PROVE run.phase \in Read /\ evidence'.rows = evidence.rows
        BY <1>2, <4>1, CashReadIs DEF Read
      <4>2. waitForQuiesce => FALSE
        BY <1>2, QuiesceIs DEF Read
      <4> QED
        BY <1>2, <2>2, <4>1, <4>2, EvidenceMoves
    <3> QED
      BY <3>1 DEF Seen
  <2> QED
    BY <2>1, <2>2
<1> QED
  BY <1>1, <1>2 DEF Seen

LEMMA OverspendingShows ==
  ASSUME SimTypes, RunOK, rows \in Seq(Rows), Conserved', NEW s \in Slots, overspend(s)
  PROVE  \E n \in DOMAIN rows' : Seen(n)' /\ rows'[n].userId \in runUsers' /\ Overspent(n)'
<1>1. PICK order, d : Overspending(s, order, d)
  BY OverspendIs
<1> DEFINE r == RowOf(s, order, d)  u == order.userId  i == order.instrumentId
<1>0. PICK n : n = Len(rows')
  OBVIOUS
<1>2. /\ r \in Rows /\ rows' = Append(rows, r) /\ order.userId \in runUsers /\ order \in Orders
      /\ Ruined(portfolio'[u], order) /\ run' = run /\ run.phase \in {"placing", "quiescing", "first"}
  BY <1>1, MisservingIs, MisbehavingIs DEF Overspending, runner
<1>3. r.userId = u /\ r.instrumentId = i /\ u \in Users /\ i \in Instruments
  BY <1>2 DEF RowOf, Orders
<1> HIDE DEF r
<1>4. /\ rows' \in Seq(Rows) /\ Extends(rows, rows', r) /\ Len(rows) \in Nat
      /\ n = Len(rows) + 1 /\ n \in DOMAIN rows' /\ rows'[n] = r
      /\ run.mark \in 0 .. Len(rows)
  BY <1>0, <1>2, AppendExtends DEF RunOK
<1>5. Seen(n)'
  BY <1>2, <1>4 DEF Seen, Read
<1>6. /\ portfolio'[u].cash = cashFold(rows', Upto(OwnedBy(rows', u), n))
      /\ portfolio'[u].shares[i] = shareFold(rows', Upto(Position(rows', u, i), n))
  <2>1. PICK c, v : c = rows' /\ v = u
    OBVIOUS
  <2>2. /\ Upto(OwnedBy(c, v), Len(c)) = OwnedBy(c, v)
        /\ \A j : Upto(Position(c, v, j), Len(c)) = Position(c, v, j)
    BY <1>4, <2>1, LastLevel
  <2> QED
    BY <1>0, <1>3, <2>1, <2>2 DEF Conserved
<1>7. \A shares : HoldsUp(rows', u, i, run.mark, shares) <=> HoldsUp(rows, u, i, run.mark, shares)
  <2>1. PICK v, j : v = u /\ j = i
    OBVIOUS
  <2>2. \A shares : HoldsUp(rows', v, j, run.mark, shares) <=> HoldsUp(rows, v, j, run.mark, shares)
    BY <1>2, <1>4, FloorsExtended
  <2> QED
    BY <2>1, <2>2
<1>8. \/ portfolio'[u].cash < 0
      \/ ~ HoldsUp(rows, u, i, run.mark, portfolio'[u].shares[i])
  BY <1>2 DEF Ruined
<1>9. n > run.mark /\ run'.mark = run.mark
  BY <1>2, <1>4
<1>10. Overspent(n)'
  <2>1. \/ cashFold(rows', Upto(OwnedBy(rows', u), n)) < 0
        \/ /\ n > run.mark
           /\ ~ HoldsUp(rows', u, i, run.mark, shareFold(rows', Upto(Position(rows', u, i), n)))
    BY <1>6, <1>7, <1>8, <1>9
  <2> QED
    BY <1>3, <1>4, <1>9, <2>1 DEF Overspent
<1> QED
  BY <1>2, <1>3, <1>4, <1>5, <1>10 DEF runUsers

LEMMA InventionShows ==
  ASSUME SimTypes, RunOK, rows \in Seq(Rows), NEW order \in Menu, invent(order)
  PROVE  \E n \in DOMAIN rows' :
           Seen(n)' /\ rows'[n].userId \in runUsers' /\ n > run'.mark /\ rows'[n].call = Null
<1>1. PICK r \in Rows :
        /\ r.call = Null /\ r.userId \in runUsers
        /\ Misbehaves("invent", r.userId) /\ rows' = Append(rows, r)
        /\ UNCHANGED <<service, calls, losses, history, cancelling, store, runner>>
  BY InventIs
<1>2. run' = run /\ run.phase \in {"placing", "quiescing", "first"}
  BY <1>1, MisbehavingIs DEF runner
<1>3. PICK n : n = Len(rows')
  OBVIOUS
<1>4. /\ Len(rows) \in Nat /\ n = Len(rows) + 1 /\ n \in DOMAIN rows' /\ rows'[n] = r
      /\ run.mark \in 0 .. Len(rows)
  BY <1>1, <1>3 DEF RunOK
<1>5. Seen(n)'
  BY <1>2, <1>4 DEF Seen, Read
<1> QED
  BY <1>1, <1>2, <1>4, <1>5 DEF runUsers

LEMMA FaultsOKStays ==
  ASSUME SimTypes, Formed, RunOK, rows \in Seq(Rows), Conserved', FaultsOK, [LoadNext]_loadVars
  PROVE  FaultsOK'
<1>1. CASE Misserving
  <2>1. faults = {} /\ run' = run /\ run.phase \in {"placing", "quiescing", "first"}
    BY <1>1, MisservingIs, OverspendIs, ForgetIs, InventIs, MiscancelIs, MisbehavingIs
       DEF Misserving, runner, Overspending
  <2>2. run'.phase \in Over \cup {"placing", "failed"}
    BY <2>1 DEF Over, Checking
  <2>3. ASSUME NEW s \in Slots, overspend(s) PROVE FaultsOK'
    <3>1. faults' = {"overspend"}
      BY <2>3 DEF overspend, Misbehaves
    <3>2. faults' # {"invent"}
      BY <3>1
    <3> QED
      BY <2>2, <2>3, <3>2, OverspendingShows DEF FaultsOK
  <2>4. ASSUME NEW order \in Menu, invent(order) PROVE FaultsOK'
    <3>1. faults' = {"invent"}
      BY <2>4 DEF invent, Misbehaves
    <3>2. faults' # {"overspend"}
      BY <3>1
    <3> QED
      BY <2>2, <2>4, <3>2, InventionShows DEF FaultsOK
  <2>5. ASSUME NEW s \in Slots, forget(s) PROVE FaultsOK'
    <3>1. faults' = {"forget"}
      BY <2>5 DEF forget, Misbehaves
    <3>2. faults' # {"overspend"} /\ faults' # {"invent"}
      BY <3>1
    <3> QED
      BY <2>2, <3>2 DEF FaultsOK
  <2>6. ASSUME NEW cancel \in cancelling, miscancel(cancel) PROVE FaultsOK'
    <3>1. faults' = {"miscancel"}
      BY <2>6 DEF miscancel, Misbehaves
    <3>2. faults' # {"overspend"} /\ faults' # {"invent"}
      BY <3>1
    <3> QED
      BY <2>2, <3>2 DEF FaultsOK
  <2> QED
    BY <1>1, <2>3, <2>4, <2>5, <2>6 DEF Misserving
<1>2. CASE ~ Misserving /\ faults = {}
  BY <1>2, RunStepIsSimulationStep DEF FaultsOK
<1>3. CASE ~ Misserving /\ faults # {}
  <2>1. faults' = faults /\ run.phase \in Over \cup {"placing", "failed"}
    BY <1>3, RunStepIsSimulationStep DEF FaultsOK
  <2>2. RunGoesOn
    <3>1. ~ highWaterMark /\ \A profile : ~ start(profile)
      BY <2>1 DEF highWaterMark, start, Over, Checking
    <3> QED
      BY <3>1, RunMoves
  <2>3. run'.phase \in Over \cup {"placing", "failed"} /\ runUsers' = runUsers /\ run'.mark = run.mark
    BY <2>1, <2>2 DEF RunGoesOn, Follows, Over, Checking, runUsers
  <2>4. \A n \in DOMAIN rows : RowStays(n)
    BY RowsStay
  <2>5. ASSUME NEW n \in DOMAIN rows, Seen(n), rows[n].userId \in runUsers
        PROVE  n \in DOMAIN rows' /\ Seen(n)' /\ rows'[n].userId \in runUsers' /\ rows'[n].call = rows[n].call
    BY <2>3, <2>4, <2>5, SeenStays DEF RowStays
  <2>6. ASSUME NEW n \in DOMAIN rows, Overspent(n) PROVE Overspent(n)'
    BY <1>3, <2>3, <2>6, OverspentStays
  <2>7. faults' = {"overspend"} =>
          \E n \in DOMAIN rows' : Seen(n)' /\ rows'[n].userId \in runUsers' /\ Overspent(n)'
    <3> SUFFICES ASSUME faults = {"overspend"}
                 PROVE  \E n \in DOMAIN rows' : Seen(n)' /\ rows'[n].userId \in runUsers' /\ Overspent(n)'
      BY <2>1
    <3>1. PICK n \in DOMAIN rows : Seen(n) /\ rows[n].userId \in runUsers /\ Overspent(n)
      BY DEF FaultsOK
    <3> QED
      BY <2>5, <2>6, <3>1
  <2>8. faults' = {"invent"} =>
          \E n \in DOMAIN rows' :
            Seen(n)' /\ rows'[n].userId \in runUsers' /\ n > run'.mark /\ rows'[n].call = Null
    <3> SUFFICES ASSUME faults = {"invent"}
                 PROVE  \E n \in DOMAIN rows' :
                          Seen(n)' /\ rows'[n].userId \in runUsers' /\ n > run'.mark /\ rows'[n].call = Null
      BY <2>1
    <3>1. PICK n \in DOMAIN rows : Seen(n) /\ rows[n].userId \in runUsers /\ n > run.mark /\ rows[n].call = Null
      BY DEF FaultsOK
    <3> QED
      BY <2>3, <2>5, <3>1
  <2> QED
    BY <2>3, <2>7, <2>8 DEF FaultsOK
<1> QED
  BY <1>1, <1>2, <1>3

-----------------------------------------------------------------------------
(***************************************************************************)
(* The verdict.                                                            *)
(***************************************************************************)
LEMMA CheckIs ==
  ASSUME Formed, check
  PROVE  /\ UNCHANGED World /\ UNCHANGED <<evidence, cancelling, store, at, losses>>
         /\ run.phase = "judging" /\ run'.phase = "judged" /\ run'.mark = run.mark
         /\ doubts' = Doubts
         /\ alarms' \subseteq {"conservation", "no_overdraft", "no_oversell", "response_db_agreement",
                               "cancel_safety"}
         /\ "conservation" \in alarms' <=>
              ~ conservation(evidence.rows, stillCash(evidence.first, evidence.second),
                             comparable(evidence.before, Snapshot))
         /\ "no_overdraft" \in alarms' <=> ~ noOverdraft(evidence.rows)
         /\ "no_oversell" \in alarms' <=> ~ noOversell(evidence.rows, run.mark)
         /\ "response_db_agreement" \in alarms' <=>
              ~ responseDbAgreement(tally.placements, evidence.rows, run.mark, acknowledged,
                                    unansweredIn, tally.cancelled)
         /\ "cancel_safety" \in alarms' <=> ~ cancelSafety(evidence.rows, tally.cancelled)
<1> DEFINE e == [ rows |-> evidence.rows, highWaterMark |-> run.mark,
                  apiCash |-> stillCash(evidence.first, evidence.second),
                  shadowCash |-> comparable(evidence.before, Snapshot),
                  placements |-> tally.placements, acknowledged |-> acknowledged,
                  unanswered |-> unansweredIn, cancelled |-> tally.cancelled ]
<1>1. /\ UNCHANGED World /\ UNCHANGED <<evidence, cancelling, store, at, losses>>
      /\ run.phase = "judging" /\ doubts' = Doubts /\ alarms' = checkInvariants(e)
      /\ run' = [run EXCEPT !.phase = "judged"]
  BY DEF check, World, vars, service, history, calls, Phase
<1>2. run'.phase = "judged" /\ run'.mark = run.mark
  BY <1>1 DEF Formed, RunFormed
<1>3. /\ e.rows = evidence.rows /\ e.highWaterMark = run.mark
      /\ e.apiCash = stillCash(evidence.first, evidence.second)
      /\ e.shadowCash = comparable(evidence.before, Snapshot)
      /\ e.placements = tally.placements /\ e.acknowledged = acknowledged
      /\ e.unanswered = unansweredIn /\ e.cancelled = tally.cancelled
  OBVIOUS
<1> HIDE DEF e
<1>4. /\ alarms' \subseteq {"conservation", "no_overdraft", "no_oversell", "response_db_agreement",
                            "cancel_safety"}
      /\ "conservation" \in alarms' <=> ~ conservation(e.rows, e.apiCash, e.shadowCash)
      /\ "no_overdraft" \in alarms' <=> ~ noOverdraft(e.rows)
      /\ "no_oversell" \in alarms' <=> ~ noOversell(e.rows, e.highWaterMark)
      /\ "response_db_agreement" \in alarms' <=>
           ~ responseDbAgreement(e.placements, e.rows, e.highWaterMark, e.acknowledged, e.unanswered,
                                 e.cancelled)
      /\ "cancel_safety" \in alarms' <=> ~ cancelSafety(e.rows, e.cancelled)
  BY <1>1 DEF checkInvariants
<1> QED
  BY <1>1, <1>2, <1>3, <1>4

LEMMA ReadIs ==
  ASSUME EvidenceOK, RowsOK, RunOK, run.phase \in Read
  PROVE  /\ IsBook(evidence.rows)
         /\ \A n \in DOMAIN evidence.rows :
              n \in DOMAIN rows /\ evidence.rows[n] = rows[n] /\ rows[n].userId \in runUsers
         /\ \E last \in 0 .. Len(rows) : run.mark \in 0 .. last /\ evidence.rows = Excerpt(rows, last, runUsers)
<1>1. PICK last \in run.mark .. Len(rows) : evidence.rows = Excerpt(rows, last, runUsers)
  BY DEF EvidenceOK
<1>2. /\ rows \in Seq(Rows) /\ Len(rows) \in Nat /\ DOMAIN rows = 1 .. Len(rows)
      /\ run.mark \in 0 .. Len(rows)
  BY DEF RowsOK, RunOK
<1>3. last \in 0 .. Len(rows) /\ run.mark \in 0 .. last
  BY <1>2
<1>4. /\ DOMAIN evidence.rows = {n \in 1 .. last : rows[n].userId \in runUsers}
      /\ \A n \in DOMAIN evidence.rows : evidence.rows[n] = rows[n]
  BY <1>1 DEF Excerpt
<1>5. \A n \in DOMAIN evidence.rows : n \in DOMAIN rows /\ n \in 1 .. last /\ rows[n].userId \in runUsers
  BY <1>2, <1>3, <1>4
<1>6. IsFiniteSet(DOMAIN evidence.rows)
  <2>1. IsFiniteSet(1 .. last)
    BY <1>3, FS_Interval
  <2> QED
    BY <1>4, <2>1, FS_Subset
<1>7. IsBook(evidence.rows)
  BY <1>2, <1>4, <1>5, <1>6 DEF IsBook
<1> QED
  BY <1>1, <1>3, <1>4, <1>5, <1>7

LEMMA RowsAreCleared ==
  ASSUME EvidenceOK, RowsOK, RunOK, run.phase \in Read, LevelsOK
  PROVE  noOverdraft(evidence.rows) /\ noOversell(evidence.rows, run.mark)
<1>1. PICK last \in 0 .. Len(rows) : run.mark \in 0 .. last /\ evidence.rows = Excerpt(rows, last, runUsers)
  BY ReadIs
<1>2. /\ rows \in Seq(Rows)
      /\ \A n \in DOMAIN evidence.rows : n \in DOMAIN rows
  BY ReadIs DEF RowsOK
<1>3. noOverdraft(rows) /\ noOversell(rows, run.mark)
  BY DEF LevelsOK, Read, Marked, Phases
<1>4. /\ noOverdraft(evidence.rows) <=>
           \A n \in DOMAIN evidence.rows : cashFold(rows, Upto(OwnedBy(rows, rows[n].userId), n)) >= 0
      /\ noOversell(evidence.rows, run.mark) <=>
           \A n \in DOMAIN evidence.rows :
             LET u == rows[n].userId  i == rows[n].instrumentId IN
             n > run.mark => HoldsUp(rows, u, i, run.mark, shareFold(rows, Upto(Position(rows, u, i), n)))
  BY <1>1, <1>2, StatementsOfExcerpt
<1>5. noOverdraft(evidence.rows)
  BY <1>2, <1>3, <1>4 DEF noOverdraft
<1>6. noOversell(evidence.rows, run.mark)
  BY <1>2, <1>3, <1>4 DEF noOversell
<1> QED
  BY <1>5, <1>6

LEMMA CancelsAreCleared ==
  ASSUME EvidenceOK, RowsOK, RunOK, run.phase \in Read, AnswersOK, Witnessed
  PROVE  cancelSafety(evidence.rows, tally.cancelled)
<1>1. /\ IsBook(evidence.rows)
      /\ \A n \in DOMAIN evidence.rows : n \in DOMAIN rows /\ evidence.rows[n] = rows[n]
  BY ReadIs
<1>2. ASSUME NEW id \in tally.cancelled PROVE id \in DOMAIN evidence.rows /\ evidence.rows[id].status = "CANCELLED"
  BY <1>1, <1>2 DEF Witnessed, AnswersOK, Cancelled
<1> DEFINE standing == {n \in DOMAIN evidence.rows : evidence.rows[n].status # "CANCELLED"}
<1>3. /\ cashFold(evidence.rows, DOMAIN evidence.rows) = cashFold(evidence.rows, standing)
      /\ shareFold(evidence.rows, DOMAIN evidence.rows) = shareFold(evidence.rows, standing)
  BY <1>1, CancelledMovesNothing
<1> QED
  BY <1>2, <1>3 DEF cancelSafety

(* What nobody answered for, and is in no doubt, is of a call of the run   *)
(* that lost its answer, or of one whose loss the ring shows.              *)
LostInRing ==
  {i \in DOMAIN store.buffer :
     store.buffer[i].kind = "place" /\ store.buffer[i].status = "none"}

LEMMA UnmatchedAreLost ==
  ASSUME SimTypes, EvidenceOK, RowsOK, RunOK, run.phase \in Read, Witnessed, RingOK, Traced,
         NEW n \in Unmatched(evidence.rows, run.mark, acknowledged) \ Doubts
  PROVE  /\ n \in DOMAIN rows /\ rows[n].call # Null
         /\ \/ rows[n].call \in LostOwn
            \/ \E i \in LostInRing : store.buffer[i].call = rows[n].call
<1>1. n \in DOMAIN evidence.rows /\ n > run.mark /\ n \notin acknowledged /\ n \notin Doubts
  BY DEF Unmatched
<1>2. n \in DOMAIN rows /\ evidence.rows[n] = rows[n] /\ rows[n] \in Rows
  BY <1>1, ReadIs DEF RowsOK
<1>3. run.phase \in Marked /\ run.phase \in Over
  BY DEF Read, Marked, Phases, Over, Checking
<1> DEFINE c == rows[n].call
<1>4. c # Null /\ c \in Slots
  BY <1>1, <1>2, <1>3 DEF Witnessed, Rows
<1>5. at[c] \in {"executed", "done"}
  BY <1>2, <1>4 DEF RowsOK, RowOK
<1>6. CASE c \in Own
  <2>1. at[c] = "done"
    BY <1>3, <1>4, <1>5, <1>6 DEF RunOK, InFlight
  <2>2. \A placement \in tally.placements : placement.orderId # n
    BY <1>1 DEF acknowledged
  <2> QED
    BY <1>2, <1>4, <1>6, <2>1, <2>2 DEF LostOwn
<1>7. CASE c \in Others
  <2>1. c \in Remembered
    BY <1>1, <1>2, <1>7 DEF Doubts
  <2>2. PICK i \in DOMAIN store.buffer : store.buffer[i].call = c
    BY <2>1 DEF Remembered
  <2>3. /\ store.buffer[i].kind = "place"
        /\ store.buffer[i].status = "none" \/ n = store.buffer[i].orderId
    BY <1>2, <1>4, <2>2 DEF Traced
  <2>4. store.buffer[i].orderId # n
    <3>1. n # Null
      BY <1>2, LoadAssumption, BookIs DEF RowsOK
    <3>2. n \notin InRing
      BY <1>1 DEF acknowledged
    <3> QED
      BY <3>1, <3>2 DEF InRing
  <2> QED
    BY <1>2, <1>4, <2>2, <2>3, <2>4 DEF LostInRing
<1> QED
  BY <1>4, <1>6, <1>7 DEF Others

LEMMA UnansweredIs ==
  ASSUME RingOK, TallyOK
  PROVE  /\ unansweredIn \in Nat /\ IsFiniteSet(LostInRing)
         /\ Cardinality(LostOwn) + Cardinality(LostInRing) <= unansweredIn
         /\ losses = 0 /\ tally.pending = {} => unansweredIn = 0
<1>1. IsFiniteSet(LostInRing) /\ Cardinality(LostInRing) \in Nat
  <2>1. DOMAIN store.buffer = 1 .. Len(store.buffer) /\ Len(store.buffer) \in Nat
    BY DEF RingOK
  <2>2. IsFiniteSet(1 .. Len(store.buffer))
    BY <2>1, FS_Interval
  <2>3. LostInRing \subseteq 1 .. Len(store.buffer)
    BY <2>1 DEF LostInRing
  <2> QED
    BY <2>2, <2>3, FS_Subset, FS_CardinalityType
<1>2. losses = 0 => LostInRing = {}
  BY DEF RingOK, LostInRing
<1>3. /\ tally.byStatus["none"] \in Nat
      /\ losses = 0 => tally.byStatus["none"] = 0
      /\ IsFiniteSet(tally.pending) /\ Cardinality(tally.pending) \in Nat
  BY PendingIs DEF TallyOK, Statuses
<1>4. Cardinality(Quiet) \in Nat /\ Cardinality(Quiet) <= Cardinality(tally.pending)
  <2>1. Quiet \subseteq tally.pending
    BY DEF Quiet
  <2> QED
    BY <1>3, <2>1, FS_Subset, FS_CardinalityType
<1>5. IsFiniteSet(LostOwn) /\ Cardinality(LostOwn) <= tally.byStatus["none"] + Cardinality(Quiet)
  BY DEF TallyOK
<1>6. unansweredIn = Cardinality(LostInRing) + tally.byStatus["none"] + Cardinality(tally.pending)
  BY DEF unansweredIn, LostInRing
<1>7. Cardinality(LostOwn) \in Nat
  BY <1>5, FS_CardinalityType
<1>8. losses = 0 => Cardinality(LostInRing) = 0
  BY <1>2, FS_EmptySet
<1>9. tally.pending = {} => Cardinality(tally.pending) = 0
  BY FS_EmptySet
<1>10. PICK a, b, c, q, l \in Nat :
         /\ a = Cardinality(LostInRing) /\ b = tally.byStatus["none"] /\ c = Cardinality(tally.pending)
         /\ q = Cardinality(Quiet) /\ l = Cardinality(LostOwn)
  BY <1>1, <1>3, <1>4, <1>7
<1>11. unansweredIn = a + b + c /\ q <= c /\ l <= b + q
  BY <1>4, <1>5, <1>6, <1>10
<1>12. unansweredIn \in Nat /\ l + a <= unansweredIn
  BY <1>11
<1>13. ASSUME losses = 0, tally.pending = {} PROVE unansweredIn = 0
  <2>1. a = 0 /\ b = 0 /\ c = 0
    BY <1>3, <1>8, <1>9, <1>10, <1>13
  <2> QED
    BY <1>11, <2>1
<1> QED
  BY <1>1, <1>10, <1>12, <1>13

(* What is injected into a finite set counts no more than it.              *)
LEMMA InjectionCounts ==
  ASSUME NEW S, IsFiniteSet(S), NEW f, NEW T, IsFiniteSet(T), \A x \in S : f[x] \in T,
         \A x, y \in S : f[x] = f[y] => x = y
  PROVE  Cardinality(S) \in Nat /\ Cardinality(T) \in Nat /\ Cardinality(S) <= Cardinality(T)
<1> DEFINE I == {f[x] : x \in S}
<1>1. I \subseteq T
  OBVIOUS
<1>2. Cardinality(I) = Cardinality(S)
  BY ImageCounts
<1> HIDE DEF I
<1>3. Cardinality(I) <= Cardinality(T)
  BY <1>1, FS_Subset
<1> QED
  BY <1>2, <1>3, FS_CardinalityType

(* Rows of different calls are of different losses.                        *)
LEMMA UnmatchedAreCounted ==
  ASSUME SimTypes, EvidenceOK, RowsOK, RunOK, run.phase \in Read, Witnessed, RingOK, Traced, TallyOK
  PROVE  Cardinality(Unmatched(evidence.rows, run.mark, acknowledged) \ Doubts) <= unansweredIn
<1> DEFINE S == Unmatched(evidence.rows, run.mark, acknowledged) \ Doubts
           A == {n \in S : rows[n].call \in LostOwn}  B == S \ A
           f == [n \in A |-> rows[n].call]
           g == [n \in B |-> CHOOSE i \in LostInRing : store.buffer[i].call = rows[n].call]
<1>1. \A n \in S : /\ n \in DOMAIN rows /\ rows[n].call # Null
                   /\ \/ rows[n].call \in LostOwn
                      \/ \E i \in LostInRing : store.buffer[i].call = rows[n].call
  BY UnmatchedAreLost
<1>2. \A n, m \in S : rows[n].call = rows[m].call => n = m
  BY <1>1 DEF RowsOK, RowOK
<1>3. IsFiniteSet(S)
  <2>1. IsFiniteSet(DOMAIN evidence.rows) /\ S \subseteq DOMAIN evidence.rows
    BY ReadIs DEF IsBook, Unmatched
  <2> QED
    BY <2>1, FS_Subset
<1> HIDE DEF S
<1>4. S = A \cup B /\ A \cap B = {} /\ A \subseteq S /\ B \subseteq S
  OBVIOUS
<1>5. IsFiniteSet(A) /\ IsFiniteSet(B)
  BY <1>3, <1>4, FS_Subset
<1>6. /\ \A n \in A : f[n] \in LostOwn
      /\ \A n, m \in A : f[n] = f[m] => n = m
  BY <1>2, <1>4
<1>7. /\ \A n \in B : g[n] \in LostInRing /\ store.buffer[g[n]].call = rows[n].call
      /\ \A n, m \in B : g[n] = g[m] => n = m
  <2>1. \A n \in B : g[n] \in LostInRing /\ store.buffer[g[n]].call = rows[n].call
    BY <1>1, <1>4
  <2> HIDE DEF g
  <2> QED
    BY <1>2, <1>4, <2>1
<1>8. IsFiniteSet(LostOwn) /\ IsFiniteSet(LostInRing)
  BY UnansweredIs DEF TallyOK
<1> HIDE DEF f, g, A, B
<1>9. /\ Cardinality(A) \in Nat /\ Cardinality(LostOwn) \in Nat
      /\ Cardinality(A) <= Cardinality(LostOwn)
  BY <1>5, <1>6, <1>8, InjectionCounts
<1>10. /\ Cardinality(B) \in Nat /\ Cardinality(LostInRing) \in Nat
       /\ Cardinality(B) <= Cardinality(LostInRing)
  BY <1>5, <1>7, <1>8, InjectionCounts
<1>11. Cardinality(S) = Cardinality(A) + Cardinality(B)
  <2>1. Cardinality(A \cup B) = Cardinality(A) + Cardinality(B)
    BY <1>4, <1>5, TwoParts
  <2> QED
    BY <1>4, <2>1, Zenon
<1>12. unansweredIn \in Nat /\ Cardinality(LostOwn) + Cardinality(LostInRing) <= unansweredIn
  BY UnansweredIs
<1>13. Cardinality(S) <= unansweredIn
  BY <1>9, <1>10, <1>11, <1>12
<1> QED
  BY <1>13 DEF S

LEMMA AnswersAreCleared ==
  ASSUME SimTypes, EvidenceOK, RowsOK, RunOK, run.phase \in Read, AnswersOK, Witnessed,
         RingOK, Traced, TallyOK
  PROVE  responseDbAgreement(
           {placement \in tally.placements : placement.orderId \notin Doubts},
           [n \in DOMAIN evidence.rows \ Doubts |-> evidence.rows[n]],
           run.mark, acknowledged, unansweredIn, tally.cancelled)
<1> DEFINE shown == [n \in DOMAIN evidence.rows \ Doubts |-> evidence.rows[n]]
<1>1. ASSUME NEW p \in tally.placements, p.orderId \notin Doubts
      PROVE  /\ p.orderId \in DOMAIN shown
             /\ agrees(p.orderId, shown[p.orderId], p, tally.cancelled)
             /\ shown[p.orderId].size = p.size
             /\ shown[p.orderId].price = p.price
  <2> DEFINE id == p.orderId
  <2>1. /\ id \in DOMAIN evidence.rows /\ evidence.rows[id] = rows[id]
        /\ Taken(id) /\ rows[id].size = p.size /\ rows[id].price = p.price
        /\ rows[id].status = p.status \/ (p.status = "NEW" /\ rows[id].status = "CANCELLED")
    BY ReadIs DEF Witnessed, AnswersOK, StoredAs
  <2>2. id > run.mark
    <3>1. id \in DOMAIN rows /\ rows[id].call \in Own /\ rows[id].call # Null
      BY <2>1, LoadAssumption DEF Taken
    <3> QED
      BY <3>1 DEF RowsOK, RowOK
  <2>3. rows[id].status = "CANCELLED" => id \in tally.cancelled
    BY <1>1, <2>1, <2>2 DEF Doubts
  <2>4. id \in DOMAIN shown /\ shown[id] = rows[id]
    BY <1>1, <2>1
  <2> HIDE DEF shown
  <2> QED
    BY <2>1, <2>3, <2>4 DEF agrees
<1>2. Unmatched(shown, run.mark, acknowledged)
        = Unmatched(evidence.rows, run.mark, acknowledged) \ Doubts
  BY DEF Unmatched
<1>3. Cardinality(Unmatched(shown, run.mark, acknowledged)) <= unansweredIn
  BY <1>2, UnmatchedAreCounted
<1> HIDE DEF shown
<1>4. responseDbAgreement({placement \in tally.placements : placement.orderId \notin Doubts},
                          shown, run.mark, acknowledged, unansweredIn, tally.cancelled)
  BY <1>1, <1>3 DEF responseDbAgreement
<1> QED
  BY <1>4 DEF shown

(* With nothing to set aside, that is what check() asks.                   *)
LEMMA NothingSetAside ==
  ASSUME EvidenceOK, RowsOK, RunOK, run.phase \in Read, Doubts = {}
  PROVE  /\ {placement \in tally.placements : placement.orderId \notin Doubts} = tally.placements
         /\ [n \in DOMAIN evidence.rows \ Doubts |-> evidence.rows[n]] = evidence.rows
<1>1. PICK last \in 0 .. Len(rows) : evidence.rows = Excerpt(rows, last, runUsers)
  BY ReadIs
<1>2. evidence.rows = [n \in DOMAIN evidence.rows |-> evidence.rows[n]]
  BY <1>1 DEF Excerpt
<1>3. DOMAIN evidence.rows \ Doubts = DOMAIN evidence.rows
  OBVIOUS
<1>4. [n \in DOMAIN evidence.rows \ Doubts |-> evidence.rows[n]]
        = [n \in DOMAIN evidence.rows |-> evidence.rows[n]]
  BY <1>3, Zenon
<1>5. {placement \in tally.placements : placement.orderId \notin Doubts} = tally.placements
  OBVIOUS
<1> QED
  BY <1>2, <1>4, <1>5, Zenon

LEMMA BalancesAreCleared ==
  ASSUME SimInv, EvidenceOK, RowsOK, RunOK, run.phase \in Read, ReadingsOK, Fresh, OneFill
  PROVE  conservation(evidence.rows, stillCash(evidence.first, evidence.second),
                      comparable(evidence.before, Snapshot))
<1> DEFINE api == stillCash(evidence.first, evidence.second)
           shadow == comparable(evidence.before, Snapshot)
<1>1. BalancesOK /\ DOMAIN evidence.before = runUsers /\ runUsers \subseteq DOMAIN ledger.users
  BY DEF ReadingsOK, EvidenceOK, Read, Checking, RunOK, Prepared, Marked, Phases
<1>2. ASSUME NEW u \in Owners(evidence.rows) \cap DOMAIN api
      PROVE  /\ api[u] = cashFold(evidence.rows, OwnedBy(evidence.rows, u))
             /\ u \in DOMAIN shadow => shadow[u] = cashFold(evidence.rows, OwnedBy(evidence.rows, u))
  <2>1. u \in runUsers
    BY <1>2, ReadIs DEF Owners
  <2>2. /\ u \in DOMAIN evidence.first \cap DOMAIN evidence.second
        /\ evidence.first[u] = evidence.second[u] /\ api[u] = evidence.first[u]
    BY <1>2 DEF stillCash
  <2>3. Db(u) = evidence.first[u]
    BY <1>1, <2>1, <2>2 DEF BalancesOK
  <2>4. ASSUME u \in DOMAIN shadow PROVE shadow[u] = Db(u)
    <3>1. /\ evidence.before[u].seeded /\ ~ evidence.before[u].uncertain
          /\ evidence.before[u].outstanding = 0
          /\ ~ ledger.users[u].uncertain /\ ledger.users[u].outstanding = 0
          /\ evidence.before[u].cash = ledger.users[u].cash /\ shadow[u] = evidence.before[u].cash
      BY <1>1, <2>1, <2>4 DEF comparable, Snapshot
    <3>2. ledger.users[u].seeded
      BY <2>1, <3>1 DEF EvidenceOK, Read, Checking
    <3>3. ledger.users[u].cash = portfolio[u].cash
      BY <1>1, <2>1, <3>1, <3>2, TrustedIsRight
    <3>4. Tracks(u, evidence.before[u].cash)
      BY <1>1, <2>1, <3>1 DEF BalancesOK, TrustedBefore
    <3> HIDE DEF shadow
    <3> QED
      BY <3>1, <3>3, <3>4 DEF Tracks
  <2> QED
    BY <2>2, <2>3, <2>4 DEF Db
<1> HIDE DEF api, shadow
<1> QED
  BY <1>2 DEF conservation, api, shadow

(* What cannot be told apart is at most one.                               *)
LEMMA TwoFills ==
  ASSUME SimTypes, IsFiniteSet(filled), ~ OneFill
  PROVE  Cardinality(FillsOfTheLoop) >= 2
<1>1. PICK s, t \in FillsOfTheLoop : s # t
  BY DEF OneFill
<1>2. IsFiniteSet(FillsOfTheLoop)
  BY FS_Subset DEF FillsOfTheLoop
<1>3. Cardinality(FillsOfTheLoop) \in Nat
  BY <1>2, FS_CardinalityType
<1>4. /\ IsFiniteSet({s}) /\ IsFiniteSet({t}) /\ Cardinality({s}) = 1 /\ Cardinality({t}) = 1
      /\ {s} \cap {t} = {}
  BY <1>1, FS_Singleton
<1>5. Cardinality({s} \cup {t}) = Cardinality({s}) + Cardinality({t})
  BY <1>4, TwoParts, Zenon
<1>8. Cardinality({s} \cup {t}) = 2
  BY <1>4, <1>5
<1>6. {s} \cup {t} \subseteq FillsOfTheLoop
  BY <1>1
<1>7. Cardinality({s} \cup {t}) <= Cardinality(FillsOfTheLoop)
  BY <1>2, <1>6, FS_Subset
<1> QED
  BY <1>3, <1>7, <1>8

LEMMA VerdictIsFair ==
  ASSUME LoadInv, check
  PROVE  NobodyIsWronglyAccused'
<1> SUFFICES ASSUME faults' = {}
             PROVE  /\ alarms' \subseteq {"conservation", "response_db_agreement"}
                    /\ AnswersAgree'
                    /\ "response_db_agreement" \in alarms' => doubts' # {}
                    /\ "conservation" \in alarms' =>
                         \/ mishaps' \cap {"late", "reset", "overlap"} # {}
                         \/ Cardinality(FillsOfTheLoop') >= 2
  BY DEF NobodyIsWronglyAccused
<1>1. /\ Formed /\ RunOK /\ RowsOK /\ RingOK /\ TallyOK /\ EvidenceOK /\ Traced
      /\ SimTypes /\ IsFiniteSet(filled)
      /\ run.phase = "judging" /\ doubts' = Doubts /\ UNCHANGED World
  BY CheckIs DEF LoadInv, LoadSimOK
<1>2. faults = {}
  BY <1>1 DEF World
<1>3. SimInv /\ AnswersOK /\ LevelsOK /\ ReadingsOK /\ Witnessed
  BY <1>2 DEF LoadInv, LoadSimOK
<1>4. run.phase \in Read
  BY <1>1 DEF Read
<1>5. "no_overdraft" \notin alarms' /\ "no_oversell" \notin alarms'
  BY <1>1, <1>3, <1>4, CheckIs, RowsAreCleared
<1>6. "cancel_safety" \notin alarms'
  BY <1>1, <1>3, <1>4, CheckIs, CancelsAreCleared
<1>7. responseDbAgreement(
        {placement \in tally.placements : placement.orderId \notin Doubts},
        [n \in DOMAIN evidence.rows \ Doubts |-> evidence.rows[n]],
        run.mark, acknowledged, unansweredIn, tally.cancelled)
  BY <1>1, <1>3, <1>4, AnswersAreCleared
<1>10. AnswersAgree'
  <2>1. UNCHANGED <<evidence, store, tally>> /\ run'.mark = run.mark
    BY <1>1, CheckIs DEF World
  <2>2. acknowledged' = acknowledged /\ unansweredIn' = unansweredIn
    BY <2>1 DEF acknowledged, InRing, unansweredIn
  <2> QED
    BY <1>1, <1>7, <2>1, <2>2 DEF AnswersAgree
<1>11. "response_db_agreement" \in alarms' => doubts' # {}
  <2> SUFFICES ASSUME Doubts = {} PROVE "response_db_agreement" \notin alarms'
    BY <1>1
  <2> DEFINE placements == {placement \in tally.placements : placement.orderId \notin Doubts}
             read == [n \in DOMAIN evidence.rows \ Doubts |-> evidence.rows[n]]
  <2>2. responseDbAgreement(placements, read, run.mark, acknowledged, unansweredIn, tally.cancelled)
    BY <1>7
  <2>3. placements = tally.placements /\ read = evidence.rows
    BY <1>1, <1>4, NothingSetAside
  <2> HIDE DEF placements, read
  <2>1. responseDbAgreement(tally.placements, evidence.rows, run.mark, acknowledged, unansweredIn,
                            tally.cancelled)
    BY <2>2, <2>3, Zenon
  <2> QED
    BY <1>1, <2>1, CheckIs
<1>8. ASSUME "conservation" \in alarms'
      PROVE  \/ mishaps' \cap {"late", "reset", "overlap"} # {}
             \/ Cardinality(FillsOfTheLoop') >= 2
  <2>1. ~ Fresh \/ ~ OneFill
    BY <1>1, <1>3, <1>4, <1>8, CheckIs, BalancesAreCleared
  <2>2. mishaps' = mishaps /\ FillsOfTheLoop' = FillsOfTheLoop
    BY <1>1 DEF World, FillsOfTheLoop
  <2> QED
    BY <1>1, <2>1, <2>2, FreshIs, TwoFills
<1>9. alarms' \subseteq {"conservation", "response_db_agreement"}
  BY <1>1, <1>5, <1>6, CheckIs
<1> QED
  BY <1>8, <1>9, <1>10, <1>11

LEMMA VerdictFindsFaults ==
  ASSUME LoadInv, check
  PROVE  FaultsAreFound'
<1>1. /\ Formed /\ RunOK /\ RowsOK /\ RingOK /\ TallyOK /\ EvidenceOK /\ FaultsOK
      /\ run.phase = "judging" /\ run.phase \in Read /\ UNCHANGED World
      /\ UNCHANGED <<evidence, store, losses>>
  BY CheckIs DEF LoadInv, LoadSimOK, Read
<1>2. faults' = faults /\ losses' = losses /\ tally' = tally /\ rows' = rows
  BY <1>1 DEF World
<1>3. /\ IsBook(evidence.rows)
      /\ \A n \in DOMAIN evidence.rows : n \in DOMAIN rows /\ evidence.rows[n] = rows[n]
  BY <1>1, ReadIs
<1>4. rows \in Seq(Rows) /\ DOMAIN rows = 1 .. Len(rows)
  BY <1>1 DEF RowsOK
<1>5. ASSUME faults = {"overspend"} PROVE alarms' \cap {"no_overdraft", "no_oversell"} # {}
  <2>1. PICK n \in DOMAIN rows : Seen(n) /\ Overspent(n)
    BY <1>1, <1>5 DEF FaultsOK
  <2>2. n \in DOMAIN evidence.rows
    BY <1>1, <2>1 DEF Seen
  <2>3. PICK last \in 0 .. Len(rows) : run.mark \in 0 .. last /\ evidence.rows = Excerpt(rows, last, runUsers)
    BY <1>1, ReadIs
  <2>4. /\ noOverdraft(evidence.rows) <=>
             \A m \in DOMAIN evidence.rows : cashFold(rows, Upto(OwnedBy(rows, rows[m].userId), m)) >= 0
        /\ noOversell(evidence.rows, run.mark) <=>
             \A m \in DOMAIN evidence.rows :
               LET u == rows[m].userId  i == rows[m].instrumentId IN
               m > run.mark => HoldsUp(rows, u, i, run.mark, shareFold(rows, Upto(Position(rows, u, i), m)))
    BY <1>4, <2>3, StatementsOfExcerpt
  <2>5. \A m \in DOMAIN rows : cashFold(rows, Upto(OwnedBy(rows, rows[m].userId), m)) \in Int
    <3> TAKE m \in DOMAIN rows
    <3>1. IsBook(rows) /\ Upto(OwnedBy(rows, rows[m].userId), m) \in SUBSET DOMAIN rows
      BY <1>4, BookIs DEF Upto, OwnedBy
    <3> QED
      BY <3>1, FoldsAreInts
  <2>6. ~ noOverdraft(evidence.rows) \/ ~ noOversell(evidence.rows, run.mark)
    BY <2>1, <2>2, <2>4, <2>5 DEF Overspent
  <2> QED
    BY <1>1, <2>6, CheckIs
<1>6. ASSUME faults = {"invent"}, losses = 0, tally.pending = {}
      PROVE  "response_db_agreement" \in alarms'
  <2>1. PICK n \in DOMAIN rows : Seen(n) /\ n > run.mark /\ rows[n].call = Null
    BY <1>1, <1>6 DEF FaultsOK
  <2>2. n \in DOMAIN evidence.rows
    BY <1>1, <2>1 DEF Seen
  <2>3. n \notin acknowledged
    <3>1. n # 0 /\ n # Null
      BY <1>4, <2>1, LoadAssumption
    <3>2. ~ Answerable(n)
      BY <2>1, <3>1 DEF Answerable
    <3> QED
      BY <1>1, <3>2 DEF acknowledged, InRing, RingOK, TallyOK
  <2> DEFINE S == Unmatched(evidence.rows, run.mark, acknowledged)
  <2>4. n \in S
    BY <2>1, <2>2, <2>3 DEF Unmatched
  <2>5. IsFiniteSet(S)
    <3>1. S \subseteq DOMAIN evidence.rows
      BY DEF Unmatched
    <3> QED
      BY <1>3, <3>1, FS_Subset DEF IsBook
  <2>6. Cardinality(S) \in Nat /\ Cardinality(S) # 0
    BY <2>4, <2>5, FS_CardinalityType, FS_EmptySet
  <2>7. unansweredIn = 0
    BY <1>1, <1>6, UnansweredIs
  <2>8. ~ (Cardinality(S) <= unansweredIn)
    BY <2>6, <2>7
  <2>9. ~ responseDbAgreement(tally.placements, evidence.rows, run.mark, acknowledged,
                              unansweredIn, tally.cancelled)
    BY <2>8 DEF responseDbAgreement
  <2> QED
    BY <1>1, <2>9, CheckIs
<1>7. ASSUME NEW p \in tally.placements, p.orderId = 0 PROVE "response_db_agreement" \in alarms'
  <2>1. p.orderId \notin DOMAIN evidence.rows
    BY <1>3, <1>4, <1>7
  <2>2. ~ responseDbAgreement(tally.placements, evidence.rows, run.mark, acknowledged,
                              unansweredIn, tally.cancelled)
    BY <2>1 DEF responseDbAgreement
  <2> QED
    BY <1>1, <2>2, CheckIs
<1>8. ASSUME NEW id \in tally.cancelled, rows[id].status = "FILLED" PROVE "cancel_safety" \in alarms'
  <2>1. ~ cancelSafety(evidence.rows, tally.cancelled)
    BY <1>3, <1>8 DEF cancelSafety
  <2> QED
    BY <1>1, <2>1, CheckIs
<1>9. losses \in Nat
  BY <1>1 DEF TallyOK
<1> QED
  BY <1>2, <1>5, <1>6, <1>7, <1>8, <1>9 DEF FaultsAreFound

(***************************************************************************)
(* A verdict is reached in one step, and nothing happens after it.         *)
(***************************************************************************)
LEMMA NothingAfterwards ==
  ASSUME RunOK, [LoadNext]_loadVars, Judged
  PROVE  UNCHANGED loadVars
<1>1. run.phase = "judged" /\ ~ Idle /\ ~ Firing
  BY DEF Judged, Idle, RunOK, Firing
<1>2. ASSUME NEW s \in Slots PROVE ~ overspend(s) /\ ~ forget(s)
  BY <1>1 DEF overspend, forget, Misbehaves
<1>3. ASSUME NEW order \in Menu PROVE ~ invent(order)
  BY <1>1 DEF invent, Misbehaves
<1>4. ASSUME NEW cancel \in cancelling PROVE ~ miscancel(cancel)
  BY <1>1 DEF miscancel, Misbehaves
<1> QED
  BY <1>1, <1>2, <1>3, <1>4
     DEF LoadNext, start, StartLoop, highWaterMark, prepare, NextWave, fire, tick, execute, shed, answer,
         loseAnswer, executeCancel, answerCancel, loseCancel, portfolioRead, waitForQuiesce,
         readCash, readLedger, check, fail

LEMMA Verdict ==
  ASSUME Formed, RunOK, [LoadNext]_loadVars, Judged', ~ Judged
  PROVE  check
<1>1. RunFormed
  BY DEF Formed
<1>2. run' # run /\ run'.phase = "judged"
  BY DEF Judged
<1>3. ~ NextWave
  BY <1>1, <1>2 DEF NextWave, RunFormed, Judged, Idle
<1>4. ASSUME NEW index \in Own PROVE ~ fire(index)
  BY <1>1, <1>2, FiringIs DEF RunFormed
<1>5. ~ waitForQuiesce /\ ~ readLedger /\ ~ fail /\ ~ highWaterMark /\ ~ prepare
  BY <1>1, <1>2 DEF waitForQuiesce, readLedger, fail, highWaterMark, prepare, Phase, RunFormed
<1>6. ASSUME NEW u \in Users PROVE ~ readCash(u)
  BY <1>1, <1>2 DEF readCash, RunFormed, AfterCash
<1>7. ASSUME NEW profile PROVE ~ start(profile)
  BY <1>2 DEF start, NoRun
<1> QED
  BY <1>2, <1>3, <1>4, <1>5, <1>6, <1>7
     DEF LoadNext, loadVars, runner, StartLoop, tick, execute, shed, answer, loseAnswer,
     executeCancel, answerCancel, loseCancel, portfolioRead, overspend, forget, Misserve, invent, miscancel

LEMMA VerdictsStand ==
  ASSUME LoadInv, [LoadNext]_loadVars
  PROVE  NobodyIsWronglyAccused' /\ FaultsAreFound'
<1>1. Formed /\ RunOK /\ NobodyIsWronglyAccused /\ FaultsAreFound
  BY DEF LoadInv
<1>2. CASE ~ Judged'
  BY <1>2 DEF NobodyIsWronglyAccused, FaultsAreFound
<1>3. ASSUME Judged', ~ Judged PROVE NobodyIsWronglyAccused' /\ FaultsAreFound'
  BY <1>1, <1>3, Verdict, VerdictIsFair, VerdictFindsFaults
<1>4. ASSUME Judged PROVE NobodyIsWronglyAccused' /\ FaultsAreFound'
  <2>1. UNCHANGED loadVars
    BY <1>1, <1>4, NothingAfterwards
  <2>2. NobodyIsWronglyAccused'
    BY <1>1, <2>1
       DEF NobodyIsWronglyAccused, AnswersAgree, acknowledged, InRing, unansweredIn, Judged,
           FillsOfTheLoop, loadVars, vars, history, runner
  <2>3. FaultsAreFound'
    BY <1>1, <2>1 DEF FaultsAreFound, Judged, loadVars, vars, calls, history, runner
  <2> QED
    BY <2>2, <2>3
<1> QED
  BY <1>2, <1>3, <1>4

-----------------------------------------------------------------------------
(***************************************************************************)
(* How a run begins.                                                       *)
(***************************************************************************)
LEMMA NoLevelIsUnderNothing ==
  ASSUME NEW b \in Seq(Rows), noOverdraft(b), NEW u, NEW n \in 0 .. Len(b)
  PROVE  cashFold(b, Upto(OwnedBy(b, u), n)) >= 0
<1> DEFINE T == {m \in Nat : m <= Len(b) => cashFold(b, Upto(OwnedBy(b, u), m)) >= 0}
<1>1. DOMAIN b = 1 .. Len(b) /\ Len(b) \in Nat
  BY BookIs
<1>2. 0 \in T
  <2>1. Upto(OwnedBy(b, u), 0) = {}
    BY <1>1 DEF Upto, OwnedBy
  <2>2. cashFold(b, Upto(OwnedBy(b, u), 0)) = 0
    BY <2>1, FoldsOfNone
  <2> QED
    BY <2>2
<1>3. ASSUME NEW m \in T PROVE m + 1 \in T
  <2> SUFFICES ASSUME m + 1 <= Len(b) PROVE cashFold(b, Upto(OwnedBy(b, u), m + 1)) >= 0
    OBVIOUS
  <2>1. m \in Nat /\ m + 1 \in DOMAIN b /\ cashFold(b, Upto(OwnedBy(b, u), m)) >= 0
    BY <1>1
  <2>2. CASE b[m + 1].userId = u
    BY <2>1, <2>2 DEF noOverdraft
  <2>3. CASE b[m + 1].userId # u
    <3>1. Upto(OwnedBy(b, u), m + 1) = Upto(OwnedBy(b, u), m)
      <4>1. \A k \in OwnedBy(b, u) : k \in Nat /\ k # m + 1
        BY <1>1, <2>3 DEF OwnedBy
      <4>2. \A k \in OwnedBy(b, u) : k <= m + 1 <=> k <= m
        BY <2>1, <4>1
      <4> QED
        BY <4>2 DEF Upto
    <3> QED
      BY <2>1, <3>1
  <2> QED
    BY <2>2, <2>3
<1>4. T \in SUBSET Nat
  OBVIOUS
<1> HIDE DEF T
<1>5. T = Nat
  BY <1>2, <1>3, <1>4, SetInduction
<1>6. n \in T /\ n <= Len(b)
  BY <1>1, <1>5
<1> QED
  BY <1>6 DEF T

LEMMA InitRun ==
  ASSUME LoadInit
  PROVE  /\ SimInv /\ SimTypes /\ filled = {} /\ losses = 0 /\ faults = {}
         /\ run.phase = "idle" /\ run.mark = 0 /\ run.wave = {}
         /\ \A s \in Slots : at[s] = "unsent"
         /\ rows \in Seq(Rows) /\ rows = SeedRows /\ Len(rows) \in Nat
         /\ \A n \in DOMAIN rows : rows[n].call = Null
BY InitSimInv, InitTypes, SeedAssumption DEF LoadInit, Init, NoRun

LEMMA InitFormed ==
  ASSUME LoadInit
  PROVE  Formed
BY DEF LoadInit, NoRun, NoTally, NoEvidence, emptyStore, Formed, RunFormed, TallyFormed,
       EvidenceFormed, StoreFormed, CancelsFormed

LEMMA InitTally ==
  ASSUME LoadInit
  PROVE  RingOK /\ TallyOK
<1>1. LostOwn = {}
  BY InitRun, LoadAssumption DEF LostOwn
<1>2. /\ tally.pending = {} /\ tally.sent = 0 /\ tally.resting = <<>> /\ tally.placements = {}
      /\ tally.byStatus = [s \in Statuses |-> 0]
      /\ store.buffer = <<>> /\ store.cursor = 0 /\ store.nextId = 1
  BY DEF LoadInit, NoTally, emptyStore, Statuses
<1>3. Quiet = {}
  BY <1>2 DEF Quiet
<1>4. IsFiniteSet({}) /\ Cardinality({}) = 0
  BY FS_EmptySet
<1>5. tally.byStatus \in [Statuses -> Nat] /\ \A s \in Statuses : tally.byStatus[s] = 0
  BY <1>2
<1>6. RingOK
  BY <1>2, CapacityAssumption, InitRun DEF RingOK
<1>7. TallyOK
  BY <1>1, <1>2, <1>3, <1>4, <1>5, InitRun DEF TallyOK, Statuses
<1> QED
  BY <1>6, <1>7

LEMMA InitLevels ==
  ASSUME LoadInit
  PROVE  Conserved /\ LevelsOK
<1>1. portfolio = Opening /\ rows = SeedRows /\ rows \in Seq(Rows) /\ Len(rows) \in Nat
  BY InitRun DEF LoadInit, Init
<1>2. Conserved
  BY <1>1, SeedAssumption DEF Conserved
<1>3. ASSUME NEW u \in Users PROVE portfolio[u].cash >= 0
  <2>1. portfolio[u].cash = cashFold(rows, OwnedBy(rows, u))
    BY <1>2 DEF Conserved
  <2>2. Upto(OwnedBy(rows, u), Len(rows)) = OwnedBy(rows, u)
    BY <1>1, LastLevel
  <2>3. noOverdraft(rows) /\ Len(rows) \in 0 .. Len(rows)
    BY <1>1, SeedAssumption
  <2>4. cashFold(rows, Upto(OwnedBy(rows, u), Len(rows))) >= 0
    BY <1>1, <2>3, NoLevelIsUnderNothing
  <2> QED
    BY <2>1, <2>2, <2>4
<1>4. noOverdraft(rows) /\ run.phase = "idle"
  BY <1>1, InitRun, SeedAssumption
<1> QED
  BY <1>2, <1>3, <1>4 DEF LevelsOK, Marked

LEMMA InitLoadInv == LoadInit => LoadInv
<1> SUFFICES ASSUME LoadInit PROVE LoadInv
  OBVIOUS
<1>1. LoadSimOK
  BY InitRun, FS_EmptySet DEF LoadSimOK
<1>2. cancelling = {} /\ tally.placements = {} /\ tally.resting = <<>> /\ tally.cancelled = {}
  BY DEF LoadInit, NoTally
<1>3. evidence.rows = <<>> /\ DOMAIN evidence.first = {} /\ DOMAIN evidence.second = {}
  BY DEF LoadInit, NoEvidence, NoCash
<1>4. RunOK
  BY <1>2, InitRun, LoadAssumption DEF RunOK, Phases, Over, Checking, Prepared, Marked
<1>5. OwnOK
  BY InitRun, LoadAssumption DEF OwnOK, InFlight
<1>6. RowsOK
  BY InitRun DEF RowsOK, RowOK
<1>7. EvidenceOK /\ ReadingsOK
  BY <1>3, InitRun DEF EvidenceOK, ReadingsOK, Checking, Read
<1>8. FaultsOK
  BY InitRun DEF FaultsOK
<1>9. AnswersOK
  BY <1>2, InitRun DEF AnswersOK
<1>10. Witnessed
  BY InitRun DEF Witnessed, Marked, Read
<1>12. Traced
  BY DEF Traced, LoadInit, emptyStore
<1>11. NobodyIsWronglyAccused /\ FaultsAreFound
  BY InitRun DEF NobodyIsWronglyAccused, FaultsAreFound, Judged
<1> QED
  BY <1>1, <1>4, <1>5, <1>6, <1>7, <1>8, <1>9, <1>10, <1>11, <1>12, InitFormed, InitTally, InitLevels
     DEF LoadInv

-----------------------------------------------------------------------------
(***************************************************************************)
(* What a run goes through.                                                *)
(***************************************************************************)
LEMMA NextLoadInv == LoadInv /\ [LoadNext]_loadVars => LoadInv'
<1> SUFFICES ASSUME LoadInv, [LoadNext]_loadVars PROVE LoadInv'
  OBVIOUS
<1>1. /\ LoadSimOK /\ Formed /\ RunOK /\ OwnOK /\ Conserved /\ RowsOK /\ RingOK /\ TallyOK
      /\ EvidenceOK /\ FaultsOK /\ Traced
      /\ SimTypes /\ rows \in Seq(Rows) /\ losses \in Nat /\ tally.resting \in Seq(Nat)
  BY DEF LoadInv, LoadSimOK, RowsOK, TallyOK
<1>2. LoadSimOK'
  BY <1>1, SimOK
<1>3. Formed' /\ RunOK' /\ OwnOK'
  BY <1>1, FormedStays, RunOKStays, OwnOKStays
<1>4. Conserved' /\ RowsOK'
  BY <1>1, ConservedStays, RowsOKStays
<1>5. RingOK' /\ TallyOK' /\ Traced'
  BY <1>1, RingOKStays, TallyOKStays, TracedStays
<1>6. EvidenceOK' /\ FaultsOK'
  BY <1>1, <1>4, EvidenceOKStays, FaultsOKStays
<1>7. ASSUME faults' = {} PROVE AnswersOK' /\ LevelsOK' /\ ReadingsOK' /\ Witnessed'
  <2>1. faults = {}
    BY <1>1, <1>7, Serving
  <2>2. SimInv /\ AnswersOK /\ LevelsOK /\ ReadingsOK /\ Witnessed
    BY <2>1 DEF LoadInv, LoadSimOK
  <2>3. AnswersOK' /\ LevelsOK'
    BY <1>1, <1>4, <1>7, <2>2, AnswersOKStays, LevelsOKStays
  <2>4. ReadingsOK' /\ Witnessed'
    BY <1>1, <1>7, <2>2, ReadingsOKStays, WitnessedStays
  <2> QED
    BY <2>3, <2>4
<1>8. NobodyIsWronglyAccused' /\ FaultsAreFound'
  BY VerdictsStand
<1> QED
  BY <1>2, <1>3, <1>4, <1>5, <1>6, <1>7, <1>8 DEF LoadInv

LEMMA LoadInvHolds == LoadSpec => []LoadInv
BY InitLoadInv, NextLoadInv, PTL DEF LoadSpec

LEMMA LoadTypesSuffice == LoadInv => LoadTypeOK
<1> SUFFICES ASSUME LoadInv PROVE LoadTypeOK
  OBVIOUS
<1>1. /\ RunOK /\ RowsOK /\ RingOK /\ TallyOK /\ EvidenceOK /\ Conserved
  BY DEF LoadInv
<1>2. DOMAIN evidence.rows \subseteq DOMAIN rows
  <2>1. CASE run.phase \in Read
    BY <1>1, <2>1, ReadIs
  <2>2. CASE run.phase \notin Read
    <3>1. evidence.rows = <<>>
      BY <1>1, <2>2 DEF EvidenceOK
    <3> QED
      BY <3>1
  <2> QED
    BY <2>1, <2>2
<1>3. run.phase \in Phases /\ Len(store.buffer) <= ATTEMPTS_CAPACITY
  BY <1>1 DEF RunOK, RingOK
<1>4. /\ \A u \in Users : portfolio[u].cash = cashFold(rows, OwnedBy(rows, u))
      /\ tally.sent = Cardinality(tally.pending) + tally.byStatus["ok"] + tally.byStatus["refused"]
                       + tally.byStatus["shed"] + tally.byStatus["none"]
  BY <1>1 DEF Conserved, TallyOK
<1> QED
  BY <1>2, <1>3, <1>4 DEF LoadTypeOK, Phases

(* A load run counts every call it made, once, however often the ring of   *)
(* attempts has turned between two folds (LoadService's fold); the ring    *)
(* keeps its capacity; what the run has read of the orders are orders      *)
(* there are; and the balances the API shows are the fold of the rows, a   *)
(* target that misbehaves included.                                        *)
THEOREM EveryCallIsCountedOnce == LoadSpec => []LoadTypeOK
BY LoadInvHolds, LoadTypesSuffice, PTL

(* LoadService's verdict blames nobody for what did not happen: with a     *)
(* target that does its job, noOverdraft, noOversell and cancelSafety hold *)
(* of the rows that check() read; answers agree with them, those set aside *)
(* of which the evidence cannot tell, so that unansweredIn allows for each *)
(* order that was lost and that the ring still shows; and balances are     *)
(* wrong only through what spoils a shadow, or through fills of the loop   *)
(* between two readings.                                                   *)
THEOREM TheVerdictIsFair == LoadSpec => []NobodyIsWronglyAccused
<1>1. LoadInv => NobodyIsWronglyAccused
  BY DEF LoadInv
<1> QED
  BY <1>1, LoadInvHolds, PTL

(* A target that overspends, oversells, stores what nobody sent, answers   *)
(* for what it does not store, or fills what it says it cancelled is found *)
(* by the run it did it to, unless the answer that would show it was lost  *)
(* or never folded (check() in load.service.ts, invariants.ts).            *)
THEOREM FaultsShowInTheVerdict == LoadSpec => []FaultsAreFound
<1>1. LoadInv => FaultsAreFound
  BY DEF LoadInv
<1> QED
  BY <1>1, LoadInvHolds, PTL

=============================================================================
