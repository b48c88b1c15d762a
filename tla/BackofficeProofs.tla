--------------------------- MODULE BackofficeProofs ---------------------------
(***************************************************************************)
(* The ring of attempts and the back office that reads it are correct for  *)
(* any capacity, any calls and any callers of sweep().                     *)
(***************************************************************************)
EXTENDS Backoffice, WellFoundedInduction, TLAPS

-----------------------------------------------------------------------------
(***************************************************************************)
(* The ring.  It has the latest rows, each in its slot.                    *)
(***************************************************************************)
Attempts ==
  [ id : Nat, call : Calls \cup {Null}, try : {0, 1, 2}, at : Nat, latency : Nat,
    status : {"ok", "shed", "none"}, loaded : BOOLEAN, orderId : Calls \cup {Null},
    retryOf : Nat \cup {Null}, retriedBy : Nat \cup {Null} ]

InRing(st) == {id \in 1 .. st.nextId - 1 : st.nextId <= id + ATTEMPTS_CAPACITY}

RowAt(st, id) == st.buffer[Slot(id)]

IsRing(st) ==
  /\ st = [buffer |-> st.buffer, cursor |-> st.cursor, nextId |-> st.nextId]
  /\ st.nextId \in Nat \ {0}
  /\ st.buffer \in [DOMAIN st.buffer -> Attempts]
  /\ DOMAIN st.buffer = 1 .. (IF st.nextId <= ATTEMPTS_CAPACITY THEN st.nextId - 1
                              ELSE ATTEMPTS_CAPACITY)
  /\ st.cursor = (st.nextId - 1) % ATTEMPTS_CAPACITY
  /\ \A i \in DOMAIN st.buffer : st.buffer[i].id \in InRing(st) /\ Slot(st.buffer[i].id) = i
  /\ \A id \in InRing(st) : Slot(id) \in DOMAIN st.buffer /\ RowAt(st, id).id = id

LEMMA DivMod ==
  ASSUME NEW d \in Nat \ {0}, NEW n \in Nat
  PROVE  /\ n % d \in 0 .. d - 1
         /\ n \div d \in Nat
         /\ n = (n \div d) * d + (n % d)
<1>1. n % d \in 0 .. d - 1
  OBVIOUS
<1>2. n = (n \div d) * d + (n % d)
  BY Z3
<1>3. n \div d \in Nat
  OBVIOUS
<1> QED
  BY <1>1, <1>2, <1>3

LEMMA ModIs ==
  ASSUME NEW d \in Nat \ {0}, NEW q \in Nat, NEW r \in 0 .. d - 1
  PROVE  ((q * d) + r) % d = r
<1>1. PICK n \in Nat : n = (q * d) + r
  OBVIOUS
<1>2. n % d = r
  BY <1>1
<1> QED
  BY <1>1, <1>2

LEMMA SmallMod ==
  ASSUME NEW d \in Nat \ {0}, NEW n \in 0 .. d - 1
  PROVE  n % d = n
OBVIOUS

(* One more, and one round more.                                           *)
LEMMA ModOfOneMore ==
  ASSUME NEW d \in Nat \ {0}, NEW n \in Nat
  PROVE  (n + 1) % d = ((n % d) + 1) % d
<1>1. PICK q \in Nat, r \in 0 .. d - 1 : n = (q * d) + r /\ r = n % d
  BY DivMod
<1>2. CASE r + 1 < d
  <2>1. ((q * d) + (r + 1)) % d = r + 1
    BY <1>2, ModIs
  <2>2. n + 1 = (q * d) + (r + 1)
    BY <1>1
  <2>3. (n + 1) % d = r + 1
    BY <2>1, <2>2, Zenon
  <2>4. (r + 1) % d = r + 1
    BY <1>2, SmallMod
  <2> QED
    BY <1>1, <2>3, <2>4, Zenon
<1>3. CASE r + 1 = d
  <2>1. n + 1 = ((q + 1) * d) + 0
    <3>1. (q + 1) * d = (q * d) + d /\ q * d \in Int
      OBVIOUS
    <3>2. n = (q * d) + r /\ r \in Int /\ r + 1 = d
      BY <1>1, <1>3
    <3> DEFINE p == q * d
    <3>3. (q + 1) * d = p + d /\ n = p + r /\ p \in Int
      BY <3>1, <3>2
    <3> HIDE DEF p
    <3>4. n + 1 = p + d
      BY <3>2, <3>3
    <3> QED
      BY <3>3, <3>4
  <2>2. (((q + 1) * d) + 0) % d = 0
    BY ModIs
  <2>3. d % d = 0
    <3>1. ((1 * d) + 0) % d = 0
      BY ModIs
    <3> QED
      BY <3>1
  <2> QED
    BY <1>1, <1>3, <2>1, <2>2, <2>3, Zenon
<1> QED
  BY <1>2, <1>3

LEMMA ModOfARoundMore ==
  ASSUME NEW d \in Nat \ {0}, NEW n \in Nat
  PROVE  (n + d) % d = n % d
<1>1. PICK q \in Nat, r \in 0 .. d - 1 : n = (q * d) + r /\ r = n % d
  BY DivMod
<1>2. n + d = ((q + 1) * d) + r
  BY <1>1
<1>3. (((q + 1) * d) + r) % d = r
  BY ModIs
<1> QED
  BY <1>1, <1>2, <1>3, Zenon

(* Within a round no two have the same remainder.                          *)
LEMMA ModDiffers ==
  ASSUME NEW d \in Nat \ {0}, NEW a \in Nat, NEW b \in Nat, a < b, b < a + d
  PROVE  a % d # b % d
<1> SUFFICES ASSUME a % d = b % d PROVE FALSE
  OBVIOUS
<1>1. PICK p \in Nat, r \in 0 .. d - 1 : a = (p * d) + r /\ r = a % d
  BY DivMod
<1>2. PICK q \in Nat : b = (q * d) + r
  BY <1>1, DivMod
<1>3. PICK k \in Int : k = q - p
  OBVIOUS
<1>4. b - a = k * d
  BY <1>1, <1>2, <1>3
<1>5. CASE k >= 1
  <2>1. k * d >= d
    BY <1>5
  <2> QED
    BY <1>4, <2>1
<1>6. CASE k <= 0
  <2>1. k * d <= 0
    BY <1>6
  <2> QED
    BY <1>4, <2>1
<1> QED
  BY <1>5, <1>6

LEMMA SlotIs ==
  ASSUME NEW id \in Nat \ {0}
  PROVE  /\ Slot(id) \in 1 .. ATTEMPTS_CAPACITY
         /\ id <= ATTEMPTS_CAPACITY => Slot(id) = id
         /\ Slot(id + ATTEMPTS_CAPACITY) = Slot(id)
<1>1. ATTEMPTS_CAPACITY \in Nat \ {0} /\ id - 1 \in Nat
  BY CapacityAssumption
<1>2. (id - 1) % ATTEMPTS_CAPACITY \in 0 .. ATTEMPTS_CAPACITY - 1
  BY <1>1, DivMod
<1>3. id <= ATTEMPTS_CAPACITY => (id - 1) % ATTEMPTS_CAPACITY = id - 1
  BY <1>1, SmallMod
<1>4. ((id - 1) + ATTEMPTS_CAPACITY) % ATTEMPTS_CAPACITY = (id - 1) % ATTEMPTS_CAPACITY
  BY <1>1, ModOfARoundMore
<1>5. (id + ATTEMPTS_CAPACITY) - 1 = (id - 1) + ATTEMPTS_CAPACITY
  BY <1>1
<1> QED
  BY <1>1, <1>2, <1>3, <1>4, <1>5 DEF Slot

LEMMA SlotsDiffer ==
  ASSUME NEW a \in Nat \ {0}, NEW b \in Nat \ {0}, a < b, b < a + ATTEMPTS_CAPACITY
  PROVE  Slot(a) # Slot(b)
<1>1. (a - 1) % ATTEMPTS_CAPACITY # (b - 1) % ATTEMPTS_CAPACITY
  <2>1. PICK x \in Nat, y \in Nat : x = a - 1 /\ y = b - 1
    OBVIOUS
  <2>2. x < y /\ y < x + ATTEMPTS_CAPACITY
    BY <2>1, CapacityAssumption
  <2>3. x % ATTEMPTS_CAPACITY # y % ATTEMPTS_CAPACITY
    BY <2>2, CapacityAssumption, ModDiffers
  <2> QED
    BY <2>1, <2>3, Zenon
<1>2. /\ (a - 1) % ATTEMPTS_CAPACITY \in Int
      /\ (b - 1) % ATTEMPTS_CAPACITY \in Int
  BY CapacityAssumption, DivMod
<1> QED
  BY <1>1, <1>2 DEF Slot

LEMMA EmptyIsRing == IsRing(emptyStore) /\ InRing(emptyStore) = {}
<1>1. 0 % ATTEMPTS_CAPACITY = 0 /\ ATTEMPTS_CAPACITY \in Nat \ {0}
  BY CapacityAssumption, SmallMod
<1>2. InRing(emptyStore) = {}
  BY DEF InRing, emptyStore
<1> QED
  BY <1>1, <1>2 DEF IsRing, InRing, emptyStore

(* A row is recorded, over the one a round before.                         *)
LEMMA RecordIs ==
  ASSUME NEW st, IsRing(st), NEW attempt \in Attempts
  PROVE  /\ IsRing(record(st, attempt))
         /\ record(st, attempt).nextId = st.nextId + 1
         /\ InRing(record(st, attempt)) \subseteq InRing(st) \cup {st.nextId}
         /\ st.nextId \in InRing(record(st, attempt))
         /\ RowAt(record(st, attempt), st.nextId) = [attempt EXCEPT !.id = st.nextId]
         /\ \A id \in InRing(record(st, attempt)) \ {st.nextId} :
              RowAt(record(st, attempt), id) = RowAt(st, id)
<1> DEFINE n == st.nextId
           C == ATTEMPTS_CAPACITY
           row == [attempt EXCEPT !.id = n]
           at_ == Slot(n)
           after == record(st, attempt)
<1>1. /\ n \in Nat \ {0} /\ C \in Nat \ {0} /\ at_ \in 1 .. C
      /\ n <= C => at_ = n
      /\ st.cursor + 1 = at_
  <2>1. n \in Nat \ {0} /\ C \in Nat \ {0} /\ st.cursor = (n - 1) % C
    BY CapacityAssumption DEF IsRing
  <2>2. (n - 1) % C \in Int
    BY <2>1, DivMod
  <2>3. at_ \in 1 .. C /\ (n <= C => at_ = n)
    BY <2>1, SlotIs
  <2>4. at_ = 1 + ((n - 1) % C)
    BY DEF Slot
  <2> HIDE DEF at_
  <2> QED
    BY <2>1, <2>2, <2>3, <2>4
<1>2. row \in Attempts /\ row.id = n
  BY <1>1 DEF Attempts
<1>3. DOMAIN st.buffer = 1 .. (IF n <= C THEN n - 1 ELSE C)
  BY DEF IsRing
<1>4. st.buffer \in Seq(Attempts) /\ Len(st.buffer) = IF n <= C THEN n - 1 ELSE C
  <2>1. \E k \in Nat : k = (IF n <= C THEN n - 1 ELSE C) /\ st.buffer \in [1 .. k -> Attempts]
    BY <1>1, <1>3 DEF IsRing
  <2> QED
    BY <2>1
<1>5. /\ after.nextId = n + 1
      /\ after = [buffer |-> after.buffer, cursor |-> after.cursor, nextId |-> after.nextId]
      /\ after.cursor = (st.cursor + 1) % C
      /\ after.buffer = IF Len(st.buffer) < C THEN Append(st.buffer, row)
                        ELSE [st.buffer EXCEPT ![st.cursor + 1] = row]
  BY DEF record
<1> HIDE DEF row, after
<1>6. /\ DOMAIN after.buffer = 1 .. (IF n + 1 <= C THEN n ELSE C)
      /\ after.buffer \in [DOMAIN after.buffer -> Attempts]
      /\ at_ \in DOMAIN after.buffer /\ after.buffer[at_] = row
      /\ \A i \in DOMAIN after.buffer \ {at_} :
           i \in DOMAIN st.buffer /\ after.buffer[i] = st.buffer[i]
  <2>1. CASE n <= C
    <3>1. Len(st.buffer) = n - 1 /\ at_ = n /\ after.buffer = Append(st.buffer, row)
      BY <1>1, <1>4, <1>5, <2>1
    <3> HIDE DEF at_
    <3>2. /\ Append(st.buffer, row) \in Seq(Attempts)
          /\ DOMAIN Append(st.buffer, row) = 1 .. n
          /\ Append(st.buffer, row)[n] = row
          /\ \A i \in 1 .. n - 1 : Append(st.buffer, row)[i] = st.buffer[i]
      BY <1>1, <1>2, <1>4, <3>1
    <3>3. (1 .. n) = 1 .. (IF n + 1 <= C THEN n ELSE C)
      BY <1>1, <2>1
    <3>4. after.buffer \in [DOMAIN after.buffer -> Attempts]
      <4>1. \A s \in Seq(Attempts) : s \in [DOMAIN s -> Attempts]
        OBVIOUS
      <4> QED
        BY <3>1, <3>2, <4>1
    <3> QED
      BY <1>1, <1>3, <2>1, <3>1, <3>2, <3>3, <3>4
  <2>2. CASE n > C
    <3>1. Len(st.buffer) = C /\ after.buffer = [st.buffer EXCEPT ![at_] = row]
      BY <1>1, <1>4, <1>5, <2>2
    <3>2. DOMAIN st.buffer = 1 .. C
      BY <1>1, <1>3, <2>2
    <3> HIDE DEF at_
    <3> QED
      BY <1>1, <1>2, <1>4, <2>2, <3>1, <3>2
  <2> QED
    BY <1>1, <2>1, <2>2
<1>7. after.cursor = (after.nextId - 1) % C
  <2>1. PICK k \in Nat : k = n - 1
    BY <1>1
  <2>2. (k + 1) % C = ((k % C) + 1) % C
    BY <1>1, ModOfOneMore
  <2>3. st.cursor = k % C
    BY <2>1 DEF IsRing
  <2>4. k + 1 = after.nextId - 1
    BY <1>1, <1>5, <2>1
  <2> QED
    BY <1>5, <2>2, <2>3, <2>4, Zenon
<1>8. InRing(after) = {id \in 1 .. n : n + 1 <= id + C}
  BY <1>1, <1>5 DEF InRing
<1>9. /\ InRing(after) \subseteq InRing(st) \cup {n}
      /\ n \in InRing(after)
      /\ \A id \in InRing(st) : id + C # n => id \in InRing(after)
  BY <1>1, <1>8 DEF InRing
<1>10. \A id \in InRing(st) : id \in Nat \ {0} /\ id < n /\ n <= id + C
  BY <1>1 DEF InRing
<1>11. ASSUME NEW id \in InRing(after), id # n
       PROVE  /\ id \in InRing(st) /\ Slot(id) # at_ /\ Slot(id) \in DOMAIN st.buffer
              /\ RowAt(after, id) = RowAt(st, id)
              /\ Slot(id) \in DOMAIN after.buffer
  <2>1. id \in InRing(st) /\ id < n /\ n < id + C /\ id \in Nat \ {0}
    BY <1>1, <1>8, <1>9, <1>10, <1>11
  <2>2. Slot(id) # at_
    BY <1>1, <2>1, SlotsDiffer
  <2>3. Slot(id) \in DOMAIN st.buffer
    BY <2>1 DEF IsRing
  <2>4. Slot(id) \in DOMAIN after.buffer
    BY <1>1, <1>3, <1>6, <2>3
  <2> QED
    BY <1>6, <2>1, <2>2, <2>3, <2>4 DEF RowAt
<1>12. RowAt(after, n) = row
  BY <1>6 DEF RowAt
<1>13. \A id \in InRing(after) : Slot(id) \in DOMAIN after.buffer /\ RowAt(after, id).id = id
  BY <1>2, <1>6, <1>11, <1>12 DEF IsRing
<1>14. ASSUME NEW i \in DOMAIN after.buffer
       PROVE  after.buffer[i].id \in InRing(after) /\ Slot(after.buffer[i].id) = i
  <2>1. CASE i = at_
    BY <1>2, <1>6, <1>9, <2>1
  <2>2. CASE i # at_
    <3>1. i \in DOMAIN st.buffer /\ after.buffer[i] = st.buffer[i]
      BY <1>6, <2>2
    <3>2. PICK id \in InRing(st) : id = st.buffer[i].id /\ Slot(id) = i
      BY <3>1 DEF IsRing
    <3>3. id + C # n
      BY <1>1, <1>10, <2>2, <3>2, SlotIs
    <3> QED
      BY <1>9, <3>1, <3>2, <3>3
  <2> QED
    BY <2>1, <2>2
<1>15. IsRing(after)
  <2>1. DOMAIN after.buffer = 1 .. (IF after.nextId <= C THEN after.nextId - 1 ELSE C)
    BY <1>1, <1>5, <1>6
  <2>2. after.nextId \in Nat \ {0}
    BY <1>1, <1>5
  <2> QED
    BY <1>5, <1>6, <1>7, <1>13, <1>14, <2>1, <2>2 DEF IsRing
<1> QED
  BY <1>5, <1>9, <1>11, <1>12, <1>15 DEF after, row

(* A row of the ring is replaced by one of the same call of its own.       *)
LEMMA ReplaceIs ==
  ASSUME NEW st, IsRing(st), NEW id \in InRing(st), NEW row \in Attempts, row.id = id,
         NEW after, after = [buffer |-> [st.buffer EXCEPT ![Slot(id)] = row],
                             cursor |-> st.cursor, nextId |-> st.nextId]
  PROVE  /\ IsRing(after)
         /\ after.nextId = st.nextId
         /\ InRing(after) = InRing(st)
         /\ RowAt(after, id) = row
         /\ \A other \in InRing(st) : other # id => RowAt(after, other) = RowAt(st, other)
<1>1. after.nextId = st.nextId /\ after.cursor = st.cursor /\ InRing(after) = InRing(st)
  BY DEF InRing
<1>2. /\ Slot(id) \in DOMAIN st.buffer
      /\ after.buffer = [st.buffer EXCEPT ![Slot(id)] = row]
      /\ DOMAIN after.buffer = DOMAIN st.buffer
      /\ after.buffer[Slot(id)] = row
      /\ \A i \in DOMAIN st.buffer : i # Slot(id) => after.buffer[i] = st.buffer[i]
      /\ after.buffer \in [DOMAIN st.buffer -> Attempts]
  BY DEF IsRing
<1>3. ASSUME NEW other \in InRing(st), other # id
      PROVE  /\ Slot(other) \in DOMAIN st.buffer /\ Slot(other) # Slot(id)
             /\ RowAt(after, other) = RowAt(st, other) /\ RowAt(st, other).id = other
  <2>1. /\ Slot(other) \in DOMAIN st.buffer /\ st.buffer[Slot(other)].id = other
        /\ st.buffer[Slot(id)].id = id
    BY DEF IsRing, RowAt
  <2>2. Slot(other) # Slot(id)
    BY <1>3, <2>1
  <2> QED
    BY <1>2, <2>1, <2>2 DEF RowAt
<1>4. RowAt(after, id) = row
  BY <1>2 DEF RowAt
<1>5. \A i \in DOMAIN after.buffer : after.buffer[i].id \in InRing(st) /\ Slot(after.buffer[i].id) = i
  BY <1>2 DEF IsRing
<1>6. \A other \in InRing(st) : Slot(other) \in DOMAIN after.buffer /\ RowAt(after, other).id = other
  BY <1>2, <1>3, <1>4
<1>7. after = [buffer |-> after.buffer, cursor |-> after.cursor, nextId |-> after.nextId]
  BY <1>1, <1>2
<1>8. IsRing(after)
  BY <1>1, <1>2, <1>5, <1>6, <1>7 DEF IsRing
<1> QED
  BY <1>1, <1>3, <1>4, <1>8

(* A row is told something, if the ring still has it.                      *)
LEMMA AnnotateIs ==
  ASSUME NEW st, IsRing(st), NEW id \in Nat \ {0}, NEW field \in {"orderId", "retriedBy"},
         NEW value, field = "orderId" => value \in Calls \cup {Null},
         field = "retriedBy" => value \in Nat
  PROVE  /\ IsRing(annotate(st, id, field, value))
         /\ annotate(st, id, field, value).nextId = st.nextId
         /\ InRing(annotate(st, id, field, value)) = InRing(st)
         /\ id \in InRing(st) =>
              RowAt(annotate(st, id, field, value), id) = [RowAt(st, id) EXCEPT ![field] = value]
         /\ \A other \in InRing(st) :
              other # id => RowAt(annotate(st, id, field, value), other) = RowAt(st, other)
<1>1. CASE id \in InRing(st)
  <2> DEFINE row == [RowAt(st, id) EXCEPT ![field] = value]
  <2>1. RowAt(st, id) \in Attempts /\ RowAt(st, id).id = id /\ Slot(id) \in DOMAIN st.buffer
    BY <1>1 DEF IsRing, RowAt
  <2>2. row \in Attempts /\ row.id = id
    <3> DEFINE old == RowAt(st, id)
    <3> HIDE DEF old
    <3>1. old \in Attempts /\ old.id = id /\ row = [old EXCEPT ![field] = value]
      BY <2>1 DEF old
    <3> HIDE DEF row
    <3>2. CASE field = "orderId"
      BY <3>1, <3>2 DEF Attempts
    <3>3. CASE field = "retriedBy"
      BY <3>1, <3>3 DEF Attempts
    <3> QED
      BY <3>2, <3>3
  <2>3. annotate(st, id, field, value) = [st EXCEPT !.buffer = [st.buffer EXCEPT ![Slot(id)] = row]]
    <3>1. st.buffer[Slot(id)].id = id
      BY <2>1 DEF RowAt
    <3> QED
      BY <2>1, <3>1 DEF annotate, RowAt
  <2>4. annotate(st, id, field, value) =
          [buffer |-> [st.buffer EXCEPT ![Slot(id)] = row], cursor |-> st.cursor,
           nextId |-> st.nextId]
    <3> DEFINE b == [st.buffer EXCEPT ![Slot(id)] = row]
    <3> HIDE DEF b
    <3>1. st = [buffer |-> st.buffer, cursor |-> st.cursor, nextId |-> st.nextId]
      BY DEF IsRing
    <3>2. [st EXCEPT !.buffer = b] = [buffer |-> b, cursor |-> st.cursor, nextId |-> st.nextId]
      BY <3>1
    <3> QED
      BY <2>3, <3>2 DEF b
  <2> HIDE DEF row
  <2>5. /\ IsRing(annotate(st, id, field, value))
        /\ annotate(st, id, field, value).nextId = st.nextId
        /\ InRing(annotate(st, id, field, value)) = InRing(st)
        /\ RowAt(annotate(st, id, field, value), id) = row
        /\ \A other \in InRing(st) :
             other # id => RowAt(annotate(st, id, field, value), other) = RowAt(st, other)
    BY <1>1, <2>2, <2>4, ReplaceIs
  <2> QED
    BY <2>5 DEF row
<1>2. CASE id \notin InRing(st)
  <2>1. ~(Slot(id) \in DOMAIN st.buffer /\ st.buffer[Slot(id)].id = id)
    BY <1>2 DEF IsRing
  <2>2. annotate(st, id, field, value) = st
    BY <2>1 DEF annotate
  <2> QED
    BY <1>2, <2>2
<1> QED
  BY <1>1, <1>2

(* A set of numbers that has a bound has a greatest one.                   *)
LEMMA MaxIs ==
  ASSUME NEW S \in SUBSET Nat, S # {}, NEW bound \in Nat, \A x \in S : x <= bound
  PROVE  Max(S) \in S /\ \A x \in S : x <= Max(S)
<1> DEFINE Bounds == {n \in Nat : \A x \in S : x <= n}
           Less == {pair \in Nat \X Nat : pair[1] < pair[2]}
<1>1. IsWellFoundedOn(Less, Nat)
  BY NatLessThanWellFounded DEF OpToRel
<1>2. Bounds \subseteq Nat /\ Bounds # {}
  OBVIOUS
<1> HIDE DEF Less
<1>3. PICK n \in Bounds : \A m \in Bounds : ~(<<m, n>> \in Less)
  BY <1>1, <1>2, WFMin
<1>4. n \in S
  <2> SUFFICES ASSUME n \notin S PROVE FALSE
    OBVIOUS
  <2>1. n \in Nat /\ \A x \in S : x \in Nat /\ x <= n /\ x # n
    BY <1>3
  <2>2. n # 0 /\ n - 1 \in Nat /\ \A x \in S : x <= n - 1
    <3>1. PICK y \in S : y \in Nat /\ y <= n /\ y # n
      BY <2>1
    <3>2. n # 0 /\ n - 1 \in Nat
      BY <2>1, <3>1
    <3>3. ASSUME NEW x \in S PROVE x <= n - 1
      <4>1. x \in Nat /\ x <= n /\ x # n
        BY <2>1
      <4> QED
        BY <2>1, <4>1
    <3> QED
      BY <3>2, <3>3
  <2>3. n - 1 \in Bounds /\ <<n - 1, n>> \in Less
    BY <2>1, <2>2 DEF Less
  <2> QED
    BY <1>3, <2>3
<1>5. \E x \in S : \A y \in S : x >= y
  BY <1>3, <1>4
<1>6. Max(S) \in S /\ \A y \in S : Max(S) >= y
  <2> DEFINE P(x) == x \in S /\ \A y \in S : x >= y
  <2>1. \E x : P(x)
    BY <1>5
  <2>2. P(CHOOSE x : P(x))
    BY <2>1, Zenon
  <2>3. Max(S) = CHOOSE x : P(x)
    BY DEF Max
  <2> QED
    BY <2>2, <2>3, Zenon
<1> QED
  BY <1>6

LEMMA MinOfTwo ==
  ASSUME NEW a \in Nat, NEW b \in Nat, b <= a
  PROVE  Min({a, b}) = b
<1>1. \A x \in {a, b} : (\A y \in {a, b} : x =< y) => x = b
  OBVIOUS
<1>2. b \in {a, b} /\ \A y \in {a, b} : b =< y
  OBVIOUS
<1> QED
  BY <1>1, <1>2 DEF Min

LEMMA ModOfRoundsMore ==
  ASSUME NEW d \in Nat \ {0}, NEW n \in Nat, NEW m \in Nat
  PROVE  ((m * d) + n) % d = n % d
<1>1. PICK q \in Nat, r \in 0 .. d - 1 : n = (q * d) + r /\ r = n % d
  BY DivMod
<1>2. (m * d) + n = ((m + q) * d) + r
  <2>1. (m + q) * d = (m * d) + (q * d) /\ m * d \in Int /\ q * d \in Int
    OBVIOUS
  <2> DEFINE a == m * d
             b == q * d
             e == (m + q) * d
  <2>2. e = a + b /\ n = b + r /\ a \in Int /\ b \in Int /\ r \in Int
    BY <1>1, <2>1
  <2> HIDE DEF a, b, e
  <2>3. a + n = e + r
    BY <2>2
  <2> QED
    BY <2>3 DEF a, e
<1>3. (((m + q) * d) + r) % d = r
  BY ModIs
<1> QED
  BY <1>1, <1>2, <1>3, Zenon

(* The newest rows, latest first: what recent() reads is the ring.         *)
LEMMA RecentIs ==
  ASSUME NEW st, IsRing(st)
  PROVE  \E size \in Nat :
           /\ recent(st, ATTEMPTS_CAPACITY) \in [1 .. size -> Attempts]
           /\ InRing(st) = (st.nextId - size) .. (st.nextId - 1)
           /\ size < st.nextId
           /\ \A back \in 1 .. size :
                recent(st, ATTEMPTS_CAPACITY)[back] = RowAt(st, st.nextId - back)
<1> DEFINE n == st.nextId
           C == ATTEMPTS_CAPACITY
           size == IF n <= C THEN n - 1 ELSE C
<1>1. n \in Nat \ {0} /\ C \in Nat \ {0} /\ size \in Nat /\ size <= C /\ size < n
  BY CapacityAssumption DEF IsRing
<1>2. DOMAIN st.buffer = 1 .. size /\ st.buffer \in [1 .. size -> Attempts]
  BY DEF IsRing
<1>3. InRing(st) = (n - size) .. (n - 1)
  BY <1>1 DEF InRing
<1>4. Len(st.buffer) = size
  <2> HIDE DEF size
  <2> QED
    BY <1>1, <1>2
<1>5. Min({C, size}) = size
  BY <1>1, MinOfTwo
<1>6. ASSUME NEW back \in 1 .. size
      PROVE  1 + ((st.cursor - back + size) % size) = Slot(n - back)
  <2>1. PICK k \in Nat : k = n - 1 /\ st.cursor = k % C
    BY <1>1 DEF IsRing
  <2>2. n - back - 1 = k - back /\ k - back \in Nat /\ back \in Nat \ {0}
    BY <1>1, <2>1
  <2>3. CASE n <= C
    <3>1. size = k /\ k % C = k /\ k \in Nat \ {0}
      <4>1. size = k /\ k \in 0 .. C - 1 /\ k # 0
        BY <1>1, <2>1, <2>2, <2>3
      <4>2. k % C = k
        BY <1>1, <4>1, SmallMod
      <4> QED
        BY <4>1, <4>2
    <3>2. ((k - back) + k) % k = (k - back) % k
      BY <2>2, <3>1, ModOfARoundMore
    <3>3. (k - back) % k = k - back /\ (k - back) % C = k - back
      <4>1. k - back \in 0 .. k - 1 /\ k - back \in 0 .. C - 1
        BY <1>1, <2>1, <2>2, <2>3
      <4> QED
        BY <1>1, <3>1, <4>1, SmallMod
    <3>4. st.cursor - back + size = (k - back) + k
      BY <2>1, <3>1
    <3>5. (st.cursor - back + size) % size = (n - back - 1) % C
      BY <2>2, <3>1, <3>2, <3>3, <3>4, Zenon
    <3> QED
      BY <3>5 DEF Slot
  <2>4. CASE n > C
    <3>1. size = C
      BY <1>1, <2>4
    <3>2. PICK q \in Nat, r \in 0 .. C - 1 : k = (q * C) + r /\ r = k % C
      BY <1>1, DivMod
    <3>3. q # 0
      <4>1. SUFFICES ASSUME q = 0 PROVE FALSE
        OBVIOUS
      <4>2. 0 * C = 0
        BY <1>1
      <4>3. q * C = 0
        BY <4>1, <4>2, Zenon
      <4>4. k = r
        BY <3>2, <4>3
      <4> QED
        BY <1>1, <2>1, <2>4, <4>4
    <3>4. PICK p \in Nat : q = p + 1
      <4>1. q - 1 \in Nat /\ q = (q - 1) + 1
        BY <3>3
      <4> QED
        BY <4>1
    <3>5. q * C = (p * C) + C
      BY <1>1, <3>4
    <3>6. PICK m \in Nat : m = r - back + C
      BY <1>1, <3>1
    <3>7. k - back = (p * C) + m
      <4>1. p * C \in Int
        BY <1>1
      <4> DEFINE a == p * C
                 b == q * C
      <4>2. b = a + C /\ k = b + r /\ a \in Int
        BY <3>2, <3>5, <4>1
      <4> HIDE DEF a, b
      <4>3. k - back = a + m
        BY <1>1, <3>6, <4>2
      <4> QED
        BY <4>3 DEF a
    <3>8. ((p * C) + m) % C = m % C
      BY <1>1, ModOfRoundsMore
    <3>9. st.cursor - back + size = m
      BY <2>1, <3>1, <3>2, <3>6
    <3>10. (st.cursor - back + size) % size = (n - back - 1) % C
      BY <2>2, <3>1, <3>7, <3>8, <3>9, Zenon
    <3> QED
      BY <3>10 DEF Slot
  <2> QED
    BY <1>1, <2>3, <2>4
<1>7. recent(st, C) = [back \in 1 .. size |->
                         st.buffer[1 + ((st.cursor - back + size) % size)]]
  BY <1>4, <1>5, Zenon DEF recent
<1> HIDE DEF size
<1>8. ASSUME NEW back \in 1 .. size
      PROVE  recent(st, C)[back] = RowAt(st, n - back) /\ RowAt(st, n - back) \in Attempts
  <2>1. n - back \in InRing(st)
    BY <1>1, <1>3
  <2>2. Slot(n - back) \in DOMAIN st.buffer
    BY <2>1 DEF IsRing
  <2>3. recent(st, C)[back] = st.buffer[Slot(n - back)]
    BY <1>6, <1>7, Zenon
  <2> QED
    BY <1>2, <2>2, <2>3 DEF RowAt
<1>9. recent(st, C) \in [1 .. size -> Attempts]
  <2>1. recent(st, C) = [back \in 1 .. size |-> recent(st, C)[back]]
    BY <1>7
  <2>2. \A back \in 1 .. size : recent(st, C)[back] \in Attempts
    BY <1>8
  <2> HIDE DEF C
  <2> DEFINE read == recent(st, C)
  <2> HIDE DEF read
  <2>3. read = [back \in 1 .. size |-> read[back]] /\ \A back \in 1 .. size : read[back] \in Attempts
    BY <2>1, <2>2 DEF read
  <2>4. read \in [1 .. size -> Attempts]
    BY <2>3
  <2> QED
    BY <2>4 DEF read
<1> QED
  BY <1>1, <1>3, <1>8, <1>9

(* The rows of the buffer are the rows of the ring.                        *)
LEMMA RowsAre ==
  ASSUME NEW st, IsRing(st), NEW i \in DOMAIN st.buffer
  PROVE  /\ st.buffer[i].id \in InRing(st)
         /\ st.buffer[i] = RowAt(st, st.buffer[i].id)
         /\ st.buffer[i] \in Attempts
  BY DEF IsRing, RowAt

LEMMA RingRow ==
  ASSUME NEW st, IsRing(st), NEW id \in InRing(st)
  PROVE  /\ RowAt(st, id) \in Attempts /\ RowAt(st, id).id = id
         /\ id \in Nat \ {0} /\ id < st.nextId /\ st.nextId \in Nat \ {0}
<1>1. RowAt(st, id) \in Attempts /\ RowAt(st, id).id = id
  BY DEF IsRing, RowAt
<1>2. st.nextId \in Nat \ {0} /\ id \in 1 .. st.nextId - 1
  BY DEF IsRing, InRing
<1> QED
  BY <1>1, <1>2

(* What scan() reads is the ring's rows in the order they came, from the   *)
(* first not looked at up to one not settled.                              *)
Reached(id) ==
  \A k \in InRing(store) : scanned < k /\ k <= id => Settled(RowAt(store, k))

LEMMA ScannableIs ==
  ASSUME IsRing(store), scanned \in Nat
  PROVE  Scannable =
           {RowAt(store, id) : id \in {k \in InRing(store) : k > scanned /\ Reached(k)}}
<1> DEFINE n == store.nextId
           read == recent(store, ATTEMPTS_CAPACITY)
           rows == Reverse(read)
<1>1. PICK size \in Nat :
        /\ read \in [1 .. size -> Attempts]
        /\ InRing(store) = (n - size) .. (n - 1)
        /\ size < n
        /\ \A back \in 1 .. size : read[back] = RowAt(store, n - back)
  BY RecentIs
<1>2. n \in Nat \ {0}
  BY DEF IsRing
<1> HIDE DEF read
<1>3. Len(read) = size
  BY <1>1
<1>4. rows = [i \in 1 .. size |-> read[(size - i) + 1]]
  BY <1>3 DEF Reverse
<1> HIDE DEF rows
<1> DEFINE base == n - size - 1
<1>5. base \in Nat /\ n = base + size + 1 /\ InRing(store) = (base + 1) .. (base + size)
  BY <1>1, <1>2
<1>6. ASSUME NEW i \in 1 .. size
      PROVE  base + i \in InRing(store) /\ rows[i] = RowAt(store, base + i) /\ rows[i].id = base + i
  <2>1. (size - i) + 1 \in 1 .. size /\ n - ((size - i) + 1) = base + i
    BY <1>5
  <2>2. rows[i] = RowAt(store, n - ((size - i) + 1))
    BY <1>1, <1>4, <2>1
  <2>3. base + i \in InRing(store)
    BY <1>5
  <2> QED
    BY <2>1, <2>2, <2>3, RingRow
<1>7. DOMAIN rows = 1 .. size
  BY <1>4
<1> HIDE DEF base
<1>8. Unscanned(rows) = {i \in 1 .. size : base + i > scanned}
  BY <1>6, <1>7 DEF Unscanned
<1>9. ASSUME NEW k \in 1 .. size
      PROVE  (\A j \in Unscanned(rows) : j <= k => Settled(rows[j])) <=> Reached(base + k)
  <2>1. ASSUME \A j \in Unscanned(rows) : j <= k => Settled(rows[j]),
               NEW id \in InRing(store), scanned < id, id <= base + k
        PROVE  Settled(RowAt(store, id))
    <3>1. PICK j \in 1 .. size : id = base + j
      <4>1. id - base \in 1 .. size /\ id = base + (id - base)
        BY <1>5
      <4> QED
        BY <4>1
    <3>2. j \in Unscanned(rows) /\ j <= k
      BY <1>5, <1>8, <2>1, <3>1
    <3> QED
      BY <1>6, <2>1, <3>1, <3>2
  <2>2. ASSUME Reached(base + k), NEW j \in Unscanned(rows), j <= k
        PROVE  Settled(rows[j])
    <3>1. j \in 1 .. size /\ scanned < base + j
      BY <1>5, <1>8
    <3>2. base + j \in InRing(store) /\ rows[j] = RowAt(store, base + j) /\ base + j <= base + k
      BY <1>5, <1>6, <2>2, <3>1
    <3> QED
      BY <2>2, <3>1, <3>2 DEF Reached
  <2> QED
    BY <2>1, <2>2 DEF Reached
<1>10. Scannable = {rows[i] : i \in {k \in Unscanned(rows) :
                      \A j \in Unscanned(rows) : j <= k => Settled(rows[j])}}
  BY DEF Scannable, rows, read
<1> DEFINE Taken == {k \in 1 .. size : base + k > scanned /\ Reached(base + k)}
           Ids == {k \in InRing(store) : k > scanned /\ Reached(k)}
<1>11. {k \in Unscanned(rows) : \A j \in Unscanned(rows) : j <= k => Settled(rows[j])} = Taken
  BY <1>8, <1>9
<1>12. ASSUME NEW row, row \in {rows[i] : i \in Taken}
       PROVE  row \in {RowAt(store, id) : id \in Ids}
  BY <1>6, <1>12
<1>13. ASSUME NEW row, row \in {RowAt(store, id) : id \in Ids}
       PROVE  row \in {rows[i] : i \in Taken}
  <2>1. PICK id \in Ids : row = RowAt(store, id)
    BY <1>13
  <2>2. id \in InRing(store) /\ id > scanned /\ Reached(id)
    OBVIOUS
  <2>3. PICK i \in 1 .. size : id = base + i
    <3>1. id - base \in 1 .. size /\ id = base + (id - base)
      BY <1>5, <2>2
    <3> QED
      BY <3>1
  <2>4. rows[i] = row
    BY <1>6, <2>1, <2>3, Zenon
  <2> QED
    BY <2>2, <2>3, <2>4
<1> HIDE DEF Taken, Ids
<1>14. {rows[i] : i \in Taken} = {RowAt(store, id) : id \in Ids}
  BY <1>12, <1>13, Zenon
<1> QED
  BY <1>10, <1>11, <1>14 DEF Ids

-----------------------------------------------------------------------------
(***************************************************************************)
(* The invariant.  A trace is what a row, a loss or a finding keeps of a   *)
(* call: the call has not been made again under the same try, so the last  *)
(* of its traces says when it was made, and a trace of a call made under   *)
(* load is older than the quiet.                                           *)
(***************************************************************************)
CallType ==
  [ phase : {"unsent", "sent", "probing", "done"}, at : Nat, delayed : Nat,
    loaded : BOOLEAN, lost : Nat \cup {Null} ]

Quieted(k) ==
  /\ k.loaded /\ ~loadRunning => k.at < now
  /\ k.loaded /\ quietSince # Null => k.at < quietSince

Traced(k) ==
  /\ calls[k.call].phase # "unsent"
  /\ k.at <= calls[k.call].at
  /\ \/ k.try < TryOf(k.call)
     \/ k.try = TryOf(k.call) /\ calls[k.call].phase = "done" /\ k.at = calls[k.call].at
  /\ Quieted(k)

Types ==
  /\ now \in 0 .. MaxTime
  /\ calls \in [Calls -> CallType]
  /\ work \subseteq Requests
  /\ stored \subseteq Calls
  /\ loadRunning \in BOOLEAN
  /\ simulating \in BOOLEAN
  /\ quietSince \in {Null} \cup 0 .. MaxTime
  /\ quietSince # Null => ~loadRunning
  /\ scanned \in 0 .. store.nextId - 1
  /\ pending \subseteq Lossy
  /\ \A s \in Sweepers : sweeps[s].due \subseteq pending
  /\ sweeps \in [Sweepers -> [due : SUBSET Lossy, acknowledged : SUBSET Calls]]

(* A row that says who answered or retried it says so of its own call.     *)
OwnRows(st) ==
  \A id \in InRing(st) :
    LET row == RowAt(st, id) IN
    /\ row.orderId \in {Null, row.call}
    /\ row.retriedBy \in {Null} \cup 1 .. st.nextId - 1
    /\ row.retriedBy \in InRing(st) =>
         RowAt(st, row.retriedBy).call = row.call /\ RowAt(st, row.retriedBy).retryOf = id

RingOK ==
  /\ IsRing(store)
  /\ OwnRows(store)
  /\ \A id \in InRing(store) :
       isCall(RowAt(store, id)) => RowAt(store, id).try # 0 /\ Traced(RowAt(store, id))

CallsOK ==
  \A c \in Calls :
    /\ calls[c].at <= now
    /\ calls[c].phase \in {"unsent", "sent"} => calls[c].lost = Null
    /\ calls[c].phase = "probing" => calls[c].lost # Null
    /\ calls[c].lost # Null => calls[c].lost \in 1 .. store.nextId - 1
    /\ calls[c].lost \in InRing(store) => RowAt(store, calls[c].lost).call = c
    /\ calls[c].phase # "unsent" => Quieted(calls[c])

WorkOK ==
  \A w \in work :
    /\ calls[w.call].phase # "unsent"
    /\ w.since <= calls[w.call].at
    /\ now <= w.since + TARGET_CEILING

LossesOK ==
  /\ \A loss \in pending :
       /\ loss.attemptId <= scanned
       /\ Traced(loss)
       /\ ~Judged(loss.attemptId)
  /\ \A loss, other \in pending : loss.attemptId = other.attemptId => loss = other
  /\ \A id \in InRing(store) :
       lostCandidate(RowAt(store, id)) /\ id <= scanned => AwaitsMatch(id) \/ Judged(id)

SweepsOK ==
  /\ \A s, t \in InFlight : s = t
  /\ \A s \in Sweepers : \A loss \in sweeps[s].due : reconcilable(loss)

(* Nothing is at work any more on an order said never to be processed.     *)
Finished(c) == c \notin stored /\ \A w \in work : w.call # c

FindingsOK ==
  /\ anomalies \in [DOMAIN anomalies -> Nat \ {0}]
  /\ \A finding \in DOMAIN anomalies :
       /\ anomalies[finding] = 1
       /\ finding.of \in Lossy
       /\ finding.of.attemptId <= scanned
       /\ Traced(finding.of)
       /\ NeverProcessed(finding) /\ finding.of.try = TryOf(finding.of.call)
            => Finished(finding.of.call)
       /\ finding.rule = "unexpected_shedding" => ~finding.of.loaded
  /\ \A finding, other \in DOMAIN anomalies :
       finding.of.attemptId = other.of.attemptId /\ finding.rule = other.rule => finding = other

BackofficeInv ==
  /\ Types
  /\ RingOK
  /\ CallsOK
  /\ WorkOK
  /\ LossesOK
  /\ SweepsOK
  /\ FindingsOK

-----------------------------------------------------------------------------
(***************************************************************************)
(* What a call that returns leaves in the ring: rows of its own and notes, *)
(* and the rows that were there, told no more than who answered or retried *)
(* them.                                                                   *)
(***************************************************************************)
SameCall(row, old) ==
  /\ row.call = old.call
  /\ row.try = old.try
  /\ row.at = old.at
  /\ row.loaded = old.loaded
  /\ row.status = old.status

OfCall(row, c) ==
  \/ row.call = Null
  \/ /\ row.call = c
     /\ row.try = TryOf(c)
     /\ row.at = calls[c].at
     /\ row.loaded = calls[c].loaded

Left(st, after, c) ==
  /\ IsRing(after)
  /\ OwnRows(after)
  /\ st.nextId <= after.nextId
  /\ \A id \in InRing(after) :
       IF id < st.nextId
         THEN id \in InRing(st) /\ SameCall(RowAt(after, id), RowAt(st, id))
         ELSE OfCall(RowAt(after, id), c)

LEMMA LeftTwice ==
  ASSUME NEW st, NEW between, NEW after, NEW c,
         IsRing(st), Left(st, between, c), Left(between, after, c)
  PROVE  Left(st, after, c)
<1>1. /\ st.nextId \in Nat /\ between.nextId \in Nat /\ after.nextId \in Nat
      /\ st.nextId <= between.nextId /\ between.nextId <= after.nextId
  BY DEF Left, IsRing
<1>2. ASSUME NEW id \in InRing(after)
      PROVE  IF id < st.nextId
               THEN id \in InRing(st) /\ SameCall(RowAt(after, id), RowAt(st, id))
               ELSE OfCall(RowAt(after, id), c)
  <2>1. id \in Nat
    BY <1>1 DEF InRing
  <2>2. CASE id < st.nextId
    <3>1. id < between.nextId
      BY <1>1, <2>1, <2>2
    <3>2. id \in InRing(between) /\ SameCall(RowAt(after, id), RowAt(between, id))
      BY <3>1 DEF Left
    <3>3. id \in InRing(st) /\ SameCall(RowAt(between, id), RowAt(st, id))
      BY <2>2, <3>2 DEF Left
    <3> QED
      BY <2>2, <3>2, <3>3 DEF SameCall
  <2>3. CASE ~(id < st.nextId) /\ id < between.nextId
    <3>1. id \in InRing(between) /\ SameCall(RowAt(after, id), RowAt(between, id))
      BY <2>3 DEF Left
    <3>2. OfCall(RowAt(between, id), c)
      BY <2>3, <3>1 DEF Left
    <3> QED
      BY <2>3, <3>1, <3>2 DEF SameCall, OfCall
  <2>4. CASE ~(id < st.nextId) /\ ~(id < between.nextId)
    BY <2>4 DEF Left
  <2> QED
    BY <2>2, <2>3, <2>4
<1>3. st.nextId <= after.nextId
  BY <1>1
<1> QED
  BY <1>2, <1>3 DEF Left

LEMMA RecordLeft ==
  ASSUME NEW st, IsRing(st), OwnRows(st), NEW c, NEW attempt \in Attempts,
         OfCall(attempt, c), attempt.orderId \in {Null, attempt.call}, attempt.retriedBy = Null
  PROVE  Left(st, record(st, attempt), c)
<1> DEFINE after == record(st, attempt)
           n == st.nextId
           row == RowAt(after, n)
<1>1. /\ IsRing(after) /\ after.nextId = n + 1
      /\ InRing(after) \subseteq InRing(st) \cup {n}
      /\ row = [attempt EXCEPT !.id = n]
      /\ \A id \in InRing(after) \ {n} : RowAt(after, id) = RowAt(st, id)
  BY RecordIs
<1>2. n \in Nat \ {0} /\ n \notin InRing(st) /\ Null \notin Nat
      /\ \A id \in InRing(st) : id \in Nat /\ id < n
  BY GatewayAssumption DEF IsRing, InRing
<1>3. /\ row.call = attempt.call /\ row.try = attempt.try /\ row.at = attempt.at
      /\ row.loaded = attempt.loaded /\ row.orderId = attempt.orderId
      /\ row.retriedBy = attempt.retriedBy
  BY <1>1 DEF Attempts
<1> HIDE DEF after, row
<1>4. ASSUME NEW id \in InRing(after)
      PROVE  /\ RowAt(after, id).orderId \in {Null, RowAt(after, id).call}
             /\ RowAt(after, id).retriedBy \in {Null} \cup 1 .. after.nextId - 1
             /\ RowAt(after, id).retriedBy \in InRing(after) =>
                  /\ RowAt(after, RowAt(after, id).retriedBy).call = RowAt(after, id).call
                  /\ RowAt(after, RowAt(after, id).retriedBy).retryOf = id
  <2>1. CASE id = n
    <3>1. RowAt(after, id) = row /\ row.retriedBy = Null
      BY <1>3, <2>1 DEF row
    <3>2. Null \notin InRing(after)
      BY <1>1, <1>2
    <3> QED
      BY <1>3, <3>1, <3>2
  <2>2. CASE id # n
    <3> DEFINE old == RowAt(st, id)
               m == old.retriedBy
    <3>1. RowAt(after, id) = old /\ id \in InRing(st)
      BY <1>1, <2>2
    <3>2. /\ old.orderId \in {Null, old.call}
          /\ m \in {Null} \cup 1 .. n - 1
          /\ m \in InRing(st) => RowAt(st, m).call = old.call /\ RowAt(st, m).retryOf = id
      BY <3>1 DEF OwnRows
    <3> HIDE DEF old, m
    <3>3. m # n /\ m \in {Null} \cup 1 .. after.nextId - 1
      BY <1>1, <1>2, <3>2
    <3>4. ASSUME m \in InRing(after) PROVE RowAt(after, m) = RowAt(st, m) /\ m \in InRing(st)
      BY <1>1, <3>3, <3>4
    <3> QED
      BY <3>1, <3>2, <3>3, <3>4 DEF m
  <2> QED
    BY <2>1, <2>2
<1>5. OwnRows(after)
  BY <1>4 DEF OwnRows
<1>6. ASSUME NEW id \in InRing(after)
      PROVE  IF id < n THEN id \in InRing(st) /\ SameCall(RowAt(after, id), RowAt(st, id))
                       ELSE OfCall(RowAt(after, id), c)
  <2>1. CASE id = n
    <3>1. ~(id < n) /\ RowAt(after, id) = row
      BY <1>2, <2>1 DEF row
    <3> QED
      BY <1>3, <3>1 DEF OfCall
  <2>2. CASE id # n
    <3>1. id \in InRing(st) /\ RowAt(after, id) = RowAt(st, id) /\ id < n
      BY <1>1, <1>2, <2>2
    <3> QED
      BY <3>1 DEF SameCall
  <2> QED
    BY <2>1, <2>2
<1> QED
  BY <1>1, <1>2, <1>5, <1>6 DEF Left, after

(* What a row is told is of its own call.                                  *)
LEMMA AnnotateLeft ==
  ASSUME NEW st, IsRing(st), OwnRows(st), NEW c, NEW id \in Nat \ {0}, NEW value,
         NEW field \in {"orderId", "retriedBy"},
         field = "orderId" =>
           value \in Calls \cup {Null} /\ (id \in InRing(st) => value \in {Null, RowAt(st, id).call}),
         field = "retriedBy" =>
           /\ value \in 1 .. st.nextId - 1
           /\ id \in InRing(st) /\ value \in InRing(st) =>
                RowAt(st, value).call = RowAt(st, id).call /\ RowAt(st, value).retryOf = id
  PROVE  Left(st, annotate(st, id, field, value), c)
<1> DEFINE after == annotate(st, id, field, value)
<1>0. Null \notin Nat /\ st.nextId \in Nat
  BY GatewayAssumption DEF IsRing
<1>1. /\ IsRing(after) /\ after.nextId = st.nextId /\ InRing(after) = InRing(st)
      /\ id \in InRing(st) => RowAt(after, id) = [RowAt(st, id) EXCEPT ![field] = value]
      /\ \A other \in InRing(st) : other # id => RowAt(after, other) = RowAt(st, other)
  BY <1>0, AnnotateIs
<1> HIDE DEF after
<1>2. ASSUME NEW k \in InRing(st)
      PROVE  /\ SameCall(RowAt(after, k), RowAt(st, k))
             /\ RowAt(after, k).retryOf = RowAt(st, k).retryOf
             /\ \/ RowAt(after, k).orderId = RowAt(st, k).orderId
                \/ k = id /\ field = "orderId" /\ RowAt(after, k).orderId = value
             /\ \/ RowAt(after, k).retriedBy = RowAt(st, k).retriedBy
                \/ k = id /\ field = "retriedBy" /\ RowAt(after, k).retriedBy = value
  <2>1. CASE k # id
    BY <1>1, <2>1 DEF SameCall
  <2>2. CASE k = id
    <3> DEFINE old == RowAt(st, k)
               row == RowAt(after, k)
    <3>1. old \in Attempts /\ row = [old EXCEPT ![field] = value]
      BY <1>1, <2>2, RingRow
    <3> HIDE DEF old, row
    <3>2. CASE field = "orderId"
      <4>1. row = [old EXCEPT !.orderId = value]
        BY <3>1, <3>2
      <4>2. /\ row.call = old.call /\ row.try = old.try /\ row.at = old.at
            /\ row.loaded = old.loaded /\ row.status = old.status /\ row.retryOf = old.retryOf
            /\ row.orderId = value /\ row.retriedBy = old.retriedBy
        BY <3>1, <4>1 DEF Attempts
      <4> QED
        BY <2>2, <3>2, <4>2 DEF SameCall, old, row
    <3>3. CASE field = "retriedBy"
      <4>1. row = [old EXCEPT !.retriedBy = value]
        BY <3>1, <3>3
      <4>2. /\ row.call = old.call /\ row.try = old.try /\ row.at = old.at
            /\ row.loaded = old.loaded /\ row.status = old.status /\ row.retryOf = old.retryOf
            /\ row.orderId = old.orderId /\ row.retriedBy = value
        BY <3>1, <4>1 DEF Attempts
      <4> QED
        BY <2>2, <3>3, <4>2 DEF SameCall, old, row
    <3> QED
      BY <3>2, <3>3
  <2> QED
    BY <2>1, <2>2
<1>3. ASSUME NEW k \in InRing(st)
      PROVE  /\ RowAt(after, k).orderId \in {Null, RowAt(after, k).call}
             /\ RowAt(after, k).retriedBy \in {Null} \cup 1 .. st.nextId - 1
             /\ RowAt(after, k).retriedBy \in InRing(st) =>
                  /\ RowAt(after, RowAt(after, k).retriedBy).call = RowAt(after, k).call
                  /\ RowAt(after, RowAt(after, k).retriedBy).retryOf = k
  <2>1. RowAt(after, k).call = RowAt(st, k).call
    BY <1>2 DEF SameCall
  <2>2. RowAt(after, k).orderId \in {Null, RowAt(after, k).call}
    <3>1. RowAt(st, k).orderId \in {Null, RowAt(st, k).call}
      BY DEF OwnRows
    <3> QED
      BY <1>2, <2>1, <3>1
  <2>3. RowAt(after, k).retriedBy \in {Null} \cup 1 .. st.nextId - 1
    <3>1. RowAt(st, k).retriedBy \in {Null} \cup 1 .. st.nextId - 1
      BY DEF OwnRows
    <3> QED
      BY <1>2, <3>1
  <2>4. ASSUME NEW m \in InRing(st), m = RowAt(after, k).retriedBy
        PROVE  RowAt(after, m).call = RowAt(after, k).call /\ RowAt(after, m).retryOf = k
    <3>1. RowAt(after, m).call = RowAt(st, m).call /\ RowAt(after, m).retryOf = RowAt(st, m).retryOf
      BY <1>2 DEF SameCall
    <3>2. CASE m = RowAt(st, k).retriedBy
      <4>1. RowAt(st, m).call = RowAt(st, k).call /\ RowAt(st, m).retryOf = k
        BY <3>2 DEF OwnRows
      <4> QED
        BY <2>1, <3>1, <4>1
    <3>3. CASE k = id /\ field = "retriedBy" /\ m = value
      BY <2>1, <3>1, <3>3
    <3> QED
      BY <1>2, <2>4, <3>2, <3>3
  <2> QED
    BY <2>2, <2>3, <2>4
<1>4. OwnRows(after)
  BY <1>1, <1>3 DEF OwnRows
<1>5. st.nextId <= after.nextId /\ \A k \in InRing(after) : k < st.nextId
  <2>1. \A k \in InRing(st) : k < st.nextId
    BY <1>0 DEF InRing
  <2> QED
    BY <1>0, <1>1, <2>1
<1> QED
  BY <1>1, <1>2, <1>4, <1>5 DEF Left, after

Outcome(c, others, loaded) ==
  /\ Left(store, store', c)
  /\ store.nextId < store'.nextId
  /\ \/ /\ Done(c)
        /\ work' = others
     \/ /\ calls[c].phase = "sent"
        /\ Call(c, "probing", 0, loaded, store.nextId)
        /\ Arrives(c, 2, others)
        /\ store.nextId \in InRing(store') => RowAt(store', store.nextId).call = c

LEMMA AttemptIs ==
  ASSUME Types, CallsOK, NEW c \in Calls, NEW status \in {"ok", "shed", "none"}
  PROVE  /\ Attempt(c, status) \in Attempts
         /\ OfCall(Attempt(c, status), c)
         /\ Attempt(c, status).call = c
         /\ Attempt(c, status).retryOf = calls[c].lost
         /\ Attempt(c, status).orderId = Null
         /\ Attempt(c, status).retriedBy = Null
         /\ chaosEvent \in Attempts
         /\ OfCall(chaosEvent, c)
<1>1. calls[c] \in CallType /\ now \in Nat /\ calls[c].at <= now
  BY BackofficeAssumption DEF Types, CallsOK
<1>2. /\ calls[c].at \in Nat /\ calls[c].delayed \in Nat /\ calls[c].loaded \in BOOLEAN
      /\ calls[c].lost \in Nat \cup {Null}
  BY <1>1 DEF CallType
<1>3. now - calls[c].at + calls[c].delayed \in Nat
  BY <1>1, <1>2
<1>4. TryOf(c) \in {0, 1, 2}
  BY DEF TryOf
<1>5. Attempt(c, status) \in Attempts
  BY <1>2, <1>3, <1>4 DEF Attempt, Attempts
<1>6. chaosEvent \in Attempts
  BY <1>1 DEF chaosEvent, Attempts
<1> QED
  BY <1>5, <1>6 DEF Attempt, OfCall, chaosEvent

LEMMA AnsweredIs ==
  ASSUME Types, RingOK, CallsOK, NEW c \in Calls, NEW status \in {"ok", "shed"}, NEW others,
         NEW loaded, Answered(c, status, others)
  PROVE  Outcome(c, others, loaded)
<1> DEFINE row == Attempt(c, status)
           recorded == record(store, row)
           n == store.nextId
           after == annotate(recorded, n, "orderId", Placed(c, status))
<1>1. IsRing(store) /\ OwnRows(store) /\ n \in Nat \ {0}
  BY DEF RingOK, IsRing
<1>2. row \in Attempts /\ OfCall(row, c) /\ row.call = c /\ row.orderId = Null /\ row.retriedBy = Null
  BY AttemptIs
<1>3. Left(store, recorded, c)
  <2> HIDE DEF row
  <2> QED
    BY <1>1, <1>2, RecordLeft
<1>4. recorded.nextId = n + 1 /\ n \in InRing(recorded) /\ RowAt(recorded, n).call = c
  <2> HIDE DEF row
  <2>1. /\ recorded.nextId = n + 1 /\ n \in InRing(recorded)
        /\ RowAt(recorded, n) = [row EXCEPT !.id = n]
    BY <1>1, <1>2, RecordIs
  <2>2. [row EXCEPT !.id = n].call = c
    BY <1>2 DEF Attempts
  <2> QED
    BY <2>1, <2>2
<1>5. Placed(c, status) \in {Null, c}
  BY DEF Placed
<1>6. IsRing(recorded) /\ OwnRows(recorded)
  BY <1>3 DEF Left
<1>7. Left(recorded, after, c)
  <2> HIDE DEF recorded
  <2> QED
    BY <1>1, <1>4, <1>5, <1>6, AnnotateLeft
<1>8. Left(store, after, c)
  BY <1>1, <1>3, <1>7, LeftTwice
<1>9. n < after.nextId
  <2>1. recorded.nextId <= after.nextId /\ after.nextId \in Nat
    BY <1>7 DEF Left, IsRing
  <2> QED
    BY <1>1, <1>4, <2>1
<1>10. store' = after /\ Done(c) /\ work' = others
  BY DEF Answered
<1> HIDE DEF after
<1> QED
  BY <1>8, <1>9, <1>10 DEF Outcome

LEMMA LostIs ==
  ASSUME Types, RingOK, CallsOK, NEW c \in Calls, NEW dropped \in BOOLEAN, NEW others,
         NEW loaded, calls[c].phase = "sent", Lost(c, dropped, others, loaded)
  PROVE  Outcome(c, others, loaded)
<1> DEFINE row == Attempt(c, "none")
           recorded == record(store, row)
           n == store.nextId
           noted == record(recorded, chaosEvent)
<1>1. IsRing(store) /\ OwnRows(store) /\ n \in Nat \ {0}
  BY DEF RingOK, IsRing
<1>2. /\ row \in Attempts /\ OfCall(row, c) /\ row.call = c /\ row.orderId = Null
      /\ row.retriedBy = Null /\ chaosEvent \in Attempts /\ OfCall(chaosEvent, c)
  BY AttemptIs
<1>3. Left(store, recorded, c)
  <2> HIDE DEF row
  <2> QED
    BY <1>1, <1>2, RecordLeft
<1>4. recorded.nextId = n + 1 /\ RowAt(recorded, n).call = c
  <2> HIDE DEF row
  <2>1. recorded.nextId = n + 1 /\ RowAt(recorded, n) = [row EXCEPT !.id = n]
    BY <1>1, <1>2, RecordIs
  <2>2. [row EXCEPT !.id = n].call = c
    BY <1>2 DEF Attempts
  <2> QED
    BY <2>1, <2>2
<1>5. IsRing(recorded) /\ OwnRows(recorded)
  BY <1>3 DEF Left
<1> HIDE DEF recorded
<1>6. Left(recorded, noted, c)
  <2>1. chaosEvent.orderId = Null /\ chaosEvent.retriedBy = Null
    BY DEF chaosEvent
  <2> HIDE DEF noted
  <2> QED
    BY <1>2, <1>5, <2>1, RecordLeft DEF noted
<1>7. noted.nextId = recorded.nextId + 1
  BY <1>2, <1>5, RecordIs
<1>8. n \in InRing(noted) => RowAt(noted, n).call = c
  <2>1. n < recorded.nextId
    BY <1>1, <1>4
  <2> HIDE DEF noted
  <2> QED
    BY <1>4, <1>6, <2>1 DEF Left, SameCall
<1>9. Left(store, noted, c)
  BY <1>1, <1>3, <1>6, LeftTwice
<1>10. /\ store' = IF dropped THEN noted ELSE recorded
       /\ \/ Done(c) /\ work' = others
          \/ Call(c, "probing", 0, loaded, n) /\ Arrives(c, 2, others)
  BY DEF Lost, recorded
<1>11. n < recorded.nextId /\ n < noted.nextId
  BY <1>1, <1>4, <1>7
<1> HIDE DEF noted, n
<1>12. /\ Left(store, store', c) /\ n < store'.nextId
       /\ n \in InRing(store') => RowAt(store', n).call = c
  <2>1. CASE dropped
    BY <1>8, <1>9, <1>10, <1>11, <2>1, Zenon
  <2>2. CASE ~dropped
    BY <1>3, <1>4, <1>10, <1>11, <2>2, Zenon
  <2> QED
    BY <2>1, <2>2
<1>13. CASE Done(c) /\ work' = others
  BY <1>12, <1>13, Zenon DEF Outcome, n
<1>14. CASE Call(c, "probing", 0, loaded, n) /\ Arrives(c, 2, others)
  BY <1>12, <1>14, Zenon DEF Outcome, n
<1> QED
  BY <1>10, <1>13, <1>14, Zenon

LEMMA ProbedIs ==
  ASSUME Types, RingOK, CallsOK, NEW c \in Calls, NEW status \in {"ok", "shed", "none"},
         NEW others, NEW loaded, calls[c].phase = "probing", Probed(c, status, others)
  PROVE  Outcome(c, others, loaded)
<1> DEFINE retry == [Attempt(c, status) EXCEPT !.orderId = Placed(c, status)]
           recorded == record(store, retry)
           n == store.nextId
           lost == calls[c].lost
           told == annotate(recorded, lost, "retriedBy", n)
           noted == record(told, chaosEvent)
<1>1. IsRing(store) /\ OwnRows(store) /\ n \in Nat \ {0}
  BY DEF RingOK, IsRing
<1>2. chaosEvent \in Attempts /\ OfCall(chaosEvent, c)
      /\ chaosEvent.orderId = Null /\ chaosEvent.retriedBy = Null
  BY AttemptIs DEF chaosEvent
<1>3. /\ retry \in Attempts /\ OfCall(retry, c) /\ retry.call = c
      /\ retry.orderId \in {Null, retry.call} /\ retry.retriedBy = Null /\ retry.retryOf = lost
  <2> DEFINE row == Attempt(c, status)
  <2>1. /\ row \in Attempts /\ OfCall(row, c) /\ row.call = c /\ row.retryOf = lost
        /\ row.retriedBy = Null
    BY AttemptIs
  <2> HIDE DEF row
  <2>2. Placed(c, status) \in {Null, c}
    BY DEF Placed
  <2> DEFINE placed == Placed(c, status)
  <2> HIDE DEF placed
  <2>3. retry = [row EXCEPT !.orderId = placed]
    BY DEF row, placed
  <2> HIDE DEF retry
  <2>4. placed \in {Null, c}
    BY <2>2 DEF placed
  <2>5. /\ retry \in Attempts /\ retry.call = row.call /\ retry.try = row.try
        /\ retry.at = row.at /\ retry.loaded = row.loaded /\ retry.orderId = placed
        /\ retry.retriedBy = row.retriedBy /\ retry.retryOf = row.retryOf
    BY <2>1, <2>3, <2>4 DEF Attempts
  <2> QED
    BY <2>1, <2>4, <2>5 DEF OfCall
<1>4. /\ lost \in 1 .. n - 1
      /\ lost \in InRing(store) => RowAt(store, lost).call = c
  BY DEF CallsOK
<1> HIDE DEF retry, lost
<1>5. Left(store, recorded, c)
  BY <1>1, <1>3, RecordLeft
<1>6. /\ recorded.nextId = n + 1 /\ n \in InRing(recorded)
      /\ RowAt(recorded, n).call = c /\ RowAt(recorded, n).retryOf = lost
  <2>1. /\ recorded.nextId = n + 1 /\ n \in InRing(recorded)
        /\ RowAt(recorded, n) = [retry EXCEPT !.id = n]
    BY <1>1, <1>3, RecordIs
  <2>2. [retry EXCEPT !.id = n].call = c /\ [retry EXCEPT !.id = n].retryOf = lost
    BY <1>3 DEF Attempts
  <2> QED
    BY <2>1, <2>2
<1>7. IsRing(recorded) /\ OwnRows(recorded)
  BY <1>5 DEF Left
<1>8. lost \in InRing(recorded) => RowAt(recorded, lost).call = c
  <2>1. lost < n
    BY <1>1, <1>4
  <2> QED
    BY <1>4, <1>5, <2>1 DEF Left, SameCall
<1> HIDE DEF recorded
<1>9. Left(recorded, told, c)
  <2>1. n \in 1 .. recorded.nextId - 1 /\ lost \in Nat \ {0}
    BY <1>1, <1>4, <1>6
  <2> QED
    BY <1>6, <1>7, <1>8, <2>1, AnnotateLeft
<1>10. IsRing(told) /\ OwnRows(told) /\ recorded.nextId <= told.nextId
  BY <1>9 DEF Left
<1> HIDE DEF told
<1>11. Left(told, noted, c) /\ noted.nextId = told.nextId + 1
  BY <1>2, <1>10, RecordLeft, RecordIs
<1>12. Left(store, noted, c)
  <2>1. Left(store, told, c)
    BY <1>1, <1>5, <1>9, LeftTwice
  <2> QED
    BY <1>1, <1>11, <2>1, LeftTwice
<1>13. n < noted.nextId
  <2>1. told.nextId \in Nat
    BY <1>10 DEF IsRing
  <2> QED
    BY <1>1, <1>6, <1>10, <1>11, <2>1
<1>14. store' = noted /\ Done(c) /\ work' = others
  BY DEF Probed, noted, told, recorded, retry, lost
<1> HIDE DEF noted
<1> QED
  BY <1>12, <1>13, <1>14 DEF Outcome

LEMMA ReturnedIs ==
  ASSUME Types, RingOK, CallsOK, NEW c \in Calls, NEW status \in {"ok", "shed", "none"},
         NEW others, NEW loaded, Returned(c, status, others, loaded)
  PROVE  Outcome(c, others, loaded)
<1>1. CASE status # "none" /\ Answered(c, status, others)
  BY <1>1, AnsweredIs
<1>2. CASE calls[c].phase = "sent" /\ Lost(c, status # "none", others, loaded)
  BY <1>2, LostIs
<1>3. CASE calls[c].phase = "probing" /\ Probed(c, status, others)
  BY <1>3, ProbedIs
<1> QED
  BY <1>1, <1>2, <1>3 DEF Returned

-----------------------------------------------------------------------------
(***************************************************************************)
(* A step of the gateway: it moves at most one call, and what the API does *)
(* to orders comes from the requests it was working on.                    *)
(***************************************************************************)
Moved(c) ==
  /\ calls' = [calls EXCEPT ![c] = calls'[c]]
  /\ calls'[c] \in CallType
  /\ \/ /\ calls[c].phase = "unsent" /\ calls'[c].phase = "sent"
        /\ calls'[c].at = now /\ calls'[c].loaded = loadRunning /\ calls'[c].lost = Null
        /\ store' = store
     \/ /\ calls[c].phase = "sent" /\ calls'[c].phase = "probing"
        /\ calls'[c].at = now /\ calls'[c].loaded = loadRunning
        /\ calls'[c].lost = store.nextId /\ store.nextId < store'.nextId
        /\ store.nextId \in InRing(store') => RowAt(store', store.nextId).call = c
     \/ /\ calls[c].phase \in {"sent", "probing"}
        /\ calls'[c].phase = "done"
        /\ calls'[c].at = calls[c].at /\ calls'[c].loaded = calls[c].loaded
        /\ calls'[c].lost = calls[c].lost

Worked(c) ==
  \A w \in work' \ work :
    /\ w \in Requests /\ w.call = c /\ w.since = now
    /\ Moved(c) /\ calls'[c].phase # "done"

Stepped(c) ==
  /\ \/ calls' = calls /\ store' = store
     \/ Moved(c) /\ Left(store, store', c)
  /\ Worked(c)
  /\ \A order \in stored' \ stored : order \in Calls /\ \E w \in work : w.call = order
  /\ UNCHANGED <<now, harness>>

LEMMA LeftAsItWas ==
  ASSUME NEW st, IsRing(st), OwnRows(st), NEW c
  PROVE  Left(st, st, c)
<1>1. st.nextId \in Nat /\ \A id \in InRing(st) : id < st.nextId
  BY DEF IsRing, InRing
<1> QED
  BY <1>1 DEF Left, SameCall

LEMMA OutcomeIs ==
  ASSUME Types, RingOK, NEW c \in Waiting, NEW others \in SUBSET work,
         Outcome(c, others, loadRunning)
  PROVE  Moved(c) /\ Left(store, store', c) /\ Worked(c)
<1>1. /\ c \in Calls /\ calls \in [Calls -> CallType] /\ now \in Nat /\ loadRunning \in BOOLEAN
      /\ calls[c].phase \in {"sent", "probing"} /\ store.nextId \in Nat
  BY BackofficeAssumption DEF Types, Waiting, RingOK, IsRing
<1>2. Left(store, store', c) /\ store.nextId < store'.nextId
  BY DEF Outcome
<1>3. CASE Done(c) /\ work' = others
  <2>1. calls' = [calls EXCEPT ![c] = [calls[c] EXCEPT !.phase = "done"]]
    BY <1>3 DEF Done
  <2>2. /\ [calls[c] EXCEPT !.phase = "done"] \in CallType
        /\ [calls[c] EXCEPT !.phase = "done"].phase = "done"
        /\ [calls[c] EXCEPT !.phase = "done"].at = calls[c].at
        /\ [calls[c] EXCEPT !.phase = "done"].loaded = calls[c].loaded
        /\ [calls[c] EXCEPT !.phase = "done"].lost = calls[c].lost
    <3> DEFINE old == calls[c]
    <3>1. old \in CallType
      BY <1>1
    <3> HIDE DEF old
    <3>2. /\ [old EXCEPT !.phase = "done"] \in CallType
          /\ [old EXCEPT !.phase = "done"].phase = "done"
          /\ [old EXCEPT !.phase = "done"].at = old.at
          /\ [old EXCEPT !.phase = "done"].loaded = old.loaded
          /\ [old EXCEPT !.phase = "done"].lost = old.lost
      BY <3>1 DEF CallType
    <3> QED
      BY <3>2 DEF old
  <2> DEFINE new == [calls[c] EXCEPT !.phase = "done"]
  <2> HIDE DEF new
  <2>3. calls' = [calls EXCEPT ![c] = new] /\ calls'[c] = new
    BY <1>1, <2>1 DEF new
  <2>4. Moved(c)
    BY <1>1, <2>2, <2>3 DEF Moved, new
  <2>5. Worked(c)
    BY <1>3 DEF Worked
  <2> QED
    BY <1>2, <2>4, <2>5
<1>4. CASE /\ calls[c].phase = "sent"
           /\ Call(c, "probing", 0, loadRunning, store.nextId)
           /\ Arrives(c, 2, others)
           /\ store.nextId \in InRing(store') => RowAt(store', store.nextId).call = c
  <2> DEFINE new == [phase |-> "probing", at |-> now, delayed |-> 0, loaded |-> loadRunning,
                     lost |-> store.nextId]
  <2>1. calls' = [calls EXCEPT ![c] = new]
    BY <1>4 DEF Call
  <2>2. /\ new \in CallType /\ new.phase = "probing" /\ new.at = now
        /\ new.loaded = loadRunning /\ new.lost = store.nextId
    BY <1>1 DEF CallType
  <2> HIDE DEF new
  <2>3. calls'[c] = new
    BY <1>1, <2>1
  <2>4. Moved(c)
    BY <1>2, <1>4, <2>1, <2>2, <2>3 DEF Moved
  <2>5. Worked(c)
    <3>1. [call |-> c, try |-> 2, since |-> now] \in Requests
      BY <1>1 DEF Requests
    <3>2. \A w \in work' \ work : w = [call |-> c, try |-> 2, since |-> now]
      BY <1>4 DEF Arrives
    <3> QED
      BY <2>2, <2>3, <2>4, <3>1, <3>2 DEF Worked
  <2> QED
    BY <1>2, <2>4, <2>5
<1> QED
  BY <1>3, <1>4 DEF Outcome

LEMMA SendSteps ==
  ASSUME Types, RingOK, NEW c \in Calls, Send(c, loadRunning), UNCHANGED harness
  PROVE  Stepped(c)
<1>1. /\ calls \in [Calls -> CallType] /\ now \in Nat /\ loadRunning \in BOOLEAN
      /\ calls[c].phase = "unsent" /\ store' = store
  BY BackofficeAssumption DEF Types, Send
<1>2. PICK delayed \in 0 .. MaxDelay : Call(c, "sent", delayed, loadRunning, Null)
  BY DEF Send
<1> DEFINE new == [phase |-> "sent", at |-> now, delayed |-> delayed, loaded |-> loadRunning,
                   lost |-> Null]
<1>3. calls' = [calls EXCEPT ![c] = new]
  BY <1>2 DEF Call
<1>4. /\ new \in CallType /\ new.phase = "sent" /\ new.at = now
      /\ new.loaded = loadRunning /\ new.lost = Null
  BY <1>1 DEF CallType
<1> HIDE DEF new
<1>5. calls'[c] = new
  BY <1>1, <1>3
<1>6. Moved(c)
  BY <1>1, <1>3, <1>4, <1>5 DEF Moved
<1>7. Worked(c)
  <2>1. [call |-> c, try |-> 1, since |-> now] \in Requests
    BY <1>1 DEF Requests
  <2>2. \A w \in work' \ work : w = [call |-> c, try |-> 1, since |-> now]
    BY DEF Send, Arrives
  <2> QED
    BY <1>4, <1>5, <1>6, <2>1, <2>2 DEF Worked
<1>8. Left(store, store', c)
  BY <1>1, LeftAsItWas DEF RingOK
<1>9. now' = now /\ stored' = stored
  BY DEF Send
<1> QED
  BY <1>6, <1>7, <1>8, <1>9 DEF Stepped

LEMMA LoseSteps ==
  ASSUME Types, RingOK, CallsOK, NEW c \in Calls, Lose(c, loadRunning), UNCHANGED harness
  PROVE  Stepped(c)
<1>1. c \in Waiting /\ Returned(c, "none", work, loadRunning) /\ now' = now /\ stored' = stored
  BY DEF Lose
<1>2. Outcome(c, work, loadRunning)
  BY <1>1, ReturnedIs
<1>3. Moved(c) /\ Left(store, store', c) /\ Worked(c)
  BY <1>1, <1>2, OutcomeIs
<1> QED
  BY <1>1, <1>3 DEF Stepped

LEMMA DecideSteps ==
  ASSUME Types, RingOK, CallsOK, NEW w \in work, Decide(w, loadRunning), UNCHANGED harness
  PROVE  Stepped(w.call)
<1>1. w.call \in Calls
  BY DEF Types, Requests
<1>2. PICK status \in {"ok", "shed"} :
        /\ stored' = IF status = "ok" THEN stored \cup {w.call} ELSE stored
        /\ \/ Listening(w) /\ Returned(w.call, status, work \ {w}, loadRunning)
           \/ work' = work \ {w} /\ UNCHANGED <<store, calls>>
  BY DEF Decide
<1>3. now' = now
  BY DEF Decide
<1>4. \A order \in stored' \ stored : order \in Calls /\ \E v \in work : v.call = order
  BY <1>1, <1>2
<1>5. CASE Listening(w) /\ Returned(w.call, status, work \ {w}, loadRunning)
  <2>1. w.call \in Waiting
    BY <1>5 DEF Listening
  <2>2. Outcome(w.call, work \ {w}, loadRunning)
    BY <1>1, <1>5, ReturnedIs
  <2>3. Moved(w.call) /\ Left(store, store', w.call) /\ Worked(w.call)
    BY <2>1, <2>2, OutcomeIs
  <2> QED
    BY <1>3, <1>4, <2>3 DEF Stepped
<1>6. CASE work' = work \ {w} /\ UNCHANGED <<store, calls>>
  <2>1. Worked(w.call)
    BY <1>6 DEF Worked
  <2> QED
    BY <1>3, <1>4, <1>6, <2>1 DEF Stepped
<1> QED
  BY <1>2, <1>5, <1>6

(* A trace stays one, and its try does not become the last again.          *)
LEMMA TracedStays ==
  ASSUME Types, RingOK, CallsOK, NEW c \in Calls, Stepped(c),
         NEW k, k.call \in Calls, k.at \in Nat, k.try \in {1, 2}, Traced(k)
  PROVE  /\ Traced(k)'
         /\ k.try = TryOf(k.call)' =>
              /\ k.try = TryOf(k.call) /\ calls[k.call].phase = "done"
              /\ ~Moved(k.call)
<1>1. /\ now' = now /\ loadRunning' = loadRunning /\ quietSince' = quietSince
  BY DEF Stepped, harness, backoffice
<1>2. Quieted(k)'
  BY <1>1 DEF Traced, Quieted
<1>3. ~Moved(k.call) \/ calls[k.call].phase \in {"unsent", "sent", "probing"}
  BY DEF Moved
<1>4. CASE calls' = calls
  <2>1. TryOf(k.call)' = TryOf(k.call)
    BY <1>4 DEF TryOf
  <2>2. TryOf(k.call) \in Nat
    BY DEF TryOf
  <2>3. Traced(k)'
    BY <1>2, <1>4, <2>1 DEF Traced
  <2> QED
    BY <1>3, <2>1, <2>2, <2>3 DEF Traced
<1>5. CASE Moved(c) /\ k.call # c
  <2>1. calls'[k.call] = calls[k.call]
    BY <1>5 DEF Moved, Types
  <2>2. TryOf(k.call)' = TryOf(k.call)
    BY <2>1 DEF TryOf
  <2>3. Traced(k)'
    BY <1>2, <2>1, <2>2 DEF Traced
  <2>4. TryOf(k.call) \in Nat
    BY DEF TryOf
  <2> QED
    BY <1>3, <2>2, <2>3, <2>4 DEF Traced
<1>6. CASE Moved(c) /\ k.call = c
  <2>1. /\ calls[c].phase # "unsent" /\ calls[c].phase # "done"
        /\ k.at <= calls[c].at /\ k.try < TryOf(c) /\ calls[c].at <= now
    BY <1>6 DEF Traced, Moved, CallsOK
  <2>2. calls[c].lost # Null /\ TryOf(c) = 2
    BY <2>1 DEF TryOf
  <2>3. calls[c].phase = "probing"
    BY <2>1, <2>2 DEF CallsOK, Types, CallType
  <2>4. /\ calls'[c].phase = "done" /\ calls'[c].at = calls[c].at
        /\ calls'[c].lost = calls[c].lost
    BY <1>6, <2>3 DEF Moved
  <2>5. TryOf(k.call)' = 2
    BY <1>6, <2>2, <2>4 DEF TryOf
  <2> QED
    BY <1>2, <1>6, <2>1, <2>2, <2>4, <2>5 DEF Traced
<1> QED
  BY <1>4, <1>5, <1>6 DEF Stepped

LEMMA SteppedTypes ==
  ASSUME BackofficeInv, NEW c \in Calls, Stepped(c)
  PROVE  Types' /\ IsRing(store)' /\ OwnRows(store)' /\ store.nextId <= store'.nextId
<1>1. Types /\ RingOK
  BY DEF BackofficeInv
<1>2. IsRing(store') /\ OwnRows(store') /\ store.nextId <= store'.nextId
  <2>1. store.nextId \in Nat
    BY <1>1 DEF RingOK, IsRing
  <2>2. CASE calls' = calls /\ store' = store
    BY <1>1, <2>1, <2>2 DEF RingOK
  <2>3. CASE Moved(c) /\ Left(store, store', c)
    BY <2>3 DEF Left
  <2> QED
    BY <2>2, <2>3 DEF Stepped
<1>3. IsRing(store)' /\ OwnRows(store)'
  <2>1. IsRing(store)'
    BY <1>2 DEF IsRing, InRing, RowAt, Slot
  <2>2. OwnRows(store)'
    BY <1>2 DEF OwnRows, InRing, RowAt, Slot
  <2> QED
    BY <2>1, <2>2
<1>4. calls' \in [Calls -> CallType]
  BY <1>1 DEF Stepped, Moved, Types
<1>5. work' \subseteq Requests /\ stored' \subseteq Calls
  BY <1>1 DEF Stepped, Worked, Types
<1>6. scanned' \in 0 .. store'.nextId - 1
  <2>1. store.nextId \in Nat /\ store'.nextId \in Nat /\ scanned' = scanned
    BY <1>1, <1>2 DEF RingOK, IsRing, Stepped, harness, backoffice
  <2> QED
    BY <1>1, <1>2, <2>1 DEF Types
<1>7. Types'
  BY <1>1, <1>4, <1>5, <1>6 DEF Types, Stepped, harness, backoffice, CallType, Lossy, Requests
<1> QED
  BY <1>2, <1>3, <1>7

(* Each row left is one that was there, or a trace of the call that moved. *)
LEMMA SteppedRows ==
  ASSUME BackofficeInv, NEW c \in Calls, Stepped(c), NEW id \in InRing(store')
  PROVE  /\ isCall(RowAt(store', id)) => RowAt(store', id).try # 0 /\ Traced(RowAt(store, id))'
         /\ id < store.nextId => id \in InRing(store) /\ SameCall(RowAt(store', id), RowAt(store, id))
<1>1. Types /\ RingOK /\ CallsOK
  BY DEF BackofficeInv
<1>2. id < store.nextId => id \in InRing(store) /\ SameCall(RowAt(store', id), RowAt(store, id))
  <2>1. CASE calls' = calls /\ store' = store
    BY <2>1 DEF SameCall
  <2>2. CASE Moved(c) /\ Left(store, store', c)
    BY <2>2 DEF Left
  <2> QED
    BY <2>1, <2>2 DEF Stepped
<1>3. PICK row : row = RowAt(store', id)
  OBVIOUS
<1>4. IsRing(store)' /\ store'.nextId \in Nat /\ store.nextId \in Nat /\ id \in Nat
  <2>1. IsRing(store)'
    BY SteppedTypes
  <2>2. store'.nextId \in Nat /\ store.nextId \in Nat
    BY <1>1, <2>1 DEF IsRing, RingOK
  <2> QED
    BY <2>1, <2>2 DEF InRing
<1>5. row \in Attempts
  BY <1>3, <1>4 DEF IsRing, RowAt, InRing, Slot
<1>6. ASSUME isCall(row) PROVE row.try # 0 /\ Traced(row)'
  <2>1. row.call \in Calls /\ row.at \in Nat /\ row.try \in {0, 1, 2}
    BY <1>5, <1>6 DEF Attempts, isCall
  <2>2. CASE id < store.nextId
    <3>1. PICK old : old = RowAt(store, id)
      OBVIOUS
    <3>2. /\ id \in InRing(store) /\ row.call = old.call /\ row.try = old.try
          /\ row.at = old.at /\ row.loaded = old.loaded
      BY <1>2, <1>3, <2>2, <3>1 DEF SameCall
    <3>3. old.try # 0 /\ Traced(old)
      BY <1>1, <1>6, <3>1, <3>2 DEF RingOK, isCall
    <3>4. Traced(row)
      BY <3>2, <3>3 DEF Traced, Quieted
    <3>5. row.try \in {1, 2}
      BY <2>1, <3>2, <3>3
    <3> QED
      BY <1>1, <2>1, <3>4, <3>5, TracedStays
  <2>3. CASE ~(id < store.nextId)
    <3>1. Moved(c) /\ Left(store, store', c)
      <4>1. store' # store
        BY <1>1, <1>4, <2>3 DEF InRing
      <4> QED
        BY <4>1 DEF Stepped
    <3>2. row.call = c /\ row.try = TryOf(c) /\ row.at = calls[c].at /\ row.loaded = calls[c].loaded
      BY <1>3, <1>6, <2>3, <3>1 DEF Left, OfCall, isCall
    <3>3. store' # store
      BY <1>1, <1>4, <2>3 DEF InRing
    <3>4. calls[c].phase \in {"sent", "probing"} /\ calls'[c].phase # "unsent"
      BY <3>1, <3>3 DEF Moved
    <3>5. now' = now /\ loadRunning' = loadRunning /\ quietSince' = quietSince
      BY DEF Stepped, harness, backoffice
    <3>6. Quieted(row)'
      <4>1. Quieted(calls[c])
        BY <1>1, <3>4 DEF CallsOK
      <4> QED
        BY <3>2, <3>5, <4>1 DEF Quieted
    <3>7. calls[c].at \in Nat /\ calls[c].at <= now /\ Null \notin Nat
      BY <1>1, GatewayAssumption DEF Types, CallType, CallsOK
    <3>8. CASE calls'[c].phase = "probing"
      <4>1. /\ calls[c].phase = "sent" /\ calls'[c].at = now /\ calls'[c].lost = store.nextId
        BY <3>1, <3>4, <3>8 DEF Moved
      <4>2. TryOf(c) = 1 /\ TryOf(c)' = 2
        BY <1>1, <1>4, <3>7, <4>1 DEF CallsOK, TryOf
      <4> QED
        BY <3>2, <3>4, <3>6, <3>7, <4>1, <4>2 DEF Traced
    <3>9. CASE calls'[c].phase = "done"
      <4>1. calls'[c].at = calls[c].at /\ calls'[c].lost = calls[c].lost
        BY <3>1, <3>9 DEF Moved
      <4>2. TryOf(c)' = TryOf(c) /\ TryOf(c) \in {1, 2}
        BY <4>1 DEF TryOf
      <4> QED
        BY <3>2, <3>4, <3>6, <3>7, <3>9, <4>1, <4>2 DEF Traced
    <3> QED
      BY <3>1, <3>3, <3>8, <3>9 DEF Moved
  <2> QED
    BY <2>2, <2>3
<1>7. Traced(row)' => Traced(RowAt(store, id))'
  BY <1>3 DEF Traced, Quieted, TryOf, RowAt, Slot
<1> QED
  BY <1>2, <1>3, <1>6, <1>7

LEMMA SteppedRing ==
  ASSUME BackofficeInv, NEW c \in Calls, Stepped(c)
  PROVE  RingOK'
<1>1. IsRing(store)' /\ OwnRows(store)'
  BY SteppedTypes
<1>2. ASSUME NEW id \in InRing(store')
      PROVE  isCall(RowAt(store', id)) => RowAt(store', id).try # 0 /\ Traced(RowAt(store, id))'
  BY SteppedRows
<1>3. (\A id \in InRing(store) :
         isCall(RowAt(store, id)) => RowAt(store, id).try # 0 /\ Traced(RowAt(store, id)))'
  BY <1>2 DEF InRing, RowAt, Slot, isCall
<1> QED
  BY <1>1, <1>3 DEF RingOK

LEMMA SteppedCalls ==
  ASSUME BackofficeInv, NEW c \in Calls, Stepped(c)
  PROVE  CallsOK'
<1>1. Types /\ RingOK /\ CallsOK
  BY DEF BackofficeInv
<1>2. IsRing(store') /\ store.nextId <= store'.nextId /\ store.nextId \in Nat \ {0}
      /\ store'.nextId \in Nat
  <2>1. IsRing(store)' /\ store.nextId <= store'.nextId
    BY SteppedTypes
  <2>2. store.nextId \in Nat \ {0} /\ IsRing(store')
    BY <1>1, <2>1 DEF RingOK, IsRing, InRing, RowAt, Slot
  <2> QED
    BY <2>1, <2>2 DEF IsRing
<1>3. now' = now /\ loadRunning' = loadRunning /\ quietSince' = quietSince /\ now \in Nat
      /\ Null \notin Nat
  BY <1>1, BackofficeAssumption, GatewayAssumption DEF Stepped, harness, backoffice, Types
<1>4. ASSUME NEW d \in Calls, calls'[d] = calls[d]
      PROVE  /\ calls'[d].at <= now
             /\ calls'[d].phase \in {"unsent", "sent"} => calls'[d].lost = Null
             /\ calls'[d].phase = "probing" => calls'[d].lost # Null
             /\ calls'[d].lost # Null => calls'[d].lost \in 1 .. store'.nextId - 1
             /\ calls'[d].lost \in InRing(store') => RowAt(store', calls'[d].lost).call = d
             /\ calls'[d].phase # "unsent" => Quieted(calls[d])'
  <2>1. /\ calls[d].at <= now
        /\ calls[d].phase \in {"unsent", "sent"} => calls[d].lost = Null
        /\ calls[d].phase = "probing" => calls[d].lost # Null
        /\ calls[d].lost # Null => calls[d].lost \in 1 .. store.nextId - 1
        /\ calls[d].lost \in InRing(store) => RowAt(store, calls[d].lost).call = d
        /\ calls[d].phase # "unsent" => Quieted(calls[d])
    BY <1>1 DEF CallsOK
  <2>2. calls[d].phase # "unsent" => Quieted(calls[d])'
    BY <1>3, <1>4, <2>1 DEF Quieted
  <2>3. calls[d].lost # Null => calls[d].lost \in 1 .. store'.nextId - 1
    BY <1>2, <2>1
  <2>4. ASSUME calls[d].lost \in InRing(store')
        PROVE  RowAt(store', calls[d].lost).call = d
    <3>1. calls[d].lost # Null
      BY <1>2, <1>3, <2>4 DEF InRing
    <3>2. calls[d].lost < store.nextId
      BY <1>2, <2>1, <3>1
    <3>3. /\ calls[d].lost \in InRing(store)
          /\ RowAt(store', calls[d].lost).call = RowAt(store, calls[d].lost).call
      BY <2>4, <3>2, SteppedRows DEF SameCall
    <3> QED
      BY <2>1, <3>3
  <2> QED
    BY <1>4, <2>1, <2>2, <2>3, <2>4
<1>5. ASSUME Moved(c)
      PROVE  /\ calls'[c].at <= now
             /\ calls'[c].phase \in {"unsent", "sent"} => calls'[c].lost = Null
             /\ calls'[c].phase = "probing" => calls'[c].lost # Null
             /\ calls'[c].lost # Null => calls'[c].lost \in 1 .. store'.nextId - 1
             /\ calls'[c].lost \in InRing(store') => RowAt(store', calls'[c].lost).call = c
             /\ calls'[c].phase # "unsent" => Quieted(calls[c])'
  <2>1. /\ calls[c].at <= now /\ calls[c].loaded \in BOOLEAN
        /\ calls[c].lost # Null => calls[c].lost \in 1 .. store.nextId - 1
        /\ calls[c].lost \in InRing(store) => RowAt(store, calls[c].lost).call = c
        /\ calls[c].phase # "unsent" => Quieted(calls[c])
    BY <1>1 DEF CallsOK, Types, CallType
  <2>2. ASSUME calls'[c].at = now, calls'[c].loaded = loadRunning
        PROVE  Quieted(calls[c])'
    <3>1. loadRunning => quietSince = Null
      BY <1>1 DEF Types
    <3> QED
      BY <1>3, <2>2, <3>1 DEF Quieted
  <2>3. CASE /\ calls[c].phase = "unsent" /\ calls'[c].phase = "sent"
             /\ calls'[c].at = now /\ calls'[c].loaded = loadRunning /\ calls'[c].lost = Null
    BY <1>2, <1>3, <2>2, <2>3 DEF InRing
  <2>4. CASE /\ calls[c].phase = "sent" /\ calls'[c].phase = "probing"
             /\ calls'[c].at = now /\ calls'[c].loaded = loadRunning
             /\ calls'[c].lost = store.nextId /\ store.nextId < store'.nextId
             /\ store.nextId \in InRing(store') => RowAt(store', store.nextId).call = c
    BY <1>2, <1>3, <2>2, <2>4
  <2>5. CASE /\ calls[c].phase \in {"sent", "probing"} /\ calls'[c].phase = "done"
             /\ calls'[c].at = calls[c].at /\ calls'[c].loaded = calls[c].loaded
             /\ calls'[c].lost = calls[c].lost
    <3>1. Quieted(calls[c])'
      BY <1>3, <2>1, <2>5 DEF Quieted
    <3>2. calls[c].lost # Null => calls[c].lost \in 1 .. store'.nextId - 1
      BY <1>2, <2>1
    <3>3. ASSUME calls[c].lost \in InRing(store')
          PROVE  RowAt(store', calls[c].lost).call = c
      <4>1. calls[c].lost # Null
        BY <1>2, <1>3, <3>3 DEF InRing
      <4>2. calls[c].lost < store.nextId
        BY <1>2, <2>1, <4>1
      <4>3. /\ calls[c].lost \in InRing(store)
            /\ RowAt(store', calls[c].lost).call = RowAt(store, calls[c].lost).call
        BY <3>3, <4>2, SteppedRows DEF SameCall
      <4> QED
        BY <2>1, <4>3
    <3> QED
      BY <2>1, <2>5, <3>1, <3>2, <3>3
  <2> QED
    BY <1>5, <2>3, <2>4, <2>5 DEF Moved
<1>6. ASSUME NEW d \in Calls
      PROVE  /\ calls'[d].at <= now'
             /\ calls'[d].phase \in {"unsent", "sent"} => calls'[d].lost = Null
             /\ calls'[d].phase = "probing" => calls'[d].lost # Null
             /\ calls'[d].lost # Null => calls'[d].lost \in 1 .. store'.nextId - 1
             /\ calls'[d].lost \in InRing(store') => RowAt(store', calls'[d].lost).call = d
             /\ calls'[d].phase # "unsent" => Quieted(calls[d])'
  <2>1. CASE calls'[d] = calls[d]
    BY <1>3, <1>4, <2>1
  <2>2. CASE calls'[d] # calls[d]
    <3>1. Moved(c) /\ d = c
      BY <1>1, <2>2 DEF Stepped, Moved, Types
    <3> QED
      BY <1>3, <1>5, <3>1
  <2> QED
    BY <2>1, <2>2
<1> QED
  BY <1>6 DEF CallsOK, InRing, RowAt, Slot

LEMMA SteppedWork ==
  ASSUME BackofficeInv, NEW c \in Calls, Stepped(c)
  PROVE  WorkOK'
<1>1. Types /\ CallsOK /\ WorkOK /\ Types'
  BY SteppedTypes DEF BackofficeInv
<1>2. now' = now /\ now \in Nat /\ TARGET_CEILING \in Nat
  BY <1>1, BackofficeAssumption, GatewayAssumption DEF Stepped, Types
<1>3. ASSUME NEW w \in work'
      PROVE  /\ calls'[w.call].phase # "unsent"
             /\ w.since <= calls'[w.call].at
             /\ now' <= w.since + TARGET_CEILING
  <2>1. w.call \in Calls /\ w.since \in Nat
    BY <1>1 DEF Types, Requests
  <2>2. CASE w \in work
    <3>1. /\ calls[w.call].phase # "unsent" /\ w.since <= calls[w.call].at
          /\ now <= w.since + TARGET_CEILING
      BY <1>1, <2>2 DEF WorkOK
    <3>2. calls[w.call].at \in Nat /\ calls[w.call].at <= now
      BY <1>1, <2>1 DEF CallsOK, Types, CallType
    <3>3. CASE calls'[w.call] = calls[w.call]
      BY <1>2, <3>1, <3>3
    <3>4. CASE calls'[w.call] # calls[w.call]
      <4>1. Moved(c) /\ w.call = c
        BY <1>1, <2>1, <3>4 DEF Stepped, Moved, Types
      <4>2. calls'[c].phase # "unsent" /\ calls[c].at <= calls'[c].at
        BY <1>2, <3>2, <4>1 DEF Moved
      <4>3. calls'[c].at \in Nat
        BY <1>1 DEF Types, CallType
      <4> QED
        BY <1>2, <2>1, <3>1, <3>2, <4>1, <4>2, <4>3
    <3> QED
      BY <3>3, <3>4
  <2>3. CASE w \notin work
    <3>1. w.call = c /\ w.since = now /\ Moved(c) /\ calls'[c].phase # "done"
      BY <2>3 DEF Stepped, Worked
    <3>2. calls'[c].phase # "unsent" /\ calls'[c].at = now
      BY <3>1 DEF Moved
    <3> QED
      BY <1>2, <3>1, <3>2
  <2> QED
    BY <2>2, <2>3
<1> QED
  BY <1>3 DEF WorkOK

LEMMA SteppedLosses ==
  ASSUME BackofficeInv, NEW c \in Calls, Stepped(c)
  PROVE  LossesOK'
<1>1. Types /\ RingOK /\ CallsOK /\ LossesOK
  BY DEF BackofficeInv
<1>2. pending' = pending /\ scanned' = scanned /\ anomalies' = anomalies
  BY DEF Stepped, harness, backoffice
<1>3. ASSUME NEW loss \in pending PROVE Traced(loss)'
  <2>1. loss \in Lossy /\ Traced(loss)
    BY <1>1 DEF Types, LossesOK
  <2> QED
    BY <1>1, <2>1, TracedStays DEF Lossy
<1>4. ASSUME NEW id \in InRing(store'), lostCandidate(RowAt(store', id)), id <= scanned
      PROVE  AwaitsMatch(id) \/ Judged(id)
  <2>1. id < store.nextId
    <3>1. id \in Nat
      <4>1. store'.nextId \in Nat
        BY SteppedTypes DEF IsRing
      <4> QED
        BY <4>1 DEF InRing
    <3>2. scanned \in 0 .. store.nextId - 1 /\ store.nextId \in Nat
      BY <1>1 DEF Types, RingOK, IsRing
    <3> QED
      BY <1>4, <3>1, <3>2
  <2>2. id \in InRing(store) /\ SameCall(RowAt(store', id), RowAt(store, id))
    BY <2>1, SteppedRows
  <2>3. lostCandidate(RowAt(store, id))
    BY <1>4, <2>2 DEF SameCall, lostCandidate, isCall
  <2> QED
    BY <1>1, <1>4, <2>2, <2>3 DEF LossesOK
<1>5. ASSUME NEW id PROVE Judged(id)' <=> Judged(id)
  BY <1>2 DEF Judged
<1>6. ASSUME NEW id PROVE AwaitsMatch(id)' <=> AwaitsMatch(id)
  BY <1>2 DEF AwaitsMatch
<1>7. (\A loss \in pending : loss.attemptId <= scanned /\ Traced(loss) /\ ~Judged(loss.attemptId))'
  BY <1>1, <1>2, <1>3, <1>5 DEF LossesOK
<1>8. (\A loss, other \in pending : loss.attemptId = other.attemptId => loss = other)'
  BY <1>1, <1>2 DEF LossesOK
<1>9. (\A id \in InRing(store) :
         lostCandidate(RowAt(store, id)) /\ id <= scanned => AwaitsMatch(id) \/ Judged(id))'
  BY <1>2, <1>4, <1>5, <1>6 DEF InRing, RowAt, Slot, lostCandidate, isCall
<1> QED
  BY <1>7, <1>8, <1>9 DEF LossesOK

LEMMA SteppedFindings ==
  ASSUME BackofficeInv, NEW c \in Calls, Stepped(c)
  PROVE  FindingsOK'
<1>1. Types /\ RingOK /\ CallsOK /\ FindingsOK
  BY DEF BackofficeInv
<1>2. anomalies' = anomalies /\ scanned' = scanned
  BY DEF Stepped, harness, backoffice
<1>3. ASSUME NEW finding \in DOMAIN anomalies
      PROVE  /\ Traced(finding.of)'
             /\ NeverProcessed(finding) /\ finding.of.try = TryOf(finding.of.call)'
                  => Finished(finding.of.call)'
  <2> DEFINE k == finding.of
  <2>1. k \in Lossy /\ Traced(k)
    BY <1>1 DEF FindingsOK
  <2>2. /\ Traced(k)'
        /\ k.try = TryOf(k.call)' =>
             k.try = TryOf(k.call) /\ calls[k.call].phase = "done" /\ ~Moved(k.call)
    BY <1>1, <2>1, TracedStays DEF Lossy
  <2>3. ASSUME NeverProcessed(finding), k.try = TryOf(k.call)' PROVE Finished(k.call)'
    <3>1. Finished(k.call) /\ ~Moved(k.call)
      BY <1>1, <2>2, <2>3 DEF FindingsOK
    <3>2. k.call \notin stored'
      BY <3>1 DEF Stepped, Finished
    <3>3. \A w \in work' : w.call # k.call
      BY <3>1 DEF Stepped, Worked, Finished
    <3> QED
      BY <3>2, <3>3 DEF Finished
  <2> QED
    BY <2>2, <2>3
<1>4. (\A finding \in DOMAIN anomalies :
        /\ anomalies[finding] = 1
        /\ finding.of \in Lossy
        /\ finding.of.attemptId <= scanned
        /\ Traced(finding.of)
        /\ NeverProcessed(finding) /\ finding.of.try = TryOf(finding.of.call)
             => Finished(finding.of.call)
        /\ finding.rule = "unexpected_shedding" => ~finding.of.loaded)'
  BY <1>1, <1>2, <1>3 DEF FindingsOK, NeverProcessed
<1>5. (/\ anomalies \in [DOMAIN anomalies -> Nat \ {0}]
       /\ \A finding, other \in DOMAIN anomalies :
            finding.of.attemptId = other.of.attemptId /\ finding.rule = other.rule
              => finding = other)'
  BY <1>1, <1>2 DEF FindingsOK
<1> QED
  BY <1>4, <1>5 DEF FindingsOK

LEMMA SteppedKeeps ==
  ASSUME BackofficeInv, NEW c \in Calls, Stepped(c)
  PROVE  BackofficeInv'
<1>1. SweepsOK'
  <2>1. sweeps' = sweeps /\ now' = now
    BY DEF Stepped, harness
  <2> QED
    BY <2>1 DEF BackofficeInv, SweepsOK, InFlight, reconcilable
<1> QED
  BY <1>1, SteppedTypes, SteppedRing, SteppedCalls, SteppedWork, SteppedLosses, SteppedFindings
     DEF BackofficeInv

-----------------------------------------------------------------------------
(***************************************************************************)
(* A step of the back office that marks when the harness fell quiet.       *)
(***************************************************************************)
Marks ==
  /\ UNCHANGED gateway
  /\ loadRunning' \in BOOLEAN
  /\ loadRunning /\ ~loadRunning' => LoadHasEnded
  /\ quietSince' = Quiet(loadRunning' \/ simulating)

LEMMA MarkIs ==
  ASSUME Types, Marks
  PROVE  /\ quietSince' \in {Null} \cup 0 .. MaxTime
         /\ quietSince' # Null => /\ ~loadRunning'
                                  /\ \/ quietSince' = now
                                     \/ quietSince' = quietSince
  BY DEF Types, Marks, Quiet

LEMMA MarkQuiets ==
  ASSUME Types, Marks, NEW c \in Calls, calls[c].phase # "unsent",
         NEW k, k.at \in Nat, k.at <= calls[c].at, Quieted(k)
  PROVE  Quieted(k)'
<1>1. now' = now /\ now \in Nat /\ Null \notin Nat
  BY BackofficeAssumption, GatewayAssumption DEF Types, Marks, gateway
<1>2. ASSUME k.loaded, ~loadRunning' PROVE k.at < now
  <2>1. CASE loadRunning
    <3>1. LoadHasEnded
      BY <1>2, <2>1 DEF Marks
    <3>2. calls[c].at < now /\ calls[c].at \in Nat
      BY <3>1 DEF LoadHasEnded, Types, CallType
    <3> QED
      BY <1>1, <3>2
  <2>2. CASE ~loadRunning
    BY <1>2, <2>2 DEF Quieted
  <2> QED
    BY <2>1, <2>2
<1>3. ASSUME k.loaded, quietSince' # Null PROVE k.at < quietSince'
  <2>1. ~loadRunning' /\ (quietSince' = now \/ quietSince' = quietSince)
    BY <1>3, MarkIs
  <2>2. quietSince' = now => k.at < quietSince'
    BY <1>1, <1>2, <1>3, <2>1
  <2>3. quietSince' = quietSince => k.at < quietSince'
    BY <1>3 DEF Quieted
  <2> QED
    BY <2>1, <2>2, <2>3
<1> QED
  BY <1>1, <1>2, <1>3 DEF Quieted

LEMMA MarkTraced ==
  ASSUME Types, Marks, NEW k, k.call \in Calls, k.at \in Nat, Traced(k)
  PROVE  Traced(k)'
<1>1. Quieted(k)'
  BY MarkQuiets DEF Traced
<1>2. calls' = calls
  BY DEF Marks, gateway
<1> QED
  BY <1>1, <1>2 DEF Traced, TryOf

LEMMA MarkKeeps ==
  ASSUME Types, RingOK, CallsOK, WorkOK, Marks
  PROVE  RingOK' /\ CallsOK' /\ WorkOK'
<1>1. UNCHANGED <<now, store, calls, work, stored>>
  BY DEF Marks, gateway
<1>2. InRing(store)' = InRing(store) /\ IsRing(store)' /\ OwnRows(store)'
  BY <1>1 DEF RingOK, IsRing, OwnRows, InRing, RowAt, Slot
<1>3. ASSUME NEW id \in InRing(store), isCall(RowAt(store, id))
      PROVE  RowAt(store, id).try # 0 /\ Traced(RowAt(store, id))'
  <2>1. PICK row : row = RowAt(store, id)
    OBVIOUS
  <2>2. row \in Attempts
    BY <2>1, RingRow DEF RingOK
  <2>3. row.call \in Calls /\ row.at \in Nat /\ row.try # 0 /\ Traced(row)
    BY <1>3, <2>1, <2>2 DEF RingOK, Attempts, isCall
  <2>4. Traced(row)'
    BY <2>3, MarkTraced
  <2>5. Traced(row)' => Traced(RowAt(store, id))'
    BY <1>1, <2>1 DEF Traced, Quieted, TryOf, RowAt, Slot
  <2> QED
    BY <2>1, <2>3, <2>4, <2>5
<1>4. RingOK'
  BY <1>1, <1>2, <1>3 DEF RingOK, isCall, RowAt, Slot
<1>5. ASSUME NEW c \in Calls, calls[c].phase # "unsent" PROVE Quieted(calls[c])'
  <2>1. PICK k : k = calls[c]
    OBVIOUS
  <2>2. k.at \in Nat /\ k.at <= calls[c].at /\ Quieted(k)
    BY <1>5, <2>1 DEF Types, CallType, CallsOK
  <2>3. Quieted(k)'
    BY <1>5, <2>2, MarkQuiets
  <2> QED
    BY <1>1, <2>1, <2>3 DEF Quieted
<1>6. CallsOK'
  BY <1>1, <1>2, <1>5 DEF CallsOK, RowAt, Slot
<1>7. WorkOK'
  BY <1>1 DEF WorkOK
<1> QED
  BY <1>4, <1>6, <1>7

LEMMA LoadRunningKeeps ==
  ASSUME BackofficeInv, NEW running \in BOOLEAN, setLoadRunning(running)
  PROVE  BackofficeInv'
<1>1. /\ Types /\ RingOK /\ CallsOK /\ WorkOK /\ LossesOK /\ SweepsOK /\ FindingsOK
  BY DEF BackofficeInv
<1>2. UNCHANGED <<now, store, calls, work, stored, simulating, scanned, pending, anomalies, sweeps>>
  BY DEF setLoadRunning, gateway
<1>3. Marks
  <2>1. loadRunning' = running /\ quietSince' = Quiet(running \/ simulating)
    BY DEF setLoadRunning
  <2>2. running \/ LoadHasEnded
    BY DEF setLoadRunning
  <2>3. UNCHANGED gateway
    BY DEF setLoadRunning
  <2> QED
    BY <2>1, <2>2, <2>3 DEF Marks
<1>4. Types'
  BY <1>1, <1>2, <1>3, MarkIs DEF Types, Marks, CallType, Lossy, Requests
<1>5. RingOK' /\ CallsOK' /\ WorkOK'
  BY <1>1, <1>3, MarkKeeps
<1>6. LossesOK'
  <2>1. \A loss \in pending : Traced(loss)'
    BY <1>1, <1>3, MarkTraced DEF Types, Lossy, LossesOK
  <2>2. \A id : (Judged(id)' <=> Judged(id)) /\ (AwaitsMatch(id)' <=> AwaitsMatch(id))
    BY <1>2 DEF Judged, AwaitsMatch
  <2> QED
    BY <1>1, <1>2, <2>1, <2>2 DEF LossesOK, InRing, RowAt, Slot
<1>7. SweepsOK'
  BY <1>1, <1>2 DEF SweepsOK, InFlight, reconcilable
<1>8. FindingsOK'
  <2>1. \A finding \in DOMAIN anomalies : Traced(finding.of)'
    BY <1>1, <1>3, MarkTraced DEF Lossy, FindingsOK
  <2>2. \A c : (Finished(c)' <=> Finished(c)) /\ (TryOf(c)' = TryOf(c))
    BY <1>2 DEF Finished, TryOf
  <2> QED
    BY <1>1, <1>2, <2>1, <2>2 DEF FindingsOK, NeverProcessed
<1> QED
  BY <1>4, <1>5, <1>6, <1>7, <1>8 DEF BackofficeInv

LEMMA GatewayStays ==
  ASSUME RingOK, CallsOK, WorkOK,
         UNCHANGED <<now, store, calls, work, stored, loadRunning, quietSince>>
  PROVE  RingOK' /\ CallsOK' /\ WorkOK'
<1>1. InRing(store)' = InRing(store) /\ IsRing(store)' /\ OwnRows(store)'
  BY DEF RingOK, IsRing, OwnRows, InRing, RowAt, Slot
<1>2. ASSUME NEW k PROVE Traced(k)' <=> Traced(k)
  BY DEF Traced, Quieted, TryOf
<1>3. ASSUME NEW id \in InRing(store), isCall(RowAt(store, id))
      PROVE  RowAt(store, id).try # 0 /\ Traced(RowAt(store, id))'
  <2>1. PICK row : row = RowAt(store, id)
    OBVIOUS
  <2>2. row.try # 0 /\ Traced(row)'
    BY <1>2, <1>3, <2>1 DEF RingOK
  <2>3. Traced(row)' => Traced(RowAt(store, id))'
    BY <2>1 DEF Traced, Quieted, TryOf, RowAt, Slot
  <2> QED
    BY <2>1, <2>2, <2>3
<1>4. RingOK'
  BY <1>1, <1>3 DEF RingOK, isCall, RowAt, Slot
<1>5. CallsOK'
  BY <1>1 DEF CallsOK, Quieted, RowAt, Slot
<1>6. WorkOK'
  BY DEF WorkOK
<1> QED
  BY <1>4, <1>5, <1>6

(* The simulation is no part of the invariant.                             *)
LEMMA SimulatingKeeps ==
  ASSUME BackofficeInv, NEW running \in BOOLEAN, setSimulating(running)
  PROVE  BackofficeInv'
<1>1. UNCHANGED <<now, store, calls, work, stored, loadRunning, quietSince, scanned, pending,
                  anomalies, sweeps>> /\ simulating' \in BOOLEAN
  BY DEF setSimulating, gateway, backoffice
<1>2. Types'
  BY <1>1 DEF BackofficeInv, Types, CallType, Lossy, Requests
<1>3. RingOK' /\ CallsOK' /\ WorkOK'
  BY <1>1, GatewayStays DEF BackofficeInv
<1>4. LossesOK'
  BY <1>1 DEF BackofficeInv, LossesOK, Traced, Quieted, TryOf, Judged, AwaitsMatch, InRing,
              RowAt, Slot, lostCandidate, isCall
<1>5. SweepsOK' /\ FindingsOK'
  BY <1>1 DEF BackofficeInv, SweepsOK, InFlight, reconcilable, FindingsOK, Traced, Quieted,
              TryOf, NeverProcessed, Finished
<1> QED
  BY <1>2, <1>3, <1>4, <1>5 DEF BackofficeInv

-----------------------------------------------------------------------------
(***************************************************************************)
(* A sweep: what it has looked at, what it leaves to the database, and     *)
(* what it finds.                                                          *)
(***************************************************************************)
Ids == {k \in InRing(store) : k > scanned /\ Reached(k)}

LEMMA IdsAre ==
  ASSUME Types, RingOK
  PROVE  /\ Scannable = {RowAt(store, id) : id \in Ids}
         /\ \A id \in Ids : /\ id \in InRing(store) /\ id \in Nat \ {0} /\ scanned < id
                            /\ RowAt(store, id) \in Attempts /\ RowAt(store, id).id = id
         /\ \A id \in InRing(store), k \in Ids : scanned < id /\ id <= k => id \in Ids
<1>1. IsRing(store) /\ scanned \in Nat
  BY DEF Types, RingOK
<1>2. Scannable = {RowAt(store, id) : id \in Ids}
  BY <1>1, ScannableIs DEF Ids
<1>3. ASSUME NEW id \in Ids
      PROVE  /\ id \in InRing(store) /\ id \in Nat \ {0} /\ scanned < id
             /\ RowAt(store, id) \in Attempts /\ RowAt(store, id).id = id
  <2>1. id \in InRing(store) /\ id > scanned
    BY DEF Ids
  <2> QED
    BY <1>1, <2>1, RingRow
<1>4. ASSUME NEW id \in InRing(store), NEW k \in Ids, scanned < id, id <= k
      PROVE  id \in Ids
  <2>1. \A j \in InRing(store) : scanned < j /\ j <= k => Settled(RowAt(store, j))
    BY DEF Ids, Reached
  <2>2. k \in Nat /\ id \in Nat /\ \A j \in InRing(store) : j \in Nat
    BY <1>1, <1>3, RingRow
  <2>3. \A j \in InRing(store) : scanned < j /\ j <= id => Settled(RowAt(store, j))
    BY <1>4, <2>1, <2>2
  <2> QED
    BY <1>1, <1>4, <2>3 DEF Ids, Reached
<1> QED
  BY <1>2, <1>3, <1>4

LEMMA ScannedIs ==
  ASSUME Types, RingOK
  PROVE  LET reached == Max({scanned} \cup {row.id : row \in Scannable}) IN
         /\ reached \in scanned .. store.nextId - 1
         /\ \A id \in Ids : id <= reached
         /\ reached = scanned \/ reached \in Ids
<1> DEFINE S == {scanned} \cup {row.id : row \in Scannable}
<1>1. scanned \in 0 .. store.nextId - 1 /\ store.nextId \in Nat \ {0}
  BY DEF Types, RingOK, IsRing
<1>2. \A id \in Ids : id \in InRing(store) /\ id \in Nat \ {0} /\ scanned < id
                      /\ RowAt(store, id).id = id
  BY IdsAre
<1>3. {row.id : row \in Scannable} = Ids
  BY <1>2, IdsAre
<1>4. \A id \in Ids : id <= store.nextId - 1
  BY <1>1, <1>2 DEF InRing
<1>5. S = {scanned} \cup Ids
  BY <1>3
<1> HIDE DEF S
<1>6. S \in SUBSET Nat /\ S # {} /\ store.nextId - 1 \in Nat /\ \A x \in S : x <= store.nextId - 1
  BY <1>1, <1>2, <1>4, <1>5
<1>7. Max(S) \in S /\ \A x \in S : x <= Max(S)
  BY <1>6, MaxIs
<1>8. /\ Max(S) \in scanned .. store.nextId - 1
      /\ \A id \in Ids : id <= Max(S)
      /\ Max(S) = scanned \/ Max(S) \in Ids
  <2>1. PICK m : m = Max(S)
    OBVIOUS
  <2>2. m \in S /\ \A x \in S : x <= m
    BY <1>7, <2>1
  <2>3. m \in Nat /\ m <= store.nextId - 1 /\ scanned <= m /\ \A id \in Ids : id <= m
    BY <1>5, <1>6, <2>2
  <2>4. m \in scanned .. store.nextId - 1
    BY <1>1, <2>3
  <2>5. m = scanned \/ m \in Ids
    BY <1>5, <2>2
  <2> QED
    BY <2>1, <2>3, <2>4, <2>5
<1> QED
  BY <1>8 DEF S

LEMMA KeptIs ==
  ASSUME Types, RingOK, NEW id \in Ids, isCall(RowAt(store, id))
  PROVE  /\ Kept(RowAt(store, id)) \in Lossy
         /\ Kept(RowAt(store, id)).attemptId = id
         /\ Traced(Kept(RowAt(store, id)))
<1>1. PICK row : row = RowAt(store, id)
  OBVIOUS
<1>2. row \in Attempts /\ row.id = id /\ id \in Nat \ {0} /\ id \in InRing(store)
  BY <1>1, IdsAre
<1>3. row.call # Null /\ row.try # 0 /\ Traced(row)
  BY <1>1, <1>2 DEF RingOK, isCall
<1>4. Kept(row) \in Lossy /\ Kept(row).attemptId = id
  BY <1>2, <1>3 DEF Kept, Lossy, Attempts
<1>5. Traced(Kept(row))
  BY <1>3 DEF Traced, Quieted, Kept
<1> QED
  BY <1>1, <1>4, <1>5

LEMMA SweepKeeps ==
  ASSUME BackofficeInv, NEW s \in Sweepers, sweep(s)
  PROVE  BackofficeInv'
<1> DEFINE quiet == Quiet(loadRunning \/ simulating)
           lost == {Kept(row) : row \in {r \in Scannable : lostCandidate(r)}}
           known == pending \cup lost
           due == {loss \in known : reconcilable(loss)}
           found == {row \in Scannable : unexpectedShedding(row, quiet)}
           reports == {Finding(Kept(row), "unexpected_shedding", "none") : row \in found}
<1>1. /\ Types /\ RingOK /\ CallsOK /\ WorkOK /\ LossesOK /\ SweepsOK /\ FindingsOK
  BY DEF BackofficeInv
<1>2. /\ InFlight = {}
      /\ quietSince' = quiet
      /\ scanned' = Max({scanned} \cup {row.id : row \in Scannable})
      /\ pending' = known
      /\ anomalies' = anomalies (+) SetToBag(reports)
      /\ sweeps' = [sweeps EXCEPT ![s] = IF due = {} THEN Idle
                      ELSE [due |-> due, acknowledged |-> acknowledgedOrders]]
      /\ UNCHANGED <<now, store, calls, work, stored, loadRunning, simulating>>
  BY DEF sweep, gateway, Reported
<1>3. Marks
  BY <1>1, <1>2 DEF Marks, gateway, Types
<1>4. scanned \in Nat /\ scanned' \in scanned .. store.nextId - 1
      /\ (\A id \in Ids : id <= scanned') /\ (scanned' = scanned \/ scanned' \in Ids)
      /\ store.nextId \in Nat
  BY <1>1, <1>2, ScannedIs DEF Types, RingOK, IsRing
<1>5. \A id \in Ids : /\ id \in InRing(store) /\ id \in Nat \ {0} /\ scanned < id
                      /\ RowAt(store, id).id = id /\ ~(id <= scanned)
  BY <1>1, <1>4, IdsAre
<1>6. Scannable = {RowAt(store, id) : id \in Ids}
  BY <1>1, IdsAre
<1>7. ASSUME NEW loss \in lost
      PROVE  \E id \in Ids : /\ lostCandidate(RowAt(store, id)) /\ loss = Kept(RowAt(store, id))
                             /\ loss \in Lossy /\ loss.attemptId = id /\ Traced(loss)
  <2>1. PICK id \in Ids : lostCandidate(RowAt(store, id)) /\ loss = Kept(RowAt(store, id))
    BY <1>6, <1>7
  <2>2. /\ Kept(RowAt(store, id)) \in Lossy /\ Kept(RowAt(store, id)).attemptId = id
        /\ Traced(Kept(RowAt(store, id)))
    BY <1>1, <2>1, KeptIs DEF lostCandidate
  <2>3. Traced(Kept(RowAt(store, id))) => Traced(loss)
    BY <2>1
  <2> QED
    BY <2>1, <2>2, <2>3
<1>8. ASSUME NEW finding \in reports
      PROVE  \E id \in Ids :
               /\ finding.of \in Lossy /\ finding.of.attemptId = id /\ Traced(finding.of)
               /\ finding = Finding(Kept(RowAt(store, id)), "unexpected_shedding", "none")
               /\ finding.rule = "unexpected_shedding" /\ quiet # Null /\ finding.of.at >= quiet
  <2>1. PICK id \in Ids :
          /\ unexpectedShedding(RowAt(store, id), quiet)
          /\ finding = Finding(Kept(RowAt(store, id)), "unexpected_shedding", "none")
    BY <1>6, <1>8
  <2> DEFINE kept == Kept(RowAt(store, id))
  <2>2. kept \in Lossy /\ kept.attemptId = id /\ Traced(kept)
    BY <1>1, <2>1, KeptIs DEF unexpectedShedding
  <2>3. kept.at >= quiet /\ quiet # Null
    BY <2>1 DEF unexpectedShedding, Kept
  <2> HIDE DEF kept
  <2>4. finding = Finding(kept, "unexpected_shedding", "none")
    BY <2>1 DEF kept
  <2>5. finding.of = kept /\ finding.rule = "unexpected_shedding"
    BY <2>4 DEF Finding
  <2> QED
    BY <2>1, <2>2, <2>3, <2>5
<1> HIDE DEF lost, found, reports, quiet
<1>9. RingOK' /\ CallsOK' /\ WorkOK'
  BY <1>1, <1>3, MarkKeeps
<1>10. known \subseteq Lossy /\ due \subseteq known
  BY <1>1, <1>7 DEF Types
<1>11. acknowledgedOrders \subseteq Calls
  <2>1. \A i \in DOMAIN store.buffer : store.buffer[i].orderId \in Calls \cup {Null}
    BY <1>1, RowsAre DEF RingOK, Attempts
  <2> QED
    BY <2>1 DEF acknowledgedOrders
<1> HIDE DEF known
<1>12. /\ sweeps' \in [Sweepers -> [due : SUBSET Lossy, acknowledged : SUBSET Calls]]
       /\ \A t \in Sweepers : sweeps'[t].due \in {{}, due} /\ (t # s => sweeps'[t].due = {})
  <2>1. \A t \in Sweepers : sweeps[t].due = {}
    BY <1>2 DEF InFlight
  <2> DEFINE new == IF due = {} THEN Idle ELSE [due |-> due, acknowledged |-> acknowledgedOrders]
  <2>2. new \in [due : SUBSET Lossy, acknowledged : SUBSET Calls] /\ new.due = due
    BY <1>10, <1>11 DEF Idle
  <2> HIDE DEF new, due
  <2>3. sweeps' = [sweeps EXCEPT ![s] = new]
    BY <1>2 DEF new
  <2> QED
    BY <1>1, <2>1, <2>2, <2>3 DEF Types
<1>13. Types'
  <2>1. scanned' \in 0 .. store'.nextId - 1
    BY <1>2, <1>4
  <2>2. quietSince' \in {Null} \cup 0 .. MaxTime /\ (quietSince' # Null => ~loadRunning')
    BY <1>1, <1>3, MarkIs
  <2>3. \A t \in Sweepers : sweeps'[t].due \subseteq pending'
    BY <1>2, <1>10, <1>12
  <2> HIDE DEF due
  <2> QED
    BY <1>1, <1>2, <1>10, <1>12, <2>1, <2>2, <2>3 DEF Types, CallType, Lossy, Requests
<1>14. /\ BagToSet(anomalies)' = DOMAIN anomalies \cup reports
       /\ \A finding \in DOMAIN anomalies \cup reports :
            anomalies'[finding] = (IF finding \in DOMAIN anomalies THEN anomalies[finding] ELSE 0)
                                  + (IF finding \in reports THEN 1 ELSE 0)
       /\ DOMAIN anomalies' = DOMAIN anomalies \cup reports
       /\ anomalies' = [finding \in DOMAIN anomalies' |-> anomalies'[finding]]
       /\ (DOMAIN anomalies)' = DOMAIN anomalies \cup reports
  <2>1. DOMAIN SetToBag(reports) = reports /\ \A e \in reports : SetToBag(reports)[e] = 1
    BY DEF SetToBag
  <2> DEFINE bag == SetToBag(reports)
  <2> HIDE DEF bag
  <2>2. DOMAIN bag = reports /\ \A e \in reports : bag[e] = 1
    BY <2>1 DEF bag
  <2>3. anomalies' = [e \in DOMAIN anomalies \cup reports |->
                        (IF e \in DOMAIN anomalies THEN anomalies[e] ELSE 0)
                        + (IF e \in DOMAIN bag THEN bag[e] ELSE 0)]
    BY <1>2, <2>2 DEF (+), bag
  <2> QED
    BY <2>2, <2>3 DEF BagToSet
<1>15. ASSUME NEW id PROVE Judged(id)' <=> Judged(id)
  <2>1. \A finding \in reports : finding.rule # "lost_order"
    BY <1>8
  <2> QED
    BY <1>14, <2>1 DEF Judged, BagToSet
<1>16. LossesOK'
  <2>1. ASSUME NEW loss \in known
        PROVE  /\ loss.attemptId <= scanned' /\ Traced(loss)' /\ ~Judged(loss.attemptId)'
               /\ loss \in pending <=> loss.attemptId <= scanned
    <3>1. CASE loss \in pending
      <4>1. loss.attemptId <= scanned /\ Traced(loss) /\ ~Judged(loss.attemptId) /\ loss \in Lossy
        BY <1>1, <3>1 DEF LossesOK, Types
      <4>2. Traced(loss)'
        BY <1>1, <1>3, <4>1, MarkTraced DEF Lossy
      <4>3. loss.attemptId \in Nat
        BY <4>1 DEF Lossy
      <4> QED
        BY <1>4, <1>15, <3>1, <4>1, <4>2, <4>3
    <3>2. CASE loss \in lost
      <4>1. PICK id \in Ids : loss \in Lossy /\ loss.attemptId = id /\ Traced(loss)
        BY <1>7, <3>2
      <4>2. Traced(loss)'
        BY <1>1, <1>3, <4>1, MarkTraced DEF Lossy
      <4>3. id <= scanned' /\ ~(id <= scanned)
        BY <1>4, <1>5
      <4>4. ~Judged(id)
        BY <1>1, <4>3 DEF Judged, FindingsOK, BagToSet
      <4>5. loss \notin pending
        BY <1>1, <4>1, <4>3 DEF LossesOK
      <4> QED
        BY <1>15, <4>1, <4>2, <4>3, <4>4, <4>5
    <3> QED
      BY <3>1, <3>2 DEF known
  <2>2. ASSUME NEW loss \in known, NEW other \in known, loss.attemptId = other.attemptId
        PROVE  loss = other
    <3>1. CASE loss \in pending
      <4>1. other \in pending
        BY <2>1, <2>2, <3>1
      <4> QED
        BY <1>1, <2>2, <3>1, <4>1 DEF LossesOK
    <3>2. CASE loss \notin pending
      <4>1. loss \in lost /\ other \in lost
        BY <2>1, <2>2, <3>2 DEF known
      <4>2. PICK id \in Ids : loss = Kept(RowAt(store, id)) /\ loss.attemptId = id
        BY <1>7, <4>1
      <4>3. PICK k \in Ids : other = Kept(RowAt(store, k)) /\ other.attemptId = k
        BY <1>7, <4>1
      <4> QED
        BY <2>2, <4>2, <4>3
    <3> QED
      BY <3>1, <3>2
  <2>3. ASSUME NEW id \in InRing(store), lostCandidate(RowAt(store, id)), id <= scanned'
        PROVE  (\E loss \in known : loss.attemptId = id) \/ Judged(id)
    <3>1. CASE id <= scanned
      BY <1>1, <2>3, <3>1 DEF LossesOK, AwaitsMatch, known
    <3>2. CASE ~(id <= scanned)
      <4>1. id \in Nat
        BY <1>4 DEF InRing
      <4>2. scanned' \in Ids /\ scanned < id
        BY <1>4, <2>3, <3>2, <4>1
      <4>3. id \in Ids
        BY <1>1, <2>3, <4>2, IdsAre
      <4>4. Kept(RowAt(store, id)) \in lost /\ Kept(RowAt(store, id)).attemptId = id
        <5>1. RowAt(store, id) \in Scannable
          BY <1>6, <4>3
        <5>2. Kept(RowAt(store, id)) \in lost
          BY <2>3, <5>1 DEF lost
        <5>3. Kept(RowAt(store, id)).attemptId = id
          BY <1>1, <2>3, <4>3, KeptIs DEF lostCandidate
        <5> QED
          BY <5>2, <5>3
      <4> QED
        BY <4>4 DEF known
    <3> QED
      BY <3>1, <3>2
  <2>4. (\A loss \in pending : loss.attemptId <= scanned /\ Traced(loss) /\ ~Judged(loss.attemptId))'
    BY <1>2, <2>1
  <2>5. (\A loss, other \in pending : loss.attemptId = other.attemptId => loss = other)'
    BY <1>2, <2>2
  <2>6. (\A id \in InRing(store) :
           lostCandidate(RowAt(store, id)) /\ id <= scanned => AwaitsMatch(id) \/ Judged(id))'
    <3>1. InRing(store)' = InRing(store) /\ \A id : RowAt(store, id)' = RowAt(store, id)
      BY <1>2 DEF InRing, RowAt, Slot
    <3>2. \A id : lostCandidate(RowAt(store, id))' <=> lostCandidate(RowAt(store, id))
      BY <3>1 DEF lostCandidate, isCall
    <3>3. \A id : AwaitsMatch(id)' <=> \E loss \in known : loss.attemptId = id
      BY <1>2 DEF AwaitsMatch
    <3>4. \A id \in InRing(store) : lostCandidate(RowAt(store, id)) /\ id <= scanned'
            => AwaitsMatch(id)' \/ Judged(id)'
      BY <1>15, <2>3, <3>3
    <3> QED
      BY <3>1, <3>2, <3>4
  <2> QED
    BY <2>4, <2>5, <2>6 DEF LossesOK
<1>17. SweepsOK'
  <2>1. now' = now
    BY <1>2
  <2>2. \A loss \in due : reconcilable(loss)'
    BY <2>1 DEF reconcilable
  <2>3. \A t \in InFlight' : t = s
    BY <1>12 DEF InFlight
  <2>4. \A t \in Sweepers : \A loss \in sweeps'[t].due : loss \in due
    BY <1>12
  <2> HIDE DEF due
  <2> QED
    BY <2>2, <2>3, <2>4 DEF SweepsOK
<1>18. FindingsOK'
  <2>1. ASSUME NEW finding \in DOMAIN anomalies
        PROVE  /\ finding \notin reports /\ finding.of \in Lossy
               /\ finding.of.attemptId <= scanned /\ finding.of.attemptId <= scanned'
               /\ Traced(finding.of)' /\ anomalies[finding] = 1
               /\ NeverProcessed(finding) /\ finding.of.try = TryOf(finding.of.call)'
                    => Finished(finding.of.call)'
               /\ finding.rule = "unexpected_shedding" => ~finding.of.loaded
    <3>1. /\ finding.of \in Lossy /\ finding.of.attemptId <= scanned /\ Traced(finding.of)
          /\ anomalies[finding] = 1
          /\ NeverProcessed(finding) /\ finding.of.try = TryOf(finding.of.call)
                    => Finished(finding.of.call)
          /\ finding.rule = "unexpected_shedding" => ~finding.of.loaded
      BY <1>1 DEF FindingsOK
    <3>2. finding \notin reports
      BY <1>5, <1>8, <3>1
    <3>3. finding.of.attemptId <= scanned'
      BY <1>4, <3>1 DEF Lossy
    <3>4. Traced(finding.of)'
      BY <1>1, <1>3, <3>1, MarkTraced DEF Lossy
    <3>5. \A c : TryOf(c)' = TryOf(c) /\ (Finished(c)' <=> Finished(c))
      BY <1>2 DEF TryOf, Finished
    <3> QED
      BY <3>1, <3>2, <3>3, <3>4, <3>5
  <2>2. ASSUME NEW finding \in reports
        PROVE  /\ finding \notin DOMAIN anomalies /\ finding.of \in Lossy
               /\ finding.of.attemptId <= scanned' /\ ~(finding.of.attemptId <= scanned)
               /\ Traced(finding.of)'
               /\ ~NeverProcessed(finding) /\ ~finding.of.loaded
    <3>1. PICK id \in Ids :
            /\ finding.of \in Lossy /\ finding.of.attemptId = id /\ Traced(finding.of)
            /\ finding.rule = "unexpected_shedding" /\ quiet # Null /\ finding.of.at >= quiet
      BY <1>8
    <3>2. id <= scanned' /\ ~(id <= scanned)
      BY <1>4, <1>5
    <3>3. Traced(finding.of)'
      BY <1>1, <1>3, <3>1, MarkTraced DEF Lossy
    <3>4. ~finding.of.loaded
      <4> SUFFICES ASSUME finding.of.loaded PROVE FALSE
        OBVIOUS
      <4>1. finding.of.at < quiet
        BY <1>2, <3>1, <3>3 DEF Traced, Quieted
      <4>2. quiet \in Nat /\ finding.of.at \in Nat
        <5>1. quiet \in {Null} \cup 0 .. MaxTime
          BY <1>1, <1>2, <1>3, MarkIs
        <5> QED
          BY <3>1, <5>1, BackofficeAssumption DEF Lossy
      <4> QED
        BY <3>1, <4>1, <4>2
    <3>5. finding \notin DOMAIN anomalies
      BY <2>1, <3>1, <3>2
    <3>6. ~NeverProcessed(finding)
      BY <3>1 DEF NeverProcessed
    <3> QED
      BY <3>1, <3>2, <3>3, <3>4, <3>5, <3>6
  <2>3. \A finding \in DOMAIN anomalies' : anomalies'[finding] = 1
    <3>1. ASSUME NEW finding \in DOMAIN anomalies PROVE anomalies'[finding] = 1
      <4>1. anomalies[finding] = 1 /\ finding \notin reports
        BY <2>1
      <4>2. anomalies'[finding] = anomalies[finding] + 0
        BY <1>14, <4>1, Zenon
      <4> QED
        BY <4>1, <4>2
    <3>2. ASSUME NEW finding \in reports PROVE anomalies'[finding] = 1
      <4>1. finding \notin DOMAIN anomalies
        BY <2>2
      <4>2. anomalies'[finding] = 0 + 1
        BY <1>14, <4>1, Zenon
      <4> QED
        BY <4>2
    <3>3. DOMAIN anomalies' = DOMAIN anomalies \cup reports
      BY <1>14, Zenon
    <3> QED
      BY <3>1, <3>2, <3>3, Zenon
  <2>4. anomalies' \in [DOMAIN anomalies' -> Nat \ {0}]
    <3> DEFINE bag == anomalies'
    <3> HIDE DEF bag
    <3>1. bag = [finding \in DOMAIN bag |-> bag[finding]] /\ \A finding \in DOMAIN bag : bag[finding] = 1
      BY <1>14, <2>3, Zenon DEF bag
    <3>2. bag \in [DOMAIN bag -> Nat \ {0}]
      BY <3>1
    <3> QED
      BY <3>2 DEF bag
  <2>5. ASSUME NEW finding \in DOMAIN anomalies \cup reports,
               NEW other \in DOMAIN anomalies \cup reports,
               finding.of.attemptId = other.of.attemptId, finding.rule = other.rule
        PROVE  finding = other
    <3>1. CASE finding \in DOMAIN anomalies
      <4>1. other \in DOMAIN anomalies
        BY <2>1, <2>2, <2>5, <3>1
      <4> QED
        BY <1>1, <2>5, <3>1, <4>1 DEF FindingsOK
    <3>2. CASE finding \in reports
      <4>1. other \in reports
        BY <2>1, <2>2, <2>5, <3>2
      <4>2. PICK id \in Ids :
              /\ finding.of.attemptId = id
              /\ finding = Finding(Kept(RowAt(store, id)), "unexpected_shedding", "none")
        BY <1>8, <3>2
      <4>3. PICK k \in Ids :
              /\ other.of.attemptId = k
              /\ other = Finding(Kept(RowAt(store, k)), "unexpected_shedding", "none")
        BY <1>8, <4>1
      <4> QED
        BY <2>5, <4>2, <4>3
    <3> QED
      BY <3>1, <3>2
  <2>6. (\A finding \in DOMAIN anomalies :
          /\ anomalies[finding] = 1
          /\ finding.of \in Lossy
          /\ finding.of.attemptId <= scanned
          /\ Traced(finding.of)
          /\ NeverProcessed(finding) /\ finding.of.try = TryOf(finding.of.call)
               => Finished(finding.of.call)
          /\ finding.rule = "unexpected_shedding" => ~finding.of.loaded)'
    <3>1. ASSUME NEW finding \in DOMAIN anomalies \cup reports
          PROVE  /\ finding.of \in Lossy
                 /\ finding.of.attemptId <= scanned'
                 /\ Traced(finding.of)'
                 /\ NeverProcessed(finding) /\ finding.of.try = TryOf(finding.of.call)'
                      => Finished(finding.of.call)'
                 /\ finding.rule = "unexpected_shedding" => ~finding.of.loaded
      <4>1. CASE finding \in DOMAIN anomalies
        BY <2>1, <4>1
      <4>2. CASE finding \in reports
        BY <2>2, <4>2
      <4> QED
        BY <4>1, <4>2
    <3>2. (DOMAIN anomalies)' = DOMAIN anomalies \cup reports
      BY <1>14, Zenon
    <3>3. \A finding \in (DOMAIN anomalies)' : anomalies'[finding] = 1
      BY <2>3, Zenon
    <3> QED
      BY <3>1, <3>2, <3>3, Zenon DEF NeverProcessed
  <2>7. (\A finding, other \in DOMAIN anomalies :
          finding.of.attemptId = other.of.attemptId /\ finding.rule = other.rule
            => finding = other)'
    <3>1. (DOMAIN anomalies)' = DOMAIN anomalies \cup reports
      BY <1>14, Zenon
    <3> QED
      BY <2>5, <3>1, Zenon
  <2> QED
    BY <2>4, <2>6, <2>7 DEF FindingsOK
<1> QED
  BY <1>9, <1>13, <1>16, <1>17, <1>18 DEF BackofficeInv

-----------------------------------------------------------------------------
(***************************************************************************)
(* The database answers for a loss.                                        *)
(***************************************************************************)
LEMMA NobodyIsAtWork ==
  ASSUME BackofficeInv, NEW loss \in Lossy, Traced(loss), reconcilable(loss),
         loss.try = TryOf(loss.call), NEW w \in work
  PROVE  w.call # loss.call
<1> SUFFICES ASSUME w.call = loss.call PROVE FALSE
  OBVIOUS
<1>1. loss.at = calls[loss.call].at /\ loss.at \in Nat
  BY DEF Traced, Lossy
<1>2. w.since <= loss.at /\ now <= w.since + TARGET_CEILING /\ w.since \in Nat
  BY <1>1 DEF BackofficeInv, WorkOK, Types, Requests
<1>3. loss.at + LATE_COMMIT <= now /\ now \in Nat
  BY BackofficeAssumption DEF reconcilable, BackofficeInv, Types
<1> QED
  BY <1>1, <1>2, <1>3, BackofficeAssumption, GatewayAssumption

LEMMA MatchKeeps ==
  ASSUME BackofficeInv, NEW s \in Sweepers, NEW loss \in sweeps[s].due, Match(s, loss)
  PROVE  BackofficeInv'
<1> DEFINE finding == lostOrder(loss, sweeps[s].acknowledged)
<1>1. /\ Types /\ RingOK /\ CallsOK /\ WorkOK /\ LossesOK /\ SweepsOK /\ FindingsOK
  BY DEF BackofficeInv
<1>2. /\ pending' = pending \ {loss}
      /\ anomalies' = anomalies (+) SetToBag({finding})
      /\ sweeps' = [sweeps EXCEPT ![s] =
                      IF @.due = {loss} THEN Idle
                      ELSE [due |-> @.due \ {loss}, acknowledged |-> @.acknowledged]]
      /\ UNCHANGED <<now, store, calls, work, stored, loadRunning, simulating, quietSince, scanned>>
  BY DEF Match, gateway
<1>3. /\ finding.of = loss /\ finding.rule = "lost_order"
      /\ finding.found = "never processed" => loss.call \notin stored
  BY DEF lostOrder, Finding
<1> HIDE DEF finding
<1>4. /\ loss \in pending /\ loss \in Lossy /\ loss.attemptId <= scanned /\ Traced(loss)
      /\ ~Judged(loss.attemptId) /\ reconcilable(loss)
  BY <1>1 DEF Types, LossesOK, SweepsOK
<1>5. ASSUME NEW k PROVE Traced(k)' <=> Traced(k)
  BY <1>2 DEF Traced, Quieted, TryOf
<1>6. finding \notin DOMAIN anomalies
  BY <1>3, <1>4 DEF Judged, BagToSet
<1>7. /\ (DOMAIN anomalies)' = DOMAIN anomalies \cup {finding}
      /\ DOMAIN anomalies' = DOMAIN anomalies \cup {finding}
      /\ anomalies' = [e \in DOMAIN anomalies' |-> anomalies'[e]]
      /\ \A e \in DOMAIN anomalies : anomalies'[e] = anomalies[e] + 0
      /\ anomalies'[finding] = 0 + 1
  <2> DEFINE bag == SetToBag({finding})
  <2>1. DOMAIN bag = {finding} /\ bag[finding] = 1
    BY DEF SetToBag
  <2> HIDE DEF bag
  <2>2. anomalies' = [e \in DOMAIN anomalies \cup {finding} |->
                        (IF e \in DOMAIN anomalies THEN anomalies[e] ELSE 0)
                        + (IF e \in DOMAIN bag THEN bag[e] ELSE 0)]
    BY <1>2, <2>1 DEF (+), bag
  <2> QED
    BY <1>6, <2>1, <2>2
<1>8. RingOK' /\ CallsOK' /\ WorkOK'
  BY <1>1, <1>2, GatewayStays
<1>9. /\ sweeps' \in [Sweepers -> [due : SUBSET Lossy, acknowledged : SUBSET Calls]]
      /\ sweeps'[s].due = sweeps[s].due \ {loss}
      /\ \A t \in Sweepers : t # s => sweeps'[t].due = {}
  <2> DEFINE old == sweeps[s]
             new == IF old.due = {loss} THEN Idle
                    ELSE [due |-> old.due \ {loss}, acknowledged |-> old.acknowledged]
  <2>1. old \in [due : SUBSET Lossy, acknowledged : SUBSET Calls]
    BY <1>1 DEF Types
  <2> HIDE DEF old
  <2>2. new \in [due : SUBSET Lossy, acknowledged : SUBSET Calls] /\ new.due = old.due \ {loss}
    BY <2>1 DEF Idle
  <2> HIDE DEF new
  <2>3. sweeps' = [sweeps EXCEPT ![s] = new]
    BY <1>2 DEF old, new
  <2>4. \A t \in Sweepers : t # s => sweeps[t].due = {}
    BY <1>1 DEF SweepsOK, InFlight
  <2> QED
    BY <1>1, <2>2, <2>3, <2>4 DEF Types, old
<1>10. Types'
  <2>1. \A t \in Sweepers : sweeps'[t].due \subseteq pending'
    BY <1>1, <1>2, <1>9 DEF Types
  <2> QED
    BY <1>1, <1>2, <1>9, <2>1 DEF Types, CallType, Lossy, Requests
<1>11. ASSUME NEW id PROVE Judged(id)' <=> Judged(id) \/ id = loss.attemptId
  BY <1>3, <1>7 DEF Judged, BagToSet
<1>12. LossesOK'
  <2>1. ASSUME NEW other \in pending \ {loss}
        PROVE  other.attemptId <= scanned /\ Traced(other)' /\ ~Judged(other.attemptId)'
    BY <1>1, <1>4, <1>5, <1>11 DEF LossesOK
  <2>2. ASSUME NEW id, AwaitsMatch(id) \/ Judged(id)
        PROVE  AwaitsMatch(id)' \/ Judged(id)'
    BY <1>2, <1>11, <2>2 DEF AwaitsMatch
  <2>3. (\A other \in pending : other.attemptId <= scanned /\ Traced(other) /\ ~Judged(other.attemptId))'
    BY <1>2, <2>1
  <2>4. (\A one, other \in pending : one.attemptId = other.attemptId => one = other)'
    BY <1>1, <1>2 DEF LossesOK
  <2>5. (\A id \in InRing(store) :
           lostCandidate(RowAt(store, id)) /\ id <= scanned => AwaitsMatch(id) \/ Judged(id))'
    <3>1. InRing(store)' = InRing(store) /\ \A id : RowAt(store, id)' = RowAt(store, id)
      BY <1>2 DEF InRing, RowAt, Slot
    <3>2. \A id : lostCandidate(RowAt(store, id))' <=> lostCandidate(RowAt(store, id))
      BY <3>1 DEF lostCandidate, isCall
    <3>3. \A id \in InRing(store) : lostCandidate(RowAt(store, id)) /\ id <= scanned'
            => AwaitsMatch(id)' \/ Judged(id)'
      BY <1>1, <1>2, <2>2 DEF LossesOK
    <3> QED
      BY <3>1, <3>2, <3>3
  <2> QED
    BY <2>3, <2>4, <2>5 DEF LossesOK
<1>13. SweepsOK'
  <2>1. now' = now
    BY <1>2
  <2>2. \A t \in InFlight' : t = s
    BY <1>9 DEF InFlight
  <2>3. \A t \in Sweepers : \A other \in sweeps'[t].due : reconcilable(other)'
    BY <1>1, <1>9, <2>1 DEF SweepsOK, reconcilable
  <2> QED
    BY <2>2, <2>3 DEF SweepsOK
<1>14. FindingsOK'
  <2>1. \A c : TryOf(c)' = TryOf(c) /\ (Finished(c)' <=> Finished(c))
    BY <1>2 DEF TryOf, Finished
  <2>2. ASSUME NEW e \in DOMAIN anomalies \cup {finding}
        PROVE  /\ anomalies'[e] = 1
               /\ e.of \in Lossy
               /\ e.of.attemptId <= scanned'
               /\ Traced(e.of)'
               /\ NeverProcessed(e) /\ e.of.try = TryOf(e.of.call)' => Finished(e.of.call)'
               /\ e.rule = "unexpected_shedding" => ~e.of.loaded
    <3>1. CASE e \in DOMAIN anomalies
      <4>1. anomalies'[e] = anomalies[e] + 0 /\ anomalies[e] = 1
        BY <1>1, <1>7, <3>1 DEF FindingsOK
      <4> QED
        BY <1>1, <1>2, <1>5, <2>1, <3>1, <4>1 DEF FindingsOK
    <3>2. CASE e = finding
      <4>1. ASSUME NeverProcessed(e), loss.try = TryOf(loss.call) PROVE Finished(loss.call)
        BY <1>3, <1>4, <3>2, <4>1, NobodyIsAtWork DEF NeverProcessed, Finished
      <4>2. anomalies'[e] = 1
        BY <1>7, <3>2
      <4>3. e.of = loss /\ e.rule # "unexpected_shedding" /\ scanned' = scanned
        BY <1>2, <1>3, <3>2
      <4>4. Traced(loss)' => Traced(e.of)'
        BY <4>3
      <4> QED
        BY <1>4, <1>5, <2>1, <4>1, <4>2, <4>3, <4>4
    <3> QED
      BY <3>1, <3>2
  <2>3. ASSUME NEW e \in DOMAIN anomalies \cup {finding}, NEW other \in DOMAIN anomalies \cup {finding},
               e.of.attemptId = other.of.attemptId, e.rule = other.rule
        PROVE  e = other
    <3>1. CASE e = finding \/ other = finding
      BY <1>3, <1>4, <2>3, <3>1 DEF Judged, BagToSet
    <3>2. CASE e \in DOMAIN anomalies /\ other \in DOMAIN anomalies
      BY <1>1, <2>3, <3>2 DEF FindingsOK
    <3> QED
      BY <3>1, <3>2
  <2>4. anomalies' \in [DOMAIN anomalies' -> Nat \ {0}]
    <3> DEFINE bag == anomalies'
    <3> HIDE DEF bag
    <3>1. bag = [e \in DOMAIN bag |-> bag[e]] /\ \A e \in DOMAIN bag : bag[e] = 1
      BY <1>7, <2>2, Zenon DEF bag
    <3>2. bag \in [DOMAIN bag -> Nat \ {0}]
      BY <3>1
    <3> QED
      BY <3>2 DEF bag
  <2>5. (\A e \in DOMAIN anomalies :
          /\ anomalies[e] = 1
          /\ e.of \in Lossy
          /\ e.of.attemptId <= scanned
          /\ Traced(e.of)
          /\ NeverProcessed(e) /\ e.of.try = TryOf(e.of.call) => Finished(e.of.call)
          /\ e.rule = "unexpected_shedding" => ~e.of.loaded)'
    BY <1>7, <2>2, Zenon DEF NeverProcessed
  <2>6. (\A e, other \in DOMAIN anomalies :
          e.of.attemptId = other.of.attemptId /\ e.rule = other.rule => e = other)'
    BY <1>7, <2>3, Zenon
  <2> QED
    BY <2>4, <2>5, <2>6 DEF FindingsOK
<1> QED
  BY <1>8, <1>10, <1>12, <1>13, <1>14 DEF BackofficeInv

LEMMA FailMatchKeeps ==
  ASSUME BackofficeInv, NEW s \in Sweepers, FailMatch(s)
  PROVE  BackofficeInv'
<1>1. /\ UNCHANGED <<now, store, calls, work, stored, loadRunning, simulating, quietSince, scanned,
                     pending, anomalies>>
      /\ sweeps' = [sweeps EXCEPT ![s] = Idle]
  BY DEF FailMatch, gateway, backoffice
<1>2. /\ sweeps' \in [Sweepers -> [due : SUBSET Lossy, acknowledged : SUBSET Calls]]
      /\ \A t \in Sweepers : sweeps'[t].due \in {{}, sweeps[t].due}
  BY <1>1 DEF BackofficeInv, Types, Idle
<1>3. Types'
  BY <1>1, <1>2 DEF BackofficeInv, Types, CallType, Lossy, Requests
<1>4. RingOK' /\ CallsOK' /\ WorkOK'
  BY <1>1, GatewayStays DEF BackofficeInv
<1>5. LossesOK'
  BY <1>1 DEF BackofficeInv, LossesOK, Traced, Quieted, TryOf, Judged, AwaitsMatch, InRing,
              RowAt, Slot, lostCandidate, isCall
<1>6. SweepsOK'
  BY <1>1, <1>2 DEF BackofficeInv, SweepsOK, InFlight, reconcilable
<1>7. FindingsOK'
  BY <1>1 DEF BackofficeInv, FindingsOK, Traced, Quieted, TryOf, NeverProcessed, Finished
<1> QED
  BY <1>3, <1>4, <1>5, <1>6, <1>7 DEF BackofficeInv

-----------------------------------------------------------------------------
LEMMA TickKeeps ==
  ASSUME BackofficeInv, Tick
  PROVE  BackofficeInv'
<1>1. /\ Types /\ RingOK /\ CallsOK /\ WorkOK /\ LossesOK /\ SweepsOK /\ FindingsOK
  BY DEF BackofficeInv
<1>2. /\ now' = now + 1 /\ now < MaxTime /\ OnTime
      /\ UNCHANGED <<store, calls, work, stored, loadRunning, simulating, quietSince, scanned,
                     pending, anomalies, sweeps>>
  BY DEF Tick, backoffice
<1>3. now \in Nat /\ MaxTime \in Nat /\ now' \in 0 .. MaxTime
  BY <1>1, <1>2, BackofficeAssumption DEF Types
<1>4. Types'
  BY <1>1, <1>2, <1>3 DEF Types, CallType, Lossy, Requests
<1>5. ASSUME NEW k, k.at \in Nat, Quieted(k) PROVE Quieted(k)'
  BY <1>2, <1>3, <1>5 DEF Quieted
<1>6. ASSUME NEW k, k.at \in Nat, Traced(k) PROVE Traced(k)'
  <2>1. Quieted(k)'
    BY <1>5, <1>6 DEF Traced
  <2> QED
    BY <1>2, <1>6, <2>1 DEF Traced, TryOf
<1>7. RingOK'
  <2>1. InRing(store)' = InRing(store) /\ IsRing(store)' /\ OwnRows(store)'
    BY <1>1, <1>2 DEF RingOK, IsRing, OwnRows, InRing, RowAt, Slot
  <2>2. ASSUME NEW id \in InRing(store), isCall(RowAt(store, id))
        PROVE  RowAt(store, id).try # 0 /\ Traced(RowAt(store, id))'
    <3>1. PICK row : row = RowAt(store, id)
      OBVIOUS
    <3>2. row \in Attempts /\ row.try # 0 /\ Traced(row)
      BY <1>1, <2>2, <3>1, RingRow DEF RingOK
    <3>3. Traced(row)'
      BY <1>6, <3>2 DEF Attempts
    <3>4. Traced(row)' => Traced(RowAt(store, id))'
      BY <1>2, <3>1 DEF Traced, Quieted, TryOf, RowAt, Slot
    <3> QED
      BY <3>1, <3>2, <3>3, <3>4
  <2> QED
    BY <1>2, <2>1, <2>2 DEF RingOK, isCall, RowAt, Slot
<1>8. CallsOK'
  <2>1. ASSUME NEW c \in Calls
        PROVE  calls[c].at <= now' /\ (calls[c].phase # "unsent" => Quieted(calls[c])')
    <3>1. PICK k : k = calls[c]
      OBVIOUS
    <3>2. /\ k.at \in Nat /\ k.at <= now
          /\ calls[c].phase # "unsent" => Quieted(k)
      BY <1>1, <3>1 DEF Types, CallType, CallsOK
    <3>3. Quieted(k)' => Quieted(calls[c])'
      BY <1>2, <3>1 DEF Quieted
    <3> QED
      BY <1>2, <1>3, <1>5, <3>1, <3>2, <3>3
  <2> QED
    BY <1>1, <1>2, <2>1 DEF CallsOK, InRing, RowAt, Slot
<1>9. WorkOK'
  <2>1. ASSUME NEW w \in work PROVE now' <= w.since + TARGET_CEILING
    <3>1. now < w.since + TARGET_CEILING /\ w.since \in Nat
      BY <1>1, <1>2 DEF OnTime, Types, Requests
    <3> QED
      BY <1>2, <1>3, <3>1, GatewayAssumption
  <2> QED
    BY <1>1, <1>2, <2>1 DEF WorkOK
<1>10. LossesOK'
  <2>1. \A loss \in pending : Traced(loss)'
    BY <1>1, <1>6 DEF Types, Lossy, LossesOK
  <2>2. \A id : (Judged(id)' <=> Judged(id)) /\ (AwaitsMatch(id)' <=> AwaitsMatch(id))
    BY <1>2 DEF Judged, AwaitsMatch
  <2> QED
    BY <1>1, <1>2, <2>1, <2>2 DEF LossesOK, InRing, RowAt, Slot
<1>11. SweepsOK'
  <2>1. ASSUME NEW loss \in Lossy, reconcilable(loss) PROVE reconcilable(loss)'
    BY <1>2, <1>3, <2>1, BackofficeAssumption DEF reconcilable, Lossy
  <2>2. \A s \in Sweepers : \A loss \in sweeps[s].due : loss \in Lossy
    BY <1>1 DEF Types
  <2> QED
    BY <1>1, <1>2, <2>1, <2>2 DEF SweepsOK, InFlight
<1>12. FindingsOK'
  <2>1. \A finding \in DOMAIN anomalies : Traced(finding.of)'
    BY <1>1, <1>6 DEF Lossy, FindingsOK
  <2>2. \A c : (Finished(c)' <=> Finished(c)) /\ (TryOf(c)' = TryOf(c))
    BY <1>2 DEF Finished, TryOf
  <2> QED
    BY <1>1, <1>2, <2>1, <2>2 DEF FindingsOK, NeverProcessed
<1> QED
  BY <1>4, <1>7, <1>8, <1>9, <1>10, <1>11, <1>12 DEF BackofficeInv

LEMMA InitInv == Init => BackofficeInv
<1> SUFFICES ASSUME Init PROVE BackofficeInv
  OBVIOUS
<1>1. /\ now = 0 /\ store = emptyStore /\ work = {} /\ stored = {} /\ loadRunning = FALSE
      /\ simulating = FALSE /\ quietSince = Null /\ scanned = 0 /\ pending = {}
      /\ anomalies = EmptyBag /\ sweeps = [s \in Sweepers |-> Idle]
      /\ calls = [c \in Calls |-> [phase |-> "unsent", at |-> 0, delayed |-> 0,
                                   loaded |-> FALSE, lost |-> Null]]
  BY DEF Init, InitGateway
<1>2. IsRing(store) /\ InRing(store) = {} /\ store.nextId = 1 /\ Null \notin Nat
  BY <1>1, EmptyIsRing, GatewayAssumption DEF emptyStore
<1>3. DOMAIN anomalies = {} /\ anomalies \in [DOMAIN anomalies -> Nat \ {0}]
  BY <1>1 DEF EmptyBag, SetToBag
<1>4. \A c \in Calls : calls[c] = [phase |-> "unsent", at |-> 0, delayed |-> 0,
                                   loaded |-> FALSE, lost |-> Null]
  BY <1>1
<1>5. calls \in [Calls -> CallType]
  BY <1>1 DEF CallType
<1>6. Types
  <2>1. Idle \in [due : SUBSET Lossy, acknowledged : SUBSET Calls] /\ Idle.due = {}
    BY DEF Idle
  <2>2. /\ sweeps \in [Sweepers -> [due : SUBSET Lossy, acknowledged : SUBSET Calls]]
        /\ \A s \in Sweepers : sweeps[s].due \subseteq pending
    BY <1>1, <2>1
  <2>3. now \in 0 .. MaxTime /\ scanned \in 0 .. store.nextId - 1
    BY <1>1, <1>2, BackofficeAssumption
  <2> QED
    BY <1>1, <1>5, <2>2, <2>3 DEF Types
<1>7. RingOK
  BY <1>2 DEF RingOK, OwnRows
<1>8. CallsOK
  BY <1>1, <1>2, <1>4 DEF CallsOK
<1>9. WorkOK /\ LossesOK
  BY <1>1, <1>2 DEF WorkOK, LossesOK
<1>10. SweepsOK
  BY <1>1 DEF SweepsOK, InFlight, Idle
<1>11. FindingsOK
  BY <1>3 DEF FindingsOK
<1> QED
  BY <1>6, <1>7, <1>8, <1>9, <1>10, <1>11 DEF BackofficeInv

LEMMA StutterKeeps ==
  ASSUME BackofficeInv, UNCHANGED vars
  PROVE  BackofficeInv'
<1>1. UNCHANGED <<now, store, calls, work, stored, loadRunning, simulating, quietSince, scanned,
                  pending, anomalies, sweeps>>
  BY DEF vars, gateway, backoffice
<1>2. Types'
  BY <1>1 DEF BackofficeInv, Types, CallType, Lossy, Requests
<1>3. RingOK' /\ CallsOK' /\ WorkOK'
  BY <1>1, GatewayStays DEF BackofficeInv
<1>4. LossesOK'
  BY <1>1 DEF BackofficeInv, LossesOK, Traced, Quieted, TryOf, Judged, AwaitsMatch, InRing,
              RowAt, Slot, lostCandidate, isCall
<1>5. SweepsOK' /\ FindingsOK'
  BY <1>1 DEF BackofficeInv, SweepsOK, InFlight, reconcilable, FindingsOK, Traced, Quieted,
              TryOf, NeverProcessed, Finished
<1> QED
  BY <1>2, <1>3, <1>4, <1>5 DEF BackofficeInv

LEMMA NextKeeps == BackofficeInv /\ [Next]_vars => BackofficeInv'
<1> SUFFICES ASSUME BackofficeInv, [Next]_vars PROVE BackofficeInv'
  OBVIOUS
<1>1. Types /\ RingOK /\ CallsOK
  BY DEF BackofficeInv
<1>2. ASSUME NEW c \in Calls, Send(c, loadRunning), UNCHANGED harness PROVE BackofficeInv'
  BY <1>1, <1>2, SendSteps, SteppedKeeps
<1>3. ASSUME NEW c \in Calls, Lose(c, loadRunning), UNCHANGED harness PROVE BackofficeInv'
  BY <1>1, <1>3, LoseSteps, SteppedKeeps
<1>4. ASSUME NEW w \in work, Decide(w, loadRunning), UNCHANGED harness PROVE BackofficeInv'
  <2>1. w.call \in Calls
    BY <1>1 DEF Types, Requests
  <2> QED
    BY <1>1, <1>4, <2>1, DecideSteps, SteppedKeeps
<1>5. ASSUME NEW running \in BOOLEAN, setLoadRunning(running) PROVE BackofficeInv'
  BY <1>5, LoadRunningKeeps
<1>6. ASSUME NEW running \in BOOLEAN, setSimulating(running) PROVE BackofficeInv'
  BY <1>6, SimulatingKeeps
<1>7. ASSUME NEW s \in Sweepers, sweep(s) PROVE BackofficeInv'
  BY <1>7, SweepKeeps
<1>8. ASSUME NEW s \in Sweepers, matchByKey(s) PROVE BackofficeInv'
  <2>1. PICK loss \in sweeps[s].due : Match(s, loss)
    BY <1>8 DEF matchByKey
  <2> QED
    BY <2>1, MatchKeeps
<1>9. ASSUME NEW s \in Sweepers, FailMatch(s) PROVE BackofficeInv'
  BY <1>9, FailMatchKeeps
<1>10. CASE Tick
  BY <1>10, TickKeeps
<1>11. CASE UNCHANGED vars
  BY <1>11, StutterKeeps
<1> QED
  BY <1>2, <1>3, <1>4, <1>5, <1>6, <1>7, <1>8, <1>9, <1>10, <1>11 DEF Next

(***************************************************************************)
(* What holds of the harness at any time, for any calls, callers, ring,    *)
(* timeouts and failures.                                                  *)
(***************************************************************************)
THEOREM Invariance == Spec => []BackofficeInv
<1>1. Init => BackofficeInv
  BY InitInv
<1>2. BackofficeInv /\ [Next]_vars => BackofficeInv'
  BY NextKeeps
<1> QED
  BY <1>1, <1>2, PTL DEF Spec

-----------------------------------------------------------------------------
(***************************************************************************)
(* The properties.                                                         *)
(***************************************************************************)
LEMMA TypeHolds == BackofficeInv => TypeOK
<1> SUFFICES ASSUME BackofficeInv PROVE TypeOK
  OBVIOUS
<1>1. Types /\ IsRing(store) /\ FindingsOK
  BY DEF BackofficeInv, RingOK
<1>2. Len(store.buffer) <= ATTEMPTS_CAPACITY
  <2>1. \E k \in Nat : /\ k = IF store.nextId <= ATTEMPTS_CAPACITY THEN store.nextId - 1
                              ELSE ATTEMPTS_CAPACITY
                       /\ store.buffer \in [1 .. k -> Attempts]
    BY <1>1, CapacityAssumption DEF IsRing
  <2>2. PICK k \in Nat : k <= ATTEMPTS_CAPACITY /\ store.buffer \in [1 .. k -> Attempts]
    <3>1. store.nextId \in Nat
      BY <1>1 DEF IsRing
    <3> QED
      BY <2>1, <3>1, CapacityAssumption
  <2>3. Len(store.buffer) = k
    BY <2>2
  <2> QED
    BY <2>2, <2>3
<1>3. store.cursor \in 0 .. ATTEMPTS_CAPACITY - 1
  <2>1. PICK k \in Nat : k = store.nextId - 1
    BY <1>1 DEF IsRing
  <2>2. k % ATTEMPTS_CAPACITY \in 0 .. ATTEMPTS_CAPACITY - 1
    BY CapacityAssumption, DivMod
  <2>3. store.cursor = k % ATTEMPTS_CAPACITY
    BY <1>1, <2>1 DEF IsRing
  <2> QED
    BY <2>2, <2>3
<1>4. store.nextId \in Nat \ {0}
  BY <1>1 DEF IsRing
<1>5. \A finding \in BagToSet(anomalies) : finding.of \in Lossy
  BY <1>1 DEF FindingsOK, BagToSet
<1>6. \A s \in Sweepers : sweeps[s].due \subseteq Lossy
  BY <1>1 DEF Types
<1>7. \A c \in Calls : calls[c].phase \in {"unsent", "sent", "probing", "done"}
  BY <1>1 DEF Types, CallType
<1> QED
  BY <1>1, <1>2, <1>3, <1>4, <1>5, <1>6, <1>7 DEF Types, TypeOK

(* A row only ever names its own order, and the retry it says it had is a  *)
(* retry of it, although annotate() comes after a round trip in which the  *)
(* ring may have given the row's slot away: for every capacity.            *)
THEOREM RowsKeepTheirOwnHolds == Spec => []RowsKeepTheirOwn
<1>1. BackofficeInv => RowsKeepTheirOwn
  <2> SUFFICES ASSUME BackofficeInv PROVE RowsKeepTheirOwn
    OBVIOUS
  <2>1. TypeOK
    BY TypeHolds
  <2>2. IsRing(store) /\ OwnRows(store) /\ Null \notin Nat
    BY GatewayAssumption DEF BackofficeInv, RingOK
  <2>3. ASSUME NEW i \in DOMAIN store.buffer, NEW j \in DOMAIN store.buffer
        PROVE  LET row == store.buffer[i] other == store.buffer[j] IN
               /\ row.orderId \in {Null, row.call}
               /\ other.id = row.retriedBy => other.call = row.call /\ other.retryOf = row.id
    <3>1. /\ store.buffer[i].id \in InRing(store)
          /\ store.buffer[i] = RowAt(store, store.buffer[i].id)
          /\ store.buffer[j].id \in InRing(store)
          /\ store.buffer[j] = RowAt(store, store.buffer[j].id)
      BY <2>2, RowsAre
    <3> QED
      BY <2>2, <3>1 DEF OwnRows
  <2> QED
    BY <2>1, <2>3 DEF RowsKeepTheirOwn
<1> QED
  BY <1>1, Invariance, PTL

(* A row whose answer never came, and that the scan has passed, waits for  *)
(* the database or has been judged.                                        *)
THEOREM LossesAreKeptHolds == Spec => []LossesAreKept
<1>1. BackofficeInv => LossesAreKept
  <2> SUFFICES ASSUME BackofficeInv PROVE LossesAreKept
    OBVIOUS
  <2>1. IsRing(store) /\ LossesOK
    BY DEF BackofficeInv, RingOK
  <2>2. ASSUME NEW i \in DOMAIN store.buffer, lostCandidate(store.buffer[i]),
               store.buffer[i].id <= scanned
        PROVE  AwaitsMatch(store.buffer[i].id) \/ Judged(store.buffer[i].id)
    <3>1. /\ store.buffer[i].id \in InRing(store)
          /\ store.buffer[i] = RowAt(store, store.buffer[i].id)
      BY <2>1, RowsAre
    <3> QED
      BY <2>1, <2>2, <3>1 DEF LossesOK
  <2> QED
    BY <2>2 DEF LossesAreKept
<1> QED
  BY <1>1, Invariance, PTL

(* A rule speaks once about an attempt, however many callers sweep and     *)
(* wherever a read of the database fails.                                  *)
THEOREM JudgedOnceHolds == Spec => []JudgedOnce
<1>1. BackofficeInv => JudgedOnce
  BY DEF BackofficeInv, FindingsOK, JudgedOnce, BagToSet
<1> QED
  BY <1>1, Invariance, PTL

(* An order whose last request was said never to be processed is never     *)
(* stored: nothing was at work on it when it was said.                     *)
THEOREM CriticalIsFinalHolds == Spec => []CriticalIsFinal
<1>1. BackofficeInv => CriticalIsFinal
  BY DEF BackofficeInv, FindingsOK, Finished, CriticalIsFinal, BagToSet
<1> QED
  BY <1>1, Invariance, PTL

(* A 503 for a call made under load is never reported as unexpected.       *)
THEOREM LoadIsExpectedToShedHolds == Spec => []LoadIsExpectedToShed
<1>1. BackofficeInv => LoadIsExpectedToShed
  BY DEF BackofficeInv, FindingsOK, LoadIsExpectedToShed, BagToSet
<1> QED
  BY <1>1, Invariance, PTL
=============================================================================
