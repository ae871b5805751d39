---------------------------- MODULE InterruptProofs ----------------------------
(***************************************************************************)
(* The simulated interrupts, for every tick and every delay of the         *)
(* devices: the list of pending interrupts stays sorted, none is lost or   *)
(* doubled, none is overlooked, and the machine stops only when it may.    *)
(***************************************************************************)
EXTENDS Interrupt, SequenceTheorems, FiniteSetTheorems, TLAPS

Interrupts == [type : Types, when : Int]

(* A list of pending interrupts as List::SortedInsert keeps it, with at most *)
(* one of each type.                                                         *)
Sorted(list) == \A i, j \in DOMAIN list : i < j => list[i].when <= list[j].when
Distinct(list) == \A i, j \in DOMAIN list : list[i].type = list[j].type => i = j
Orderly(list) == list \in Seq(Interrupts) /\ Sorted(list) /\ Distinct(list)

TypesIn(list) == {list[i].type : i \in DOMAIN list}

(* The interrupts that the devices wait for. *)
Owed == devices \cup (IF requested THEN {"DiskInt"} ELSE {})

InterruptInv ==
    /\ TypeOK
    /\ Orderly(pending) /\ TypesIn(pending) = Owed
    /\ NothingOverdue
    /\ cpu = "halted" => Owed \subseteq {"TimerInt"}

-----------------------------------------------------------------------------
(* SortedInsert finds its place in every list, sorted or not: the number of *)
(* elements that have only elements not due later in front of them.         *)
LEMMA PlaceExists ==
    ASSUME NEW list \in Seq(Interrupts), NEW e \in Interrupts
    PROVE  \E n \in 0 .. Len(list) : InsertsAfter(list, e, n)
<1> DEFINE S == {i \in 1 .. Len(list) : \A j \in 1 .. i : list[j].when <= e.when}
           n == Cardinality(S)
<1>0. Len(list) \in Nat
    OBVIOUS
<1>1. \A i \in 0 .. Len(list) : IsFiniteSet(1 .. i) /\ Cardinality(1 .. i) = i
    BY <1>0, FS_Interval
<1>2. IsFiniteSet(S) /\ n \in 0 .. Len(list)
    <2>1. S \subseteq 1 .. Len(list)
        OBVIOUS
    <2>2. IsFiniteSet(S) /\ n <= Len(list)
        BY <1>0, <1>1, <2>1, FS_Subset
    <2> QED BY <1>0, <2>2, FS_CardinalityType
<1>3. \A i \in S : i <= n
    <2>1. ASSUME NEW i \in S PROVE i <= n
        <3>1. 1 .. i \subseteq S
            BY <1>0
        <3>2. Cardinality(1 .. i) <= n
            BY <1>2, <3>1, FS_Subset
        <3>3. i \in 0 .. Len(list)
            BY <1>0
        <3> QED BY <1>1, <3>2, <3>3
    <2> QED BY <2>1
<1>4. \A i \in 1 .. Len(list) : i \notin S => n <= i - 1
    <2>1. ASSUME NEW i \in 1 .. Len(list), i \notin S PROVE n <= i - 1
        <3>1. S \subseteq 1 .. (i - 1)
            BY <1>0, <2>1
        <3>2. i - 1 \in 0 .. Len(list)
            BY <1>0
        <3>3. IsFiniteSet(1 .. (i - 1)) /\ Cardinality(1 .. (i - 1)) = i - 1
            BY <1>1, <3>2
        <3>4. n <= Cardinality(1 .. (i - 1))
            BY <3>1, <3>3, FS_Subset
        <3> QED BY <3>3, <3>4
    <2> QED BY <2>1
<1>5. n = 0 \/ n \in S
    <2> HIDE DEF S, n
    <2>1. ASSUME n # 0, n \notin S PROVE FALSE
        <3>1. n \in 1 .. Len(list)
            BY <1>0, <1>2, <2>1
        <3>2. n <= n - 1
            BY <1>4, <2>1, <3>1
        <3> QED BY <3>1, <3>2, <1>0
    <2> QED BY <2>1
<1>6. \A i \in 1 .. n : list[i].when <= e.when
    BY <1>0, <1>2, <1>5
<1>7. ASSUME n < Len(list) PROVE list[n + 1].when > e.when
    <2>1. n + 1 \notin S
        <3> HIDE DEF S, n
        <3> QED BY <1>0, <1>2, <1>3
    <2>2. n + 1 \in 1 .. Len(list)
        BY <1>0, <1>2, <1>7
    <2>3. PICK j \in 1 .. (n + 1) : ~ (list[j].when <= e.when)
        BY <2>1, <2>2
    <2>4. j = n + 1
        <3> HIDE DEF n
        <3> QED BY <1>0, <1>2, <1>6, <2>3
    <2>5. list[j] \in Interrupts
        BY <1>0, <1>2, <2>2, <2>4
    <2> QED BY <2>3, <2>4, <2>5 DEF Interrupts
<1> QED BY <1>2, <1>6, <1>7 DEF InsertsAfter

(* What SortedInsert makes of a list. *)
LEMMA InsertShape ==
    ASSUME NEW list \in Seq(Interrupts), NEW e \in Interrupts
    PROVE  \E n \in 0 .. Len(list) :
             /\ InsertsAfter(list, e, n)
             /\ SortedInsert(list, e) \in Seq(Interrupts)
             /\ Len(SortedInsert(list, e)) = Len(list) + 1
             /\ \A i \in 1 .. Len(list) + 1 :
                  SortedInsert(list, e)[i] =
                      IF i <= n THEN list[i] ELSE IF i = n + 1 THEN e ELSE list[i - 1]
<1> DEFINE n == CHOOSE m \in 0 .. Len(list) : InsertsAfter(list, e, m)
           front == SubSeq(list, 1, n)
           back == SubSeq(list, n + 1, Len(list))
           r == SortedInsert(list, e)
<1>0. Len(list) \in Nat
    OBVIOUS
<1>1. n \in 0 .. Len(list) /\ InsertsAfter(list, e, n)
    BY PlaceExists
<1>2. r = front \o <<e>> \o back
    BY DEF SortedInsert
<1> HIDE DEF n, r
<1>3. /\ front \in Seq(Interrupts) /\ Len(front) = n
      /\ \A i \in 1 .. n : front[i] = list[i]
    <2>1. \A i \in 1 .. n : list[i] \in Interrupts
        BY <1>0, <1>1
    <2> QED BY <1>0, <1>1, <2>1
<1>4. /\ back \in Seq(Interrupts) /\ Len(back) = Len(list) - n
      /\ \A i \in 1 .. Len(list) - n : back[i] = list[n + i]
    <2>1. \A i \in n + 1 .. Len(list) : list[i] \in Interrupts
        BY <1>0, <1>1
    <2> QED BY <1>0, <1>1, <2>1
<1> HIDE DEF front, back
<1>5. <<e>> \in Seq(Interrupts) /\ Len(<<e>>) = 1 /\ <<e>>[1] = e
    OBVIOUS
<1> DEFINE unit == <<e>>
           start == front \o unit
<1>6. unit \in Seq(Interrupts) /\ Len(unit) = 1 /\ unit[1] = e /\ r = start \o back
    BY <1>2, <1>5
<1> HIDE DEF unit
<1>7. /\ start \in Seq(Interrupts) /\ Len(start) = n + 1
      /\ \A i \in 1 .. n + 1 : start[i] = IF i <= n THEN list[i] ELSE e
    <2>1. /\ start \in Seq(Interrupts) /\ Len(start) = Len(front) + Len(unit)
          /\ \A i \in 1 .. Len(front) + Len(unit) :
               start[i] = IF i <= Len(front) THEN front[i] ELSE unit[i - Len(front)]
        BY <1>3, <1>6, ConcatProperties
    <2> HIDE DEF start
    <2>2. Len(start) = n + 1
        BY <1>3, <1>6, <2>1
    <2>3. ASSUME NEW i \in 1 .. n + 1 PROVE start[i] = IF i <= n THEN list[i] ELSE e
        <3>1. CASE i <= n
            BY <1>0, <1>1, <1>3, <1>6, <2>1, <3>1
        <3>2. CASE i = n + 1
            <4>1. i - Len(front) = 1
                BY <1>0, <1>1, <1>3, <3>2
            <4> QED BY <1>0, <1>1, <1>3, <1>6, <2>1, <3>2, <4>1
        <3> QED BY <1>0, <1>1, <3>1, <3>2
    <2> QED BY <2>1, <2>2, <2>3
<1> HIDE DEF start
<1>8. /\ r \in Seq(Interrupts) /\ Len(r) = Len(list) + 1
      /\ \A i \in 1 .. n + 1 : r[i] = start[i]
      /\ \A i \in 1 .. Len(list) - n : r[n + 1 + i] = back[i]
    BY <1>0, <1>1, <1>4, <1>6, <1>7
<1>9. ASSUME NEW i \in 1 .. Len(list) + 1
      PROVE  r[i] = IF i <= n THEN list[i] ELSE IF i = n + 1 THEN e ELSE list[i - 1]
    <2>1. CASE i <= n + 1
        BY <1>0, <1>1, <1>7, <1>8, <2>1
    <2>2. CASE i > n + 1
        <3>1. i - n - 1 \in 1 .. Len(list) - n /\ n + 1 + (i - n - 1) = i
            BY <1>0, <1>1, <2>2
        <3>2. r[i] = back[i - n - 1] /\ back[i - n - 1] = list[n + (i - n - 1)]
            BY <1>4, <1>8, <3>1
        <3> QED BY <1>0, <1>1, <2>2, <3>2
    <2> QED BY <1>0, <1>1, <2>1, <2>2
<1> QED BY <1>1, <1>8, <1>9 DEF r

(* It keeps a sorted list sorted and adds one interrupt. *)
LEMMA InsertOrderly ==
    ASSUME NEW list, Orderly(list), NEW e \in Interrupts, e.type \notin TypesIn(list)
    PROVE  /\ Orderly(SortedInsert(list, e))
           /\ TypesIn(SortedInsert(list, e)) = TypesIn(list) \cup {e.type}
           /\ \A i \in DOMAIN SortedInsert(list, e) :
                SortedInsert(list, e)[i] = e
                \/ \E j \in DOMAIN list : SortedInsert(list, e)[i] = list[j]
<1> DEFINE r == SortedInsert(list, e)
<1>0. list \in Seq(Interrupts) /\ Sorted(list) /\ Distinct(list)
    BY DEF Orderly
<1>1. PICK n \in 0 .. Len(list) :
        /\ InsertsAfter(list, e, n)
        /\ r \in Seq(Interrupts) /\ Len(r) = Len(list) + 1
        /\ \A i \in 1 .. Len(list) + 1 :
             r[i] = IF i <= n THEN list[i] ELSE IF i = n + 1 THEN e ELSE list[i - 1]
    BY <1>0, InsertShape
<1> HIDE DEF r
<1>2. /\ Len(list) \in Nat /\ DOMAIN list = 1 .. Len(list) /\ DOMAIN r = 1 .. Len(list) + 1
      /\ \A i \in 1 .. Len(list) : list[i] \in Interrupts /\ list[i].when \in Int
      /\ e.when \in Int
    <2>1. Len(list) \in Nat /\ DOMAIN list = 1 .. Len(list) /\ DOMAIN r = 1 .. Len(list) + 1
        BY <1>0, <1>1
    <2>2. \A i \in 1 .. Len(list) : list[i] \in Interrupts
        BY <1>0
    <2>3. \A x \in Interrupts : x.when \in Int
        BY DEF Interrupts
    <2> QED BY <2>1, <2>2, <2>3
<1>3. \A i \in 1 .. n : list[i].when <= e.when
    BY <1>1 DEF InsertsAfter
<1>4. \A i \in 1 .. Len(list) : i > n => list[i].when >= e.when
    <2>1. ASSUME NEW i \in 1 .. Len(list), i > n PROVE list[i].when >= e.when
        <3>1. n + 1 \in 1 .. Len(list) /\ list[n + 1].when > e.when
            BY <1>1, <1>2, <2>1 DEF InsertsAfter
        <3>2. i = n + 1 \/ list[n + 1].when <= list[i].when
            BY <1>0, <1>2, <2>1, <3>1 DEF Sorted
        <3> QED BY <1>2, <3>1, <3>2
    <2> QED BY <2>1
<1>5. Sorted(r)
    <2>1. ASSUME NEW i \in DOMAIN r, NEW j \in DOMAIN r, i < j PROVE r[i].when <= r[j].when
        <3>1. CASE j <= n
            BY <1>0, <1>1, <1>2, <2>1, <3>1 DEF Sorted
        <3>2. CASE j = n + 1
            BY <1>1, <1>2, <1>3, <2>1, <3>2
        <3>3. CASE j > n + 1 /\ i <= n
            <4>1. r[i] = list[i] /\ r[j] = list[j - 1] /\ i < j - 1
                  /\ i \in 1 .. Len(list) /\ j - 1 \in 1 .. Len(list)
                BY <1>1, <1>2, <3>3
            <4> QED BY <1>0, <1>2, <4>1 DEF Sorted
        <3>4. CASE j > n + 1 /\ i = n + 1
            <4>1. r[i] = e /\ r[j] = list[j - 1] /\ j - 1 \in 1 .. Len(list) /\ j - 1 > n
                BY <1>1, <1>2, <3>4
            <4> QED BY <1>2, <1>4, <4>1
        <3>5. CASE j > n + 1 /\ i > n + 1
            <4>1. r[i] = list[i - 1] /\ r[j] = list[j - 1] /\ i - 1 < j - 1
                  /\ i - 1 \in 1 .. Len(list) /\ j - 1 \in 1 .. Len(list)
                BY <1>1, <1>2, <2>1, <3>5
            <4> QED BY <1>0, <1>2, <4>1 DEF Sorted
        <3> QED BY <1>1, <1>2, <3>1, <3>2, <3>3, <3>4, <3>5
    <2> QED BY <2>1 DEF Sorted
<1> DEFINE at(i) == IF i <= n THEN i ELSE i - 1
<1>6. \A i \in DOMAIN r : i # n + 1 => at(i) \in DOMAIN list /\ r[i] = list[at(i)]
    BY <1>1, <1>2
<1>7. Distinct(r)
    <2>1. ASSUME NEW i \in DOMAIN r, NEW j \in DOMAIN r, r[i].type = r[j].type PROVE i = j
        <3>1. CASE i # n + 1 /\ j # n + 1
            <4>1. at(i) = at(j)
                BY <1>0, <1>6, <2>1, <3>1 DEF Distinct
            <4> QED BY <1>1, <1>2, <3>1, <4>1
        <3>2. ASSUME NEW k \in DOMAIN r, k # n + 1, r[k].type = e.type PROVE FALSE
            BY <1>6, <3>2 DEF TypesIn
        <3>3. n + 1 \in DOMAIN r /\ r[n + 1] = e
            BY <1>1, <1>2
        <3> QED BY <2>1, <3>1, <3>2, <3>3
    <2> QED BY <2>1 DEF Distinct
<1>8. \A i \in DOMAIN r : r[i] = e \/ \E j \in DOMAIN list : r[i] = list[j]
    BY <1>1, <1>2, <1>6
<1>9. TypesIn(list) \cup {e.type} \subseteq TypesIn(r)
    <2>1. n + 1 \in DOMAIN r /\ r[n + 1] = e
        BY <1>1, <1>2
    <2>2. ASSUME NEW j \in DOMAIN list PROVE \E i \in DOMAIN r : r[i] = list[j]
        <3>1. CASE j <= n
            BY <1>1, <1>2, <3>1
        <3>2. CASE j > n
            <4>1. j + 1 \in DOMAIN r /\ r[j + 1] = list[j]
                BY <1>1, <1>2, <3>2
            <4> QED BY <4>1
        <3> QED BY <1>1, <1>2, <3>1, <3>2
    <2> QED BY <2>1, <2>2 DEF TypesIn
<1>10. TypesIn(r) \subseteq TypesIn(list) \cup {e.type}
    BY <1>8 DEF TypesIn
<1> QED BY <1>1, <1>5, <1>7, <1>8, <1>9, <1>10 DEF Orderly, r

(* The first interrupt is taken out. *)
LEMMA TailOrderly ==
    ASSUME NEW list, Orderly(list), list # <<>>
    PROVE  /\ Head(list) \in Interrupts
           /\ Orderly(Tail(list))
           /\ Head(list).type \in TypesIn(list)
           /\ TypesIn(Tail(list)) = TypesIn(list) \ {Head(list).type}
           /\ \A i \in DOMAIN Tail(list) : \E j \in DOMAIN list : Tail(list)[i] = list[j]
<1> DEFINE rest == Tail(list)
<1>0. list \in Seq(Interrupts) /\ Sorted(list) /\ Distinct(list)
    BY DEF Orderly
<1>1. /\ Len(list) \in Nat \ {0} /\ DOMAIN list = 1 .. Len(list) /\ Head(list) = list[1]
      /\ rest \in Seq(Interrupts) /\ DOMAIN rest = 1 .. Len(list) - 1
      /\ \A i \in 1 .. Len(list) - 1 : rest[i] = list[i + 1]
    BY <1>0
<1> HIDE DEF rest
<1>2. Head(list) \in Interrupts /\ Head(list).type \in TypesIn(list)
    BY <1>0, <1>1 DEF TypesIn
<1>3. \A i \in DOMAIN rest : i + 1 \in DOMAIN list /\ rest[i] = list[i + 1]
    BY <1>1
<1>4. Sorted(rest)
    BY <1>0, <1>1, <1>3 DEF Sorted
<1>5. Distinct(rest)
    <2>1. ASSUME NEW i \in DOMAIN rest, NEW j \in DOMAIN rest, rest[i].type = rest[j].type
          PROVE  i = j
        <3>1. i + 1 = j + 1
            BY <1>0, <1>3, <2>1 DEF Distinct
        <3> QED BY <1>1, <3>1
    <2> QED BY <2>1 DEF Distinct
<1>6. TypesIn(rest) \subseteq TypesIn(list) \ {Head(list).type}
    <2>1. ASSUME NEW i \in DOMAIN rest PROVE rest[i].type # Head(list).type
        <3>1. 1 \in DOMAIN list /\ i + 1 \in DOMAIN list /\ i + 1 # 1
            BY <1>1
        <3> QED BY <1>0, <1>1, <1>3, <3>1 DEF Distinct
    <2> QED BY <1>3, <2>1 DEF TypesIn
<1>7. TypesIn(list) \ {Head(list).type} \subseteq TypesIn(rest)
    <2>1. ASSUME NEW j \in DOMAIN list, list[j].type # Head(list).type
          PROVE  \E i \in DOMAIN rest : rest[i].type = list[j].type
        <3>1. j # 1 /\ j \in 1 .. Len(list)
            BY <1>1, <2>1
        <3>2. j - 1 \in DOMAIN rest /\ rest[j - 1] = list[j]
            BY <1>1, <3>1
        <3> QED BY <3>2
    <2> QED BY <2>1 DEF TypesIn
<1> QED BY <1>1, <1>2, <1>3, <1>4, <1>5, <1>6, <1>7 DEF Orderly, rest

(* The clock changes no order. *)
LEMMA ElapseOrderly ==
    ASSUME NEW list, Orderly(list), NEW ticks \in Int
    PROVE  Orderly(Elapse(list, ticks)) /\ TypesIn(Elapse(list, ticks)) = TypesIn(list)
<1> DEFINE r == Elapse(list, ticks)
<1>0. list \in Seq(Interrupts) /\ Sorted(list) /\ Distinct(list)
    BY DEF Orderly
<1>1. Len(list) \in Nat /\ DOMAIN list = 1 .. Len(list) /\ \A i \in 1 .. Len(list) : list[i] \in Interrupts
    BY <1>0
<1>2. \A x \in Interrupts :
        /\ [x EXCEPT !.when = @ - ticks] \in Interrupts
        /\ [x EXCEPT !.when = @ - ticks].type = x.type
        /\ [x EXCEPT !.when = @ - ticks].when = x.when - ticks
        /\ x.when \in Int
    BY DEF Interrupts
<1>3. /\ DOMAIN r = 1 .. Len(list)
      /\ \A i \in 1 .. Len(list) : r[i] \in Interrupts /\ r[i].type = list[i].type
                                   /\ r[i].when = list[i].when - ticks /\ list[i].when \in Int
    BY <1>1, <1>2 DEF Elapse
<1>4. r \in Seq(Interrupts)
    <2>1. r = [i \in 1 .. Len(list) |-> [list[i] EXCEPT !.when = @ - ticks]]
        BY <1>1 DEF Elapse
    <2>2. \A i \in 1 .. Len(list) : [list[i] EXCEPT !.when = @ - ticks] \in Interrupts
        BY <1>1, <1>2
    <2> QED BY <1>1, <2>1, <2>2, IsASeq
<1> HIDE DEF r
<1>5. Sorted(r)
    BY <1>0, <1>1, <1>3 DEF Sorted
<1>6. Distinct(r)
    BY <1>0, <1>1, <1>3 DEF Distinct
<1>7. TypesIn(r) = TypesIn(list)
    BY <1>1, <1>3 DEF TypesIn
<1> QED BY <1>4, <1>5, <1>6, <1>7 DEF Orderly, r

(* CheckIfDue that finds its interrupt not due. *)
LEMMA PutBackOrderly ==
    ASSUME Orderly(pending)
    PROVE  /\ Orderly(PutBack) /\ TypesIn(PutBack) = TypesIn(pending)
           /\ \A i \in DOMAIN PutBack : \E j \in DOMAIN pending : PutBack[i] = pending[j]
<1>1. CASE pending = <<>>
    BY <1>1 DEF PutBack
<1>2. CASE pending # <<>>
    <2> DEFINE rest == Tail(pending)
               e == Head(pending)
    <2>1. /\ e \in Interrupts /\ Orderly(rest) /\ e.type \in TypesIn(pending)
          /\ TypesIn(rest) = TypesIn(pending) \ {e.type}
          /\ \A i \in DOMAIN rest : \E j \in DOMAIN pending : rest[i] = pending[j]
        BY <1>2, TailOrderly
    <2>2. 1 \in DOMAIN pending /\ e = pending[1]
        BY <1>2 DEF Orderly
    <2>3. PutBack = SortedInsert(rest, e)
        BY <1>2 DEF PutBack
    <2> HIDE DEF rest, e
    <2>4. /\ Orderly(SortedInsert(rest, e))
          /\ TypesIn(SortedInsert(rest, e)) = TypesIn(rest) \cup {e.type}
          /\ \A i \in DOMAIN SortedInsert(rest, e) :
               SortedInsert(rest, e)[i] = e
               \/ \E j \in DOMAIN rest : SortedInsert(rest, e)[i] = rest[j]
        BY <2>1, InsertOrderly
    <2> QED BY <2>1, <2>2, <2>3, <2>4
<1> QED BY <1>1, <1>2

(* Every device's delay is one that Schedule's ASSERT lets through. *)
LEMMA DelaysArePositive ==
    /\ \A delay \in TimerDelays : Due("TimerInt", delay) \in Interrupts /\ delay > 0
    /\ Due("PollInt", PollTime) \in Interrupts /\ PollTime > 0
    /\ \A delay \in DiskDelays : Due("DiskInt", delay) \in Interrupts /\ delay > 0
BY InterruptAssumption DEF Due, Interrupts, Types

(* A handler answers or schedules: what its device waits for is pending. *)
LEMMA FireOrderly ==
    ASSUME TypeOK, NEW list, Orderly(list), TypesIn(list) = Owed, list # <<>>, Fire(list),
           devices' = devices
    PROVE  /\ Orderly(pending') /\ TypesIn(pending') = Owed'
           /\ yieldOnReturn' \in BOOLEAN /\ requested' \in BOOLEAN
<1> DEFINE rest == Tail(list)
           e == Head(list)
<1>1. Orderly(rest) /\ e.type \in Owed /\ TypesIn(rest) = Owed \ {e.type}
    BY TailOrderly
<1>2. yieldOnReturn' \in BOOLEAN /\ requested' \in BOOLEAN
    BY DEF TypeOK, Fire
<1>3. devices \subseteq {"TimerInt", "PollInt"} /\ requested \in BOOLEAN
    BY DEF TypeOK
<1>4. ASSUME NEW f \in Interrupts, f.type = e.type, pending' = SortedInsert(rest, f),
             requested' = requested
      PROVE  Orderly(pending') /\ TypesIn(pending') = Owed'
    <2>1. Owed' = Owed
        BY <1>4 DEF Owed
    <2> HIDE DEF rest, e
    <2>2. f.type \notin TypesIn(rest)
        BY <1>1, <1>4
    <2> DEFINE new == SortedInsert(rest, f)
    <2>3. Orderly(new) /\ TypesIn(new) = TypesIn(rest) \cup {f.type}
        BY <1>1, <2>2, InsertOrderly
    <2>4. pending' = new
        BY <1>4
    <2> HIDE DEF new
    <2>5. TypesIn(new) = Owed
        BY <1>1, <1>4, <2>3
    <2> QED BY <2>1, <2>3, <2>4, <2>5 DEF Orderly, TypesIn, Sorted, Distinct
<1>5. CASE e.type = "TimerInt"
    <2>1. PICK delay \in TimerDelays : pending' = SortedInsert(rest, Due("TimerInt", delay))
        BY <1>5 DEF Fire
    <2>2. Due("TimerInt", delay).type = "TimerInt" /\ requested' = requested
        BY <1>5 DEF Due, Fire
    <2> QED BY <1>2, <1>4, <1>5, <2>1, <2>2, DelaysArePositive
<1>6. CASE e.type = "PollInt"
    <2>1. pending' = SortedInsert(rest, Due("PollInt", PollTime)) /\ requested' = requested
        BY <1>6 DEF Fire
    <2>2. Due("PollInt", PollTime).type = "PollInt"
        BY DEF Due
    <2> QED BY <1>2, <1>4, <1>6, <2>1, <2>2, DelaysArePositive
<1>7. CASE e.type = "DiskInt"
    <2>1. pending' = rest /\ requested' = FALSE
        BY <1>7 DEF Fire
    <2>2. Owed' = Owed \ {"DiskInt"}
        BY <1>3, <2>1 DEF Owed
    <2> QED BY <1>1, <1>2, <1>7, <2>1, <2>2
<1> QED BY <1>5, <1>6, <1>7 DEF Fire

-----------------------------------------------------------------------------
LEMMA InterruptInit == Init => InterruptInv
<1> SUFFICES ASSUME Init PROVE InterruptInv
    OBVIOUS
<1>1. PICK delay \in TimerDelays :
        LET timer == IF "TimerInt" \in devices THEN <<Due("TimerInt", delay)>> ELSE <<>>
        IN pending = IF "PollInt" \in devices
                     THEN SortedInsert(timer, Due("PollInt", PollTime)) ELSE timer
    BY DEF Init
<1> DEFINE e == Due("TimerInt", delay)
           f == Due("PollInt", PollTime)
           timer == IF "TimerInt" \in devices THEN <<e>> ELSE <<>>
<1>2. pending = IF "PollInt" \in devices THEN SortedInsert(timer, f) ELSE timer
    BY <1>1
<1>3. e \in Interrupts /\ e.when > 0 /\ f \in Interrupts /\ f.when > 0
      /\ e.type = "TimerInt" /\ f.type = "PollInt"
    BY DelaysArePositive DEF Due
<1> HIDE DEF e, f
<1>4. /\ Orderly(timer) /\ TypesIn(timer) = IF "TimerInt" \in devices THEN {"TimerInt"} ELSE {}
      /\ \A i \in DOMAIN timer : timer[i].when > 0
    <2>1. CASE "TimerInt" \in devices
        <3> DEFINE list == <<e>>
        <3>1. timer = list /\ list \in Seq(Interrupts) /\ DOMAIN list = {1} /\ list[1] = e
            BY <1>3, <2>1
        <3> HIDE DEF list, timer
        <3>2. Sorted(list) /\ Distinct(list)
            BY <3>1 DEF Sorted, Distinct
        <3>3. TypesIn(list) = {"TimerInt"}
            BY <1>3, <3>1 DEF TypesIn
        <3> QED BY <1>3, <2>1, <3>1, <3>2, <3>3 DEF Orderly
    <2>2. CASE "TimerInt" \notin devices
        <3>1. timer = <<>>
            BY <2>2
        <3> QED BY <2>2, <3>1 DEF Orderly, Sorted, Distinct, TypesIn
    <2> QED BY <2>1, <2>2
<1> HIDE DEF timer
<1>5. devices \subseteq {"TimerInt", "PollInt"} /\ requested = FALSE
    BY DEF Init
<1>6. Orderly(pending) /\ TypesIn(pending) = Owed /\ \A i \in DOMAIN pending : pending[i].when > 0
    <2>1. CASE "PollInt" \in devices
        <3> DEFINE new == SortedInsert(timer, f)
        <3>1. f.type \notin TypesIn(timer)
            BY <1>3, <1>4
        <3>2. /\ Orderly(new) /\ TypesIn(new) = TypesIn(timer) \cup {f.type}
              /\ \A i \in DOMAIN new : new[i] = f \/ \E j \in DOMAIN timer : new[i] = timer[j]
            BY <1>3, <1>4, <3>1, InsertOrderly
        <3>3. pending = new
            BY <1>2, <2>1
        <3> HIDE DEF new
        <3>4. TypesIn(new) = devices
            BY <1>3, <1>4, <1>5, <2>1, <3>2
        <3>5. \A i \in DOMAIN new : new[i].when > 0
            BY <1>3, <1>4, <3>2
        <3> QED BY <1>5, <3>2, <3>3, <3>4, <3>5 DEF Owed
    <2>2. CASE "PollInt" \notin devices
        <3>1. pending = timer /\ TypesIn(timer) = devices
            BY <1>2, <1>4, <1>5, <2>2
        <3> QED BY <1>4, <1>5, <3>1 DEF Owed
    <2> QED BY <2>1, <2>2
<1>7. TypeOK
    <2>1. pending \in Seq(Interrupts)
        BY <1>6 DEF Orderly
    <2> QED BY <1>5, <2>1 DEF Init, TypeOK, Interrupts
<1> QED BY <1>6, <1>7 DEF Init, InterruptInv, NothingOverdue

(* A step that leaves the interrupts as they are, or takes time only. *)
LEMMA QuietStep ==
    ASSUME InterruptInv, SetLevelOff \/ SetLevelOn \/ UserInstruction \/ ChangeMode
                         \/ Idle \/ Halted \/ UNCHANGED vars
    PROVE  InterruptInv'
<1> USE DEF InterruptInv
<1>1. UNCHANGED <<devices, requested, yieldOnReturn>>
    BY DEF SetLevelOff, SetLevelOn, UserInstruction, OneTick, ChangeMode, Idle, Halted, vars
<1>2. Owed' = Owed
    BY <1>1 DEF Owed
<1>3. CASE SetLevelOn \/ UserInstruction
    <2>1. PICK ticks \in {SystemTick, UserTick} : OneTick(ticks)
        BY <1>3 DEF SetLevelOn, UserInstruction
    <2> DEFINE list == Elapse(pending, ticks)
    <2>2. Orderly(list) /\ TypesIn(list) = TypesIn(pending)
        BY ElapseOrderly, InterruptAssumption
    <2>3. pending' = list
        BY <2>1 DEF OneTick
    <2> HIDE DEF list
    <2>4. Orderly(pending') /\ TypesIn(pending') = Owed'
        BY <1>2, <2>2, <2>3
    <2>5. cpu' = "tick" /\ level' = "Off" /\ status' = status /\ cpu = "run"
        BY <1>3, <2>1 DEF OneTick, SetLevelOn, UserInstruction
    <2>6. TypeOK'
        <3>1. pending' \in Seq(Interrupts)
            BY <2>4 DEF Orderly
        <3> QED BY <1>1, <2>5, <3>1 DEF TypeOK, Interrupts
    <2> QED BY <2>4, <2>5, <2>6 DEF Orderly, TypesIn, Sorted, Distinct, NothingOverdue
<1>4. CASE pending' = pending
    <2>1. TypeOK'
        BY <1>1, <1>4 DEF TypeOK, SetLevelOff, SetLevelOn, UserInstruction, OneTick, ChangeMode, Idle, Halted, vars
    <2>2. NothingOverdue'
        BY <1>4 DEF NothingOverdue, SetLevelOff, SetLevelOn, UserInstruction, OneTick, ChangeMode,
                    Idle, Halted, vars
    <2>3. Orderly(pending)' /\ TypesIn(pending)' = Owed'
        BY <1>2, <1>4 DEF Orderly, TypesIn, Sorted, Distinct
    <2>4. cpu' = "halted" => cpu = "halted"
        BY DEF SetLevelOff, SetLevelOn, UserInstruction, OneTick, ChangeMode, Idle, Halted, vars
    <2> QED BY <1>2, <2>1, <2>2, <2>3, <2>4
<1> QED BY <1>3, <1>4 DEF SetLevelOff, ChangeMode, Idle, Halted, vars

LEMMA ScheduleStep ==
    ASSUME InterruptInv, Schedule
    PROVE  InterruptInv'
<1> USE DEF InterruptInv
<1>1. PICK delay \in DiskDelays : pending' = SortedInsert(pending, Due("DiskInt", delay))
    BY DEF Schedule
<1> DEFINE e == Due("DiskInt", delay)
           new == SortedInsert(pending, e)
<1>2. e \in Interrupts /\ e.when > 0 /\ e.type = "DiskInt"
    BY DelaysArePositive DEF Due
<1> HIDE DEF e
<1>3. e.type \notin TypesIn(pending)
    BY <1>2 DEF Schedule, Owed, TypeOK
<1>4. /\ Orderly(new) /\ TypesIn(new) = TypesIn(pending) \cup {e.type}
      /\ \A i \in DOMAIN new : new[i] = e \/ \E j \in DOMAIN pending : new[i] = pending[j]
    BY <1>2, <1>3, InsertOrderly
<1>5. pending' = new
    BY <1>1 DEF e
<1> HIDE DEF new
<1>6. Owed' = Owed \cup {"DiskInt"}
    BY DEF Schedule, Owed
<1>7. Orderly(pending)' /\ TypesIn(pending)' = Owed'
    <2>1. TypesIn(new) = Owed'
        BY <1>2, <1>4, <1>6
    <2>2. Orderly(new) /\ pending' = new
        BY <1>4, <1>5
    <2> QED BY <2>1, <2>2 DEF Orderly, TypesIn, Sorted, Distinct
<1>8. TypeOK'
    <2>1. pending' \in Seq(Interrupts)
        BY <1>4, <1>5 DEF Orderly
    <2> QED BY <2>1 DEF Schedule, TypeOK, Interrupts
<1>9. NothingOverdue'
    BY <1>2, <1>4, <1>5 DEF Schedule, NothingOverdue
<1> QED BY <1>7, <1>8, <1>9 DEF Schedule

(* One round of a loop over CheckIfDue. *)
LEMMA FireStep ==
    ASSUME InterruptInv, NEW list, Orderly(list), TypesIn(list) = Owed, list # <<>>, Fire(list),
           UNCHANGED <<devices, level, status>>, cpu \in {"tick", "idle", "drain"},
           cpu' \in {"tick", "drain"}, cpu' = "tick" <=> cpu = "tick"
    PROVE  InterruptInv'
<1> USE DEF InterruptInv
<1>1. Orderly(pending') /\ TypesIn(pending') = Owed' /\ yieldOnReturn' \in BOOLEAN /\ requested' \in BOOLEAN
    BY FireOrderly
<1>2. TypeOK'
    <2>1. pending' \in Seq(Interrupts)
        BY <1>1 DEF Orderly
    <2> QED BY <1>1, <2>1 DEF TypeOK, Interrupts
<1> QED BY <1>1, <1>2 DEF NothingOverdue, Orderly, TypesIn, Sorted, Distinct

(* The last round of a loop, which finds nothing that may fire. *)
LEMMA LoopEnds ==
    ASSUME InterruptInv, pending' = PutBack, UNCHANGED <<devices, requested>>, cpu' = "run",
           yieldOnReturn' = FALSE, level' \in {"On", "Off"}, status' \in {"SystemMode", "UserMode"},
           level' = "On" => ~ FirstIsDue
    PROVE  InterruptInv'
<1> USE DEF InterruptInv
<1>1. Owed' = Owed
    BY DEF Owed
<1> DEFINE new == PutBack
<1>2. /\ Orderly(new) /\ TypesIn(new) = TypesIn(pending) /\ pending' = new
      /\ \A i \in DOMAIN new : \E j \in DOMAIN pending : new[i] = pending[j]
    BY PutBackOrderly
<1> HIDE DEF new
<1>3. Orderly(pending)' /\ TypesIn(pending)' = Owed'
    <2>1. TypesIn(new) = Owed'
        BY <1>1, <1>2
    <2>2. Orderly(new) /\ pending' = new
        BY <1>2
    <2> QED BY <2>1, <2>2 DEF Orderly, TypesIn, Sorted, Distinct
<1>4. TypeOK'
    <2>1. pending' \in Seq(Interrupts)
        BY <1>2 DEF Orderly
    <2> QED BY <2>1 DEF TypeOK, Interrupts
<1>5. ASSUME level' = "On" PROVE \A j \in DOMAIN pending : pending[j].when > 0
    <2>1. CASE pending = <<>>
        BY <2>1
    <2>2. CASE pending # <<>>
        <3>1. pending \in Seq(Interrupts) /\ Sorted(pending)
            BY DEF Orderly
        <3>2. 1 \in DOMAIN pending /\ Head(pending) = pending[1] /\ ~ (pending[1].when <= 0)
              /\ DOMAIN pending = 1 .. Len(pending) /\ Len(pending) \in Nat
            BY <1>5, <2>2, <3>1 DEF FirstIsDue
        <3>3. \A j \in DOMAIN pending : pending[j].when \in Int
            <4>1. \A j \in DOMAIN pending : pending[j] \in Interrupts
                BY <3>1
            <4> QED BY <4>1 DEF Interrupts
        <3>4. \A j \in DOMAIN pending : j = 1 \/ pending[1].when <= pending[j].when
            BY <3>1, <3>2 DEF Sorted
        <3> QED BY <3>2, <3>3, <3>4
    <2> QED BY <2>1, <2>2
<1>6. NothingOverdue'
    BY <1>2, <1>5 DEF NothingOverdue
<1> QED BY <1>3, <1>4, <1>6

LEMMA AdvanceStep ==
    ASSUME InterruptInv, AdvanceClock
    PROVE  InterruptInv'
<1> USE DEF InterruptInv
<1> DEFINE list == IF pending # <<>> /\ Head(pending).when > 0
                   THEN Elapse(pending, Head(pending).when) ELSE pending
<1>0. UNCHANGED <<devices, level, status>> /\ cpu = "idle"
    BY DEF AdvanceClock
<1>1. Orderly(list) /\ TypesIn(list) = TypesIn(pending) /\ (list = <<>> <=> pending = <<>>)
    <2>1. CASE pending # <<>> /\ Head(pending).when > 0
        <3>1. Head(pending).when \in Int
            BY <2>1, TailOrderly DEF Interrupts
        <3>2. list = Elapse(pending, Head(pending).when)
            BY <2>1
        <3>3. Orderly(list) /\ TypesIn(list) = TypesIn(pending)
            BY <3>1, <3>2, ElapseOrderly
        <3>4. DOMAIN list = DOMAIN pending
            BY <3>2 DEF Elapse
        <3>5. list \in Seq(Interrupts) /\ pending \in Seq(Interrupts)
            BY <3>3 DEF Orderly
        <3> HIDE DEF list
        <3>6. 1 \in DOMAIN list
            BY <2>1, <3>4, <3>5
        <3> QED BY <2>1, <3>3, <3>5, <3>6
    <2>2. CASE ~ (pending # <<>> /\ Head(pending).when > 0)
        BY <2>2
    <2> QED BY <2>1, <2>2
<1>2. CASE pending = <<>> \/ OnlyTimer
    <2>1. cpu' = "halted" /\ pending' = list /\ UNCHANGED <<yieldOnReturn, requested>>
        BY <1>2 DEF AdvanceClock
    <2> HIDE DEF list
    <2>2. Owed' = Owed
        BY <1>0, <2>1 DEF Owed
    <2>3. TypesIn(pending) \subseteq {"TimerInt"}
        <3>1. pending \in Seq(Interrupts)
            BY DEF Orderly
        <3> QED BY <1>2, <3>1 DEF TypesIn, OnlyTimer
    <2>4. Orderly(pending)' /\ TypesIn(pending)' = Owed'
        BY <1>1, <2>1, <2>2 DEF Orderly, TypesIn, Sorted, Distinct
    <2>5. TypeOK'
        <3>1. pending' \in Seq(Interrupts)
            BY <1>1, <2>1 DEF Orderly
        <3> QED BY <1>0, <2>1, <3>1 DEF TypeOK, Interrupts
    <2> QED BY <2>1, <2>2, <2>3, <2>4, <2>5 DEF NothingOverdue
<1>3. CASE ~ (pending = <<>> \/ OnlyTimer)
    <2>1. cpu' = "drain" /\ Fire(list)
        BY <1>3 DEF AdvanceClock
    <2> HIDE DEF list
    <2> QED BY <1>0, <1>1, <1>3, <2>1, FireStep
<1> QED BY <1>2, <1>3

LEMMA InterruptStep == InterruptInv /\ [Next]_vars => InterruptInv'
<1> SUFFICES ASSUME InterruptInv, [Next]_vars PROVE InterruptInv'
    OBVIOUS
<1>0. TypeOK /\ Orderly(pending) /\ TypesIn(pending) = Owed
    BY DEF InterruptInv
<1>1. CASE OneTickLoop
    <2>1. CASE FirstIsDue
        BY <1>0, <1>1, <2>1, FireStep DEF OneTickLoop, FirstIsDue
    <2>2. CASE ~ FirstIsDue
        <3>1. cpu = "tick" /\ status' = status /\ status' \in {"SystemMode", "UserMode"}
            BY <1>0, <1>1 DEF OneTickLoop, TypeOK
        <3> QED BY <1>1, <2>2, <3>1, LoopEnds DEF OneTickLoop
    <2> QED BY <2>1, <2>2
<1>2. CASE IdleLoop
    <2>1. CASE FirstIsDue /\ ~ OnlyTimer
        BY <1>0, <1>2, <2>1, FireStep DEF IdleLoop, FirstIsDue
    <2>2. CASE ~ (FirstIsDue /\ ~ OnlyTimer)
        <3>1. level' = "Off"
            BY <1>0, <1>2 DEF IdleLoop, TypeOK
        <3> QED BY <1>2, <2>2, <3>1, LoopEnds DEF IdleLoop
    <2> QED BY <2>1, <2>2
<1> QED BY <1>1, <1>2, QuietStep, ScheduleStep, AdvanceStep DEF Next

LEMMA InterruptInvariant == Spec => []InterruptInv
BY InterruptInit, InterruptStep, PTL DEF Spec

-----------------------------------------------------------------------------
(* The clock, the levels, the modes and the list keep their types; the      *)
(* machine is in IdleMode exactly inside Idle.                              *)
THEOREM InterruptTypes == Spec => []TypeOK
<1>1. InterruptInv => TypeOK
    BY DEF InterruptInv
<1> QED BY <1>1, InterruptInvariant, PTL

(* However long ticks and delays are, the list of pending interrupts stays  *)
(* sorted through Schedule, put-backs and handlers that schedule.           *)
THEOREM PendingStaysSorted == Spec => []InOrder
<1>1. InterruptInv => InOrder
    BY DEF InterruptInv, Orderly, Sorted, InOrder
<1> QED BY <1>1, InterruptInvariant, PTL

(* A device has exactly the interrupt it waits for: none is lost by a       *)
(* put-back, none is scheduled twice.                                       *)
THEOREM NoInterruptLostOrDoubled == Spec => []EachPendingOnce
<1>1. ASSUME InterruptInv PROVE EachPendingOnce
    <2>0. Orderly(pending) /\ TypesIn(pending) = Owed
        BY <1>1 DEF InterruptInv
    <2>1. ASSUME NEW type PROVE Count(type) = IF type \in Owed THEN 1 ELSE 0
        <3> DEFINE S == {i \in DOMAIN pending : pending[i].type = type}
        <3>1. CASE type \in Owed
            <4>1. PICK i \in DOMAIN pending : pending[i].type = type
                BY <2>0, <3>1 DEF TypesIn
            <4>2. S = {i}
                BY <2>0, <4>1 DEF Orderly, Distinct
            <4> QED BY <3>1, <4>2, FS_Singleton DEF Count
        <3>2. CASE type \notin Owed
            <4>1. S = {}
                BY <2>0, <3>2 DEF TypesIn
            <4> QED BY <3>2, <4>1, FS_EmptySet DEF Count
        <3> QED BY <3>1, <3>2
    <2>2. devices \subseteq {"TimerInt", "PollInt"}
        BY <1>1 DEF InterruptInv, TypeOK
    <2>3. /\ "TimerInt" \in Owed <=> "TimerInt" \in devices
          /\ "PollInt" \in Owed <=> "PollInt" \in devices
          /\ "DiskInt" \in Owed <=> requested
        BY <2>2 DEF Owed
    <2> QED BY <2>1, <2>3 DEF EachPendingOnce
<1> QED BY <1>1, InterruptInvariant, PTL

(* A thread that runs with interrupts on is behind no device: OneTick's loop *)
(* looks at the first element alone, and that is enough.                     *)
THEOREM NoInterruptOverdue == Spec => []NothingOverdue
<1>1. InterruptInv => NothingOverdue
    BY DEF InterruptInv
<1> QED BY <1>1, InterruptInvariant, PTL

(* NachOS does not halt by itself while the disk owes an answer or a device *)
(* polls, although Idle's loop leaves out the timer that is alone.          *)
THEOREM HaltsOnlyWithNothingToDo == Spec => []HaltsWhenNothingToDo
<1>1. InterruptInv => HaltsWhenNothingToDo
    BY DEF InterruptInv, Owed, HaltsWhenNothingToDo
<1> QED BY <1>1, InterruptInvariant, PTL
=============================================================================
