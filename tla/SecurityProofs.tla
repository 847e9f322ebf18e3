--------------------------- MODULE SecurityProofs ---------------------------
(***************************************************************************)
(* The atomics of Security, for every set of callers and every fault       *)
(* limit.  A call is a list of accesses; what makes the properties hold is *)
(* which accesses still follow the one that is made (Ordered).             *)
(***************************************************************************)
EXTENDS Security, FiniteSetTheorems, TLAPS

Check == Do("check")

(* A counted fault is raised and compared next; a lockdown still has to      *)
(* raise the threat to Omega; a reset that has cleared the threat level      *)
(* still has to clear the lockdown.                                          *)
OrderedAt(s, i) ==
    /\ s[i] = Do("count") => /\ i + 2 <= Len(s)
                             /\ s[i + 1].op = "raise" /\ s[i + 2] = Check
    /\ s[i].op = "raise" => i + 1 <= Len(s) /\ s[i + 1] = Check
    /\ s[i] = Do("lock") => \E j \in i + 1 .. Len(s) : s[j] = Raise(Omega)
    /\ s[i] = Do("clear threat") =>
          \E j \in i + 1 .. Len(s) : s[j] = Do("clear lock")

Ordered(s) == \A i \in 1..Len(s) : OrderedAt(s, i)

AccessList == Seq(Access)

LEMMA DoAccess == ASSUME NEW op \in Op PROVE Do(op) \in Access /\ Do(op).op = op
  BY DEF Do, Access

LEMMA RaiseAccess ==
  ASSUME NEW level \in ThreatLevel
  PROVE  /\ Raise(level) \in Access
         /\ Raise(level).op = "raise" /\ Raise(level).level = level
  BY DEF Raise, Access

(* An access that is not a raise is its op.                                  *)
LEMMA AccessIsDo ==
  ASSUME NEW a \in Access, a.op # "raise" PROVE a = Do(a.op)
  BY DEF Access, Do

(* An ordered list stays so wherever it is put in a longer one.              *)
LEMMA OrderedShift ==
  ASSUME NEW s \in AccessList, NEW r \in AccessList, NEW n \in Nat,
         n + Len(s) <= Len(r), \A j \in 1..Len(s) : r[n + j] = s[j],
         NEW i \in 1..Len(s), OrderedAt(s, i)
  PROVE  OrderedAt(r, n + i)
<1>1. Len(s) \in Nat /\ Len(r) \in Nat
  BY DEF AccessList
<1>2. r[n + i] = s[i]
  OBVIOUS
<1>3. ASSUME r[n + i] = Do("count")
      PROVE  /\ (n + i) + 2 <= Len(r)
             /\ r[(n + i) + 1].op = "raise" /\ r[(n + i) + 2] = Check
  <2>1. i + 2 <= Len(s) /\ s[i + 1].op = "raise" /\ s[i + 2] = Check
    BY <1>2, <1>3 DEF OrderedAt
  <2>2. r[n + (i + 1)] = s[i + 1] /\ r[n + (i + 2)] = s[i + 2]
    BY <1>1, <2>1
  <2>3. n + (i + 1) = (n + i) + 1 /\ n + (i + 2) = (n + i) + 2
    BY <1>1
  <2>4. (n + i) + 2 <= Len(r)
    BY <1>1, <2>1
  <2>5. r[(n + i) + 1] = s[i + 1] /\ r[(n + i) + 2] = s[i + 2]
    BY <2>2, <2>3
  <2> QED
    BY <2>1, <2>4, <2>5
<1>4. ASSUME r[n + i].op = "raise"
      PROVE  (n + i) + 1 <= Len(r) /\ r[(n + i) + 1] = Check
  <2>1. i + 1 <= Len(s) /\ s[i + 1] = Check
    BY <1>2, <1>4 DEF OrderedAt
  <2>2. r[n + (i + 1)] = s[i + 1]
    BY <1>1, <2>1
  <2>3. n + (i + 1) = (n + i) + 1
    BY <1>1
  <2> QED
    BY <1>1, <2>1, <2>2, <2>3
<1>5. ASSUME NEW x, \E j \in i + 1 .. Len(s) : s[j] = x
      PROVE  \E j \in (n + i) + 1 .. Len(r) : r[j] = x
  <2>1. PICK j \in i + 1 .. Len(s) : s[j] = x
    BY <1>5
  <2>2. n + j \in (n + i) + 1 .. Len(r) /\ r[n + j] = x
    BY <1>1, <2>1
  <2> QED
    BY <2>2
<1>6. r[n + i] = Do("lock") => \E j \in (n + i) + 1 .. Len(r) : r[j] = Raise(Omega)
  BY <1>2, <1>5 DEF OrderedAt
<1>7. r[n + i] = Do("clear threat") =>
         \E j \in (n + i) + 1 .. Len(r) : r[j] = Do("clear lock")
  BY <1>2, <1>5 DEF OrderedAt
<1> QED
  BY <1>3, <1>4, <1>6, <1>7 DEF OrderedAt

LEMMA OrderedConcat ==
  ASSUME NEW a \in AccessList, NEW b \in AccessList, Ordered(a), Ordered(b)
  PROVE  a \o b \in AccessList /\ Ordered(a \o b)
<1> DEFINE r == a \o b
<1>1. r \in AccessList /\ Len(r) = Len(a) + Len(b)
      /\ Len(a) \in Nat /\ Len(b) \in Nat
  BY DEF AccessList
<1>2. \A j \in 1..Len(a) : r[0 + j] = a[j]
  BY DEF AccessList
<1>3. \A j \in 1..Len(b) : r[Len(a) + j] = b[j]
  BY DEF AccessList
<1> HIDE DEF r
<1>4. ASSUME NEW i \in 1..Len(r) PROVE OrderedAt(r, i)
  <2>1. CASE i \in 1..Len(a)
    <3>1. OrderedAt(r, 0 + i)
      <4>1. 0 \in Nat /\ 0 + Len(a) <= Len(r) /\ OrderedAt(a, i)
        BY <1>1, <2>1 DEF Ordered
      <4> QED
        BY <1>1, <1>2, <2>1, <4>1, OrderedShift
    <3> QED
      BY <3>1
  <2>2. CASE i - Len(a) \in 1..Len(b)
    <3>1. OrderedAt(r, Len(a) + (i - Len(a)))
      <4>1. Len(a) + Len(b) <= Len(r) /\ OrderedAt(b, i - Len(a))
        BY <1>1, <2>2 DEF Ordered
      <4> QED
        BY <1>1, <1>3, <2>2, <4>1, OrderedShift
    <3>2. Len(a) + (i - Len(a)) = i
      BY <1>1
    <3> QED
      BY <3>1, <3>2
  <2> QED
    BY <1>1, <2>1, <2>2
<1> QED
  BY <1>1, <1>4 DEF Ordered, r

LEMMA OrderedTail ==
  ASSUME NEW s \in AccessList, s # <<>>, Ordered(s)
  PROVE  Tail(s) \in AccessList /\ Ordered(Tail(s))
<1>1. Tail(s) \in AccessList /\ Len(s) \in Nat \ {0} /\ Len(Tail(s)) = Len(s) - 1
      /\ \A j \in 1..Len(s) - 1 : Tail(s)[j] = s[j + 1]
  BY DEF AccessList
<1>2. ASSUME NEW i \in 1..Len(Tail(s)) PROVE OrderedAt(Tail(s), i)
  <2>1. i + 1 \in 1..Len(s) /\ OrderedAt(s, i + 1)
    BY <1>1, <1>2 DEF Ordered
  <2>2. Tail(s)[i] = s[i + 1]
    BY <1>1, <1>2
  <2>3. ASSUME s[i + 1] = Do("count")
        PROVE  /\ i + 2 <= Len(Tail(s))
               /\ Tail(s)[i + 1].op = "raise" /\ Tail(s)[i + 2] = Check
    <3>1. (i + 1) + 2 <= Len(s) /\ s[(i + 1) + 1].op = "raise" /\ s[(i + 1) + 2] = Check
      BY <2>1, <2>3 DEF OrderedAt
    <3>2. Tail(s)[i + 1] = s[(i + 1) + 1] /\ Tail(s)[i + 2] = s[(i + 2) + 1]
      BY <1>1, <1>2, <3>1
    <3>3. (i + 2) + 1 = (i + 1) + 2
      BY <1>1
    <3> QED
      BY <1>1, <3>1, <3>2, <3>3
  <2>4. ASSUME s[i + 1].op = "raise"
        PROVE  i + 1 <= Len(Tail(s)) /\ Tail(s)[i + 1] = Check
    <3>1. (i + 1) + 1 <= Len(s) /\ s[(i + 1) + 1] = Check
      BY <2>1, <2>4 DEF OrderedAt
    <3>2. Tail(s)[i + 1] = s[(i + 1) + 1]
      BY <1>1, <1>2, <3>1
    <3> QED
      BY <1>1, <3>1, <3>2
  <2>5. ASSUME NEW x, \E j \in (i + 1) + 1 .. Len(s) : s[j] = x
        PROVE  \E j \in i + 1 .. Len(Tail(s)) : Tail(s)[j] = x
    <3>1. PICK j \in (i + 1) + 1 .. Len(s) : s[j] = x
      BY <2>5
    <3>2. j - 1 \in i + 1 .. Len(Tail(s)) /\ Tail(s)[j - 1] = x
      BY <1>1, <3>1
    <3> QED
      BY <3>2
  <2>6. s[i + 1] = Do("lock") => \E j \in i + 1 .. Len(Tail(s)) : Tail(s)[j] = Raise(Omega)
    BY <2>1, <2>5 DEF OrderedAt
  <2>7. s[i + 1] = Do("clear threat") =>
           \E j \in i + 1 .. Len(Tail(s)) : Tail(s)[j] = Do("clear lock")
    BY <2>1, <2>5 DEF OrderedAt
  <2> QED
    BY <2>2, <2>3, <2>4, <2>6, <2>7 DEF OrderedAt
<1> QED
  BY <1>1, <1>2 DEF Ordered
-----------------------------------------------------------------------------
(* Every call the entry points make is ordered.                              *)
Fits(s) == s \in AccessList /\ Ordered(s)

LEMMA FitsConcat == ASSUME NEW a, NEW b, Fits(a), Fits(b) PROVE Fits(a \o b)
  BY OrderedConcat DEF Fits

(* The accesses, told apart by their op.                                     *)
LEMMA Accesses ==
  /\ \A op \in Op : Do(op) \in Access /\ Do(op).op = op
  /\ \A level \in ThreatLevel : Raise(level) \in Access /\ Raise(level).op = "raise"
  /\ Check = Do("check") /\ Omega \in ThreatLevel
  BY DoAccess, RaiseAccess DEF Check, Omega, ThreatLevel

LEMMA OpIs ==
  /\ "count" \in Op /\ "check" \in Op /\ "lock" \in Op /\ "mend" \in Op
  /\ "panic" \in Op /\ "halt" \in Op /\ "clear fault" \in Op /\ "clear threat" \in Op
  /\ "clear canary" \in Op /\ "clear panic" \in Op /\ "clear lock" \in Op
  BY DEF Op

LEMMA SingleFits ==
  ASSUME NEW op \in {"mend", "panic", "halt"} PROVE Fits(<<Do(op)>>)
<1> DEFINE s == <<Do(op)>>
<1>1. Do(op) \in Access /\ Do(op).op = op
  BY Accesses, OpIs
<1>2. s \in Seq(Access) /\ Len(s) = 1 /\ s[1] = Do(op)
  BY <1>1
<1>3. Do("count").op = "count" /\ Do("lock").op = "lock"
      /\ Do("clear threat").op = "clear threat"
  BY Accesses, OpIs
<1> HIDE DEF s
<1>4. OrderedAt(s, 1)
  BY <1>1, <1>2, <1>3 DEF OrderedAt
<1>5. \A i \in 1..Len(s) : i = 1
  BY <1>2
<1> QED
  BY <1>2, <1>4, <1>5 DEF Fits, Ordered, AccessList, s

(* A list is ordered at an access that asks nothing of what follows it.      *)
LEMMA PlainOrdered ==
  ASSUME NEW s, NEW i, s[i].op \notin {"count", "raise", "lock", "clear threat"}
  PROVE  OrderedAt(s, i)
  BY Accesses, OpIs DEF OrderedAt

LEMMA CountOrdered ==
  ASSUME NEW s, NEW i \in Nat, s[i] = Do("count"), i + 2 <= Len(s),
         s[i + 1].op = "raise", s[i + 2] = Check
  PROVE  OrderedAt(s, i)
<1>1. s[i].op = "count" /\ Do("lock").op = "lock"
      /\ Do("clear threat").op = "clear threat"
  BY Accesses, OpIs
<1> QED
  BY <1>1 DEF OrderedAt

LEMMA RaiseOrdered ==
  ASSUME NEW s, NEW i \in Nat, s[i].op = "raise", i + 1 <= Len(s), s[i + 1] = Check
  PROVE  OrderedAt(s, i)
<1>1. Do("count").op = "count" /\ Do("lock").op = "lock"
      /\ Do("clear threat").op = "clear threat"
  BY Accesses, OpIs
<1> QED
  BY <1>1 DEF OrderedAt

LEMMA ThreatFits ==
  ASSUME NEW level \in ThreatLevel PROVE Fits(register_threat(level))
<1> DEFINE s == <<Do("count"), Raise(level), Do("check")>>
<1>1. Do("count") \in Access /\ Raise(level) \in Access /\ Do("check") \in Access
  BY Accesses, OpIs
<1>2. s \in Seq(Access) /\ Len(s) = 3
  BY <1>1
<1>3. s[1] = Do("count") /\ s[1 + 1] = Raise(level) /\ s[1 + 2] = Do("check")
      /\ s[2] = Raise(level) /\ s[2 + 1] = Do("check") /\ s[3] = Do("check")
  OBVIOUS
<1>4. Do("check").op = "check" /\ Raise(level).op = "raise" /\ Check = Do("check")
  BY Accesses, OpIs
<1> HIDE DEF s
<1>5. OrderedAt(s, 1)
  BY <1>2, <1>3, <1>4, CountOrdered
<1>6. OrderedAt(s, 2)
  BY <1>2, <1>3, <1>4, RaiseOrdered
<1>7. OrderedAt(s, 3)
  BY <1>3, <1>4, PlainOrdered
<1>8. \A i \in 1..Len(s) : i = 1 \/ i = 2 \/ i = 3
  BY <1>2
<1>9. Fits(s)
  BY <1>2, <1>5, <1>6, <1>7, <1>8 DEF Fits, Ordered, AccessList
<1> QED
  BY <1>9 DEF register_threat, s

LEMMA LockdownFits == Fits(initiate_lockdown)
<1> DEFINE s == initiate_lockdown
           l == <<Do("lock")>>
           r == register_threat(Omega)
<1>1. Fits(r)
  BY ThreatFits, Accesses
<1>2. l \in Seq(Access) /\ Len(l) = 1 /\ l[1] = Do("lock")
  <2>1. Do("lock") \in Access
    BY Accesses, OpIs
  <2> QED
    BY <2>1
<1>3. r \in Seq(Access) /\ Len(r) = 3 /\ r[2] = Raise(Omega)
  BY <1>1 DEF register_threat, Fits, AccessList
<1>4. s = l \o r
  BY DEF initiate_lockdown
<1> HIDE DEF s, l, r
<1>5. /\ s \in Seq(Access) /\ Len(s) = 4 /\ s[1] = Do("lock")
      /\ \A i \in 1..3 : s[1 + i] = r[i]
  <2>1. \A a, b \in Seq(Access) :
           /\ a \o b \in Seq(Access) /\ Len(a \o b) = Len(a) + Len(b)
           /\ \A i \in 1..Len(a) : (a \o b)[i] = a[i]
           /\ \A i \in 1..Len(b) : (a \o b)[Len(a) + i] = b[i]
    OBVIOUS
  <2>2. l \in Seq(Access) /\ r \in Seq(Access)
    BY <1>2, <1>3
  <2>3. /\ s \in Seq(Access) /\ Len(s) = Len(l) + Len(r)
        /\ \A i \in 1..Len(l) : s[i] = l[i]
        /\ \A i \in 1..Len(r) : s[Len(l) + i] = r[i]
    BY <1>4, <2>1, <2>2
  <2> QED
    BY <1>2, <1>3, <2>3
<1>6. OrderedAt(s, 1)
  <2>1. 3 \in 1 + 1 .. Len(s) /\ s[3] = Raise(Omega)
    BY <1>3, <1>5
  <2>2. s[1].op = "lock" /\ Do("count").op = "count"
        /\ Do("clear threat").op = "clear threat"
    BY <1>5, Accesses, OpIs
  <2> QED
    BY <2>1, <2>2 DEF OrderedAt
<1>7. ASSUME NEW i \in 1..3 PROVE OrderedAt(s, 1 + i)
  <2>1. OrderedAt(r, i) /\ i \in 1..Len(r) /\ 1 + Len(r) <= Len(s)
    BY <1>1, <1>3, <1>5 DEF Fits, Ordered
  <2>2. \A j \in 1..Len(r) : s[1 + j] = r[j]
    BY <1>3, <1>5
  <2> QED
    BY <1>3, <1>5, <2>1, <2>2, OrderedShift DEF AccessList
<1>8. ASSUME NEW i \in 1..Len(s) PROVE OrderedAt(s, i)
  <2>1. i = 1 \/ (i - 1 \in 1..3 /\ 1 + (i - 1) = i)
    BY <1>5
  <2> QED
    BY <1>6, <1>7, <2>1
<1>9. Fits(s)
  BY <1>5, <1>8 DEF Fits, Ordered, AccessList
<1> QED
  BY <1>9 DEF s

LEMMA ResetFits == \A call \in Reset : Fits(call)
<1> DEFINE s == <<Do("clear fault"), Do("clear threat"), Do("clear canary"),
                  Do("clear panic"), Do("clear lock")>>
<1>1. /\ Do("clear fault") \in Access /\ Do("clear threat") \in Access
      /\ Do("clear canary") \in Access /\ Do("clear panic") \in Access
      /\ Do("clear lock") \in Access
  BY Accesses, OpIs
<1>2. s \in Seq(Access)
  <2>1. \A a, b, c, d, e \in Access : <<a, b, c, d, e>> \in Seq(Access)
    OBVIOUS
  <2> QED
    BY <1>1, <2>1
<1>3. Len(s) = 5
  OBVIOUS
<1>4. /\ s[1] = Do("clear fault") /\ s[2] = Do("clear threat")
      /\ s[3] = Do("clear canary") /\ s[4] = Do("clear panic")
      /\ s[5] = Do("clear lock")
  OBVIOUS
<1>5. /\ Do("clear fault").op = "clear fault" /\ Do("clear threat").op = "clear threat"
      /\ Do("clear canary").op = "clear canary" /\ Do("clear panic").op = "clear panic"
      /\ Do("clear lock").op = "clear lock"
      /\ Do("count").op = "count" /\ Do("lock").op = "lock"
  BY Accesses, OpIs
<1> HIDE DEF s
<1>6. OrderedAt(s, 2)
  <2>1. 5 \in 2 + 1 .. Len(s)
    BY <1>3
  <2> QED
    BY <1>4, <1>5, <2>1 DEF OrderedAt
<1>7. OrderedAt(s, 1) /\ OrderedAt(s, 3) /\ OrderedAt(s, 4) /\ OrderedAt(s, 5)
  BY <1>4, <1>5, PlainOrdered
<1>8. \A i \in 1..Len(s) : i = 1 \/ i = 2 \/ i = 3 \/ i = 4 \/ i = 5
  BY <1>3
<1>9. Fits(s)
  BY <1>2, <1>6, <1>7, <1>8 DEF Fits, Ordered, AccessList
<1> QED
  BY <1>9 DEF Reset, s

LEMMA CallFits ==
  \A call \in CheckMemory \cup CheckStack \cup Monitor \cup ScanBuffer \cup
               VerifyDriver \cup FullScan \cup PanicKeepalive \cup RustPanic \cup
               Reset :
     call # <<>> => Fits(call)
<1>1. /\ Safe \in ThreatLevel /\ High \in ThreatLevel
      /\ Critical \in ThreatLevel /\ Omega \in ThreatLevel
  BY DEF Safe, High, Critical, Omega, ThreatLevel
<1>2. \A level \in {Safe, High, Critical, Omega} : Fits(register_threat(level))
  BY <1>1, ThreatFits
<1>3. \A call \in CheckMemory \cup CheckStack \cup FullScan : Fits(call)
  BY <1>2 DEF CheckMemory, CheckStack, FullScan
<1>4. \A call \in Monitor : call # <<>> => Fits(call)
  <2>1. Fits(register_threat(Omega) \o <<Do("mend")>> \o register_threat(Safe))
    BY <1>2, SingleFits, FitsConcat
  <2> QED
    BY <1>2, <2>1 DEF Monitor
<1>5. \A call \in ScanBuffer : Fits(call)
  BY <1>2, LockdownFits, FitsConcat DEF ScanBuffer
<1>6. \A call \in VerifyDriver : Fits(call)
  BY <1>2, FitsConcat DEF VerifyDriver
<1>7. \A call \in PanicKeepalive \cup RustPanic : Fits(call)
  <2>1. <<Do("panic"), Do("halt")>> = <<Do("panic")>> \o <<Do("halt")>>
    OBVIOUS
  <2> QED
    BY <2>1, SingleFits, FitsConcat DEF PanicKeepalive, RustPanic
<1> QED
  BY <1>3, <1>4, <1>5, <1>6, <1>7, ResetFits

-----------------------------------------------------------------------------
(* A task is pending between counting its fault and comparing the count.     *)
Pending(s) ==
    \/ Len(s) >= 1 /\ s[1] = Check
    \/ Len(s) >= 2 /\ s[1].op = "raise" /\ s[2] = Check

(* A task that will yet raise the threat to Omega or lift the lockdown.      *)
Settles(a) == a \in {Raise(Omega), Do("clear lock")}
Owes(s) == \E i \in 1..Len(s) : Settles(s[i])

ListInv == todo \in [Tasks -> AccessList] /\ \A t \in Tasks : Ordered(todo[t])

LimitInv ==
    reached => halted \/ \E t \in Tasks : count[t] >= MaxFaults /\ Pending(todo[t])

LockInv == (lockdown /\ threat # Omega) => \E t \in Tasks : Owes(todo[t])

(* A task whose count is at the limit has yet to compare it, so it cannot    *)
(* count again; and past the limit every fault was counted by another task.  *)
OverPending == \A t \in Tasks : count[t] >= MaxFaults => halted \/ Pending(todo[t])

Past(S, n) == Cardinality(S) = n - MaxFaults + 1 /\ \A t \in S : count[t] >= MaxFaults
CountInv == fault >= MaxFaults => \E S \in SUBSET Tasks : Past(S, fault)

SecurityInv ==
    TypeOK /\ ListInv /\ LimitInv /\ LockInv /\ OverPending /\ CountInv

LEMMA CountInvInit == Init => OverPending /\ CountInv
  BY LimitAssumption DEF Init, OverPending, CountInv

LEMMA SecurityInvInit == Init => SecurityInv
<1> SUFFICES ASSUME Init PROVE SecurityInv
  OBVIOUS
<1>1. <<>> \in AccessList /\ Len(<<>>) = 0 /\ Ordered(<<>>)
  BY DEF AccessList, Ordered
<1>2. TypeOK
  <2>1. todo \in [Tasks -> Seq(Access)] /\ count \in [Tasks -> Nat]
    BY <1>1 DEF Init, AccessList
  <2>2. fault \in Nat /\ threat \in ThreatLevel
    BY DEF Init, Safe, ThreatLevel
  <2> QED
    BY <2>1, <2>2 DEF Init, TypeOK
<1>3. ListInv
  BY <1>1 DEF Init, ListInv
<1> QED
  BY <1>2, <1>3, CountInvInit DEF Init, SecurityInv, LimitInv, LockInv

(* What the access that is made leaves of the lists.                         *)
LEMMA ListStep ==
  ASSUME ListInv, NEW t \in Tasks, Next1(t)
  PROVE  /\ ListInv'
         /\ \A u \in Tasks \ {t} : todo'[u] = todo[u]
         /\ todo'[t] = Tail(todo[t])
         /\ Len(todo[t]) \in Nat \ {0} /\ Head(todo[t]) = todo[t][1]
         /\ todo[t][1] \in Access /\ OrderedAt(todo[t], 1)
         /\ Len(todo'[t]) = Len(todo[t]) - 1
         /\ \A i \in 1..Len(todo[t]) - 1 : todo'[t][i] = todo[t][i + 1]
<1>1. todo[t] \in AccessList /\ todo[t] # <<>> /\ Ordered(todo[t])
  BY DEF ListInv, Next1
<1>2. Tail(todo[t]) \in AccessList /\ Ordered(Tail(todo[t]))
  BY <1>1, OrderedTail
<1>3. todo' = [todo EXCEPT ![t] = Tail(todo[t])]
  BY DEF Next1
<1>4. /\ todo' \in [Tasks -> AccessList] /\ todo'[t] = Tail(todo[t])
      /\ \A u \in Tasks \ {t} : todo'[u] = todo[u]
  BY <1>2, <1>3 DEF ListInv
<1>5. ListInv'
  BY <1>2, <1>4 DEF ListInv
<1>6. /\ Len(todo[t]) \in Nat \ {0} /\ Head(todo[t]) = todo[t][1]
      /\ todo[t][1] \in Access /\ Len(Tail(todo[t])) = Len(todo[t]) - 1
      /\ \A i \in 1..Len(todo[t]) - 1 : Tail(todo[t])[i] = todo[t][i + 1]
  BY <1>1 DEF AccessList
<1>7. OrderedAt(todo[t], 1)
  BY <1>1, <1>6 DEF Ordered
<1> QED
  BY <1>4, <1>5, <1>6, <1>7

LEMMA PendingStep ==
  ASSUME ListInv, NEW t \in Tasks, Next1(t), NEW u \in Tasks, Pending(todo[u]),
         u # t \/ Head(todo[t]).op # "check"
  PROVE  Pending(todo'[u])
<1>1. CASE u # t
  BY <1>1, ListStep
<1>2. CASE u = t
  <2>1. Check.op = "check"
    BY Accesses, OpIs
  <2>2. Len(todo[t]) >= 2 /\ todo[t][1].op = "raise" /\ todo[t][2] = Check
    BY <1>2, <2>1, ListStep DEF Pending
  <2>3. Len(todo'[t]) >= 1 /\ todo'[t][1] = Check
    BY <2>2, ListStep
  <2> QED
    BY <1>2, <2>3 DEF Pending
<1> QED
  BY <1>1, <1>2

LEMMA OwesStep ==
  ASSUME ListInv, NEW t \in Tasks, Next1(t), NEW u \in Tasks, Owes(todo[u]),
         u # t \/ ~Settles(todo[t][1])
  PROVE  Owes(todo'[u])
<1>1. CASE u # t
  BY <1>1, ListStep
<1>2. CASE u = t
  <2>1. PICK i \in 1..Len(todo[t]) : Settles(todo[t][i])
    BY <1>2 DEF Owes
  <2>2. i - 1 \in 1..Len(todo'[t]) /\ todo'[t][i - 1] = todo[t][i]
    BY <1>2, <2>1, ListStep
  <2> QED
    BY <1>2, <2>1, <2>2 DEF Owes
<1> QED
  BY <1>1, <1>2

LEMMA TypeStep == TypeOK /\ ListInv /\ [Next]_vars => TypeOK'
<1> SUFFICES ASSUME TypeOK, ListInv, [Next]_vars PROVE TypeOK'
  OBVIOUS
<1>1. ASSUME NEW t \in Tasks, Next1(t)
      PROVE  todo' \in [Tasks -> Seq(Access)]
  BY <1>1, ListStep DEF ListInv, AccessList
<1>2. CASE Corrupt
  BY <1>2 DEF Corrupt, TypeOK
<1>3. ASSUME NEW t \in Tasks, Call(t) PROVE TypeOK'
  <2>1. todo' \in [Tasks -> Seq(Access)]
    BY <1>3, CallFits DEF Call, TypeOK, Fits, AccessList
  <2> QED
    BY <1>3, <2>1 DEF Call, TypeOK
<1>4. ASSUME NEW t \in Tasks, AddFault(t) PROVE TypeOK'
  <2>1. fault' \in Nat /\ count' \in [Tasks -> Nat]
    BY <1>4 DEF AddFault, TypeOK
  <2>2. reached' \in BOOLEAN
    BY <1>4 DEF AddFault, TypeOK
  <2> QED
    BY <1>1, <1>4, <2>1, <2>2 DEF AddFault, Doing, TypeOK
<1>5. ASSUME NEW t \in Tasks, RaiseThreat(t) PROVE TypeOK'
  <2>1. todo[t][1] \in Access /\ todo[t][1].op = "raise" /\ Head(todo[t]) = todo[t][1]
    BY <1>5, ListStep DEF RaiseThreat, Doing
  <2>2. Head(todo[t]).level \in ThreatLevel
    BY <2>1 DEF Access, Op
  <2>3. threat' \in ThreatLevel
    BY <1>5, <2>2 DEF RaiseThreat, TypeOK
  <2> QED
    BY <1>1, <1>5, <2>3 DEF RaiseThreat, Doing, TypeOK
<1>6. ASSUME NEW t \in Tasks, CheckLimit(t) PROVE TypeOK'
  <2>1. halted' \in BOOLEAN
    BY <1>6 DEF CheckLimit
  <2> QED
    BY <1>1, <1>6, <2>1 DEF CheckLimit, Doing, TypeOK
<1>7. ASSUME NEW t \in Tasks, EnterLockdown(t) PROVE TypeOK'
  BY <1>1, <1>7 DEF EnterLockdown, Doing, TypeOK
<1>8. ASSUME NEW t \in Tasks, MendCanary(t) PROVE TypeOK'
  BY <1>1, <1>8 DEF MendCanary, Doing, TypeOK
<1>9. ASSUME NEW t \in Tasks, SetPanic(t) PROVE TypeOK'
  BY <1>1, <1>9 DEF SetPanic, Doing, TypeOK
<1>10. ASSUME NEW t \in Tasks, Halt(t) PROVE TypeOK'
  BY <1>1, <1>10 DEF Halt, Doing, TypeOK
<1>11. ASSUME NEW t \in Tasks, ClearFault(t) PROVE TypeOK'
  BY <1>1, <1>11 DEF ClearFault, Doing, TypeOK
<1>12. ASSUME NEW t \in Tasks, ClearThreat(t) PROVE TypeOK'
  <2>1. threat' = Safe /\ Safe \in ThreatLevel
    <3>1. Safe \in ThreatLevel
      BY DEF Safe, ThreatLevel
    <3>2. threat' = Safe
      BY <1>12 DEF ClearThreat
    <3> QED
      BY <3>1, <3>2
  <2> QED
    BY <1>1, <1>12, <2>1 DEF ClearThreat, Doing, TypeOK
<1>13. ASSUME NEW t \in Tasks, ClearLockdown(t) PROVE TypeOK'
  BY <1>1, <1>13 DEF ClearLockdown, Doing, TypeOK
<1>14. CASE UNCHANGED vars
  BY <1>14 DEF vars, TypeOK
<1> QED
  BY <1>2, <1>3, <1>4, <1>5, <1>6, <1>7, <1>8, <1>9, <1>10, <1>11, <1>12, <1>13,
     <1>14 DEF Next, Step

(* An access of a task, whatever it does to the atomics.                     *)
LEMMA StepIsNext1 == ASSUME NEW t \in Tasks, Step(t) PROVE Next1(t) /\ ~halted
  BY DEF Step, AddFault, RaiseThreat, CheckLimit, EnterLockdown, MendCanary, SetPanic,
         Halt, ClearFault, ClearThreat, ClearLockdown, Doing, Next1

LEMMA ListInvStep == ListInv /\ [Next]_vars => ListInv'
<1> SUFFICES ASSUME ListInv, [Next]_vars PROVE ListInv'
  OBVIOUS
<1>1. ASSUME NEW t \in Tasks, Step(t) PROVE ListInv'
  BY <1>1, StepIsNext1, ListStep
<1>2. ASSUME NEW t \in Tasks, Call(t) PROVE ListInv'
  <2>1. PICK call : Fits(call) /\ todo' = [todo EXCEPT ![t] = call]
    BY <1>2, CallFits DEF Call
  <2> QED
    BY <2>1 DEF ListInv, Fits
<1>3. CASE Corrupt \/ UNCHANGED vars
  BY <1>3 DEF Corrupt, vars, ListInv
<1> QED
  BY <1>1, <1>2, <1>3 DEF Next

LEMMA LimitInvStep == TypeOK /\ ListInv /\ LimitInv /\ [Next]_vars => LimitInv'
<1> SUFFICES ASSUME TypeOK, ListInv, LimitInv, [Next]_vars, reached', ~halted'
             PROVE  \E u \in Tasks : count'[u] >= MaxFaults /\ Pending(todo'[u])
  BY DEF LimitInv
<1>1. ASSUME NEW u \in Tasks, count[u] >= MaxFaults, Pending(todo[u]),
             NEW t \in Tasks, Next1(t), u # t \/ Head(todo[t]).op # "check",
             UNCHANGED count
      PROVE  \E v \in Tasks : count'[v] >= MaxFaults /\ Pending(todo'[v])
  BY <1>1, PendingStep
<1>2. ASSUME NEW t \in Tasks, Next1(t), Head(todo[t]).op # "check", reached,
             UNCHANGED <<count, halted>>
      PROVE  \E u \in Tasks : count'[u] >= MaxFaults /\ Pending(todo'[u])
  <2>1. PICK u \in Tasks : count[u] >= MaxFaults /\ Pending(todo[u])
    BY <1>2 DEF LimitInv, Next1
  <2> QED
    BY <1>1, <1>2, <2>1
<1>3. ASSUME NEW t \in Tasks, AddFault(t)
      PROVE  \E u \in Tasks : count'[u] >= MaxFaults /\ Pending(todo'[u])
  <2>1. Next1(t) /\ todo[t][1].op = "count" /\ todo[t][1] \in Access
    BY <1>3, ListStep DEF AddFault, Doing
  <2>2. todo[t][1] = Do("count")
    BY <2>1, AccessIsDo
  <2>3. /\ 1 + 2 <= Len(todo[t]) /\ todo[t][1 + 1].op = "raise"
        /\ todo[t][1 + 2] = Check
    BY <2>1, <2>2, ListStep DEF OrderedAt
  <2>4. Pending(todo'[t])
    BY <2>1, <2>3, ListStep DEF Pending
  <2>5. CASE fault + 1 >= MaxFaults
    BY <1>3, <2>4, <2>5 DEF AddFault, TypeOK
  <2>6. CASE ~(fault + 1 >= MaxFaults)
    <3>1. PICK u \in Tasks : count[u] >= MaxFaults /\ Pending(todo[u])
      BY <1>3, <2>6 DEF AddFault, LimitInv
    <3>2. Check.op = "check"
      BY Accesses, OpIs
    <3>3. u # t
      BY <2>1, <3>1, <3>2 DEF Pending
    <3>4. Pending(todo'[u])
      BY <2>1, <3>1, <3>3, PendingStep
    <3>5. count'[u] = count[u]
      BY <1>3, <3>3 DEF AddFault, TypeOK
    <3> QED
      BY <3>1, <3>4, <3>5
  <2> QED
    BY <2>5, <2>6
<1>4. ASSUME NEW t \in Tasks, CheckLimit(t)
      PROVE  \E u \in Tasks : count'[u] >= MaxFaults /\ Pending(todo'[u])
  <2>1. PICK u \in Tasks : count[u] >= MaxFaults /\ Pending(todo[u])
    BY <1>4 DEF CheckLimit, Doing, Next1, LimitInv
  <2>2. u # t
    BY <1>4, <2>1 DEF CheckLimit
  <2> QED
    BY <1>1, <1>4, <2>1, <2>2 DEF CheckLimit, Doing
<1>5. ASSUME NEW t \in Tasks, Step(t)
      PROVE  \E u \in Tasks : count'[u] >= MaxFaults /\ Pending(todo'[u])
  <2>1. CASE AddFault(t)
    BY <1>3, <2>1
  <2>2. CASE CheckLimit(t)
    BY <1>4, <2>2
  <2>3. CASE Halt(t)
    BY <2>3 DEF Halt
  <2>4. CASE RaiseThreat(t)
    BY <1>2, <2>4 DEF RaiseThreat, Doing
  <2>5. CASE EnterLockdown(t)
    BY <1>2, <2>5 DEF EnterLockdown, Doing
  <2>6. CASE MendCanary(t)
    BY <1>2, <2>6 DEF MendCanary, Doing
  <2>7. CASE SetPanic(t)
    BY <1>2, <2>7 DEF SetPanic, Doing
  <2>8. CASE ClearFault(t)
    BY <1>2, <2>8 DEF ClearFault, Doing
  <2>9. CASE ClearThreat(t)
    BY <1>2, <2>9 DEF ClearThreat, Doing
  <2>10. CASE ClearLockdown(t)
    BY <1>2, <2>10 DEF ClearLockdown, Doing
  <2> QED
    BY <1>5, <2>1, <2>2, <2>3, <2>4, <2>5, <2>6, <2>7, <2>8, <2>9, <2>10 DEF Step
<1>6. ASSUME NEW t \in Tasks, Call(t)
      PROVE  \E u \in Tasks : count'[u] >= MaxFaults /\ Pending(todo'[u])
  <2>1. PICK u \in Tasks : count[u] >= MaxFaults /\ Pending(todo[u])
    BY <1>6 DEF Call, LimitInv
  <2>2. u # t
    BY <1>6, <2>1 DEF Call, Pending
  <2>3. todo'[u] = todo[u] /\ count' = count
    BY <1>6, <2>2 DEF Call, TypeOK
  <2> QED
    BY <2>1, <2>3
<1>7. CASE Corrupt \/ UNCHANGED vars
  BY <1>7 DEF Corrupt, vars, LimitInv
<1> QED
  BY <1>5, <1>6, <1>7 DEF Next

LEMMA LockInvStep == TypeOK /\ ListInv /\ LockInv /\ [Next]_vars => LockInv'
<1> SUFFICES ASSUME TypeOK, ListInv, LockInv, [Next]_vars, lockdown', threat' # Omega
             PROVE  \E u \in Tasks : Owes(todo'[u])
  BY DEF LockInv
<1>1. ASSUME NEW t \in Tasks, Next1(t), ~Settles(todo[t][1]), lockdown, threat # Omega
      PROVE  \E u \in Tasks : Owes(todo'[u])
  BY <1>1, OwesStep DEF LockInv
<1>2. ASSUME NEW op \in Op \ {"clear lock"} PROVE ~Settles(Do(op))
  <2>1. Do(op).op = op /\ Do("clear lock").op = "clear lock" /\ Raise(Omega).op = "raise"
    BY Accesses, OpIs
  <2>2. op # "raise"
    BY DEF Op
  <2>3. Do(op) # Do("clear lock") /\ Do(op) # Raise(Omega)
    BY <2>1, <2>2
  <2> QED
    BY <2>3 DEF Settles
<1>3. ASSUME NEW t \in Tasks, NEW op \in Op \ {"clear lock"}, Doing(t, op),
             lockdown, threat # Omega
      PROVE  \E u \in Tasks : Owes(todo'[u])
  <2>1. todo[t][1] \in Access /\ todo[t][1].op = op
    BY <1>3, ListStep DEF Doing
  <2>2. op # "raise"
    BY DEF Op
  <2>3. todo[t][1] = Do(op)
    BY <2>1, <2>2, AccessIsDo
  <2> QED
    BY <1>1, <1>2, <1>3, <2>3 DEF Doing
<1>4. ASSUME NEW t \in Tasks, RaiseThreat(t)
      PROVE  \E u \in Tasks : Owes(todo'[u])
  <2>1. /\ Next1(t) /\ todo[t][1] \in Access /\ todo[t][1].op = "raise"
        /\ Head(todo[t]) = todo[t][1]
    BY <1>4, ListStep DEF RaiseThreat, Doing
  <2> DEFINE level == todo[t][1].level
  <2>2. level \in ThreatLevel /\ todo[t][1] = Raise(level)
    BY <2>1 DEF Access, Op, Raise
  <2>3. threat' = IF level > threat THEN level ELSE threat
    BY <1>4, <2>1 DEF RaiseThreat
  <2>4. threat # Omega /\ level # Omega
    BY <2>2, <2>3 DEF Omega, ThreatLevel, TypeOK
  <2>5. ~Settles(todo[t][1])
    <3>1. todo[t][1] # Raise(Omega)
      BY <2>4, RaiseAccess, Accesses
    <3>2. todo[t][1] # Do("clear lock")
      BY <2>1, Accesses, OpIs
    <3> QED
      BY <3>1, <3>2 DEF Settles
  <2> QED
    BY <1>1, <1>4, <2>1, <2>4, <2>5 DEF RaiseThreat
<1>5. ASSUME NEW t \in Tasks, NEW op \in Op, Doing(t, op), NEW x, Settles(x),
             todo[t][1] = Do(op) => \E j \in 1 + 1 .. Len(todo[t]) : todo[t][j] = x
      PROVE  Owes(todo'[t])
  <2>1. todo[t][1] \in Access /\ todo[t][1].op = op /\ op # "raise"
    BY <1>5, ListStep DEF Doing, Op
  <2>2. PICK j \in 1 + 1 .. Len(todo[t]) : todo[t][j] = x
    BY <1>5, <2>1, AccessIsDo
  <2>3. j - 1 \in 1..Len(todo'[t]) /\ todo'[t][j - 1] = x
    BY <1>5, <2>2, ListStep DEF Doing
  <2> QED
    BY <1>5, <2>3 DEF Owes
<1>6. ASSUME NEW t \in Tasks, EnterLockdown(t)
      PROVE  \E u \in Tasks : Owes(todo'[u])
  <2>1. Doing(t, "lock") /\ Settles(Raise(Omega))
    BY <1>6 DEF EnterLockdown, Settles
  <2>2. todo[t][1] = Do("lock") =>
           \E j \in 1 + 1 .. Len(todo[t]) : todo[t][j] = Raise(Omega)
    BY <2>1, ListStep DEF Doing, OrderedAt
  <2> QED
    BY <1>5, <2>1, <2>2, OpIs
<1>7. ASSUME NEW t \in Tasks, ClearThreat(t)
      PROVE  \E u \in Tasks : Owes(todo'[u])
  <2>1. Doing(t, "clear threat") /\ Settles(Do("clear lock"))
    BY <1>7 DEF ClearThreat, Settles
  <2>2. todo[t][1] = Do("clear threat") =>
           \E j \in 1 + 1 .. Len(todo[t]) : todo[t][j] = Do("clear lock")
    BY <2>1, ListStep DEF Doing, OrderedAt
  <2> QED
    BY <1>5, <2>1, <2>2, OpIs
<1>8. ASSUME NEW t \in Tasks, Step(t) PROVE \E u \in Tasks : Owes(todo'[u])
  <2>1. CASE AddFault(t)
    BY <1>3, <2>1, OpIs DEF AddFault
  <2>2. CASE CheckLimit(t)
    BY <1>3, <2>2, OpIs DEF CheckLimit
  <2>3. CASE MendCanary(t)
    BY <1>3, <2>3, OpIs DEF MendCanary
  <2>4. CASE SetPanic(t)
    BY <1>3, <2>4, OpIs DEF SetPanic
  <2>5. CASE Halt(t)
    BY <1>3, <2>5, OpIs DEF Halt
  <2>6. CASE ClearFault(t)
    BY <1>3, <2>6, OpIs DEF ClearFault
  <2>7. CASE ClearLockdown(t)
    BY <2>7 DEF ClearLockdown
  <2> QED
    BY <1>4, <1>6, <1>7, <1>8, <2>1, <2>2, <2>3, <2>4, <2>5, <2>6, <2>7 DEF Step
<1>9. ASSUME NEW t \in Tasks, Call(t) PROVE \E u \in Tasks : Owes(todo'[u])
  <2>1. PICK u \in Tasks : Owes(todo[u])
    BY <1>9 DEF Call, LockInv
  <2>2. u # t
    BY <1>9, <2>1 DEF Call, Owes
  <2>3. todo'[u] = todo[u]
    BY <1>9, <2>2 DEF Call, TypeOK
  <2> QED
    BY <2>1, <2>3
<1>10. CASE Corrupt \/ UNCHANGED vars
  BY <1>10 DEF Corrupt, vars, LockInv
<1> QED
  BY <1>8, <1>9, <1>10 DEF Next

-----------------------------------------------------------------------------
(* A task about to count a fault is not pending.                             *)
LEMMA CountingIsNotPending ==
  ASSUME ListInv, NEW t \in Tasks, Doing(t, "count")
  PROVE  ~Pending(todo[t]) /\ Pending(todo'[t])
<1>1. Next1(t) /\ todo[t][1].op = "count" /\ todo[t][1] \in Access
  BY ListStep DEF Doing
<1>2. todo[t][1] = Do("count")
  BY <1>1, AccessIsDo
<1>3. 1 + 2 <= Len(todo[t]) /\ todo[t][1 + 1].op = "raise" /\ todo[t][1 + 2] = Check
  BY <1>1, <1>2, ListStep DEF OrderedAt
<1>4. Pending(todo'[t])
  BY <1>1, <1>3, ListStep DEF Pending
<1>5. Check.op = "check"
  BY Accesses, OpIs
<1> QED
  BY <1>1, <1>4, <1>5 DEF Pending

LEMMA OverPendingStep ==
  TypeOK /\ ListInv /\ OverPending /\ [Next]_vars => OverPending'
<1> SUFFICES ASSUME TypeOK, ListInv, OverPending, [Next]_vars, ~halted',
                    NEW u \in Tasks, count'[u] >= MaxFaults
             PROVE  Pending(todo'[u])
  BY DEF OverPending
<1>1. ASSUME NEW t \in Tasks, Next1(t), u # t \/ Head(todo[t]).op # "check",
             count'[u] = count[u]
      PROVE  Pending(todo'[u])
  BY <1>1, PendingStep DEF OverPending, Next1
<1>2. ASSUME NEW t \in Tasks, AddFault(t) PROVE Pending(todo'[u])
  <2>1. CASE u = t
    BY <1>2, <2>1, CountingIsNotPending DEF AddFault
  <2>2. CASE u # t
    <3>1. count'[u] = count[u]
      BY <1>2, <2>2 DEF AddFault, TypeOK
    <3> QED
      BY <1>1, <1>2, <2>2, <3>1 DEF AddFault, Doing
  <2> QED
    BY <2>1, <2>2
<1>3. ASSUME NEW t \in Tasks, CheckLimit(t) PROVE Pending(todo'[u])
  <2>1. u # t
    BY <1>3 DEF CheckLimit
  <2> QED
    BY <1>1, <1>3, <2>1 DEF CheckLimit, Doing
<1>4. ASSUME NEW t \in Tasks, NEW op \in Op \cup {"raise"}, op # "check",
             Doing(t, op), UNCHANGED count
      PROVE  Pending(todo'[u])
  BY <1>1, <1>4 DEF Doing
<1>5. ASSUME NEW t \in Tasks, Step(t) PROVE Pending(todo'[u])
  <2>1. CASE RaiseThreat(t)
    BY <1>4, <2>1 DEF RaiseThreat
  <2>2. CASE EnterLockdown(t)
    BY <1>4, <2>2, OpIs DEF EnterLockdown
  <2>3. CASE MendCanary(t)
    BY <1>4, <2>3, OpIs DEF MendCanary
  <2>4. CASE SetPanic(t)
    BY <1>4, <2>4, OpIs DEF SetPanic
  <2>5. CASE Halt(t)
    BY <2>5 DEF Halt
  <2>6. CASE ClearFault(t)
    BY <1>4, <2>6, OpIs DEF ClearFault
  <2>7. CASE ClearThreat(t)
    BY <1>4, <2>7, OpIs DEF ClearThreat
  <2>8. CASE ClearLockdown(t)
    BY <1>4, <2>8, OpIs DEF ClearLockdown
  <2> QED
    BY <1>2, <1>3, <1>5, <2>1, <2>2, <2>3, <2>4, <2>5, <2>6, <2>7, <2>8 DEF Step
<1>6. ASSUME NEW t \in Tasks, Call(t) PROVE Pending(todo'[u])
  <2>1. Pending(todo[u])
    BY <1>6 DEF Call, OverPending
  <2>2. u # t
    BY <1>6, <2>1 DEF Call, Pending
  <2>3. todo'[u] = todo[u]
    BY <1>6, <2>2 DEF Call, TypeOK
  <2> QED
    BY <2>1, <2>3
<1>7. CASE Corrupt \/ UNCHANGED vars
  BY <1>7 DEF Corrupt, vars, OverPending
<1> QED
  BY <1>5, <1>6, <1>7 DEF Next

LEMMA CountInvStep ==
  TypeOK /\ ListInv /\ OverPending /\ CountInv /\ [Next]_vars => CountInv'
<1> SUFFICES ASSUME TypeOK, ListInv, OverPending, CountInv, [Next]_vars
             PROVE  CountInv'
  OBVIOUS
<1>1. ASSUME NEW t \in Tasks, AddFault(t) PROVE CountInv'
  <2> SUFFICES ASSUME fault' >= MaxFaults
               PROVE  \E S \in SUBSET Tasks : Past(S, fault)'
    BY DEF CountInv
  <2>1. /\ fault' = fault + 1 /\ fault \in Nat /\ MaxFaults \in Nat
        /\ count'[t] = fault + 1
        /\ \A u \in Tasks \ {t} : count'[u] = count[u]
    BY <1>1, LimitAssumption DEF AddFault, TypeOK
  <2>2. ~(count[t] >= MaxFaults)
    <3>1. Doing(t, "count") /\ ~halted
      BY <1>1 DEF AddFault, Doing, Next1
    <3> QED
      BY <3>1, CountingIsNotPending DEF OverPending
  <2>3. CASE fault + 1 = MaxFaults
    <3>1. Cardinality({t}) = 1
      BY FS_Singleton
    <3>2. Cardinality({t}) = fault' - MaxFaults + 1
      BY <2>1, <2>3, <3>1
    <3>3. Past({t}, fault)'
      BY <2>1, <2>3, <3>2 DEF Past
    <3> QED
      BY <3>3
  <2>4. CASE fault >= MaxFaults
    <3>1. PICK S \in SUBSET Tasks : Past(S, fault)
      BY <2>4 DEF CountInv
    <3>2. IsFiniteSet(S)
      BY TaskAssumption, FS_Subset
    <3>3. t \notin S
      BY <2>2, <3>1 DEF Past
    <3>4. Cardinality(S \cup {t}) = Cardinality(S) + 1
      BY <3>2, <3>3, FS_AddElement
    <3>5. Cardinality(S \cup {t}) = fault' - MaxFaults + 1
      BY <2>1, <3>1, <3>4 DEF Past
    <3>6. \A u \in S \cup {t} : count'[u] >= MaxFaults
      BY <2>1, <2>4, <3>1, <3>3 DEF Past
    <3>7. Past(S \cup {t}, fault)'
      BY <3>5, <3>6 DEF Past
    <3> QED
      BY <3>7
  <2> QED
    BY <2>1, <2>3, <2>4
<1>2. ASSUME NEW t \in Tasks, ClearFault(t) PROVE CountInv'
  <2>1. fault' = 0
    BY <1>2 DEF ClearFault
  <2>2. ~(fault' >= MaxFaults)
    BY <2>1, LimitAssumption
  <2> QED
    BY <2>2 DEF CountInv
<1>3. CASE UNCHANGED <<fault, count>>
  BY <1>3 DEF CountInv, Past
<1>4. ASSUME NEW t \in Tasks, Step(t) PROVE CountInv'
  BY <1>1, <1>2, <1>3, <1>4 DEF Step, RaiseThreat, CheckLimit, EnterLockdown,
     MendCanary, SetPanic, Halt, ClearThreat, ClearLockdown
<1>5. ASSUME NEW t \in Tasks, Call(t) PROVE CountInv'
  BY <1>3, <1>5 DEF Call
<1>6. CASE Corrupt \/ UNCHANGED vars
  BY <1>3, <1>6 DEF Corrupt, vars
<1> QED
  BY <1>4, <1>5, <1>6 DEF Next

-----------------------------------------------------------------------------
(* The invariant, for every set of callers and every limit.                  *)
THEOREM SecurityInvariant == Spec => []SecurityInv
<1>1. SecurityInv /\ [Next]_vars => SecurityInv'
  BY TypeStep, ListInvStep, LimitInvStep, LockInvStep, OverPendingStep, CountInvStep
     DEF SecurityInv
<1> QED
  BY SecurityInvInit, <1>1, PTL DEF Spec

(* The atomics, the counts and the pending accesses keep their types.        *)
THEOREM TypeCorrect == Spec => []TypeOK
  BY SecurityInvariant, PTL DEF SecurityInv

(* The call that reached the fault limit halts the machine or is about to.   *)
THEOREM LimitCorrect == Spec => []LimitHalts
<1>1. SecurityInv => LimitHalts
  <2> SUFFICES ASSUME SecurityInv, reached, ~halted
               PROVE  \E t \in Tasks : count[t] >= MaxFaults /\ Contains(todo[t], Check)
    BY DEF LimitHalts, Check
  <2>1. PICK t \in Tasks : count[t] >= MaxFaults /\ Pending(todo[t])
    BY DEF SecurityInv, LimitInv
  <2>2. Len(todo[t]) \in Nat
    BY DEF SecurityInv, ListInv, AccessList
  <2>3. Contains(todo[t], Check)
    BY <2>1, <2>2 DEF Pending, Contains
  <2> QED
    BY <2>1, <2>3
<1> QED
  BY <1>1, SecurityInvariant, PTL

(* A lockdown that is in force when the engine is at rest is at level Omega. *)
THEOREM LockdownCorrect == Spec => []LockdownIsOmega
<1>1. SecurityInv => LockdownIsOmega
  BY DEF SecurityInv, LockInv, LockdownIsOmega, Idle, Owes
<1> QED
  BY <1>1, SecurityInvariant, PTL

(* Past the limit every further fault is one of another call's: faults stop  *)
(* counting once the callers are on their way to the halt.                   *)
THEOREM CountCorrect == Spec => []CountStops
<1>1. SecurityInv => CountStops
  <2> SUFFICES ASSUME SecurityInv, fault >= MaxFaults + 1 PROVE CountStops
    BY DEF CountStops
  <2>1. fault >= MaxFaults
    BY LimitAssumption DEF SecurityInv, TypeOK
  <2> QED
    BY <2>1 DEF SecurityInv, CountInv, Past, CountStops
<1> QED
  BY <1>1, SecurityInvariant, PTL
=============================================================================
