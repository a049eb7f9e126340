---------------------------- MODULE SchedulesProofs ----------------------------
(***************************************************************************)
(* Proofs about Schedules, for any users, slots, names, times and ids, and *)
(* about ScheduleCalendar, for any days and any numbers of schedules and   *)
(* requests.  The two share no variable.                                   *)
(*                                                                         *)
(* What findMatchingSchedule chooses is proved for lists of any length, by *)
(* induction; LeastExists stands for the rule of induction.                *)
(***************************************************************************)
EXTENDS Schedules, ScheduleCalendar, FiniteSetTheorems, WellFoundedInduction, TLAPS

\* The steps that write no row and delete no room.
Reads ==
    \/ \E j \in Plain, u \in Hosts :
        \/ \E n \in Names, t \in Times : CreateSchedule(j, u, n, t)
        \/ \E i \in ScheduleIds :
            \/ \E e \in Edits : UpdateSchedule(j, u, i, e[1], e[2])
            \/ DeleteSchedule(j, u, i)
    \/ \E j \in Plain : AssertExists(j)
    \/ \E j \in Commands :
        \/ \E u \in Hosts : AskClaude(j, u)
        \/ ReadSchedules(j)
        \/ \E n \in Names, t \in Times \cup {NoDate} :
            \/ ClaudeAdds(j, n, t)
            \/ \E new \in Times : ClaudeChanges(j, n, t, new)
            \/ ClaudeCancels(j, n, t)
        \/ ClaudeFails(j)

LEMMA ReadsChangeNoRow == ASSUME Reads PROVE UNCHANGED <<host, rows>>
<1>1. ASSUME NEW j \in Plain, NEW u \in Hosts, NEW n, NEW t, CreateSchedule(j, u, n, t)
      PROVE  UNCHANGED <<host, rows>>
  BY <1>1 DEF CreateSchedule
<1>2. ASSUME NEW j \in Plain, NEW u \in Hosts, NEW i, NEW n, NEW t, UpdateSchedule(j, u, i, n, t)
      PROVE  UNCHANGED <<host, rows>>
  BY <1>2 DEF UpdateSchedule
<1>3. ASSUME NEW j \in Plain, NEW u \in Hosts, NEW i, DeleteSchedule(j, u, i)
      PROVE  UNCHANGED <<host, rows>>
  BY <1>3 DEF DeleteSchedule
<1>4. ASSUME NEW j, AssertExists(j) \/ ReadSchedules(j) \/ ClaudeFails(j)
      PROVE  UNCHANGED <<host, rows>>
  BY <1>4 DEF AssertExists, ReadSchedules, ClaudeFails
<1>5. ASSUME NEW j, NEW u, AskClaude(j, u) PROVE UNCHANGED <<host, rows>>
  BY <1>5 DEF AskClaude
<1>6. ASSUME NEW j, NEW n, NEW t, ClaudeAdds(j, n, t) \/ ClaudeCancels(j, n, t)
      PROVE  UNCHANGED <<host, rows>>
  BY <1>6 DEF ClaudeAdds, ClaudeCancels, Aim
<1>7. ASSUME NEW j, NEW n, NEW t, NEW new, ClaudeChanges(j, n, t, new)
      PROVE  UNCHANGED <<host, rows>>
  BY <1>7 DEF ClaudeChanges, Aim
<1> QED
  BY <1>1, <1>2, <1>3, <1>4, <1>5, <1>6, <1>7 DEF Reads

\* Whatever a handler writes, it writes nothing when the room is gone: an insert is
\* refused, and an update or delete finds no row.
LEMMA WritesNeedRoom ==
    ASSUME NoScheduleWithoutRoom, host = Nobody,
           \E j \in Slots : (\E i \in ScheduleIds : WriteCreate(j, i)) \/ WriteRow(j)
    PROVE  UNCHANGED <<host, rows>>
<1>1. Listed = {}
  BY DEF NoScheduleWithoutRoom
<1>2. ASSUME NEW j \in Slots, NEW i \in ScheduleIds, WriteCreate(j, i)
      PROVE  UNCHANGED <<host, rows>>
  BY <1>2 DEF WriteCreate
<1>3. ASSUME NEW j \in Slots, WriteRow(j) PROVE UNCHANGED <<host, rows>>
  BY <1>1, <1>3 DEF WriteRow
<1> QED
  BY <1>2, <1>3

\* A room that is deleted takes its schedules with it, and no handler that was under
\* way, an AI command that waits for Claude included, brings one back.
THEOREM SchedulesGoWithRoom == SchedSpec => []NoScheduleWithoutRoom
<1>1. SchedInit => NoScheduleWithoutRoom
  BY DEF SchedInit, NoScheduleWithoutRoom, Listed
<1>2. ASSUME NoScheduleWithoutRoom, [SchedNext]_schedVars PROVE NoScheduleWithoutRoom'
  <2> USE <1>2
  <2>1. CASE UNCHANGED <<host, rows>>
    BY <2>1 DEF NoScheduleWithoutRoom, Listed
  <2>2. CASE host # Nobody /\ host' = host
    BY <2>2 DEF NoScheduleWithoutRoom
  <2>3. ASSUME NEW u \in Hosts, TransferRoom(u) PROVE NoScheduleWithoutRoom'
    BY <2>3, ScheduleAssumption DEF TransferRoom, NoScheduleWithoutRoom
  <2>4. CASE RemoveRoom
    BY <2>4 DEF RemoveRoom, NoScheduleWithoutRoom, Listed
  <2>5. CASE Reads
    BY <2>1, <2>5, ReadsChangeNoRow
  <2>6. CASE \E j \in Slots : (\E i \in ScheduleIds : WriteCreate(j, i)) \/ WriteRow(j)
    <3>1. host' = host
      BY <2>6 DEF WriteCreate, WriteRow
    <3>2. CASE host = Nobody
      BY <2>1, <2>6, <3>2, WritesNeedRoom
    <3> QED
      BY <2>2, <3>1, <3>2
  <2>7. CASE UNCHANGED schedVars
    BY <2>1, <2>7 DEF schedVars
  <2>8. SchedNext \/ UNCHANGED schedVars
    OBVIOUS
  <2> QED
    BY <2>3, <2>4, <2>5, <2>6, <2>7, <2>8 DEF SchedNext, Reads
<1> QED
  BY <1>1, <1>2, PTL DEF SchedSpec

-----------------------------------------------------------------------------
(* Induction over the natural numbers, by the least counterexample.        *)

\* Less than, on the natural numbers, as a relation.
LEMMA LessIsWellFounded ==
    \E R : IsWellFoundedOn(R, Nat) /\ \A k, m \in Nat : k < m => <<k, m>> \in R
<1>1. IsWellFoundedOn(OpToRel(<, Nat), Nat)
  BY NatLessThanWellFounded
<1>2. ASSUME NEW k \in Nat, NEW m \in Nat, k < m PROVE <<k, m>> \in OpToRel(<, Nat)
  BY <1>2 DEF OpToRel
<1> QED
  BY <1>1, <1>2

LEMMA LeastExists ==
    ASSUME NEW S, S \subseteq Nat, S # {}
    PROVE  \E m \in S : \A k \in S : m <= k
<1>1. PICK R : IsWellFoundedOn(R, Nat) /\ \A k, m \in Nat : k < m => <<k, m>> \in R
  BY LessIsWellFounded
<1>2. \E m \in S : \A k \in S : ~(<<k, m>> \in R)
  <2>1. IsWellFoundedOn(R, Nat)
    BY <1>1
  <2> HIDE <1>1
  <2>2. ASSUME NEW Q, NEW A, IsWellFoundedOn(Q, A), NEW T, T \subseteq A, T # {}
        PROVE  \E x \in T : \A y \in T : ~(<<y, x>> \in Q)
    BY <2>2, WFMin, Zenon
  <2> QED
    BY <2>1, <2>2, Zenon
<1>3. PICK m \in S : \A k \in S : ~(<<k, m>> \in R)
  BY <1>2
<1>4. ASSUME NEW k \in S PROVE m <= k
  <2>1. m \in Nat /\ k \in Nat
    OBVIOUS
  <2>2. ~(k < m)
    BY <1>1, <1>3, <2>1
  <2> QED
    BY <2>1, <2>2
<1> QED
  BY <1>4

\* What zero has, and each number has whose predecessor has it, every number has.
LEMMA SetInduction ==
    ASSUME NEW n \in Nat, NEW H, 0 \in H, \A k \in 0..n : k \in H /\ k # n => k + 1 \in H
    PROVE  \A k \in 0..n : k \in H
<1> DEFINE C == {k \in 0..n : k \notin H}
<1>1. SUFFICES ASSUME C # {} PROVE FALSE
  OBVIOUS
<1>2. PICK m \in C : \A k \in C : m <= k
  <2>1. C \subseteq Nat
    OBVIOUS
  <2> HIDE DEF C
  <2> QED
    BY <1>1, <2>1, LeastExists
<1>3. m \in 0..n /\ m # 0 /\ m \notin H
  OBVIOUS
<1>4. m - 1 \in 0..n /\ m - 1 # n /\ ~(m <= m - 1) /\ m - 1 + 1 = m
  BY <1>3
<1>5. m - 1 \in H
  BY <1>2, <1>4
<1> QED
  BY <1>3, <1>4, <1>5

-----------------------------------------------------------------------------
(* Schedules: what findMatchingSchedule chooses.                           *)

\* What one step of reduce makes of the position that is the best so far.
Better(s, K, t, k, b) == IF k \in K /\ (b = 0 \/ Nearer(t, s[k], s[b])) THEN k ELSE b

\* f holds the best of the first k positions, for each k up to n.
Reduces(f, s, K, t, n) ==
    f = [k \in 0..n |-> IF k = 0 THEN 0 ELSE Better(s, K, t, k, f[k - 1])]

\* The recursion of Closest is well founded: there is a function that it defines.
LEMMA BestExists ==
    ASSUME NEW s, NEW K, NEW t, NEW n \in Nat
    PROVE  \E f : Reduces(f, s, K, t, n)
<1> DEFINE H == {m \in 0..n : \E f : Reduces(f, s, K, t, m)}
<1>1. 0 \in H
  <2> DEFINE f == [k \in 0..0 |-> 0]
  <2>1. Reduces(f, s, K, t, 0)
    BY DEF Reduces
  <2> HIDE DEF f
  <2> QED
    BY <2>1
<1>2. ASSUME NEW m \in 0..n, m \in H, m # n PROVE m + 1 \in H
  <2>1. PICK f : Reduces(f, s, K, t, m)
    BY <1>2
  <2> DEFINE g == [k \in 0..(m + 1) |-> IF k = m + 1 THEN Better(s, K, t, k, f[m]) ELSE f[k]]
  <2>2. ASSUME NEW k \in 0..(m + 1)
        PROVE  g[k] = IF k = 0 THEN 0 ELSE Better(s, K, t, k, g[k - 1])
    <3>1. CASE k = m + 1
      <4>1. k # 0 /\ k - 1 = m /\ m \in 0..(m + 1) /\ m # m + 1
        BY <3>1
      <4>2. g[k - 1] = f[m]
        BY <4>1
      <4> QED
        BY <3>1, <4>1, <4>2
    <3>2. CASE k # m + 1
      <4>1. k \in 0..m /\ g[k] = f[k]
        BY <3>2
      <4>2. k # 0 => k - 1 \in 0..(m + 1) /\ k - 1 # m + 1
        BY <4>1
      <4>3. k # 0 => g[k - 1] = f[k - 1]
        BY <4>2
      <4> QED
        BY <2>1, <4>1, <4>3 DEF Reduces
    <3> QED
      BY <3>1, <3>2
  <2>3. Reduces(g, s, K, t, m + 1)
    BY <2>2 DEF Reduces
  <2>4. m + 1 \in 0..n
    BY <1>2
  <2> HIDE DEF g
  <2> QED
    BY <2>3, <2>4
<1>3. n \in H
  <2>1. n \in 0..n
    OBVIOUS
  <2> HIDE DEF H
  <2> QED
    BY <1>1, <1>2, <2>1, SetInduction
<1> QED
  BY <1>3

LEMMA ClosestReduces ==
    ASSUME NEW s, NEW K, NEW t, Len(s) \in Nat
    PROVE  \E f : Reduces(f, s, K, t, Len(s)) /\ Closest(s, K, t) = f[Len(s)]
<1>1. \E f : Reduces(f, s, K, t, Len(s))
  BY BestExists
<1>2. Reduces(CHOOSE f : Reduces(f, s, K, t, Len(s)), s, K, t, Len(s))
  BY <1>1
<1>3. Closest(s, K, t) = (CHOOSE f : Reduces(f, s, K, t, Len(s)))[Len(s)]
  BY DEF Closest, Better, Reduces
<1> QED
  BY <1>2, <1>3

\* Schedule k of the list is nearer than schedule i, or as near and before it.
Precedes(s, t, k, i) ==
    IF t = NoDate THEN k <= i
    ELSE LET d == Distance(s[k].time, t)
             e == Distance(s[i].time, t)
         IN  d < e \/ (d = e /\ k <= i)

\* b is what reduce has to choose of the positions of K up to m.
Chosen(s, K, t, m, b) ==
    \/ b = 0 /\ \A i \in K : ~(i <= m)
    \/ b \in K /\ b <= m /\ \A i \in K : i <= m => Precedes(s, t, b, i)

LEMMA DistanceIs == \A x, y \in Nat : Distance(x, y) \in Nat
BY DEF Distance

LEMMA PrecedesIs ==
    ASSUME NEW s, NEW n \in Nat, \A k \in 1..n : s[k].time \in Nat,
           NEW t \in Nat \cup {NoDate}
    PROVE  /\ \A k \in 1..n : Precedes(s, t, k, k)
           /\ \A i, k \in 1..n : Precedes(s, t, i, k) /\ Precedes(s, t, k, i) => i = k
           /\ \A i, k \in 1..n : i <= k => Nearer(t, s[k], s[i]) \/ Precedes(s, t, i, k)
           /\ \A i, j, k \in 1..n :
                Nearer(t, s[k], s[j]) /\ Precedes(s, t, j, i) => Precedes(s, t, k, i)
<1>1. ASSUME NEW k \in 1..n PROVE t # NoDate => Distance(s[k].time, t) \in Nat
  BY DistanceIs
<1> QED
  BY <1>1 DEF Precedes, Nearer

\* One step of reduce.
LEMMA BetterIsChosen ==
    ASSUME NEW s, NEW n \in Nat, \A k \in 1..n : s[k].time \in Nat,
           NEW t \in Nat \cup {NoDate}, NEW K \in SUBSET (1..n), NEW m \in 0..(n - 1),
           NEW b, Chosen(s, K, t, m, b)
    PROVE  Chosen(s, K, t, m + 1, Better(s, K, t, m + 1, b))
<1>1. m + 1 \in 1..n /\ \A i \in K : i \in 1..n /\ (i <= m + 1 <=> i <= m \/ i = m + 1)
  OBVIOUS
<1>2. CASE m + 1 \in K /\ (b = 0 \/ Nearer(t, s[m + 1], s[b]))
  <2>1. Better(s, K, t, m + 1, b) = m + 1
    BY <1>2 DEF Better
  <2>2. ASSUME NEW i \in K, i <= m + 1 PROVE Precedes(s, t, m + 1, i)
    <3>1. CASE i = m + 1
      BY <1>1, <3>1, PrecedesIs
    <3>2. CASE i <= m
      <4>1. b \in K /\ Precedes(s, t, b, i) /\ b # 0
        BY <1>1, <3>2 DEF Chosen
      <4>2. Nearer(t, s[m + 1], s[b])
        BY <1>2, <4>1
      <4> QED
        BY <1>1, <4>1, <4>2, PrecedesIs
    <3> QED
      BY <1>1, <2>2, <3>1, <3>2
  <2> QED
    BY <1>1, <1>2, <2>1, <2>2 DEF Chosen
<1>3. CASE ~(m + 1 \in K /\ (b = 0 \/ Nearer(t, s[m + 1], s[b])))
  <2>1. Better(s, K, t, m + 1, b) = b
    BY <1>3 DEF Better
  <2>2. CASE m + 1 \notin K
    <3>1. \A i \in K : i <= m + 1 <=> i <= m
      BY <1>1, <2>2
    <3>2. b \in K /\ b <= m => b <= m + 1
      BY <1>1
    <3> QED
      BY <2>1, <3>1, <3>2 DEF Chosen
  <2>3. CASE m + 1 \in K
    <3>1. b # 0 /\ ~Nearer(t, s[m + 1], s[b])
      BY <1>3, <2>3
    <3>2. b \in K /\ b <= m /\ \A i \in K : i <= m => Precedes(s, t, b, i)
      BY <3>1 DEF Chosen
    <3>3. b \in 1..n /\ b <= m + 1
      BY <1>1, <3>2
    <3>4. Precedes(s, t, b, m + 1)
      BY <1>1, <3>1, <3>3, PrecedesIs
    <3> QED
      BY <1>1, <2>1, <3>2, <3>3, <3>4 DEF Chosen
  <2> QED
    BY <2>2, <2>3
<1> QED
  BY <1>2, <1>3

\* reduce chooses the nearest, and of several the first.
LEMMA ClosestIsChosen ==
    ASSUME NEW s, NEW n \in Nat, n = Len(s), \A k \in 1..n : s[k].time \in Nat,
           NEW t \in Nat \cup {NoDate}, NEW K \in SUBSET (1..n)
    PROVE  Chosen(s, K, t, n, Closest(s, K, t))
<1>1. PICK f : Reduces(f, s, K, t, n) /\ Closest(s, K, t) = f[n]
  BY ClosestReduces
<1> DEFINE H == {m \in 0..n : Chosen(s, K, t, m, f[m])}
<1>2. 0 \in H
  <2>1. f[0] = 0 /\ 0 \in 0..n /\ \A i \in K : ~(i <= 0)
    BY <1>1 DEF Reduces
  <2> QED
    BY <2>1 DEF Chosen
<1>3. ASSUME NEW m \in 0..n, m \in H, m # n PROVE m + 1 \in H
  <2>1. m \in 0..(n - 1) /\ m + 1 \in 0..n /\ m + 1 # 0 /\ m + 1 - 1 = m
    BY <1>3
  <2>2. f[m + 1] = Better(s, K, t, m + 1, f[m])
    BY <1>1, <2>1 DEF Reduces
  <2>3. Chosen(s, K, t, m, f[m])
    BY <1>3
  <2>4. Chosen(s, K, t, m + 1, Better(s, K, t, m + 1, f[m]))
    BY <2>1, <2>3, BetterIsChosen
  <2> QED
    BY <2>1, <2>2, <2>4
<1>4. n \in H
  <2>1. n \in 0..n
    OBVIOUS
  <2> HIDE DEF H
  <2> QED
    BY <1>2, <1>3, <2>1, SetInduction
<1> QED
  BY <1>1, <1>4

\* The positions that findMatchingSchedule looks among, and the one it chooses.
Asked(s, n) == {k \in 1..Len(s) : s[k].name = n}

Among(s, n) == IF Asked(s, n) = {} THEN 1..Len(s) ELSE Asked(s, n)

First(s, n, t) == {k \in Among(s, n) : \A i \in Among(s, n) : Precedes(s, t, k, i)}

LEMMA FindMatchIsFirst ==
    ASSUME NEW s, Len(s) \in Nat, \A k \in 1..Len(s) : s[k].time \in Nat,
           NEW n, NEW t \in Nat \cup {NoDate}
    PROVE  FindMatch(s, n, t) = {s[k] : k \in First(s, n, t)}
<1>1. PICK c \in Nat : c = Len(s)
  OBVIOUS
<1>2. PICK A : A = Among(s, n)
  OBVIOUS
<1>3. A \in SUBSET (1..c) /\ \A k \in A : k # 0 /\ k <= c
  BY <1>1, <1>2 DEF Among, Asked
<1>4. PICK b : b = Closest(s, A, t)
  OBVIOUS
<1>5. Chosen(s, A, t, c, b)
  BY <1>1, <1>3, <1>4, ClosestIsChosen
<1>6. FindMatch(s, n, t) = {s[k] : k \in {b} \ {0}}
  <2>1. A = IF Asked(s, n) # {} THEN Asked(s, n) ELSE 1..Len(s)
    BY <1>2 DEF Among
  <2> QED
    BY <1>4, <2>1 DEF FindMatch, Asked
<1>7. {b} \ {0} = {k \in A : \A i \in A : Precedes(s, t, k, i)}
  <2>1. CASE b = 0
    BY <1>3, <1>5, <2>1 DEF Chosen
  <2>2. CASE b # 0
    <3>1. b \in A /\ \A i \in A : Precedes(s, t, b, i)
      BY <1>3, <1>5, <2>2 DEF Chosen
    <3>2. ASSUME NEW k \in A, Precedes(s, t, k, b) PROVE k = b
      BY <1>1, <1>3, <3>1, <3>2, PrecedesIs
    <3> QED
      BY <2>2, <3>1, <3>2
  <2> QED
    BY <2>1, <2>2
<1> QED
  BY <1>2, <1>6, <1>7 DEF First

\* It chooses from the list.
LEMMA FindMatchIsListed ==
    ASSUME NEW s, Len(s) \in Nat, \A k \in 1..Len(s) : s[k].time \in Nat,
           NEW n, NEW t \in Nat \cup {NoDate}, NEW x \in FindMatch(s, n, t)
    PROVE  \E k \in 1..Len(s) : x = s[k]
<1>1. PICK k \in First(s, n, t) : x = s[k]
  BY FindMatchIsFirst
<1>2. First(s, n, t) \subseteq 1..Len(s)
  BY DEF First, Among, Asked
<1> QED
  BY <1>1, <1>2

-----------------------------------------------------------------------------
(* Schedules: the inductive invariant.                                     *)

Entries == [id : ScheduleIds, name : Names, time : Times]

Records ==
    [at : {"free", "check", "list", "reply", "write"},
     op : {"none", "create", "update", "delete"},
     id : ScheduleIds \cup {0}, name : Names \cup {Keep}, time : Times \cup {Keep},
     was : Rows \cup {Gone}, list : Seq(Entries)]

\* Handler j has read row i as r, and so it is, unless somebody has written it since.
AsRead(j, i, r) == (i \in Listed /\ rows[i] = r) \/ i \in touched[j]

\* What handler j carries, and that it knows the rows as they are.
SlotInv(j) ==
    /\ call[j] \in Records
    /\ call[j].at # "reply" => call[j].list = <<>>
    /\ call[j].at = "check" => call[j].op # "create"
    /\ call[j].at = "write" /\ call[j].op = "create" =>
         call[j].name \in Names /\ call[j].time \in Times
    /\ touched[j] \subseteq Seen(j)
    /\ \A k \in 1..Len(call[j].list) :
         AsRead(j, call[j].list[k].id, Row(call[j].list[k].name, call[j].list[k].time))
    /\ call[j].at = "write" /\ call[j].op # "create" => AsRead(j, call[j].id, call[j].was)

RowsInv ==
    /\ host \in Hosts \cup {Nobody}
    /\ rows \in [ScheduleIds -> Rows \cup {Fresh, Gone}]
    /\ \A i \in ScheduleIds : rows[i] # Fresh => \A k \in 1..i : rows[k] # Fresh

SchedInv ==
    /\ RowsInv
    /\ call \in [Slots -> Records]
    /\ touched \in [Slots -> SUBSET (ScheduleIds \cup {0})]
    /\ \A j \in Slots : SlotInv(j)

-----------------------------------------------------------------------------
(* Schedules: the steps.                                                   *)

LEMMA NumbersIs ==
    /\ MaxMade \in Nat /\ MaxTime \in Nat /\ ScheduleIds \subseteq Nat \ {0} /\ Times \subseteq Nat
    /\ \A t \in Times \cup {NoDate} : t \in Nat \cup {NoDate}
    /\ Fresh \notin Rows /\ Gone \notin Rows /\ Fresh # Gone
BY ScheduleAssumption DEF ScheduleIds, Times, Rows

LEMMA FreeIs ==
    /\ Free \in Records /\ Free.at = "free" /\ Free.list = <<>> /\ Len(Free.list) = 0
BY DEF Free, Call, Records

LEMMA SeenIs == ASSUME NEW j, call[j] \in Records PROVE Seen(j) \subseteq ScheduleIds \cup {0}
<1>1. call[j].list \in Seq(Entries) /\ call[j].id \in ScheduleIds \cup {0}
  BY DEF Records
<1>2. ASSUME NEW k \in 1..Len(call[j].list) PROVE call[j].list[k].id \in ScheduleIds
  <2>1. call[j].list[k] \in Entries
    BY <1>1
  <2> QED
    BY <2>1 DEF Entries
<1> QED
  BY <1>1, <1>2 DEF Seen

\* A step of handler j writes no row.
LEMMA HandlerMoves ==
    ASSUME SchedInv, UNCHANGED <<host, rows>>, NEW j \in Slots, NEW c \in Records,
           call' = [call EXCEPT ![j] = c],
           \A k \in Slots : k # j => touched'[k] = touched[k],
           touched' \in [Slots -> SUBSET (ScheduleIds \cup {0})],
           SlotInv(j)'
    PROVE  SchedInv'
<1>1. ASSUME NEW k \in Slots, k # j PROVE SlotInv(k)'
  <2>1. call'[k] = call[k] /\ touched'[k] = touched[k] /\ SlotInv(k)
    BY <1>1 DEF SchedInv
  <2>2. Seen(k)' = Seen(k)
    BY <2>1 DEF Seen
  <2> QED
    BY <2>1, <2>2 DEF SlotInv, AsRead, Listed
<1>2. call' \in [Slots -> Records]
  BY DEF SchedInv
<1>3. RowsInv'
  BY DEF SchedInv, RowsInv
<1> QED
  BY <1>1, <1>2, <1>3 DEF SchedInv

\* It is over.
LEMMA FreeSlot ==
    ASSUME NEW j, call'[j] = Free, touched'[j] = {}
    PROVE  SlotInv(j)'
<1>1. Free' = Free
  BY DEF Free, Call
<1> QED
  BY <1>1, FreeIs DEF SlotInv

LEMMA EndKeeps ==
    ASSUME SchedInv, UNCHANGED <<host, rows>>, NEW j \in Slots, End(j)
    PROVE  SchedInv'
<1>1. /\ call' = [call EXCEPT ![j] = Free] /\ touched' = [touched EXCEPT ![j] = {}]
      /\ call \in [Slots -> Records]
      /\ touched \in [Slots -> SUBSET (ScheduleIds \cup {0})]
  BY DEF End, SchedInv
<1>2. /\ call'[j] = Free /\ touched'[j] = {}
      /\ \A k \in Slots : k # j => touched'[k] = touched[k]
      /\ touched' \in [Slots -> SUBSET (ScheduleIds \cup {0})]
  BY <1>1
<1>3. SlotInv(j)'
  BY <1>2, FreeSlot
<1> QED
  BY <1>1, <1>2, <1>3, FreeIs, HandlerMoves

\* A request comes in.
LEMMA BeginKeeps ==
    ASSUME SchedInv, UNCHANGED <<host, rows, touched>>, NEW j \in Slots, NEW at, NEW op,
           NEW i, NEW n, NEW t, Begin(j, Call(at, op, i, n, t)), Call(at, op, i, n, t) \in Records,
           at # "reply", at = "check" => op # "create",
           at = "write" => op = "create" /\ n \in Names /\ t \in Times
    PROVE  SchedInv'
<1>1. PICK c \in Records : c = Call(at, op, i, n, t)
  OBVIOUS
<1>2. c.at = at /\ c.op = op /\ c.name = n /\ c.time = t /\ c.list = <<>> /\ Len(c.list) = 0
  BY <1>1 DEF Call
<1>3. /\ call[j] = Free /\ call' = [call EXCEPT ![j] = c]
      /\ call \in [Slots -> Records] /\ SlotInv(j)
      /\ touched \in [Slots -> SUBSET (ScheduleIds \cup {0})]
  BY <1>1 DEF Begin, SchedInv
<1>4. touched[j] = {}
  BY <1>3, FreeIs DEF SlotInv, Seen
<1>5. call'[j] = c
  BY <1>3
<1>6. SlotInv(j)'
  BY <1>2, <1>4, <1>5 DEF SlotInv
<1> QED
  BY <1>3, <1>6, HandlerMoves

LEMMA RequestKeeps ==
    ASSUME SchedInv,
           \/ \E j \in Plain, u \in Hosts :
               \/ \E n \in Names, t \in Times : CreateSchedule(j, u, n, t)
               \/ \E i \in ScheduleIds :
                   \/ \E e \in Edits : UpdateSchedule(j, u, i, e[1], e[2])
                   \/ DeleteSchedule(j, u, i)
           \/ \E j \in Commands, u \in Hosts : AskClaude(j, u)
    PROVE  SchedInv'
<1>1. ASSUME NEW at \in {"check", "list", "write"},
             NEW op \in {"none", "create", "update", "delete"}, NEW i \in ScheduleIds \cup {0},
             NEW n \in Names \cup {Keep}, NEW t \in Times \cup {Keep}
      PROVE  Call(at, op, i, n, t) \in Records
  BY DEF Call, Records
<1>2. ASSUME NEW j \in Plain, NEW u, NEW n \in Names, NEW t \in Times, CreateSchedule(j, u, n, t)
      PROVE  SchedInv'
  BY <1>1, <1>2, BeginKeeps DEF CreateSchedule, Slots
<1>3. ASSUME NEW j \in Plain, NEW u, NEW i \in ScheduleIds, NEW e \in Edits,
             UpdateSchedule(j, u, i, e[1], e[2])
      PROVE  SchedInv'
  <2>1. e[1] \in Names \cup {Keep} /\ e[2] \in Times \cup {Keep}
    BY ScheduleAssumption DEF Times
  <2> QED
    BY <1>1, <1>3, <2>1, BeginKeeps DEF UpdateSchedule, Slots
<1>4. ASSUME NEW j \in Plain, NEW u, NEW i \in ScheduleIds, DeleteSchedule(j, u, i) PROVE SchedInv'
  BY <1>1, <1>4, BeginKeeps DEF DeleteSchedule, Slots
<1>5. ASSUME NEW j \in Commands, NEW u, AskClaude(j, u) PROVE SchedInv'
  BY <1>1, <1>5, BeginKeeps DEF AskClaude, Slots
<1> QED
  BY <1>2, <1>3, <1>4, <1>5

LEMMA AssertKeeps == ASSUME SchedInv, NEW j \in Slots, AssertExists(j) PROVE SchedInv'
<1>1. /\ UNCHANGED <<host, rows>> /\ call[j].at = "check" /\ call[j] \in Records /\ SlotInv(j)
      /\ call \in [Slots -> Records]
      /\ touched \in [Slots -> SUBSET (ScheduleIds \cup {0})]
      /\ rows \in [ScheduleIds -> Rows \cup {Fresh, Gone}]
  BY DEF AssertExists, SchedInv, RowsInv
<1>2. CASE call[j].id \in Listed
  <2>1. PICK c : c = [call[j] EXCEPT !.at = "write", !.was = rows[call[j].id]]
    OBVIOUS
  <2>2. rows[call[j].id] \in Rows
    BY <1>1, <1>2 DEF Listed
  <2>3. /\ c \in Records /\ c.at = "write" /\ c.op = call[j].op /\ c.id = call[j].id
        /\ c.was = rows[call[j].id] /\ c.list = call[j].list
    BY <1>1, <2>1, <2>2 DEF Records
  <2>4. call' = [call EXCEPT ![j] = c] /\ UNCHANGED touched
    BY <1>1, <1>2, <2>1 DEF AssertExists
  <2>5. call'[j] = c
    BY <1>1, <2>4
  <2>6. call[j].list = <<>> /\ Len(c.list) = 0 /\ call[j].op # "create"
    BY <1>1, <2>3 DEF SlotInv
  <2>7. touched[j] = {}
    BY <1>1, <2>6 DEF SlotInv, Seen
  <2>8. SlotInv(j)'
    BY <1>1, <1>2, <2>3, <2>4, <2>5, <2>6, <2>7 DEF SlotInv, AsRead, Listed
  <2> QED
    BY <1>1, <2>3, <2>4, <2>8, HandlerMoves
<1>3. CASE call[j].id \notin Listed
  BY <1>1, <1>3, EndKeeps DEF AssertExists
<1> QED
  BY <1>2, <1>3

\* The list that findMany answers is of the rows there are.
LEMMA ReadKeeps == ASSUME SchedInv, NEW j \in Slots, ReadSchedules(j) PROVE SchedInv'
<1>1. /\ UNCHANGED <<host, rows, touched>> /\ call[j].at = "list" /\ call[j] \in Records
      /\ SlotInv(j) /\ call \in [Slots -> Records]
      /\ touched \in [Slots -> SUBSET (ScheduleIds \cup {0})]
      /\ rows \in [ScheduleIds -> Rows \cup {Fresh, Gone}]
  BY DEF ReadSchedules, SchedInv, RowsInv
<1> DEFINE E(i) == [id |-> i, name |-> rows[i].name, time |-> rows[i].time]
<1>2. PICK s \in SetToSeqs({E(i) : i \in Listed}) :
        call' = [call EXCEPT ![j].at = "reply", ![j].list = s]
  BY DEF ReadSchedules
<1>3. ASSUME NEW i \in Listed
      PROVE  E(i) \in Entries /\ E(i).id = i /\ rows[i] = Row(E(i).name, E(i).time)
  <2>1. i \in ScheduleIds /\ rows[i] \in Rows
    BY <1>1 DEF Listed
  <2> QED
    BY <2>1 DEF Entries, Rows, Row
<1>4. Cardinality({E(i) : i \in Listed}) \in Nat
  <2>1. IsFiniteSet(ScheduleIds)
    BY NumbersIs, FS_Interval DEF ScheduleIds
  <2>2. IsFiniteSet(Listed)
    BY <2>1, FS_Subset DEF Listed
  <2>3. IsFiniteSet({E(i) : i \in Listed})
    <3> DEFINE f == [i \in Listed |-> E(i)]
    <3>1. f \in Surjection(Listed, {E(i) : i \in Listed})
      BY DEF Surjection
    <3> HIDE DEF E, f
    <3> QED
      BY <2>2, <3>1, FS_Surjection
  <2> QED
    BY <2>3, FS_CardinalityType
<1>5. s \in Seq(Entries) /\ \A k \in 1..Len(s) : s[k] \in {E(i) : i \in Listed}
  <2>1. PICK m \in Nat : m = Cardinality({E(i) : i \in Listed})
    BY <1>4
  <2>2. s \in [1..m -> {E(i) : i \in Listed}]
    BY <1>2, <2>1 DEF SetToSeqs
  <2>3. {E(i) : i \in Listed} \subseteq Entries
    BY <1>3
  <2> HIDE DEF E
  <2>4. s \in [1..m -> Entries]
    BY <2>2, <2>3
  <2>5. s \in Seq(Entries) /\ Len(s) = m
    BY <2>4
  <2> QED
    BY <2>2, <2>5
<1>6. ASSUME NEW k \in 1..Len(s) PROVE AsRead(j, s[k].id, Row(s[k].name, s[k].time))
  BY <1>3, <1>5 DEF AsRead
<1>7. PICK c : c = [call[j] EXCEPT !.at = "reply", !.list = s]
  OBVIOUS
<1>8. c \in Records /\ c.at = "reply" /\ c.list = s
  BY <1>1, <1>5, <1>7 DEF Records
<1>9. call' = [call EXCEPT ![j] = c]
  BY <1>1, <1>2, <1>7
<1>10. call'[j] = c
  BY <1>1, <1>9
<1>11. touched[j] = {}
  <2>1. call[j].list = <<>> /\ Len(call[j].list) = 0
    BY <1>1 DEF SlotInv
  <2> QED
    BY <1>1, <2>1 DEF SlotInv, Seen
<1>12. SlotInv(j)'
  BY <1>1, <1>6, <1>8, <1>10, <1>11 DEF SlotInv, AsRead, Listed
<1> QED
  BY <1>1, <1>8, <1>9, <1>12, HandlerMoves

\* The handler is going to write to a schedule of its list.
LEMMA AimKeeps ==
    ASSUME SchedInv, NEW j \in Slots, call[j].at = "reply", NEW m \in Names,
           NEW op \in {"update", "delete"}, NEW n \in Names \cup {Keep},
           NEW t \in Times \cup {Keep},
           NEW d \in Times \cup {NoDate}, NEW x \in FindMatch(call[j].list, m, d),
           Aim(j, op, x, n, t)
    PROVE  SchedInv'
<1>1. /\ UNCHANGED <<host, rows>> /\ call[j] \in Records /\ SlotInv(j)
      /\ call \in [Slots -> Records]
      /\ touched \in [Slots -> SUBSET (ScheduleIds \cup {0})]
      /\ rows \in [ScheduleIds -> Rows \cup {Fresh, Gone}]
  BY DEF Aim, SchedInv, RowsInv
<1>2. PICK s \in Seq(Entries) : s = call[j].list
  BY <1>1 DEF Records
<1>3. ASSUME NEW k \in 1..Len(s) PROVE s[k] \in Entries /\ s[k].time \in Nat
  <2>1. s[k] \in Entries
    OBVIOUS
  <2> QED
    BY <2>1, NumbersIs DEF Entries
<1>4. PICK k \in 1..Len(s) : x = s[k]
  <2>1. Len(s) \in Nat /\ x \in FindMatch(s, m, d)
    BY <1>2
  <2>2. d \in Nat \cup {NoDate}
    BY NumbersIs
  <2>3. \A k \in 1..Len(s) : s[k].time \in Nat
    BY <1>3
  <2> QED
    BY <2>1, <2>2, <2>3, FindMatchIsListed
<1>5. /\ AsRead(j, x.id, Row(x.name, x.time)) /\ x.id \in ScheduleIds
      /\ Row(x.name, x.time) \in Rows
  BY <1>1, <1>2, <1>3, <1>4 DEF SlotInv, Entries, Row, Rows
<1>6. PICK c : c = [call[j] EXCEPT !.at = "write", !.op = op, !.id = x.id, !.name = n,
                                   !.time = t, !.was = Row(x.name, x.time), !.list = <<>>]
  OBVIOUS
<1>7. /\ c \in Records /\ c.at = "write" /\ c.op = op /\ c.id = x.id
      /\ c.was = Row(x.name, x.time) /\ c.list = <<>> /\ Len(c.list) = 0
  <2>1. /\ c = [at |-> "write", op |-> op, id |-> x.id, name |-> n, time |-> t,
                was |-> Row(x.name, x.time), list |-> <<>>]
    BY <1>1, <1>6 DEF Records
  <2>2. <<>> \in Seq(Entries) /\ Len(<<>>) = 0
    OBVIOUS
  <2> QED
    BY <1>5, <2>1, <2>2 DEF Records
<1>8. call' = [call EXCEPT ![j] = c]
  BY <1>1, <1>6 DEF Aim
<1>9. call'[j] = c
  BY <1>1, <1>8
<1>10. /\ touched' = [touched EXCEPT ![j] = touched[j] \cap {x.id}]
       /\ touched'[j] = touched[j] \cap {x.id}
       /\ \A i \in Slots : i # j => touched'[i] = touched[i]
       /\ touched' \in [Slots -> SUBSET (ScheduleIds \cup {0})]
  BY <1>1 DEF Aim
<1>11. (touched[j] \subseteq Seen(j))'
  BY <1>7, <1>9, <1>10 DEF Seen
<1>12. AsRead(j, c.id, c.was)'
  BY <1>1, <1>5, <1>7, <1>10 DEF AsRead, Listed
<1>13. SlotInv(j)'
  BY <1>7, <1>9, <1>11, <1>12 DEF SlotInv, AsRead, Listed
<1> QED
  BY <1>1, <1>7, <1>8, <1>10, <1>13, HandlerMoves

LEMMA ClaudeKeeps ==
    ASSUME SchedInv, NEW j \in Slots, NEW n \in Names, NEW t \in Times \cup {NoDate},
           ClaudeAdds(j, n, t) \/ (\E new \in Times : ClaudeChanges(j, n, t, new))
             \/ ClaudeCancels(j, n, t)
    PROVE  SchedInv'
<1>1. CASE ClaudeAdds(j, n, t)
  <2>1. /\ UNCHANGED <<host, rows>> /\ call \in [Slots -> Records] /\ t \in Times
        /\ touched \in [Slots -> SUBSET (ScheduleIds \cup {0})]
        /\ touched' = [touched EXCEPT ![j] = {}]
    BY <1>1 DEF ClaudeAdds, SchedInv
  <2>2. PICK c : c = Call("write", "create", 0, n, t)
    OBVIOUS
  <2>3. /\ c \in Records /\ c.at = "write" /\ c.op = "create" /\ c.name = n /\ c.time = t
        /\ c.list = <<>> /\ Len(c.list) = 0
    BY <2>1, <2>2 DEF Call, Records
  <2>4. call' = [call EXCEPT ![j] = c] /\ call'[j] = c
    BY <1>1, <2>1, <2>2 DEF ClaudeAdds
  <2>5. /\ touched'[j] = {} /\ \A k \in Slots : k # j => touched'[k] = touched[k]
        /\ touched' \in [Slots -> SUBSET (ScheduleIds \cup {0})]
    BY <2>1
  <2>6. SlotInv(j)'
    BY <2>1, <2>3, <2>4, <2>5 DEF SlotInv
  <2> QED
    BY <2>1, <2>3, <2>4, <2>5, <2>6, HandlerMoves
<1>2. ASSUME NEW new \in Times, ClaudeChanges(j, n, t, new) PROVE SchedInv'
  BY <1>2, AimKeeps DEF ClaudeChanges
<1>3. CASE ClaudeCancels(j, n, t)
  BY <1>3, AimKeeps DEF ClaudeCancels
<1> QED
  BY <1>1, <1>2, <1>3

\* Somebody else writes rows, and what handler k has seen of them is noted.
LEMMA OthersKeep ==
    ASSUME SchedInv, NEW k \in Slots, call'[k] = call[k],
           touched[k] \subseteq touched'[k], touched'[k] \subseteq Seen(k),
           \A i \in Seen(k) :
             i \in touched'[k] \/ (i \in Listed => i \in Listed' /\ rows'[i] = rows[i])
    PROVE  SlotInv(k)'
<1>1. SlotInv(k) /\ call[k] \in Records /\ Seen(k)' = Seen(k)
  BY DEF SchedInv, Seen
<1>2. ASSUME NEW i \in Seen(k), NEW r, AsRead(k, i, r) PROVE AsRead(k, i, r)'
  BY <1>2 DEF AsRead
<1>3. \A n \in 1..Len(call[k].list) : call[k].list[n].id \in Seen(k)
  BY DEF Seen
<1>4. call[k].at = "write" /\ call[k].op # "create" => call[k].id \in Seen(k)
  BY DEF Seen
<1>5. \A n \in 1..Len(call[k].list) :
        AsRead(k, call[k].list[n].id, Row(call[k].list[n].name, call[k].list[n].time))'
  BY <1>1, <1>2, <1>3 DEF SlotInv
<1>6. call[k].at = "write" /\ call[k].op # "create" => AsRead(k, call[k].id, call[k].was)'
  BY <1>1, <1>2, <1>4 DEF SlotInv
<1>7. \A i, r : AsRead(k, i, r)' <=> (i \in Listed' /\ rows'[i] = r) \/ i \in touched'[k]
  BY DEF AsRead
<1> HIDE DEF AsRead
<1> QED
  BY <1>1, <1>5, <1>6, <1>7 DEF SlotInv, AsRead

LEMMA CreateKeeps ==
    ASSUME SchedInv, NEW j \in Slots, NEW i \in ScheduleIds, WriteCreate(j, i)
    PROVE  SchedInv'
<1>1. /\ UNCHANGED host /\ End(j) /\ rows[i] = Fresh /\ \A k \in 1..(i - 1) : rows[k] # Fresh
      /\ call[j].at = "write" /\ call[j].op = "create" /\ SlotInv(j) /\ RowsInv
      /\ call \in [Slots -> Records]
      /\ touched \in [Slots -> SUBSET (ScheduleIds \cup {0})]
      /\ rows \in [ScheduleIds -> Rows \cup {Fresh, Gone}]
  BY DEF WriteCreate, SchedInv, RowsInv
<1>2. CASE host = Nobody
  BY <1>1, <1>2, EndKeeps DEF WriteCreate
<1>3. CASE host # Nobody
  <2>1. PICK r \in Rows : r = Row(call[j].name, call[j].time)
    BY <1>1 DEF SlotInv, Row, Rows
  <2>2. rows' = [rows EXCEPT ![i] = r]
    BY <1>3, <2>1 DEF WriteCreate
  <2>3. RowsInv'
    <3>1. rows' \in [ScheduleIds -> Rows \cup {Fresh, Gone}]
      BY <1>1, <2>1, <2>2
    <3>2. ASSUME NEW x \in ScheduleIds, rows'[x] # Fresh, NEW k \in 1..x PROVE rows'[k] # Fresh
      <4>1. k \in ScheduleIds /\ i \in Nat /\ x \in Nat
        BY NumbersIs DEF ScheduleIds
      <4>2. CASE k = i
        BY <1>1, <2>1, <2>2, <4>2, NumbersIs
      <4>3. CASE k # i /\ x = i
        <5>1. k \in 1..(i - 1)
          BY <4>1, <4>3
        <5> QED
          BY <1>1, <2>2, <4>1, <4>3, <5>1
      <4>4. CASE k # i /\ x # i
        <5>1. rows[x] # Fresh
          BY <1>1, <2>2, <3>2, <4>4
        <5> QED
          BY <1>1, <2>2, <4>1, <4>4, <5>1 DEF RowsInv
      <4> QED
        BY <4>2, <4>3, <4>4
    <3> QED
      BY <1>1, <3>1, <3>2 DEF RowsInv
  <2>4. /\ call' \in [Slots -> Records] /\ call'[j] = Free
        /\ touched' \in [Slots -> SUBSET (ScheduleIds \cup {0})] /\ touched'[j] = {}
        /\ \A k \in Slots : k # j => call'[k] = call[k] /\ touched'[k] = touched[k]
    BY <1>1, FreeIs DEF End
  <2>5. \A x \in Listed : x \in Listed' /\ rows'[x] = rows[x]
    BY <1>1, <2>2 DEF Listed
  <2>6. ASSUME NEW k \in Slots, k # j PROVE SlotInv(k)'
    <3>1. touched[k] \subseteq Seen(k)
      BY DEF SchedInv, SlotInv
    <3> QED
      BY <2>4, <2>5, <2>6, <3>1, OthersKeep
  <2>7. SlotInv(j)'
    BY <2>4, FreeSlot
  <2> QED
    BY <2>3, <2>4, <2>6, <2>7 DEF SchedInv
<1> QED
  BY <1>2, <1>3

LEMMA RowKeeps == ASSUME SchedInv, NEW j \in Slots, WriteRow(j) PROVE SchedInv'
<1>1. /\ UNCHANGED host /\ RowsInv /\ call \in [Slots -> Records] /\ call[j] \in Records
      /\ touched \in [Slots -> SUBSET (ScheduleIds \cup {0})]
      /\ rows \in [ScheduleIds -> Rows \cup {Fresh, Gone}]
      /\ call' = [call EXCEPT ![j] = Free]
  BY DEF WriteRow, SchedInv, RowsInv
<1>2. PICK i \in ScheduleIds \cup {0} : i = call[j].id
  BY <1>1 DEF Records
<1>3. touched' = [k \in Slots |-> IF k = j THEN {}
                                 ELSE touched[k] \cup ({i} \cap Listed \cap Seen(k))]
  BY <1>2 DEF WriteRow
<1>4. \/ i \notin Listed /\ UNCHANGED rows
      \/ /\ i \in Listed
         /\ \E r \in Rows \cup {Gone} : rows' = [rows EXCEPT ![i] = r]
  <2>1. CASE i \notin Listed
    BY <1>2, <2>1 DEF WriteRow
  <2>2. CASE i \in Listed
    <3>1. i \in ScheduleIds /\ rows[i] \in Rows
      BY <1>1, <2>2 DEF Listed
    <3>2. PICK r : r = IF call[j].op = "delete" THEN Gone
                       ELSE Row(Given(call[j].name, rows[i].name),
                                Given(call[j].time, rows[i].time))
      OBVIOUS
    <3>3. rows' = [rows EXCEPT ![i] = r]
      BY <1>2, <2>2, <3>2 DEF WriteRow
    <3>4. r \in Rows \cup {Gone}
      BY <1>1, <3>1, <3>2 DEF Records, Given, Row, Rows
    <3> QED
      BY <2>2, <3>3, <3>4
  <2> QED
    BY <2>1, <2>2
<1>5. \A x \in ScheduleIds : rows'[x] = Fresh <=> rows[x] = Fresh
  BY <1>1, <1>4, NumbersIs DEF Listed
<1>6. RowsInv'
  <2>1. rows' \in [ScheduleIds -> Rows \cup {Fresh, Gone}]
    BY <1>1, <1>4
  <2>2. \A x \in ScheduleIds : 1..x \subseteq ScheduleIds
    BY NumbersIs DEF ScheduleIds
  <2> QED
    BY <1>1, <1>5, <2>1, <2>2 DEF RowsInv
<1>7. call' \in [Slots -> Records] /\ call'[j] = Free /\ touched'[j] = {}
  BY <1>1, <1>3, FreeIs
<1>8. ASSUME NEW k \in Slots, k # j PROVE SlotInv(k)'
  <2>1. touched[k] \subseteq Seen(k)
    BY DEF SchedInv, SlotInv
  <2>2. call'[k] = call[k] /\ touched'[k] = touched[k] \cup ({i} \cap Listed \cap Seen(k))
    BY <1>1, <1>3, <1>8
  <2>3. \A x \in Listed : x # i => x \in Listed' /\ rows'[x] = rows[x]
    BY <1>1, <1>4 DEF Listed
  <2> QED
    BY <2>1, <2>2, <2>3, OthersKeep
<1>9. SlotInv(j)'
  BY <1>7, FreeSlot
<1>10. touched' \in [Slots -> SUBSET (ScheduleIds \cup {0})]
  <2>1. \A k \in Slots : Seen(k) \subseteq ScheduleIds \cup {0}
    BY <1>1, SeenIs
  <2> QED
    BY <1>1, <1>3, <2>1
<1> QED
  BY <1>6, <1>7, <1>8, <1>9, <1>10 DEF SchedInv

LEMMA RemoveKeeps == ASSUME SchedInv, RemoveRoom PROVE SchedInv'
<1>1. /\ host' = Nobody /\ UNCHANGED call /\ RowsInv /\ call \in [Slots -> Records]
      /\ touched \in [Slots -> SUBSET (ScheduleIds \cup {0})]
      /\ rows' = [i \in ScheduleIds |-> IF i \in Listed THEN Gone ELSE rows[i]]
      /\ touched' = [k \in Slots |-> touched[k] \cup (Listed \cap Seen(k))]
  BY DEF RemoveRoom, SchedInv
<1>2. RowsInv'
  <2>1. \A x \in ScheduleIds : 1..x \subseteq ScheduleIds
    BY NumbersIs DEF ScheduleIds
  <2>2. \A x \in ScheduleIds : rows'[x] = Fresh <=> rows[x] = Fresh
    BY <1>1, NumbersIs DEF Listed
  <2> QED
    BY <1>1, <2>1, <2>2 DEF RowsInv
<1>3. ASSUME NEW k \in Slots PROVE SlotInv(k)'
  <2>1. touched[k] \subseteq Seen(k)
    BY DEF SchedInv, SlotInv
  <2>2. call'[k] = call[k] /\ touched'[k] = touched[k] \cup (Listed \cap Seen(k))
    BY <1>1
  <2> QED
    BY <2>1, <2>2, OthersKeep
<1>4. touched' \in [Slots -> SUBSET (ScheduleIds \cup {0})]
  <2>1. \A k \in Slots : Seen(k) \subseteq ScheduleIds \cup {0}
    BY <1>1, SeenIs
  <2> QED
    BY <1>1, <2>1
<1> QED
  BY <1>1, <1>2, <1>3, <1>4 DEF SchedInv

LEMMA SchedStarts == SchedInit => SchedInv
<1> SUFFICES ASSUME SchedInit PROVE SchedInv
  OBVIOUS
<1>1. RowsInv
  BY ScheduleAssumption DEF SchedInit, RowsInv
<1>2. call \in [Slots -> Records] /\ touched \in [Slots -> SUBSET (ScheduleIds \cup {0})]
  BY FreeIs DEF SchedInit
<1>3. ASSUME NEW j \in Slots PROVE SlotInv(j)
  <2>1. call[j] = Free /\ touched[j] = {}
    BY DEF SchedInit
  <2> QED
    BY <2>1, FreeIs DEF SlotInv
<1> QED
  BY <1>1, <1>2, <1>3 DEF SchedInv

LEMMA SchedStep == ASSUME SchedInv, [SchedNext]_schedVars PROVE SchedInv'
<1>1. CASE \/ \E j \in Plain, u \in Hosts :
               \/ \E n \in Names, t \in Times : CreateSchedule(j, u, n, t)
               \/ \E i \in ScheduleIds :
                   \/ \E e \in Edits : UpdateSchedule(j, u, i, e[1], e[2])
                   \/ DeleteSchedule(j, u, i)
           \/ \E j \in Commands, u \in Hosts : AskClaude(j, u)
  BY <1>1, RequestKeeps
<1>2. ASSUME NEW j \in Plain, AssertExists(j) PROVE SchedInv'
  BY <1>2, AssertKeeps DEF Slots
<1>3. ASSUME NEW j \in Commands, ReadSchedules(j) PROVE SchedInv'
  BY <1>3, ReadKeeps DEF Slots
<1>4. ASSUME NEW j \in Commands, NEW n \in Names, NEW t \in Times \cup {NoDate},
             ClaudeAdds(j, n, t) \/ (\E new \in Times : ClaudeChanges(j, n, t, new))
               \/ ClaudeCancels(j, n, t)
      PROVE  SchedInv'
  BY <1>4, ClaudeKeeps DEF Slots
<1>5. ASSUME NEW j \in Commands, ClaudeFails(j) PROVE SchedInv'
  BY <1>5, EndKeeps DEF ClaudeFails, Slots
<1>6. ASSUME NEW j \in Slots, NEW i \in ScheduleIds, WriteCreate(j, i) PROVE SchedInv'
  BY <1>6, CreateKeeps
<1>7. ASSUME NEW j \in Slots, WriteRow(j) PROVE SchedInv'
  BY <1>7, RowKeeps
<1>8. CASE (\E u \in Hosts : TransferRoom(u)) \/ UNCHANGED schedVars
  <2>1. UNCHANGED <<rows, call, touched>> /\ host' \in Hosts \cup {Nobody}
    BY <1>8 DEF TransferRoom, schedVars, SchedInv, RowsInv
  <2> QED
    BY <2>1 DEF SchedInv, RowsInv, SlotInv, AsRead, Listed, Seen
<1>9. CASE RemoveRoom
  BY <1>9, RemoveKeeps
<1> QED
  BY <1>1, <1>2, <1>3, <1>4, <1>5, <1>6, <1>7, <1>8, <1>9 DEF SchedNext

LEMMA SchedAlways == SchedSpec => []SchedInv
<1>1. SchedInv /\ [SchedNext]_schedVars => SchedInv'
  BY SchedStep
<1> QED
  BY SchedStarts, <1>1, PTL DEF SchedSpec

\* Rows, handlers and the lists they hold keep their types, for any number of schedules
\* and handlers and any answers of Claude; ids are given out in order.
THEOREM SchedTypeCorrect == SchedSpec => []SchedTypeOK
<1>1. SchedInv => SchedTypeOK
  BY DEF SchedInv, RowsInv, SlotInv, SchedTypeOK, Records, Entries
<1> QED
  BY <1>1, SchedAlways, PTL

\* What a handler has checked, or Claude was sent, is what it writes to, unless another
\* handler has written that row in the seconds between: findMatchingSchedule chooses from
\* the list, and an id is never given out again.
THEOREM TargetIsAsSeen == SchedSpec => []TargetAsSeen
<1>1. SchedInv => TargetAsSeen
  BY DEF SchedInv, SlotInv, AsRead, TargetAsSeen
<1> QED
  BY <1>1, SchedAlways, PTL

\* findMatchingSchedule's reduce chooses the nearest of those with the name, or of all
\* when there is none, and the first of several, for lists of any length; a date that
\* does not parse chooses the first.
THEOREM ReduceFindsClosest == SchedSpec => []MatchIsClosest
<1>1. ASSUME SchedInv, NEW j \in Commands, call[j].at = "reply", NEW n \in Names,
             NEW t \in Times \cup {NoDate}
      PROVE  FindMatch(call[j].list, n, t) = {call[j].list[k] : k \in First(call[j].list, n, t)}
  <2>1. call[j] \in Records
    BY <1>1 DEF SchedInv, Slots
  <2>2. PICK s \in Seq(Entries) : s = call[j].list
    BY <2>1 DEF Records
  <2>3. ASSUME NEW k \in 1..Len(s) PROVE s[k].time \in Nat
    <3>1. s[k] \in Entries
      OBVIOUS
    <3> QED
      BY <3>1, NumbersIs DEF Entries
  <2> QED
    BY <2>2, <2>3, NumbersIs, FindMatchIsFirst
<1>2. SchedInv => MatchIsClosest
  BY <1>1 DEF MatchIsClosest, First, Among, Asked, Precedes
<1> QED
  BY <1>2, SchedAlways, PTL

-----------------------------------------------------------------------------
(* ScheduleCalendar: the inductive invariant.                              *)

Ops == {"fetch", "add", "edit", "delete"}

CalDays == Days \cup {NoDay}

Calls ==
    [op : Ops, item : ItemIds, day : CalDays, base : Lists, shown : CalDays,
     at : {"wait", "answer"}, ok : BOOLEAN, got : Lists]

\* The request submits a form.
Submits(a) == a.op \in {"add", "edit"}

\* A form that is being submitted has its request in the queue, and no other has one.
OneForm ==
    /\ form \in {"none", "add", "edit"}
    /\ form # "none" => \E k \in 1..Len(queue) : queue[k].op = form
    /\ \A k \in 1..Len(queue) : Submits(queue[k]) => queue[k].op = form
    /\ \A j, k \in 1..Len(queue) : Submits(queue[j]) /\ Submits(queue[k]) => j = k

CalTypes ==
    /\ table \in Lists /\ list \in Lists /\ nextItem \in 1..(MaxItems + 1)
    /\ \A s \in nextItem..MaxItems : table[s] = NoDay
    /\ popup \in [day : CalDays, items : SUBSET ItemIds]
    /\ popup.day = NoDay => popup = NoPopup
    /\ popup # NoPopup => isOpen
    /\ loading => \E k \in 1..Len(queue) : queue[k].op = "fetch"
    /\ queue \in Seq(Calls)
    /\ \A k \in 1..Len(queue) :
         /\ queue[k].at = "answer" => k = 1
         /\ queue[k].at = "wait" => ~queue[k].ok
         /\ queue[k].item < nextItem \/ queue[k].op # "add"
    /\ isOpen \in BOOLEAN /\ loading \in BOOLEAN
    /\ stale \in BOOLEAN /\ misread \in BOOLEAN /\ switched \in BOOLEAN

\* Unless the day was switched, the popup shows its day, and so will every answer.
PopupInv ==
    popup # NoPopup /\ ~switched =>
      /\ popup.items = On(list, popup.day)
      /\ \A k \in 1..Len(queue) : queue[k].op # "fetch" => queue[k].shown = popup.day

\* The only request under way is that of handler a: when the answer is in, the list that
\* it makes is the table; until then, or if it failed, the one on the screen is.
WillAgree(a) ==
    /\ a.op = "fetch" /\ a.at = "answer" /\ a.ok => a.got = table \/ stale
    /\ a.op # "fetch" /\ ~stale /\ ~misread =>
         IF a.ok THEN table = Effect(a, a.base)
         ELSE list = table /\ (a.at = "wait" => a.base = list)

\* Requests that overlap make the list stale.
CalendarInv ==
    /\ Len(queue) > 1 => stale
    /\ queue # <<>> => WillAgree(queue[1])
    /\ queue = <<>> => list = table \/ stale \/ misread

CalInv == CalTypes /\ OneForm /\ PopupInv /\ CalendarInv

-----------------------------------------------------------------------------
(* ScheduleCalendar: the queue.                                            *)

LEMMA ListsIs ==
    /\ Empty \in Lists /\ NoDay \in CalDays /\ Days \subseteq CalDays
    /\ \A l \in Lists, s \in ItemIds, d \in CalDays : [l EXCEPT ![s] = d] \in Lists
BY DEF Empty, Lists, CalDays

LEMMA EffectIs ==
    ASSUME NEW a \in Calls, NEW l \in Lists
    PROVE  /\ Effect(a, l) \in Lists
           /\ \A s \in ItemIds : s # a.item => Effect(a, l)[s] = l[s]
           /\ a.op # "add" /\ l[a.item] = NoDay => Effect(a, l) = l
<1>1. a.item \in ItemIds /\ a.day \in CalDays
  BY DEF Calls
<1> QED
  BY <1>1 DEF Effect, Lists, CalDays

\* What has just been started.
Started(a) == a \in Calls /\ a.at = "wait" /\ ~a.ok

LEMMA ActionStarts ==
    ASSUME CalTypes, NEW op \in Ops \ {"fetch"}, NEW s \in ItemIds, NEW d \in CalDays, NEW a,
           a = Action(op, s, d)
    PROVE  /\ Started(a) /\ a.op = op /\ a.item = s
           /\ a.base = list /\ a.shown = popup.day
BY ListsIs DEF CalTypes, Action, Started, Calls, CalDays

LEMMA FetchStarts ==
    ASSUME CalTypes, NEW a, a = Fetch
    PROVE  Started(a) /\ a.op = "fetch"
<1>1. 1 \in ItemIds
  BY CalendarAssumption DEF ItemIds
<1>2. /\ a.op = "fetch" /\ a.item = 1 /\ a.day = NoDay /\ a.base = Empty /\ a.shown = NoDay
      /\ a.at = "wait" /\ a.ok = FALSE /\ a.got = Empty
      /\ a = [op |-> a.op, item |-> a.item, day |-> a.day, base |-> a.base, shown |-> a.shown,
              at |-> a.at, ok |-> a.ok, got |-> a.got]
  BY DEF Fetch, Action
<1> QED
  BY <1>1, <1>2, ListsIs DEF Started, Calls, Ops

LEMMA QueueGrows ==
    ASSUME queue \in Seq(Calls), NEW a, Started(a), Enqueue(a)
    PROVE  /\ queue' \in Seq(Calls) /\ Len(queue') = Len(queue) + 1 /\ Len(queue) \in Nat
           /\ \A k \in 1..Len(queue) : queue'[k] = queue[k]
           /\ queue'[Len(queue) + 1] = a
           /\ \A k \in 1..Len(queue') : k \in 1..Len(queue) \/ k = Len(queue) + 1
           /\ queue' # <<>>
           /\ stale' = (stale \/ queue # <<>>)
BY DEF Enqueue, Started

\* The request at the head is answered, or fails.
LEMMA HeadChanges ==
    ASSUME queue \in Seq(Calls), queue # <<>>, NEW b \in Calls,
           queue' = [queue EXCEPT ![1] = b]
    PROVE  /\ queue' \in Seq(Calls) /\ Len(queue') = Len(queue) /\ Len(queue) \in Nat \ {0}
           /\ queue'[1] = b /\ Head(queue) = queue[1] /\ queue[1] \in Calls
           /\ \A k \in 1..Len(queue) : k # 1 => queue'[k] = queue[k]
           /\ queue' # <<>>
OBVIOUS

\* It is over.
LEMMA HeadGoes ==
    ASSUME queue \in Seq(Calls), queue # <<>>, queue' = Tail(queue)
    PROVE  /\ queue' \in Seq(Calls) /\ Len(queue') = Len(queue) - 1 /\ Len(queue) \in Nat \ {0}
           /\ Head(queue) = queue[1] /\ queue[1] \in Calls
           /\ \A k \in 1..Len(queue') : queue'[k] = queue[k + 1] /\ k + 1 \in 1..Len(queue)
           /\ \A k \in 1..Len(queue) : k # 1 => k - 1 \in 1..Len(queue') /\ queue[k] = queue'[k - 1]
           /\ queue' # <<>> => Len(queue) > 1
           /\ queue' = <<>> => Len(queue) = 1
<1>1. /\ queue' \in Seq(Calls) /\ Len(queue') = Len(queue) - 1 /\ Len(queue) \in Nat \ {0}
      /\ Head(queue) = queue[1] /\ queue[1] \in Calls
      /\ \A k \in 1..Len(queue') : queue'[k] = queue[k + 1] /\ k + 1 \in 1..Len(queue)
  OBVIOUS
<1>2. ASSUME NEW k \in 1..Len(queue), k # 1
      PROVE  k - 1 \in 1..Len(queue') /\ queue[k] = queue'[k - 1]
  BY <1>1, <1>2
<1>3. queue' # <<>> => Len(queue') # 0
  BY <1>1
<1>4. queue' = <<>> => Len(queue') = 0
  BY <1>1
<1> QED
  BY <1>1, <1>2, <1>3, <1>4

-----------------------------------------------------------------------------
(* ScheduleCalendar: the steps.                                            *)

\* The owner starts a request, from the calendar as it is.
LEMMA StartKeeps ==
    ASSUME CalInv, NEW a, Started(a), Enqueue(a),
           UNCHANGED <<table, list, popup, misread, switched>>,
           nextItem' \in {nextItem, nextItem + 1}, nextItem' \in 1..(MaxItems + 1),
           a.op = "add" => a.item < nextItem',
           isOpen', isOpen' \in BOOLEAN, loading' \in BOOLEAN,
           loading' => loading \/ a.op = "fetch",
           a.op # "fetch" => a.base = list /\ a.shown = popup.day,
           IF Submits(a) THEN form = "none" /\ form' = a.op ELSE form' = form
    PROVE  CalInv'
<1>1. queue \in Seq(Calls) /\ CalTypes /\ OneForm /\ PopupInv /\ CalendarInv
  BY DEF CalInv, CalTypes
<1>2. PICK n : n = Len(queue)
  OBVIOUS
<1>3. /\ queue' \in Seq(Calls) /\ Len(queue') = n + 1 /\ n \in Nat
      /\ \A k \in 1..n : queue'[k] = queue[k]
      /\ queue'[n + 1] = a
      /\ \A k \in 1..(n + 1) : k \in 1..n \/ k = n + 1
      /\ queue' # <<>>
      /\ stale' = (stale \/ queue # <<>>)
  BY <1>1, <1>2, QueueGrows
<1>4. nextItem \in Nat /\ nextItem <= nextItem'
  BY <1>1, CalendarAssumption DEF CalTypes
<1>5. CalTypes'
  <2>1. \A s \in nextItem'..MaxItems : table'[s] = NoDay
    BY <1>1, <1>4, CalendarAssumption DEF CalTypes
  <2>2. loading' => \E k \in 1..Len(queue') : queue'[k].op = "fetch"
    <3>1. \A k \in 1..n : k \in 1..(n + 1)
      BY <1>3
    <3>2. n + 1 \in 1..(n + 1)
      BY <1>3
    <3> QED
      BY <1>1, <1>2, <1>3, <3>1, <3>2 DEF CalTypes
  <2>3. ASSUME NEW k \in 1..(n + 1)
        PROVE  /\ queue'[k].at = "answer" => k = 1
               /\ queue'[k].at = "wait" => ~queue'[k].ok
               /\ queue'[k].item < nextItem' \/ queue'[k].op # "add"
    <3>1. CASE k \in 1..n
      <4>1. queue[k] \in Calls /\ queue[k].item \in Nat
        <5>1. queue[k] \in Calls
          BY <1>1, <1>2, <3>1
        <5>2. queue[k].item \in ItemIds
          BY <5>1 DEF Calls
        <5> QED
          BY <5>1, <5>2, CalendarAssumption DEF ItemIds
      <4> QED
        BY <1>1, <1>2, <1>3, <1>4, <3>1, <4>1, CalendarAssumption DEF CalTypes
    <3>2. CASE k = n + 1
      BY <1>3, <3>2 DEF Started
    <3> QED
      BY <1>3, <3>1, <3>2
  <2>4. stale' \in BOOLEAN
    BY <1>3
  <2> QED
    BY <1>1, <1>3, <2>1, <2>2, <2>3, <2>4 DEF CalTypes
<1>6. OneForm'
  <2>1. CASE Submits(a)
    <3>1. \A k \in 1..n : ~Submits(queue[k])
      BY <1>1, <1>2, <2>1 DEF OneForm, Submits
    <3>2. n + 1 \in 1..(n + 1)
      BY <1>3
    <3> QED
      BY <1>3, <2>1, <3>1, <3>2 DEF OneForm, Submits
  <2>2. CASE ~Submits(a)
    <3>1. \A k \in 1..n : k \in 1..(n + 1)
      BY <1>3
    <3> QED
      BY <1>1, <1>2, <1>3, <2>2, <3>1 DEF OneForm, Submits
  <2> QED
    BY <2>1, <2>2
<1>7. PopupInv'
  BY <1>1, <1>2, <1>3 DEF PopupInv, On
<1>8. CalendarInv'
  <2>1. CASE queue = <<>>
    <3>1. n = 0
      BY <1>2, <2>1
    <3>2. queue'[1] = a /\ stale' = stale /\ Len(queue') = 1
      BY <1>1, <1>3, <2>1, <3>1 DEF CalTypes
    <3> QED
      BY <1>1, <1>3, <2>1, <3>2 DEF CalendarInv, WillAgree, Started
  <2>2. CASE queue # <<>>
    <3>1. n # 0
      BY <1>1, <1>2, <2>2
    <3>2. queue'[1] = queue[1] /\ stale'
      <4>1. 1 \in 1..n
        BY <1>3, <3>1
      <4> QED
        BY <1>3, <2>2, <4>1
    <3> QED
      BY <1>3, <3>2 DEF CalendarInv, WillAgree
  <2> QED
    BY <2>1, <2>2
<1> QED
  BY <1>5, <1>6, <1>7, <1>8 DEF CalInv

\* OpenCalendar, AddSchedule, EditSchedule and ClickDelete.
LEMMA OwnerStarts ==
    ASSUME CalInv,
           \/ OpenCalendar
           \/ \E d \in Days : AddSchedule(d)
           \/ \E s \in ItemIds, d \in Days : EditSchedule(s, d)
           \/ \E s \in ItemIds : ClickDelete(s)
    PROVE  CalInv'
<1>1. CalTypes /\ nextItem \in 1..(MaxItems + 1) /\ isOpen \in BOOLEAN /\ loading \in BOOLEAN
  BY DEF CalInv, CalTypes
<1>2. CASE OpenCalendar
  <2>1. PICK a : a = Fetch
    OBVIOUS
  <2>2. Started(a) /\ a.op = "fetch"
    BY <1>1, <2>1, FetchStarts
  <2>3. /\ Enqueue(a) /\ isOpen' = TRUE /\ loading' = TRUE
        /\ UNCHANGED <<table, nextItem, list, popup, form, misread, switched>>
    BY <1>2, <2>1 DEF OpenCalendar
  <2> QED
    BY <1>1, <2>2, <2>3, StartKeeps DEF Submits
<1>3. ASSUME NEW d \in Days, AddSchedule(d) PROVE CalInv'
  <2>1. PICK a : a = Action("add", nextItem, d)
    OBVIOUS
  <2>2. /\ Enqueue(a) /\ isOpen /\ nextItem \in ItemIds /\ nextItem' = nextItem + 1
        /\ form = "none" /\ form' = "add"
        /\ UNCHANGED <<table, isOpen, loading, list, popup, misread, switched>>
    BY <1>3, <2>1 DEF AddSchedule
  <2>3. Started(a) /\ a.op = "add" /\ a.item = nextItem /\ a.base = list /\ a.shown = popup.day
    BY <1>1, <2>1, <2>2, ActionStarts, ListsIs DEF Ops
  <2>4. nextItem' \in 1..(MaxItems + 1) /\ nextItem < nextItem'
    BY <2>2, CalendarAssumption DEF ItemIds
  <2> QED
    BY <1>1, <2>2, <2>3, <2>4, StartKeeps DEF Submits
<1>4. ASSUME NEW s \in ItemIds, NEW d \in Days, EditSchedule(s, d) PROVE CalInv'
  <2>1. PICK a : a = Action("edit", s, d)
    OBVIOUS
  <2>2. /\ Enqueue(a) /\ isOpen /\ form = "none" /\ form' = "edit"
        /\ UNCHANGED <<table, nextItem, isOpen, loading, list, popup, misread, switched>>
    BY <1>4, <2>1 DEF EditSchedule
  <2>3. Started(a) /\ a.op = "edit" /\ a.base = list /\ a.shown = popup.day
    BY <1>1, <2>1, ActionStarts, ListsIs DEF Ops
  <2> QED
    BY <1>1, <2>2, <2>3, StartKeeps DEF Submits
<1>5. ASSUME NEW s \in ItemIds, ClickDelete(s) PROVE CalInv'
  <2>1. PICK a : a = Action("delete", s, NoDay)
    OBVIOUS
  <2>2. /\ Enqueue(a) /\ isOpen
        /\ UNCHANGED <<table, nextItem, isOpen, loading, list, popup, form, misread, switched>>
    BY <1>5, <2>1 DEF ClickDelete
  <2>3. Started(a) /\ a.op = "delete" /\ a.base = list /\ a.shown = popup.day
    BY <1>1, <2>1, ActionStarts, ListsIs DEF Ops
  <2> QED
    BY <1>1, <2>2, <2>3, StartKeeps DEF Submits
<1> QED
  BY <1>2, <1>3, <1>4, <1>5

\* The popup is opened, changed or taken away.
LEMMA PopupKeeps ==
    ASSUME CalInv, CloseCalendar \/ \E d \in Days : ClickDay(d)
    PROVE  CalInv'
<1>1. /\ UNCHANGED <<table, nextItem, loading, list, form, queue, stale, misread>>
      /\ CalTypes /\ OneForm /\ PopupInv /\ CalendarInv
  BY DEF CalInv, CloseCalendar, ClickDay
<1>2. OneForm' /\ CalendarInv'
  BY <1>1 DEF OneForm, CalendarInv, WillAgree, Effect
<1>3. CASE CloseCalendar
  <2>1. isOpen' = FALSE /\ popup' = NoPopup /\ switched' = FALSE
    BY <1>3 DEF CloseCalendar
  <2>2. popup' \in [day : CalDays, items : SUBSET ItemIds] /\ NoPopup' = NoPopup
    BY <2>1, ListsIs DEF NoPopup
  <2> QED
    BY <1>1, <1>2, <2>1, <2>2 DEF CalInv, CalTypes, PopupInv
<1>4. ASSUME NEW d \in Days, ClickDay(d) PROVE CalInv'
  <2>1. /\ isOpen /\ UNCHANGED isOpen /\ switched' = (queue # <<>>)
        /\ popup' = IF popup.day = d THEN NoPopup ELSE [day |-> d, items |-> On(list, d)]
    BY <1>4 DEF ClickDay
  <2>2. /\ popup' \in [day : CalDays, items : SUBSET ItemIds]
        /\ popup'.day = NoDay => popup' = NoPopup
        /\ popup' # NoPopup => popup'.items = On(list, popup'.day)
        /\ NoPopup' = NoPopup
    BY <2>1, ListsIs, CalendarAssumption DEF NoPopup, On
  <2>3. CalTypes'
    BY <1>1, <2>1, <2>2 DEF CalTypes
  <2>4. PopupInv'
    <3>1. queue = <<>> => \A k \in 1..Len(queue') : FALSE
      <4>1. queue = <<>> => Len(queue) = 0
        OBVIOUS
      <4> QED
        BY <1>1, <4>1
    <3>2. popup' # NoPopup => popup'.items = On(list', popup'.day)
      BY <1>1, <2>2
    <3> QED
      BY <2>1, <2>2, <3>1, <3>2 DEF PopupInv, On
  <2> QED
    BY <1>2, <2>3, <2>4 DEF CalInv
<1> QED
  BY <1>3, <1>4

\* The request at the head is performed, or fails, and its answer is on its way.
LEMMA AnswerKeeps ==
    ASSUME CalInv, queue # <<>>, queue[1].at = "wait", NEW b \in Calls,
           queue' = [queue EXCEPT ![1] = b],
           /\ b.op = queue[1].op /\ b.item = queue[1].item /\ b.day = queue[1].day
           /\ b.base = queue[1].base /\ b.shown = queue[1].shown /\ b.at = "answer",
           table' = table \/ (b.op # "fetch" /\ table' = Effect(b, table)),
           UNCHANGED <<nextItem, isOpen, loading, list, popup, form, stale, switched>>,
           misread' \in BOOLEAN,
           WillAgree(b)'
    PROVE  CalInv'
<1>1. queue \in Seq(Calls) /\ CalTypes /\ OneForm /\ PopupInv /\ CalendarInv
  BY DEF CalInv, CalTypes
<1>2. /\ queue' \in Seq(Calls) /\ Len(queue') = Len(queue) /\ Len(queue) \in Nat \ {0}
      /\ queue'[1] = b
      /\ \A k \in 1..Len(queue) : k # 1 => queue'[k] = queue[k]
      /\ queue' # <<>>
  BY <1>1, HeadChanges
<1>3. \A k \in 1..Len(queue) :
        /\ queue'[k].op = queue[k].op /\ queue'[k].item = queue[k].item
        /\ queue'[k].shown = queue[k].shown
        /\ k # 1 => queue'[k].at = queue[k].at /\ queue'[k].ok = queue[k].ok
  BY <1>2
<1>4. table' \in Lists /\ \A s \in nextItem..MaxItems : table'[s] = NoDay
  <2>1. CASE UNCHANGED table
    BY <1>1, <2>1 DEF CalTypes
  <2>2. CASE table' = Effect(b, table)
    <3>1. 1 \in 1..Len(queue) /\ table \in Lists /\ \A s \in nextItem..MaxItems : table[s] = NoDay
      BY <1>1, <1>2 DEF CalTypes
    <3>2. b.item \in ItemIds /\ (b.item < nextItem \/ b.op # "add")
      BY <1>1, <3>1 DEF CalTypes, Calls
    <3>3. \A s \in nextItem..MaxItems : s \in ItemIds
      BY <1>1, CalendarAssumption DEF CalTypes, ItemIds
    <3>4. ASSUME NEW s \in nextItem..MaxItems PROVE table'[s] = NoDay
      <4>1. CASE s # b.item
        BY <2>2, <3>1, <3>3, <4>1, EffectIs
      <4>2. CASE s = b.item
        <5>1. b.op # "add" /\ table[s] = NoDay
          BY <1>1, <3>1, <3>2, <4>2, CalendarAssumption DEF CalTypes, ItemIds
        <5> QED
          BY <2>2, <3>1, <4>2, <5>1, EffectIs
      <4> QED
        BY <4>1, <4>2
    <3> QED
      BY <2>2, <3>1, <3>4, EffectIs
  <2> QED
    BY <2>1, <2>2
<1>5. CalTypes'
  <2>1. \A k \in 1..Len(queue') :
          /\ queue'[k].at = "answer" => k = 1
          /\ queue'[k].at = "wait" => ~queue'[k].ok
          /\ queue'[k].item < nextItem \/ queue'[k].op # "add"
    BY <1>1, <1>2, <1>3 DEF CalTypes
  <2>2. loading => \E k \in 1..Len(queue') : queue'[k].op = "fetch"
    BY <1>1, <1>2, <1>3 DEF CalTypes
  <2> QED
    BY <1>1, <1>2, <1>4, <2>1, <2>2 DEF CalTypes, NoPopup
<1>6. OneForm'
  BY <1>1, <1>2, <1>3 DEF OneForm, Submits
<1>7. PopupInv'
  BY <1>1, <1>2, <1>3 DEF PopupInv, On, NoPopup
<1>8. CalendarInv'
  BY <1>1, <1>2 DEF CalendarInv
<1> QED
  BY <1>5, <1>6, <1>7, <1>8 DEF CalInv

LEMMA HeadCall ==
    ASSUME CalInv, queue # <<>>
    PROVE  /\ queue \in Seq(Calls) /\ Head(queue) = queue[1] /\ queue[1] \in Calls
           /\ 1 \in 1..Len(queue) /\ WillAgree(queue[1])
           /\ queue[1].at = "wait" => ~queue[1].ok
           /\ table \in Lists /\ list \in Lists
<1>1. queue \in Seq(Calls)
  BY DEF CalInv, CalTypes
<1>2. Head(queue) = queue[1] /\ queue[1] \in Calls /\ 1 \in 1..Len(queue)
  BY <1>1
<1> QED
  BY <1>1, <1>2 DEF CalInv, CalTypes, CalendarInv

LEMMA PerformKeeps == ASSUME CalInv, Perform PROVE CalInv'
<1>1. PICK a : a = queue[1]
  OBVIOUS
<1>2. /\ queue # <<>> /\ Head(queue) = a /\ a \in Calls /\ a.at = "wait" /\ ~a.ok
      /\ queue \in Seq(Calls) /\ 1 \in DOMAIN queue
      /\ table \in Lists /\ WillAgree(a)
      /\ UNCHANGED <<nextItem, isOpen, loading, list, popup, form, stale, misread, switched>>
  BY <1>1, HeadCall DEF Perform
<1>3. misread' \in BOOLEAN
  BY <1>2 DEF CalInv, CalTypes
<1>4. CASE a.op = "fetch"
  <2>1. PICK b : b = [a EXCEPT !.at = "answer", !.ok = TRUE, !.got = table]
    OBVIOUS
  <2>2. /\ b \in Calls /\ b.op = a.op /\ b.item = a.item /\ b.day = a.day /\ b.base = a.base
        /\ b.shown = a.shown /\ b.at = "answer" /\ b.ok = TRUE /\ b.got = table
    BY <1>2, <2>1 DEF Calls
  <2>3. queue' = [queue EXCEPT ![1] = b] /\ UNCHANGED table
    BY <1>1, <1>2, <1>4, <2>1 DEF Perform
  <2>4. WillAgree(b)'
    BY <1>4, <2>2, <2>3 DEF WillAgree
  <2> QED
    BY <1>1, <1>2, <1>3, <2>2, <2>3, <2>4, AnswerKeeps
<1>5. CASE a.op # "fetch"
  <2>1. PICK ok : ok = (a.op = "add" \/ table[a.item] # NoDay)
    OBVIOUS
  <2>2. PICK b : b = [a EXCEPT !.at = "answer", !.ok = ok]
    OBVIOUS
  <2>3. /\ b \in Calls /\ b.op = a.op /\ b.item = a.item /\ b.day = a.day /\ b.base = a.base
        /\ b.shown = a.shown /\ b.at = "answer" /\ b.ok = ok
    BY <1>2, <2>1, <2>2 DEF Calls
  <2>4. queue' = [queue EXCEPT ![1] = b] /\ table' = Effect(a, table)
    BY <1>1, <1>2, <1>5, <2>1, <2>2 DEF Perform
  <2>5. \A l : Effect(b, l) = Effect(a, l)
    BY <2>3 DEF Effect
  <2>6. WillAgree(b)'
    <3> SUFFICES ASSUME ~stale, ~misread
                 PROVE  IF ok THEN table' = Effect(b, b.base) ELSE list = table'
      BY <1>2, <1>5, <2>3 DEF WillAgree, Effect
    <3>1. list = table /\ a.base = list
      BY <1>2, <1>5 DEF WillAgree
    <3>2. ~ok => table' = table
      BY <1>2, <2>1, <2>4, EffectIs
    <3> QED
      BY <2>1, <2>3, <2>4, <2>5, <3>1, <3>2
  <2> QED
    BY <1>1, <1>2, <1>3, <1>5, <2>3, <2>4, <2>5, <2>6, AnswerKeeps
<1> QED
  BY <1>4, <1>5

LEMMA PerformFailsKeeps == ASSUME CalInv, PerformFails PROVE CalInv'
<1>1. PICK a : a = queue[1]
  OBVIOUS
<1>2. /\ queue # <<>> /\ Head(queue) = a /\ a \in Calls /\ a.at = "wait" /\ ~a.ok
      /\ queue \in Seq(Calls) /\ 1 \in DOMAIN queue
      /\ table \in Lists /\ WillAgree(a)
      /\ UNCHANGED <<nextItem, isOpen, loading, list, popup, form, stale, switched>>
  BY <1>1, HeadCall DEF PerformFails
<1>3. PICK b : b = [a EXCEPT !.at = "answer"]
  OBVIOUS
<1>4. /\ b \in Calls /\ b.op = a.op /\ b.item = a.item /\ b.day = a.day /\ b.base = a.base
      /\ b.shown = a.shown /\ b.at = "answer" /\ b.ok = a.ok
  BY <1>2, <1>3 DEF Calls
<1>5. queue' = [queue EXCEPT ![1] = b]
  BY <1>1, <1>2, <1>3 DEF PerformFails
<1>6. \/ UNCHANGED <<table, misread>>
      \/ a.op # "fetch" /\ table' = Effect(a, table) /\ misread' = TRUE
  BY <1>2 DEF PerformFails
<1>7. Effect(b, table) = Effect(a, table)
  BY <1>4 DEF Effect
<1>8. misread' \in BOOLEAN
  BY <1>6 DEF CalInv, CalTypes
<1>9. WillAgree(b)'
  BY <1>2, <1>4, <1>6 DEF WillAgree
<1> QED
  BY <1>1, <1>2, <1>4, <1>5, <1>6, <1>7, <1>8, <1>9, AnswerKeeps

\* The answer is in, and the next request has its turn.
LEMMA OverKeeps ==
    ASSUME CalInv, queue # <<>>, NEW a, a = queue[1], a.at = "answer", Answered(a),
           list' \in Lists, loading' \in BOOLEAN,
           stale' \in BOOLEAN, misread' \in BOOLEAN, switched' \in BOOLEAN,
           loading' => loading /\ a.op # "fetch",
           Len(queue) > 1 => stale' = stale,
           popup' \in [day : CalDays, items : SUBSET ItemIds],
           popup' = NoPopup <=> popup = NoPopup, popup'.day = popup.day,
           popup # NoPopup /\ ~switched' =>
             /\ ~switched
             /\ popup.items = On(list, popup.day) /\ (a.op # "fetch" => a.shown = popup.day)
                  => popup'.items = On(list', popup.day),
           Len(queue) = 1 => list' = table \/ stale' \/ misread'
    PROVE  CalInv'
<1>1. queue \in Seq(Calls) /\ CalTypes /\ OneForm /\ PopupInv /\ CalendarInv
  BY DEF CalInv, CalTypes
<1>2. /\ queue' = Tail(queue) /\ UNCHANGED <<table, nextItem, isOpen>>
      /\ form' = IF (a.op = "add" /\ form = "add") \/ (a.op = "edit" /\ form = "edit")
                 THEN "none" ELSE form
  BY DEF Answered
<1>3. /\ queue' \in Seq(Calls) /\ Len(queue') = Len(queue) - 1 /\ Len(queue) \in Nat \ {0}
      /\ \A k \in 1..Len(queue') : queue'[k] = queue[k + 1] /\ k + 1 \in 1..Len(queue)
      /\ \A k \in 1..Len(queue) : k # 1 => k - 1 \in 1..Len(queue') /\ queue[k] = queue'[k - 1]
      /\ queue' # <<>> => Len(queue) > 1
      /\ queue' = <<>> => Len(queue) = 1
  BY <1>1, <1>2, HeadGoes
<1>4. 1 \in 1..Len(queue) /\ \A k \in 1..Len(queue') : k \in Nat \ {0} /\ k + 1 # 1
  BY <1>3
<1>5. \A k \in 1..Len(queue') : queue'[k].at = "wait" /\ ~queue'[k].ok
  <2> SUFFICES ASSUME NEW k \in 1..Len(queue') PROVE queue'[k].at = "wait" /\ ~queue'[k].ok
    OBVIOUS
  <2>1. queue'[k] = queue[k + 1] /\ k + 1 \in 1..Len(queue) /\ k + 1 # 1
    BY <1>3, <1>4
  <2>2. queue[k + 1] \in Calls
    BY <1>1, <2>1
  <2>3. queue[k + 1].at \in {"wait", "answer"}
    BY <2>2 DEF Calls
  <2> QED
    BY <1>1, <2>1, <2>3 DEF CalTypes
<1>6. CalTypes'
  <2>1. loading' => \E k \in 1..Len(queue') : queue'[k].op = "fetch"
    <3> SUFFICES ASSUME loading' PROVE \E k \in 1..Len(queue') : queue'[k].op = "fetch"
      OBVIOUS
    <3>1. PICK k \in 1..Len(queue) : queue[k].op = "fetch"
      BY <1>1 DEF CalTypes
    <3>2. k # 1
      BY <3>1
    <3> QED
      BY <1>3, <3>1, <3>2
  <2>2. \A k \in 1..Len(queue') :
          /\ queue'[k].at = "answer" => k = 1
          /\ queue'[k].at = "wait" => ~queue'[k].ok
          /\ queue'[k].item < nextItem \/ queue'[k].op # "add"
    BY <1>1, <1>3, <1>5 DEF CalTypes
  <2>3. popup'.day = NoDay => popup' = NoPopup
    BY <1>1 DEF CalTypes
  <2> QED
    BY <1>1, <1>2, <1>3, <2>1, <2>2, <2>3 DEF CalTypes, NoPopup
<1>7. OneForm'
  <2>1. \A j, k \in 1..Len(queue') : Submits(queue'[j]) /\ Submits(queue'[k]) => j = k
    <3> SUFFICES ASSUME NEW j \in 1..Len(queue'), NEW k \in 1..Len(queue'),
                        Submits(queue'[j]), Submits(queue'[k])
                 PROVE  j = k
      OBVIOUS
    <3>1. j + 1 = k + 1
      BY <1>1, <1>3 DEF OneForm, Submits
    <3> QED
      BY <1>4, <3>1
  <2>2. \A k \in 1..Len(queue') : Submits(queue'[k]) => queue'[k].op = form /\ ~Submits(a)
    BY <1>1, <1>3, <1>4 DEF OneForm, Submits
  <2>3. ~Submits(a) => form' = form
    BY <1>2 DEF Submits
  <2>4. form' # "none" => form' = form /\ a.op # form
    BY <1>1, <1>2 DEF OneForm
  <2>5. form' # "none" => \E k \in 1..Len(queue') : queue'[k].op = form'
    <3> SUFFICES ASSUME form' # "none" PROVE \E k \in 1..Len(queue') : queue'[k].op = form'
      OBVIOUS
    <3>1. PICK k \in 1..Len(queue) : queue[k].op = form
      BY <1>1, <2>4 DEF OneForm
    <3>2. k # 1
      BY <2>4, <3>1
    <3> QED
      BY <1>3, <2>4, <3>1, <3>2
  <2>6. form' \in {"none", "add", "edit"}
    BY <1>1, <1>2 DEF OneForm
  <2> QED
    BY <2>1, <2>2, <2>3, <2>5, <2>6 DEF OneForm, Submits
<1>8. PopupInv'
  <2> SUFFICES ASSUME popup' # NoPopup, ~switched'
               PROVE  /\ popup'.items = On(list', popup'.day)
                      /\ \A k \in 1..Len(queue') :
                           queue'[k].op # "fetch" => queue'[k].shown = popup'.day
    BY DEF PopupInv, On, NoPopup
  <2>1. /\ popup # NoPopup /\ ~switched /\ popup.items = On(list, popup.day)
        /\ \A k \in 1..Len(queue) : queue[k].op # "fetch" => queue[k].shown = popup.day
    BY <1>1 DEF PopupInv
  <2>2. a.op # "fetch" => a.shown = popup.day
    BY <1>4, <2>1
  <2> QED
    BY <1>3, <2>1, <2>2
<1>9. CalendarInv'
  <2>1. CASE queue' = <<>>
    <3>1. Len(queue) = 1 /\ Len(queue') = 0
      BY <1>3, <2>1
    <3> QED
      BY <1>2, <2>1, <3>1 DEF CalendarInv
  <2>2. CASE queue' # <<>>
    <3>1. stale'
      BY <1>1, <1>3, <2>2 DEF CalendarInv
    <3>2. 1 \in 1..Len(queue')
      BY <1>3, <2>2
    <3> QED
      BY <1>5, <2>2, <3>1, <3>2 DEF CalendarInv, WillAgree
  <2> QED
    BY <2>1, <2>2
<1> QED
  BY <1>6, <1>7, <1>8, <1>9 DEF CalInv

LEMMA FetchAnswerKeeps == ASSUME CalInv, FetchAnswer PROVE CalInv'
<1>1. PICK a : a = queue[1]
  OBVIOUS
<1>2. queue # <<>> /\ Head(queue) = queue[1]
  BY HeadCall DEF FetchAnswer
<1>3. /\ a.at = "answer" /\ a.op = "fetch" /\ Answered(a) /\ UNCHANGED popup
      /\ list' = a.got /\ loading' = FALSE
      /\ stale' = (IF Len(queue) = 1 THEN a.got # table /\ stale ELSE stale)
      /\ misread' = (~a.ok \/ (misread /\ Len(queue) > 1))
      /\ switched' = (switched \/ popup # NoPopup)
  BY <1>1, <1>2 DEF FetchAnswer
<1>4. /\ queue \in Seq(Calls) /\ a \in Calls /\ WillAgree(a)
      /\ a.got \in Lists /\ a.ok \in BOOLEAN
  BY <1>1, <1>2, HeadCall DEF Calls
<1>5. /\ stale \in BOOLEAN /\ misread \in BOOLEAN /\ switched \in BOOLEAN
      /\ popup \in [day : CalDays, items : SUBSET ItemIds]
  BY DEF CalInv, CalTypes
<1>6. stale' \in BOOLEAN /\ misread' \in BOOLEAN /\ switched' \in BOOLEAN
  BY <1>3, <1>4, <1>5
<1>7. NoPopup' = NoPopup
  BY DEF NoPopup
<1>8. Len(queue) > 1 => stale' = stale
  <2>1. Len(queue) > 1 => Len(queue) # 1
    <3>1. Len(queue) \in Nat
      BY <1>4
    <3>2. \A n \in Nat : n > 1 => n # 1
      OBVIOUS
    <3> QED
      BY <3>1, <3>2, Zenon
  <2> QED
    BY <1>3, <2>1, Zenon
<1>9. Len(queue) = 1 => list' = table \/ stale' \/ misread'
  BY <1>3, <1>4 DEF WillAgree
<1>10. popup # NoPopup => switched'
  BY <1>3
<1> QED
  BY <1>1, <1>2, <1>3, <1>4, <1>5, <1>6, <1>7, <1>8, <1>9, <1>10, OverKeeps

LEMMA ChangeAnswerKeeps == ASSUME CalInv, ChangeAnswer PROVE CalInv'
<1>1. PICK a : a = queue[1]
  OBVIOUS
<1>2. queue # <<>> /\ Head(queue) = queue[1]
  BY HeadCall DEF ChangeAnswer
<1>3. PICK l : l = Effect(a, a.base)
  OBVIOUS
<1>4. /\ a.at = "answer" /\ a.op # "fetch" /\ Answered(a)
      /\ list' = IF a.ok THEN l ELSE list
      /\ IF a.ok THEN SyncSelectedDay(a, l) ELSE UNCHANGED popup
      /\ UNCHANGED <<loading, stale, misread, switched>>
  BY <1>1, <1>2, <1>3 DEF ChangeAnswer
<1>5. /\ queue \in Seq(Calls) /\ a \in Calls /\ WillAgree(a) /\ list \in Lists
      /\ a.base \in Lists /\ a.shown \in CalDays
  BY <1>1, <1>2, HeadCall DEF Calls
<1>6. l \in Lists
  BY <1>3, <1>5, EffectIs
<1>7. /\ stale \in BOOLEAN /\ misread \in BOOLEAN /\ switched \in BOOLEAN /\ loading \in BOOLEAN
      /\ popup \in [day : CalDays, items : SUBSET ItemIds]
      /\ popup.day = NoDay => popup = NoPopup
  BY DEF CalInv, CalTypes
<1>8. NoPopup' = NoPopup /\ NoPopup.day = NoDay
  BY DEF NoPopup
<1>9. UNCHANGED popup
      \/ /\ a.ok /\ popup # NoPopup /\ a.shown # NoDay
         /\ popup' = [popup EXCEPT !.items = On(l, a.shown)]
  BY <1>4 DEF SyncSelectedDay
<1>10. On(l, a.shown) \in SUBSET ItemIds
  BY DEF On
<1>11. /\ popup' \in [day : CalDays, items : SUBSET ItemIds]
       /\ popup'.day = popup.day
  BY <1>7, <1>9, <1>10
<1>12. popup' = NoPopup <=> popup = NoPopup
  BY <1>7, <1>8, <1>9, <1>11
<1>13. ASSUME popup # NoPopup, popup.items = On(list, popup.day), a.shown = popup.day
       PROVE  popup'.items = On(list', popup.day)
  <2>1. CASE a.ok
    <3>1. a.shown # NoDay
      BY <1>7, <1>13
    <3>2. popup' = [popup EXCEPT !.items = On(l, a.shown)]
      BY <1>4, <1>13, <2>1, <3>1 DEF SyncSelectedDay
    <3>3. popup'.items = On(l, a.shown)
      BY <1>7, <3>2
    <3> QED
      BY <1>4, <1>13, <2>1, <3>3
  <2>2. CASE ~a.ok
    BY <1>4, <1>13, <2>2
  <2> QED
    BY <2>1, <2>2
<1>14. list' = table \/ stale' \/ misread'
  BY <1>3, <1>4, <1>5 DEF WillAgree
<1>15. list' \in Lists
  BY <1>4, <1>5, <1>6
<1> QED
  BY <1>1, <1>2, <1>4, <1>7, <1>8, <1>11, <1>12, <1>13, <1>14, <1>15, OverKeeps

LEMMA OutsideKeeps ==
    ASSUME CalInv, NEW s \in ItemIds, NEW d \in Days \cup {NoDay}, OutsideWrite(s, d)
    PROVE  CalInv'
<1>1. /\ CalTypes /\ OneForm /\ PopupInv /\ CalendarInv
      /\ UNCHANGED <<isOpen, loading, list, popup, form, queue, misread, switched>>
      /\ table' = [table EXCEPT ![s] = d] /\ stale' = TRUE
      /\ \/ table[s] # NoDay /\ UNCHANGED nextItem
         \/ s = nextItem /\ nextItem' = nextItem + 1
  BY DEF CalInv, OutsideWrite
<1>2. nextItem \in Nat \ {0} /\ nextItem \in 1..(MaxItems + 1)
  BY <1>1, CalendarAssumption DEF CalTypes
<1>3. nextItem' \in 1..(MaxItems + 1) /\ nextItem <= nextItem'
  BY <1>1, <1>2, CalendarAssumption DEF ItemIds
<1>4. \A x \in nextItem'..MaxItems : x \in nextItem..MaxItems /\ x \in ItemIds
  BY <1>2, <1>3, CalendarAssumption DEF ItemIds
<1>5. table' \in Lists
  BY <1>1, ListsIs DEF CalTypes, CalDays
<1>6. \A x \in nextItem'..MaxItems : table'[x] = NoDay
  <2> SUFFICES ASSUME NEW x \in nextItem'..MaxItems PROVE table'[x] = NoDay
    OBVIOUS
  <2>1. table[x] = NoDay /\ x \in ItemIds
    BY <1>1, <1>4 DEF CalTypes
  <2>2. x # s
    BY <1>1, <1>2, <2>1, CalendarAssumption
  <2> QED
    BY <1>1, <2>1, <2>2 DEF CalTypes, Lists
<1>7. \A k \in 1..Len(queue) : queue[k].item < nextItem' \/ queue[k].op # "add"
  <2> SUFFICES ASSUME NEW k \in 1..Len(queue), queue[k].op = "add"
               PROVE  queue[k].item < nextItem'
    OBVIOUS
  <2>1. queue[k] \in Calls
    BY <1>1 DEF CalTypes
  <2>2. queue[k].item \in Nat
    BY <2>1, CalendarAssumption DEF Calls, ItemIds
  <2>3. queue[k].item < nextItem
    BY <1>1 DEF CalTypes
  <2> QED
    BY <1>2, <1>3, <2>2, <2>3
<1>8. CalTypes'
  BY <1>1, <1>3, <1>5, <1>6, <1>7 DEF CalTypes, NoPopup
<1>9. OneForm' /\ PopupInv'
  BY <1>1 DEF OneForm, Submits, PopupInv, On, NoPopup
<1>10. CalendarInv'
  <2>1. queue # <<>> => WillAgree(queue[1])'
    BY <1>1 DEF CalendarInv, WillAgree
  <2> QED
    BY <1>1, <2>1 DEF CalendarInv
<1> QED
  BY <1>8, <1>9, <1>10 DEF CalInv

LEMMA CalStarts == CalInit => CalInv
<1> SUFFICES ASSUME CalInit PROVE CalInv
  OBVIOUS
<1>1. /\ queue = <<>> /\ queue \in Seq(Calls) /\ Len(queue) = 0
      /\ \A k \in 1..Len(queue) : FALSE
  BY DEF CalInit
<1>2. NoPopup \in [day : CalDays, items : SUBSET ItemIds] /\ NoPopup.day = NoDay
  BY ListsIs DEF NoPopup
<1>3. \A s \in 1..MaxItems : Empty[s] = NoDay
  BY DEF Empty, ItemIds
<1>4. CalTypes
  <2>1. 1 \in 1..(MaxItems + 1)
    BY CalendarAssumption
  <2>2. popup = NoPopup /\ table = Empty /\ list = Empty /\ nextItem = 1 /\ ~loading
    BY DEF CalInit
  <2>3. {isOpen, loading, stale, misread, switched} \subseteq BOOLEAN
    BY DEF CalInit
  <2> QED
    BY <1>1, <1>2, <1>3, <2>1, <2>2, <2>3, ListsIs DEF CalTypes
<1>5. OneForm
  BY <1>1 DEF CalInit, OneForm
<1>6. PopupInv /\ CalendarInv
  BY <1>1 DEF CalInit, PopupInv, CalendarInv
<1> QED
  BY <1>4, <1>5, <1>6 DEF CalInv

LEMMA CalStep == ASSUME CalInv, [CalNext]_calVars PROVE CalInv'
<1>1. CASE \/ OpenCalendar
           \/ \E d \in Days : AddSchedule(d)
           \/ \E s \in ItemIds, d \in Days : EditSchedule(s, d)
           \/ \E s \in ItemIds : ClickDelete(s)
  BY <1>1, OwnerStarts
<1>2. CASE CloseCalendar \/ \E d \in Days : ClickDay(d)
  BY <1>2, PopupKeeps
<1>3. CASE Perform \/ PerformFails
  BY <1>3, PerformKeeps, PerformFailsKeeps
<1>4. CASE FetchAnswer \/ ChangeAnswer
  BY <1>4, FetchAnswerKeeps, ChangeAnswerKeeps
<1>5. CASE \E s \in ItemIds, d \in Days \cup {NoDay} : OutsideWrite(s, d)
  BY <1>5, OutsideKeeps
<1>6. CASE UNCHANGED calVars
  BY <1>6 DEF calVars, CalInv, CalTypes, OneForm, Submits, PopupInv, On, NoPopup, CalendarInv,
              WillAgree, Effect
<1> QED
  BY <1>1, <1>2, <1>3, <1>4, <1>5, <1>6 DEF CalNext

LEMMA CalAlways == CalSpec => []CalInv
<1>1. CalInv /\ [CalNext]_calVars => CalInv'
  BY CalStep
<1> QED
  BY CalStarts, <1>1, PTL DEF CalSpec

\* The forms under way are counted.
LEMMA OneFormCounts ==
    ASSUME OneForm
    PROVE  Cardinality({k \in 1..Len(queue) : queue[k].op \in {"add", "edit"}}) =
             IF form = "none" THEN 0 ELSE 1
<1> DEFINE F == {k \in 1..Len(queue) : queue[k].op \in {"add", "edit"}}
<1>1. CASE form = "none"
  <2>1. F = {}
    BY <1>1 DEF OneForm, Submits
  <2> QED
    BY <1>1, <2>1, FS_EmptySet
<1>2. CASE form # "none"
  <2>1. PICK k \in 1..Len(queue) : queue[k].op = form
    BY <1>2 DEF OneForm
  <2>2. F = {k}
    BY <1>2, <2>1 DEF OneForm, Submits
  <2>3. Cardinality(F) = 1
    BY <2>2, FS_Singleton
  <2> QED
    BY <1>2, <2>3
<1> QED
  BY <1>1, <1>2

\* The calendar's state has its types, whatever overlaps or fails: a popup is open only
\* in an open calendar, the days are hidden only while a fetch is under way, only the
\* request whose turn it is has an answer, and one form at most is being submitted.
THEOREM CalTypeCorrect == CalSpec => []CalTypeOK
<1>1. CalInv => CalTypeOK
  <2> SUFFICES ASSUME CalInv PROVE CalTypeOK
    OBVIOUS
  <2>1. CalTypes /\ OneForm /\ queue \in Seq(Calls)
    BY DEF CalInv, CalTypes
  <2>2. ASSUME NEW k \in 2..Len(queue) PROVE queue[k].at = "wait"
    <3>1. k \in 1..Len(queue) /\ k # 1
      BY <2>1
    <3>2. queue[k] \in Calls
      BY <2>1, <3>1
    <3> QED
      BY <2>1, <3>1, <3>2 DEF CalTypes, Calls
  <2>3. \A k \in 1..Len(queue) : queue[k] \in Calls
    BY <2>1
  <2> QED
    BY <2>1, <2>2, <2>3, OneFormCounts DEF CalTypes, CalTypeOK, Calls, Ops, CalDays
<1> QED
  BY <1>1, CalAlways, PTL

\* Whatever the owner clicks, and however requests fail or overlap, an open popup with
\* nothing under way lists the schedules that the calendar has on its day, unless the
\* day was clicked or the list fetched while a request was under way: setSelectedDay
\* takes the day of the closure, and every other path hands it the day on the screen.
THEOREM PopupShowsItsDay == CalSpec => []PopupAgrees
<1>1. CalInv => PopupAgrees
  BY DEF CalInv, PopupInv, PopupAgrees
<1> QED
  BY <1>1, CalAlways, PTL

\* With nothing under way the calendar's list is the table's, unless since the last good
\* fetch requests overlapped or somebody else wrote (stale), or an answer was lost
\* (misread): the only ways for the list kept by the closures to go wrong.
THEOREM CalendarShowsTable == CalSpec => []CalendarAgrees
<1>1. CalInv => CalendarAgrees
  BY DEF CalInv, CalendarInv, CalendarAgrees
<1> QED
  BY <1>1, CalAlways, PTL

=============================================================================
