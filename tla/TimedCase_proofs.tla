-------------------------- MODULE TimedCase_proofs --------------------------
(***************************************************************************)
(* Proofs about the retry schedule and the timed case: every slot that may *)
(* be selected is legal for every clock, calendar and configuration, and   *)
(* the first retry of a case keeps its slot.                               *)
(***************************************************************************)
EXTENDS TimedCase, CaseMachine_proofs, FiniteSetTheorems,
        SequenceTheorems, TLAPS

-----------------------------------------------------------------------------
(* Extremes of finite sets of integers *)

\* Min, by which windows and spacings are picked, is the least element.
LEMMA LeastElement ==
    ASSUME NEW S \in SUBSET Int, IsFiniteSet(S), S # {}
    PROVE  Min(S) \in S /\ \A y \in S : Min(S) <= y
  <1> DEFINE upTo(x) == {y \in S : y <= x}
             initial == {upTo(x) : x \in S}
  <1>1. initial \subseteq FiniteSubsetsOf(S)
    <2>1. ASSUME NEW x \in S PROVE upTo(x) \in FiniteSubsetsOf(S)
      <3>1. upTo(x) \subseteq S
        OBVIOUS
      <3>2. IsFiniteSet(upTo(x))
        BY <3>1, FS_Subset
      <3> QED BY <3>1, <3>2 DEF FiniteSubsetsOf
    <2> QED BY <2>1
  <1>2. initial # {}
    OBVIOUS
  <1> HIDE DEF initial
  <1>3. PICK T \in initial : \A U \in initial : <<U, T>> \notin StrictSubsetOrdering(S)
    BY <1>1, <1>2, FS_StrictSubsetOrderingWellFounded, WFMin
  <1>4. PICK x \in S : T = upTo(x)
    BY DEF initial
  <1>5. ASSUME NEW y \in S PROVE x <= y
    <2>1. SUFFICES ASSUME y < x PROVE FALSE
      OBVIOUS
    <2>2. /\ upTo(y) \subseteq upTo(x)
          /\ x \in upTo(x) /\ x \notin upTo(y)
      <3>1. x \in Int /\ y \in Int /\ \A z \in S : z \in Int
        OBVIOUS
      <3>2. \A z \in S : z <= y => z <= x
        BY <2>1, <3>1
      <3>3. ~(x <= y)
        BY <2>1, <3>1
      <3>4. x <= x
        BY <3>1
      <3> QED BY <3>2, <3>3, <3>4, Zenon
    <2>3. /\ upTo(y) \in SUBSET S /\ upTo(x) \in SUBSET S
          /\ upTo(y) # upTo(x)
      BY <2>2
    <2> HIDE DEF upTo
    <2>4. <<upTo(y), upTo(x)>> \in StrictSubsetOrdering(S)
      BY <2>2, <2>3 DEF StrictSubsetOrdering
    <2>5. upTo(y) \in initial
      BY DEF initial
    <2> QED BY <1>3, <1>4, <2>4, <2>5
  <1> QED BY <1>5 DEF Min

\* Max, by which the last event before an entry is found, is the greatest element.
LEMMA GreatestPosition ==
    ASSUME NEW n \in Nat, NEW S \in SUBSET (1..n), S # {}
    PROVE  Max(S) \in S /\ \A y \in S : y <= Max(S)
  <1> DEFINE mirror == {n - x : x \in S}
  <1>1. mirror \subseteq 0..n /\ mirror # {}
    <2>1. \A x \in S : n - x \in 0..n
      OBVIOUS
    <2> QED BY <2>1, Zenon
  <1>2. IsFiniteSet(mirror)
    <2>1. IsFiniteSet(0..n)
      BY FS_Interval
    <2> HIDE DEF mirror
    <2> QED BY <1>1, <2>1, FS_Subset
  <1>3. mirror \in SUBSET Int
    BY <1>1
  <1>4. PICK m \in mirror : \A y \in mirror : m <= y
    <2> HIDE DEF mirror
    <2> QED BY <1>1, <1>2, <1>3, LeastElement
  <1>5. PICK x \in S : m = n - x
    OBVIOUS
  <1>6. ASSUME NEW y \in S PROVE x >= y
    <2>1. n - y \in mirror
      OBVIOUS
    <2> HIDE DEF mirror
    <2> QED BY <1>4, <1>5, <2>1
  <1>7. x \in S /\ \A y \in S : x >= y
    BY <1>6
  <1>8. Max(S) \in S /\ \A y \in S : Max(S) >= y
    BY <1>7, Zenon DEF Max
  <1> QED BY <1>8

\* The two cases that need no finiteness: pairs, and a known extreme.
LEMMA PairExtremes ==
    ASSUME NEW a \in Int, NEW b \in Int
    PROVE  /\ Max({a, b}) \in {a, b} /\ Max({a, b}) >= a /\ Max({a, b}) >= b
           /\ Min({a, b}) \in {a, b} /\ Min({a, b}) <= a /\ Min({a, b}) <= b
  BY DEF Max, Min

LEMMA KnownMax ==
    ASSUME NEW S \in SUBSET Int, NEW m \in S, \A y \in S : y <= m
    PROVE  Max(S) = m
  <1>1. m \in S /\ \A y \in S : m >= y
    OBVIOUS
  <1>2. Max(S) \in S /\ \A y \in S : Max(S) >= y
    BY <1>1, Zenon DEF Max
  <1>3. Max(S) \in Int /\ Max(S) <= m /\ m <= Max(S)
    BY <1>2
  <1> QED BY <1>3

-----------------------------------------------------------------------------
(* Slots *)

\* The arithmetic of datetime.replace: the day of a with the time of day e.
LEMMA SameDay ==
    ASSUME NEW a \in Int, NEW d \in Int, d > 0, NEW e \in 0..d - 1
    PROVE  (a - (a % d) + e) % d = e
  <1> DEFINE q == a \div d
             r == a % d
  <1>1. q \in Int /\ r \in Int /\ a = (d * q) + r
    OBVIOUS
  <1>2. ((d * q) + e) % d = e
    <2> HIDE DEF q
    <2> QED BY <1>1
  <1>3. a - r + e = (d * q) + e
    <2>1. d * q \in Int
      BY <1>1
    <2> HIDE DEF q, r
    <2> QED BY <1>1, <2>1
  <1> QED BY <1>2, <1>3

\* An instant moved to the end of its window comes later, on the same day, at
\* the time of day the window ends.
LEMMA MovedToEnd ==
    ASSUME NEW t \in Int, NEW e \in 0..Day - 1
    PROVE  /\ TimeOfDay(t) \in 0..Day - 1
           /\ t - TimeOfDay(t) + e \in Int
           /\ TimeOfDay(t - TimeOfDay(t) + e) = e
  <1>1. Day \in Int /\ Day > 0 /\ IstOffset \in Int
    BY ScheduleAssumption DEF Loadable
  <1> DEFINE a == t + IstOffset
  <1>2. a \in Int
    BY <1>1
  <1>3. a % Day \in 0..Day - 1
    BY <1>1, <1>2
  <1>4. (a - (a % Day) + e) % Day = e
    <2> HIDE DEF a
    <2> QED BY <1>1, <1>2, SameDay
  <1>5. (t - (a % Day) + e) + IstOffset = a - (a % Day) + e
    BY <1>1, <1>3
  <1> QED BY <1>3, <1>4, <1>5 DEF TimeOfDay

\* _avoid_peak_windows moves no instant back and leaves none in a window.
LEMMA PeaksAvoided ==
    ASSUME NEW t \in Int
    PROVE  /\ AvoidPeakWindows(t) \in Int
           /\ AvoidPeakWindows(t) >= t
           /\ PeaksAt(AvoidPeakWindows(t)) = {}
  <1>1. CASE PeaksAt(t) = {}
    BY <1>1 DEF AvoidPeakWindows
  <1>2. CASE PeaksAt(t) # {}
    <2> DEFINE i == Min(PeaksAt(t))
               e == PeakWindows[i].end
    <2>1. /\ PeakWindows \in Seq([start : 0..Day - 1, end : 0..Day - 1])
          /\ DOMAIN PeakWindows = 1..Len(PeakWindows) /\ Len(PeakWindows) \in Nat
      BY ScheduleAssumption DEF Loadable
    <2>2. IsFiniteSet(PeaksAt(t)) /\ PeaksAt(t) \in SUBSET Int
      <3>1. PeaksAt(t) \subseteq 1..Len(PeakWindows) /\ IsFiniteSet(1..Len(PeakWindows))
        BY <2>1, FS_Interval DEF PeaksAt
      <3> QED BY <3>1, FS_Subset
    <2>3. i \in PeaksAt(t)
      BY <1>2, <2>2, LeastElement
    <2> HIDE DEF i
    <2>4. e \in 0..Day - 1 /\ TimeOfDay(t) < e /\ i \in DOMAIN PeakWindows
      <3>1. i \in DOMAIN PeakWindows /\ TimeOfDay(t) < PeakWindows[i].end
        BY <2>3 DEF PeaksAt
      <3>2. PeakWindows[i] \in [start : 0..Day - 1, end : 0..Day - 1]
        BY <2>1, <3>1, ElementOfSeq
      <3> QED BY <3>1, <3>2
    <2>5. AvoidPeakWindows(t) = t - TimeOfDay(t) + e
      BY <1>2 DEF AvoidPeakWindows, i
    <2> HIDE DEF e
    <2>6. /\ AvoidPeakWindows(t) \in Int /\ TimeOfDay(t) \in 0..Day - 1
          /\ TimeOfDay(AvoidPeakWindows(t)) = e
      BY <2>4, <2>5, MovedToEnd
    <2>7. AvoidPeakWindows(t) >= t
      BY <2>4, <2>5, <2>6
    <2>8. PeaksAt(AvoidPeakWindows(t)) = {}
      BY <2>4, <2>6, WindowsAssumption DEF PeaksAt, e
    <2> QED BY <2>6, <2>7, <2>8
  <1> QED BY <1>1, <1>2

\* The position in retry_spacing of an attempt, and the wait found there.
LEMMA SpacingOfAttempt ==
    ASSUME NEW used \in Nat
    PROVE  Spacing[Min({used + 1, Len(Spacing)})] \in Nat
  <1>1. Spacing \in Seq(Nat) /\ Len(Spacing) \in Nat /\ Len(Spacing) >= 1
    BY ScheduleAssumption DEF Loadable
  <1>2. Min({used + 1, Len(Spacing)}) \in 1..Len(Spacing)
    <2> DEFINE next == used + 1
               last == Len(Spacing)
    <2>1. next \in Int /\ last \in Int /\ next >= 1 /\ last >= 1
      BY <1>1
    <2> HIDE DEF next, last
    <2>2. Min({next, last}) \in {next, last} /\ Min({next, last}) <= last
      BY <2>1, PairExtremes
    <2>3. Min({next, last}) \in 1..last
      BY <2>1, <2>2
    <2> QED BY <2>3 DEF next, last
  <1> QED BY <1>1, <1>2

\* Whatever the bandit selects is past both bounds and outside the windows.
LEMMA SlotsAreSafe ==
    ASSUME NEW used \in Nat, NEW t \in Nat, NEW slot \in Slots(used, t)
    PROVE  /\ slot \in Nat
           /\ slot >= t + NoticeLead
           /\ slot >= t + Spacing[Min({used + 1, Len(Spacing)})]
           /\ PeaksAt(slot) = {}
  <1> DEFINE spaced == Spacing[Min({used + 1, Len(Spacing)})]
             floor  == FloorAt(used, t)
             latest == floor + MaxWindow
             offered == {floor + ResolveDelay(delay) : delay \in SlotOffsets}
             moved   == {AvoidPeakWindows(u) : u \in {v \in offered : v <= latest}}
  <1>1. spaced \in Nat /\ NoticeLead \in Nat
    BY SpacingOfAttempt, ScheduleAssumption DEF Loadable
  <1>2. floor \in Nat /\ floor >= t + NoticeLead /\ floor >= t + spaced
    <2> HIDE DEF spaced
    <2> DEFINE noticed == t + NoticeLead
               apart   == t + spaced
    <2>1. floor = Max({noticed, apart})
      BY DEF FloorAt, spaced
    <2>2. noticed \in Nat /\ apart \in Nat
      BY <1>1
    <2> HIDE DEF floor, noticed, apart
    <2>3. /\ Max({noticed, apart}) \in {noticed, apart}
          /\ Max({noticed, apart}) >= noticed /\ Max({noticed, apart}) >= apart
      BY <2>2, PairExtremes
    <2>4. floor \in Nat /\ floor >= noticed /\ floor >= apart
      BY <2>1, <2>2, <2>3
    <2> QED BY <2>4 DEF noticed, apart
  <1> HIDE DEF floor, spaced
  <1>3. ASSUME NEW delay \in SlotOffsets PROVE ResolveDelay(delay) \in Nat
    <2>1. delay \in Nat /\ TimeScale \in Nat \ {0}
      BY ScheduleAssumption DEF Loadable
    <2> QED BY <2>1 DEF ResolveDelay
  <1>4. \A u \in offered : u \in Nat /\ u >= floor
    BY <1>2, <1>3
  <1>5. \/ slot = AvoidPeakWindows(floor)
        \/ slot \in moved
    BY DEF Slots, LegalCandidates, floor
  <1> HIDE DEF offered
  <1>6. PICK u \in Nat : slot = AvoidPeakWindows(u) /\ u >= floor
    BY <1>2, <1>4, <1>5
  <1>7. slot \in Int /\ slot >= u /\ PeaksAt(slot) = {}
    BY <1>6, PeaksAvoided
  <1> QED BY <1>1, <1>2, <1>6, <1>7 DEF spaced

-----------------------------------------------------------------------------
(***************************************************************************)
(* The inductive invariant.  The positions that the two properties speak   *)
(* of have to exist, the trail has to count the retries as the row does,   *)
(* and until the first execution there is one announcement at most.        *)
(***************************************************************************)

\* No entry is from the future.
Past == \A i \in DOMAIN trail : trail[i].at <= now

\* A case that may still be retried has used fewer retries than the cap.
BelowCap == row.state \in InRetry => row.retries_used < MaxRetries

\* retries_used is the number of executions whose outcome is known.
Counted ==
    /\ row.state \in {"NOTICE_PENDING", "RETRY_SCHEDULED"} =>
        Cardinality(Executions) = row.retries_used
    /\ row.state = "RETRY_EXECUTED" =>
        Cardinality(Executions) = row.retries_used + 1

\* A slot stands right after its notice, and an execution after both.
Announced ==
    /\ \A i \in Scheduled : i - 1 \in Notices
    /\ \A i \in Executions : Before(Notices, i) # {} /\ Before(Scheduled, i) # {}
    /\ row.state = "RETRY_SCHEDULED" => Notices # {} /\ Scheduled # {}

\* Up to the first execution all decisions are for the one slot announced.
FirstRound ==
    Executions = {} =>
        /\ row.state = "NOTICE_PENDING" =>
            Notices = {} /\ Scheduled = {} /\ decisions = {}
        /\ row.state = "RETRY_SCHEDULED" =>
            \A i \in Scheduled :
                /\ \A decision \in decisions : decision[2] = trail[i].slot
                /\ \A j \in Notices : trail[i].slot >= trail[j].at + NoticeLead

IInv ==
    /\ TypeOK
    /\ Past
    /\ BelowCap
    /\ Counted
    /\ Announced
    /\ FirstRound
    /\ SlotsAreLegal
    /\ FirstRetryOnTime

\* SlotsAreLegal and FirstRetryOnTime, for one entry.
SlotLegal(i) ==
    /\ trail[i].slot >= NoticeOf(i) + NoticeLead
    /\ ~CloseTo(trail[i].slot, i)
    /\ PeaksAt(trail[i].slot) = {}

OnTime(i) ==
    Before(Executions, i) = {} =>
        /\ trail[i].at >= NoticeOf(i) + NoticeLead
        /\ trail[i].at >= trail[Max(Before(Scheduled, i))].slot

\* The positions of a trail are 1 to its length; those of the three kinds of
\* entries are among them, and so are the last ones before an entry.
LEMMA Positions ==
    ASSUME TypeOK
    PROVE  /\ Len(trail) \in Nat /\ DOMAIN trail = 1..Len(trail)
           /\ \A i \in DOMAIN trail : trail[i] \in Entry
           /\ Notices \subseteq DOMAIN trail /\ Scheduled \subseteq DOMAIN trail
           /\ Executions \subseteq DOMAIN trail /\ IsFiniteSet(Executions)
           /\ \A i \in Scheduled : trail[i].slot \in Nat
           /\ \A S \in SUBSET (DOMAIN trail), i \in Int :
                Before(S, i) # {} =>
                    /\ Max(Before(S, i)) \in Before(S, i)
                    /\ \A j \in Before(S, i) : j <= Max(Before(S, i))
  <1>1. Len(trail) \in Nat /\ DOMAIN trail = 1..Len(trail)
    BY DEF TypeOK
  <1>2. \A i \in DOMAIN trail : trail[i] \in Entry
    BY <1>1, ElementOfSeq DEF TypeOK
  <1>3. /\ Notices \subseteq DOMAIN trail /\ Scheduled \subseteq DOMAIN trail
        /\ Executions \subseteq DOMAIN trail
    BY DEF Notices, Scheduled, Executions
  <1>4. IsFiniteSet(Executions)
    <2>1. IsFiniteSet(1..Len(trail))
      BY <1>1, FS_Interval
    <2> QED BY <1>1, <1>3, <2>1, FS_Subset
  <1>5. \A i \in Scheduled : trail[i].slot \in Nat
    BY <1>2, <1>3 DEF Scheduled, Entry
  <1>6. ASSUME NEW S \in SUBSET (DOMAIN trail), NEW i \in Int, Before(S, i) # {}
        PROVE  /\ Max(Before(S, i)) \in Before(S, i)
               /\ \A j \in Before(S, i) : j <= Max(Before(S, i))
    <2>1. Before(S, i) \in SUBSET (1..Len(trail))
      BY <1>1 DEF Before
    <2> HIDE DEF Before
    <2> QED BY <1>1, <1>6, <2>1, GreatestPosition
  <1> QED BY <1>1, <1>2, <1>3, <1>4, <1>5, <1>6

\* _audit only appends: the entries already in a trail, and what stands
\* before them, stay as they are.
LEMMA Appended ==
    ASSUME TypeOK, NEW ext \in Seq(Entry), trail' = trail \o ext
    PROVE  /\ trail' \in Seq(Entry)
           /\ DOMAIN trail' = 1..(Len(trail) + Len(ext)) /\ Len(ext) \in Nat
           /\ \A i \in DOMAIN trail : trail'[i] = trail[i]
           /\ \A k \in 1..Len(ext) : trail'[Len(trail) + k] = ext[k]
           /\ \A i \in DOMAIN trail :
                /\ i \in Notices' <=> i \in Notices
                /\ i \in Scheduled' <=> i \in Scheduled
                /\ i \in Executions' <=> i \in Executions
  <1>1. trail \in Seq(Entry)
    BY DEF TypeOK
  <1>2. /\ Len(trail) \in Nat /\ DOMAIN trail = 1..Len(trail)
        /\ Len(ext) \in Nat
    BY <1>1
  <1>3. /\ trail' \in Seq(Entry) /\ Len(trail') = Len(trail) + Len(ext)
        /\ \A i \in 1..Len(trail) + Len(ext) :
            trail'[i] = IF i <= Len(trail) THEN trail[i] ELSE ext[i - Len(trail)]
    BY <1>1, ConcatProperties
  <1>4. DOMAIN trail' = 1..(Len(trail) + Len(ext))
    BY <1>3
  <1>5. \A i \in DOMAIN trail : trail'[i] = trail[i] /\ i \in DOMAIN trail'
    BY <1>2, <1>3, <1>4
  <1>6. ASSUME NEW k \in 1..Len(ext) PROVE trail'[Len(trail) + k] = ext[k]
    <2>1. /\ Len(trail) + k \in 1..Len(trail) + Len(ext) /\ ~(Len(trail) + k <= Len(trail))
          /\ (Len(trail) + k) - Len(trail) = k
      BY <1>2
    <2> QED BY <1>3, <2>1
  <1>7. ASSUME NEW i \in DOMAIN trail
        PROVE  /\ i \in Notices' <=> i \in Notices
               /\ i \in Scheduled' <=> i \in Scheduled
               /\ i \in Executions' <=> i \in Executions
    BY <1>5 DEF Notices, Scheduled, Executions
  <1> QED BY <1>2, <1>3, <1>4, <1>5, <1>6, <1>7

\* The positions of each kind up to the end of the old trail.
LEMMA OldBefore ==
    ASSUME TypeOK, NEW ext \in Seq(Entry), trail' = trail \o ext,
           NEW i \in 1..Len(trail) + 1
    PROVE  /\ Before(Notices', i) = Before(Notices, i)
           /\ Before(Scheduled', i) = Before(Scheduled, i)
           /\ Before(Executions', i) = Before(Executions, i)
  <1>1. Len(trail) \in Nat /\ DOMAIN trail = 1..Len(trail)
    BY Positions
  <1>2. /\ Notices \subseteq DOMAIN trail /\ Scheduled \subseteq DOMAIN trail
        /\ Executions \subseteq DOMAIN trail
    BY Positions
  <1>3. /\ DOMAIN trail' \subseteq Nat \ {0}
        /\ Notices' \subseteq DOMAIN trail' /\ Scheduled' \subseteq DOMAIN trail'
        /\ Executions' \subseteq DOMAIN trail'
    BY <1>1, Appended DEF Notices, Scheduled, Executions
  <1>4. \A j \in Nat \ {0} : j < i => j \in DOMAIN trail
    BY <1>1
  <1>5. \A j \in DOMAIN trail :
            /\ j \in Notices' <=> j \in Notices
            /\ j \in Scheduled' <=> j \in Scheduled
            /\ j \in Executions' <=> j \in Executions
    BY Appended
  <1> QED BY <1>2, <1>3, <1>4, <1>5 DEF Before

\* What was legal and on time stays so.
LEMMA OldEntries ==
    ASSUME TypeOK, Announced, NEW ext \in Seq(Entry), trail' = trail \o ext
    PROVE  /\ \A i \in Scheduled : SlotLegal(i) => SlotLegal(i)'
           /\ \A i \in Executions : OnTime(i) => OnTime(i)'
           /\ \A i \in DOMAIN trail : (Before(Notices, i) # {} => NoticeOf(i)' = NoticeOf(i))
  <1>1. /\ Len(trail) \in Nat /\ DOMAIN trail = 1..Len(trail)
        /\ Notices \in SUBSET (DOMAIN trail) /\ Scheduled \in SUBSET (DOMAIN trail)
        /\ Executions \in SUBSET (DOMAIN trail)
    BY Positions
  <1>2. ASSUME NEW i \in DOMAIN trail
        PROVE  /\ Before(Notices', i) = Before(Notices, i)
               /\ Before(Scheduled', i) = Before(Scheduled, i)
               /\ Before(Executions', i) = Before(Executions, i)
               /\ trail'[i] = trail[i]
    <2>1. i \in 1..Len(trail) + 1
      BY <1>1
    <2> QED BY <2>1, OldBefore, Appended
  <1>3. ASSUME NEW i \in DOMAIN trail, NEW S \in SUBSET (DOMAIN trail), Before(S, i) # {}
        PROVE  trail'[Max(Before(S, i))] = trail[Max(Before(S, i))]
    <2>1. i \in Int
      BY <1>1
    <2>2. Max(Before(S, i)) \in Before(S, i)
      BY <1>3, <2>1, Positions
    <2>3. Max(Before(S, i)) \in DOMAIN trail
      BY <2>2 DEF Before
    <2> QED BY <1>2, <2>3
  <1>4. ASSUME NEW i \in DOMAIN trail, Before(Notices, i) # {}
        PROVE  NoticeOf(i)' = NoticeOf(i)
    BY <1>1, <1>2, <1>3, <1>4 DEF NoticeOf
  <1>5. ASSUME NEW i \in Scheduled, SlotLegal(i)
        PROVE  SlotLegal(i)'
    <2>1. i \in DOMAIN trail /\ i \in Int /\ i - 1 \in Notices
      BY <1>1 DEF Announced
    <2>2. Before(Notices, i) # {}
      BY <2>1 DEF Before
    <2>3. NoticeOf(i)' = NoticeOf(i)
      BY <1>4, <2>1, <2>2
    <2>4. CloseTo(trail[i].slot, i)' <=> CloseTo(trail[i].slot, i)
      BY <1>1, <1>2, <1>3, <2>1 DEF CloseTo, RequiredGap
    <2> QED BY <1>2, <1>5, <2>1, <2>3, <2>4 DEF SlotLegal
  <1>6. ASSUME NEW i \in Executions, OnTime(i)
        PROVE  OnTime(i)'
    <2>1. i \in DOMAIN trail /\ Before(Notices, i) # {} /\ Before(Scheduled, i) # {}
      BY <1>1 DEF Announced
    <2>2. NoticeOf(i)' = NoticeOf(i)
      BY <1>4, <2>1
    <2> QED BY <1>1, <1>2, <1>3, <1>6, <2>1, <2>2 DEF OnTime
  <1> QED BY <1>4, <1>5, <1>6

-----------------------------------------------------------------------------
(* The entries the handlers append *)

Note(from, to, slot) == [from |-> from, to |-> to, at |-> now, slot |-> slot]

\* mark_notice_sent: the notice, and the slot.
LEMMA NoticeEntries ==
    ASSUME TypeOK, NEW slot \in Nat
    PROVE  Inspected(MarkNoticeSent(row).path, slot) =
            <<Note("NOTICE_PENDING", "NOTICE_SENT", NoSlot),
              Note("NOTICE_SENT", "RETRY_SCHEDULED", slot)>>
  <1> DEFINE path == <<"NOTICE_PENDING", "NOTICE_SENT", "RETRY_SCHEDULED">>
  <1>1. MarkNoticeSent(row).path = path
    BY DEF MarkNoticeSent, Along
  <1>2. /\ Len(path) = 3 /\ Last(path) = "RETRY_SCHEDULED"
        /\ path[1] = "NOTICE_PENDING" /\ path[2] = "NOTICE_SENT" /\ path[3] = "RETRY_SCHEDULED"
    BY DEF Last
  <1> HIDE DEF path
  <1>3. Inspected(path, slot) =
            [i \in 1..2 |->
                Note(path[i], path[i + 1], IF path[i + 1] = "RETRY_SCHEDULED" THEN slot ELSE NoSlot)]
    BY <1>2 DEF Inspected, InspectedStates, Note
  <1>4. Inspected(path, slot) =
            [i \in 1..2 |-> IF i = 1 THEN Note("NOTICE_PENDING", "NOTICE_SENT", NoSlot)
                                     ELSE Note("NOTICE_SENT", "RETRY_SCHEDULED", slot)]
    BY <1>2, <1>3
  <1> HIDE DEF Note
  <1> QED BY <1>1, <1>4

\* attempt_execution: the execution.
LEMMA ExecutionEntry ==
    ASSUME TypeOK
    PROVE  Inspected(AttemptExecution(row).path, NoSlot) =
            <<Note("RETRY_SCHEDULED", "RETRY_EXECUTED", NoSlot)>>
  <1> DEFINE path == <<"RETRY_SCHEDULED", "RETRY_EXECUTED">>
  <1>1. AttemptExecution(row).path = path
    BY DEF AttemptExecution, Along
  <1>2. /\ Len(path) = 2 /\ Last(path) = "RETRY_EXECUTED"
        /\ path[1] = "RETRY_SCHEDULED" /\ path[2] = "RETRY_EXECUTED"
    BY DEF Last
  <1> HIDE DEF path
  <1>3. Inspected(path, NoSlot) = [i \in 1..1 |-> Note("RETRY_SCHEDULED", "RETRY_EXECUTED", NoSlot)]
    BY <1>2 DEF Inspected, InspectedStates, Note
  <1> HIDE DEF Note
  <1> QED BY <1>1, <1>3

\* A payment event appends one entry from the state to itself, or entries
\* into states that are not inspected.
LEMMA EventPaths ==
    ASSUME TypeOK
    PROVE  /\ \A p \in Payments :
                LET path == HandleExistingFailure(row, p).path
                IN  path = <<row.state, row.state>> \/ Last(path) \notin InspectedStates
           /\ \A matches \in BOOLEAN :
                LET path == HandlePaymentSuccess(row, matches).path
                IN  path = <<row.state, row.state>> \/ Last(path) \notin InspectedStates
  <1>1. ASSUME NEW r, NEW a, NEW b
        PROVE  Along(r, <<a, b>>).path = <<a, b>> /\ Last(<<a, b>>) = b
    BY DEF Along, Last
  <1>2. ASSUME NEW r, NEW a, NEW b, NEW c
        PROVE  Along(r, <<a, b, c>>).path = <<a, b, c>> /\ Last(<<a, b, c>>) = c
    BY DEF Along, Last
  <1>3. Ignored(row).path = <<row.state, row.state>>
    BY DEF Ignored
  <1>4. {"CONTROL_STILL_FAILED", "ESCALATED", "NOTICE_PENDING", "CONTROL_RECOVERED",
         "RECOVERED", "RECOVERED_NATURALLY"} \cap InspectedStates = {}
    BY DEF InspectedStates
  <1> HIDE DEF Along, Ignored
  <1>5. ASSUME NEW p \in Payments
        PROVE  LET path == HandleExistingFailure(row, p).path
               IN  path = <<row.state, row.state>> \/ Last(path) \notin InspectedStates
    BY <1>1, <1>2, <1>3, <1>4 DEF HandleExistingFailure
  <1>6. ASSUME NEW matches \in BOOLEAN
        PROVE  LET path == HandlePaymentSuccess(row, matches).path
               IN  path = <<row.state, row.state>> \/ Last(path) \notin InspectedStates
    BY <1>1, <1>3, <1>4 DEF HandlePaymentSuccess
  <1> QED BY <1>5, <1>6

\* Entries a payment event leaves behind: none is a notice, a slot or an execution,
\* and each goes from the state of the row into that state.
LEMMA QuietEntries ==
    ASSUME TypeOK, NEW path,
           path = <<row.state, row.state>> \/ Last(path) \notin InspectedStates
    PROVE  LET ext == Inspected(path, NoSlot)
           IN  /\ ext \in Seq(Entry)
               /\ \A k \in 1..Len(ext) :
                    /\ ext[k].at = now /\ ext[k].slot = NoSlot
                    /\ ext[k].to # "NOTICE_SENT" /\ ext[k].from = ext[k].to
                    /\ ext[k].to = row.state
  <1> DEFINE ext == Inspected(path, NoSlot)
  <1>1. CASE Last(path) \notin InspectedStates
    <2>1. ext = <<>>
      BY <1>1 DEF Inspected
    <2> QED BY <2>1
  <1>2. CASE path = <<row.state, row.state>> /\ Last(path) \in InspectedStates
    <2>1. row.state \in CaseStates /\ row.state # "NOTICE_SENT"
      <3>1. row.state \in CaseStates
        BY DEF TypeOK, Row
      <3>2. \A state \in CaseStates : state # "NOTICE_SENT"
        BY DEF CaseStates
      <3> QED BY <3>1, <3>2
    <2>2. Len(path) = 2 /\ path[1] = row.state /\ path[2] = row.state /\ Last(path) = row.state
      BY <1>2 DEF Last
    <2>3. ext = [i \in 1..1 |-> Note(row.state, row.state, NoSlot)]
      BY <1>2, <2>2 DEF Inspected, Note
    <2>4. Note(row.state, row.state, NoSlot) \in Entry
      BY <1>2, <2>1, <2>2 DEF Note, Entry, TypeOK, AuditStates
    <2>5. /\ ext \in Seq(Entry) /\ Len(ext) = 1
          /\ ext[1] = Note(row.state, row.state, NoSlot)
      BY <2>3, <2>4
    <2> QED BY <2>1, <2>5 DEF Note
  <1> QED BY <1>1, <1>2

\* So such an event leaves the three kinds of entries as they are.
LEMMA QuietTrail ==
    ASSUME TypeOK, NEW ext \in Seq(Entry), trail' = trail \o ext,
           \A k \in 1..Len(ext) :
                /\ ext[k].at = now /\ ext[k].slot = NoSlot
                /\ ext[k].to # "NOTICE_SENT" /\ ext[k].from = ext[k].to
    PROVE  /\ Notices' = Notices /\ Scheduled' = Scheduled /\ Executions' = Executions
           /\ \A i \in DOMAIN trail' : i \in DOMAIN trail \/ trail'[i].at = now
  <1>1. /\ Len(trail) \in Nat /\ DOMAIN trail = 1..Len(trail)
        /\ Notices \subseteq DOMAIN trail /\ Scheduled \subseteq DOMAIN trail
        /\ Executions \subseteq DOMAIN trail
    BY Positions
  <1>2. ASSUME NEW i \in DOMAIN trail', i \notin DOMAIN trail
        PROVE  /\ trail'[i].at = now /\ trail'[i].slot = NoSlot
               /\ trail'[i].to # "NOTICE_SENT" /\ trail'[i].from = trail'[i].to
    <2>1. DOMAIN trail' = 1..(Len(trail) + Len(ext)) /\ Len(ext) \in Nat
      BY Appended
    <2>2. PICK k \in 1..Len(ext) : i = Len(trail) + k
      <3>1. i - Len(trail) \in 1..Len(ext)
        BY <1>1, <1>2, <2>1
      <3> QED BY <1>1, <2>1, <3>1
    <2>3. trail'[i] = ext[k]
      BY <2>2, Appended
    <2> QED BY <2>3
  <1>3. \A i \in DOMAIN trail :
            /\ i \in DOMAIN trail'
            /\ i \in Notices' <=> i \in Notices
            /\ i \in Scheduled' <=> i \in Scheduled
            /\ i \in Executions' <=> i \in Executions
    BY <1>1, Appended
  <1>4. \A i \in DOMAIN trail' \ DOMAIN trail :
            i \notin Notices' /\ i \notin Scheduled' /\ i \notin Executions'
    BY <1>2 DEF Notices, Scheduled, Executions
  <1>5. /\ Notices' \subseteq DOMAIN trail' /\ Scheduled' \subseteq DOMAIN trail'
        /\ Executions' \subseteq DOMAIN trail'
    BY DEF Notices, Scheduled, Executions
  <1> QED BY <1>1, <1>2, <1>3, <1>4, <1>5

-----------------------------------------------------------------------------
(* The steps *)

\* The two properties, entry by entry.
LEMMA EntryByEntry ==
    /\ SlotsAreLegal <=> \A i \in Scheduled : SlotLegal(i)
    /\ FirstRetryOnTime <=> \A i \in Executions : OnTime(i)
  BY DEF SlotsAreLegal, SlotLegal, FirstRetryOnTime, OnTime

\* A payment event: the row changes as the handler says, the trail gets
\* entries of none of the three kinds.
LEMMA QuietStep ==
    ASSUME IInv, NEW ext \in Seq(Entry), trail' = trail \o ext,
           \A k \in 1..Len(ext) :
                /\ ext[k].at = now /\ ext[k].slot = NoSlot
                /\ ext[k].to # "NOTICE_SENT" /\ ext[k].from = ext[k].to,
           now' = now, decisions' = decisions, row' \in Row,
           \/ row' = row
           \/ row'.state \notin InRetry
           \/ /\ row.state = "RETRY_EXECUTED" /\ row'.state = "NOTICE_PENDING"
              /\ row'.retries_used = row.retries_used + 1
              /\ row.retries_used + 1 < MaxRetries
    PROVE  IInv'
  <1> USE DEF IInv
  <1>1. /\ trail' \in Seq(Entry)
        /\ \A i \in DOMAIN trail : trail'[i] = trail[i]
    BY Appended
  <1>2. /\ Notices' = Notices /\ Scheduled' = Scheduled /\ Executions' = Executions
        /\ \A i \in DOMAIN trail' : i \in DOMAIN trail \/ trail'[i].at = now
    BY QuietTrail
  <1>3. /\ now \in Int /\ row.retries_used \in Nat /\ MaxRetries \in Nat
        /\ Notices \subseteq DOMAIN trail /\ Scheduled \subseteq DOMAIN trail
        /\ Executions \subseteq DOMAIN trail
    BY Positions, MaxRetriesAssumption, BoundsAssumption DEF TypeOK, Row
  <1>4. TypeOK'
    BY <1>1 DEF TypeOK
  <1>5. Past'
    BY <1>1, <1>2, <1>3 DEF Past
  <1>6. BelowCap'
    BY <1>3 DEF BelowCap
  <1>7. Counted'
    <2>1. "NOTICE_PENDING" \in InRetry /\ "RETRY_SCHEDULED" \in InRetry /\ "RETRY_EXECUTED" \in InRetry
      BY DEF InRetry
    <2> QED BY <1>2, <2>1 DEF Counted
  <1>8. Announced'
    <2>1. "RETRY_SCHEDULED" \in InRetry
      BY DEF InRetry
    <2>2. row'.state = "RETRY_SCHEDULED" => row.state = "RETRY_SCHEDULED"
      BY <2>1
    <2> QED BY <1>2, <2>2 DEF Announced, Before
  <1>9. FirstRound'
    <2>1. SUFFICES ASSUME Executions = {} PROVE FirstRound'
      BY <1>2 DEF FirstRound
    <2>2. row.state # "RETRY_EXECUTED"
      BY <1>3, <2>1, FS_EmptySet DEF Counted
    <2>3. "NOTICE_PENDING" \in InRetry /\ "RETRY_SCHEDULED" \in InRetry
      BY DEF InRetry
    <2>4. row'.state \in {"NOTICE_PENDING", "RETRY_SCHEDULED"} => row' = row
      BY <2>2, <2>3
    <2>5. /\ \A i \in Scheduled : trail'[i] = trail[i]
          /\ \A i \in Notices : trail'[i] = trail[i]
      BY <1>1, <1>3
    <2>6. CASE row'.state = "NOTICE_PENDING"
      <3>1. Notices = {} /\ Scheduled = {} /\ decisions = {}
        BY <2>1, <2>4, <2>6 DEF FirstRound
      <3> QED BY <1>2, <2>6, <3>1 DEF FirstRound
    <2>7. CASE row'.state = "RETRY_SCHEDULED"
      <3>1. \A i \in Scheduled :
                /\ \A decision \in decisions : decision[2] = trail[i].slot
                /\ \A j \in Notices : trail[i].slot >= trail[j].at + NoticeLead
        BY <2>1, <2>4, <2>7 DEF FirstRound
      <3>2. \A i \in Scheduled' :
                /\ \A decision \in decisions' : decision[2] = trail'[i].slot
                /\ \A j \in Notices' : trail'[i].slot >= trail'[j].at + NoticeLead
        <4>1. ASSUME NEW i \in Scheduled, NEW j \in Notices
              PROVE  trail'[i].slot >= trail'[j].at + NoticeLead
          BY <2>5, <3>1
        <4>2. ASSUME NEW i \in Scheduled, NEW decision \in decisions
              PROVE  decision[2] = trail'[i].slot
          BY <2>5, <3>1
        <4> QED BY <1>2, <4>1, <4>2, Zenon
      <3>3. row'.state # "NOTICE_PENDING"
        BY <2>7
      <3> QED BY <3>2, <3>3 DEF FirstRound
    <2> QED BY <2>6, <2>7 DEF FirstRound
  <1>10. SlotsAreLegal' /\ FirstRetryOnTime'
    <2>1. (\A i \in Scheduled' : SlotLegal(i)') /\ (\A i \in Executions' : OnTime(i)')
      BY <1>2, OldEntries, EntryByEntry
    <2>2. SlotsAreLegal'
      BY <2>1 DEF SlotsAreLegal, SlotLegal
    <2>3. FirstRetryOnTime'
      BY <2>1 DEF FirstRetryOnTime, OnTime
    <2> QED BY <2>2, <2>3
  <1> QED BY <1>4, <1>5, <1>6, <1>7, <1>8, <1>9, <1>10

\* send_notice: the new slot is legal by SlotsAreSafe, since the retries used
\* are the executions in the trail and none of them is later than now.
LEMMA NoticeStep ==
    ASSUME IInv, SendNotice
    PROVE  IInv'
  <1> USE DEF IInv
  <1>1. /\ now \in Nat /\ row \in Row /\ row.retries_used \in Nat
        /\ row.state = "NOTICE_PENDING" /\ now' = now
        /\ row.retries_used < MaxRetries /\ MaxRetries \in Nat
        /\ NoSlot \notin Int
    BY BoundsAssumption, MaxRetriesAssumption, NoSlotAssumption
       DEF TypeOK, SendNotice, Row, BelowCap, InRetry
  <1>2. PICK slot \in Slots(row.retries_used, now) :
            /\ row' = MarkNoticeSent(row).row
            /\ trail' = trail \o Inspected(MarkNoticeSent(row).path, slot)
            /\ decisions' = decisions \cup {<<DecisionAttempt(row), slot>>}
    BY DEF SendNotice, Apply
  <1>3. /\ slot \in Nat /\ slot >= now + NoticeLead
        /\ slot >= now + Spacing[Min({row.retries_used + 1, Len(Spacing)})]
        /\ PeaksAt(slot) = {}
    BY <1>1, SlotsAreSafe
  <1>4. row' = [row EXCEPT !.state = "RETRY_SCHEDULED"] /\ row' \in Row
    BY <1>1, <1>2, MarkNoticeSentOutcome DEF Leads
  <1>5. row'.state = "RETRY_SCHEDULED" /\ row'.retries_used = row.retries_used
    BY <1>1, <1>4 DEF Row
  <1>N. PICK n \in Nat : n = Len(trail)
    BY Positions
  <1> DEFINE notice    == Note("NOTICE_PENDING", "NOTICE_SENT", NoSlot)
             scheduled == Note("NOTICE_SENT", "RETRY_SCHEDULED", slot)
             ext == <<notice, scheduled>>
  <1>6. notice \in Entry /\ scheduled \in Entry
    BY <1>1, <1>3 DEF Note, Entry, InspectedStates, AuditStates, CaseStates, PassingStates
  <1>7. ext \in Seq(Entry) /\ Len(ext) = 2 /\ ext[1] = notice /\ ext[2] = scheduled
    BY <1>6
  <1>8. trail' = trail \o ext
    BY <1>2, <1>3, NoticeEntries
  <1> HIDE DEF ext, notice, scheduled
  <1>9. /\ trail' \in Seq(Entry) /\ DOMAIN trail' = 1..(n + 2)
        /\ n \in Nat /\ DOMAIN trail = 1..n
        /\ \A i \in DOMAIN trail : trail'[i] = trail[i]
        /\ trail'[n + 1] = notice /\ trail'[n + 2] = scheduled
    <2>1. /\ DOMAIN trail' = 1..(Len(trail) + 2)
          /\ trail'[Len(trail) + 1] = notice /\ trail'[Len(trail) + 2] = scheduled
      <3>1. 1 \in 1..Len(ext) /\ 2 \in 1..Len(ext)
        BY <1>7
      <3> QED BY <1>7, <1>8, <3>1, Appended
    <2> QED BY <1>N, <1>7, <1>8, <2>1, Appended, Positions
  <1>10. /\ Notices \subseteq 1..n /\ Scheduled \subseteq 1..n /\ Executions \subseteq 1..n
         /\ \A i \in 1..n : trail[i].at <= now
    BY <1>9, Positions DEF Past
  <1>11. /\ Notices' = Notices \cup {n + 1}
         /\ Scheduled' = Scheduled \cup {n + 2}
         /\ Executions' = Executions
    <2>1. \A i \in 1..n :
            /\ i \in Notices' <=> i \in Notices
            /\ i \in Scheduled' <=> i \in Scheduled
            /\ i \in Executions' <=> i \in Executions
      BY <1>7, <1>8, <1>9, Appended
    <2>2. /\ n + 1 \in Notices' /\ n + 1 \notin Scheduled' /\ n + 1 \notin Executions'
          /\ n + 2 \notin Notices' /\ n + 2 \in Scheduled' /\ n + 2 \notin Executions'
      BY <1>1, <1>3, <1>9 DEF Notices, Scheduled, Executions, notice, scheduled, Note
    <2>3. /\ Notices' \subseteq 1..n + 2 /\ Scheduled' \subseteq 1..n + 2
          /\ Executions' \subseteq 1..n + 2
      BY <1>9 DEF Notices, Scheduled, Executions
    <2>4. \A i \in 1..n + 2 : i \in 1..n \/ i = n + 1 \/ i = n + 2
      BY <1>9
    <2> QED BY <1>9, <1>10, <2>1, <2>2, <2>3, <2>4
  <1>12. trail'[n + 1].at = now /\ trail'[n + 2].at = now /\ trail'[n + 2].slot = slot
    BY <1>9 DEF notice, scheduled, Note
  <1>13. TypeOK'
    <2>1. DecisionAttempt(row) \in 1..MaxRetries
      BY <1>1 DEF DecisionAttempt
    <2>2. decisions' \subseteq (1..MaxRetries) \X Nat
      BY <1>2, <1>3, <2>1 DEF TypeOK
    <2> QED BY <1>1, <1>4, <1>9, <2>2 DEF TypeOK
  <1>14. Past'
    <2>1. \A i \in 1..(n + 2) : trail'[i].at <= now
      BY <1>1, <1>9, <1>10, <1>12
    <2> QED BY <1>1, <1>9, <2>1 DEF Past
  <1>15. BelowCap' /\ Counted'
    BY <1>1, <1>5, <1>11 DEF BelowCap, Counted
  <1>16. Announced'
    <2>1. \A i \in Scheduled' : i - 1 \in Notices'
      BY <1>9, <1>10, <1>11 DEF Announced
    <2>2. \A i \in Executions' : Before(Notices', i) # {} /\ Before(Scheduled', i) # {}
      BY <1>11 DEF Announced, Before
    <2> QED BY <1>11, <2>1, <2>2 DEF Announced
  <1>17. FirstRound'
    <2>1. SUFFICES ASSUME Executions = {} PROVE FirstRound'
      BY <1>11 DEF FirstRound
    <2>2. Notices' = {n + 1} /\ Scheduled' = {n + 2} /\ decisions' = {<<DecisionAttempt(row), slot>>}
      BY <1>1, <1>2, <1>11, <2>1 DEF FirstRound
    <2> QED BY <1>3, <1>5, <1>12, <2>2 DEF FirstRound
  <1>18. SlotLegal(n + 2)'
    <2>1. NoticeOf(n + 2)' = now
      <3>1. Before(Notices', n + 2) \in SUBSET Int /\ n + 1 \in Before(Notices', n + 2)
        <4>1. Notices' \subseteq Int /\ n + 1 \in Notices' /\ n + 1 < n + 2
          <5>1. 1..n \subseteq Int /\ n + 1 \in Int /\ n + 1 < n + 2
            OBVIOUS
          <5> QED BY <1>10, <1>11, <5>1, Zenon
        <4> QED BY <4>1 DEF Before
      <3>2. \A j \in Before(Notices', n + 2) : j <= n + 1
        BY <1>9, <1>10, <1>11 DEF Before
      <3>3. Max(Before(Notices', n + 2)) = n + 1
        BY <3>1, <3>2, KnownMax
      <3> QED BY <1>12, <3>3 DEF NoticeOf
    <2>2. Before(Executions', n + 2) = Executions
      <3>1. \A j \in Executions : j < n + 2
        BY <1>9, <1>10
      <3> QED BY <1>11, <3>1, Zenon DEF Before
    <2>3. ~CloseTo(trail[n + 2].slot, n + 2)'
      <3>1. SUFFICES ASSUME Executions # {} PROVE ~CloseTo(trail[n + 2].slot, n + 2)'
        BY <2>2 DEF CloseTo
      <3>2. Max(Executions) \in Executions
        BY <1>9, <1>10, <3>1, GreatestPosition
      <3>3. trail'[Max(Executions)].at \in Nat /\ trail'[Max(Executions)].at <= now
        <4>1. Max(Executions) \in DOMAIN trail
          BY <1>9, <1>10, <3>2
        <4>2. trail[Max(Executions)] \in Entry
          BY <4>1, Positions
        <4> QED BY <1>9, <1>10, <4>1, <4>2 DEF Entry
      <3>4. Cardinality(Executions) = row.retries_used
        BY <1>1 DEF Counted
      <3>5. RequiredGap(n + 2)' = Spacing[Min({row.retries_used + 1, Len(Spacing)})]
        BY <2>2, <3>4 DEF RequiredGap
      <3>6. RequiredGap(n + 2)' \in Nat
        BY <1>1, <3>5, SpacingOfAttempt
      <3>7. slot >= trail'[Max(Executions)].at + RequiredGap(n + 2)'
        BY <1>1, <1>3, <3>3, <3>5, <3>6
      <3>8. ~(slot < trail'[Max(Executions)].at + RequiredGap(n + 2)')
        BY <1>3, <3>3, <3>6, <3>7
      <3> QED BY <1>12, <2>2, <3>8 DEF CloseTo
    <2> QED BY <1>3, <1>12, <2>1, <2>3 DEF SlotLegal
  <1>19. /\ \A i \in Scheduled' : SlotLegal(i)'
         /\ \A i \in Executions' : OnTime(i)'
    BY <1>7, <1>8, <1>11, <1>18, OldEntries, EntryByEntry
  <1>20. SlotsAreLegal'
    BY <1>19 DEF SlotsAreLegal, SlotLegal
  <1>21. FirstRetryOnTime'
    BY <1>19 DEF FirstRetryOnTime, OnTime
  <1> QED BY <1>13, <1>14, <1>15, <1>16, <1>17, <1>20, <1>21

\* execute_retry: the decision that is due names the slot of the case if it is
\* the first, and the notice of that slot is its lead time back.
LEMMA ExecutionStep ==
    ASSUME IInv, ExecuteRetry
    PROVE  IInv'
  <1> USE DEF IInv
  <1>1. /\ now \in Nat /\ row \in Row /\ row.retries_used \in Nat
        /\ row.state = "RETRY_SCHEDULED" /\ now' = now /\ decisions' = decisions
        /\ row.retries_used < MaxRetries /\ MaxRetries \in Nat
        /\ NoSlot \notin Int /\ NoticeLead \in Nat
    BY BoundsAssumption, MaxRetriesAssumption, NoSlotAssumption, ScheduleAssumption
       DEF TypeOK, ExecuteRetry, Row, BelowCap, InRetry, Loadable
  <1>2. PICK decision \in decisions : now >= decision[2]
    BY DEF ExecuteRetry
  <1>3. row' = [row EXCEPT !.state = "RETRY_EXECUTED"] /\ row' \in Row
    BY <1>1, SingleMoveOutcome DEF Leads, ExecuteRetry, Apply
  <1>4. row'.state = "RETRY_EXECUTED" /\ row'.retries_used = row.retries_used
    BY <1>1, <1>3 DEF Row
  <1>N. PICK n \in Nat : n = Len(trail)
    BY Positions
  <1> DEFINE execution == Note("RETRY_SCHEDULED", "RETRY_EXECUTED", NoSlot)
             ext == <<execution>>
  <1>5. execution \in Entry
    BY <1>1 DEF Note, Entry, InspectedStates, AuditStates, CaseStates, PassingStates
  <1>6. ext \in Seq(Entry) /\ Len(ext) = 1 /\ ext[1] = execution
    BY <1>5
  <1>7. trail' = trail \o ext
    BY ExecutionEntry DEF ExecuteRetry, Apply
  <1> HIDE DEF ext, execution
  <1>8. /\ trail' \in Seq(Entry) /\ DOMAIN trail' = 1..(n + 1)
        /\ DOMAIN trail = 1..n
        /\ \A i \in DOMAIN trail : trail'[i] = trail[i]
        /\ trail'[n + 1] = execution
    <2>1. DOMAIN trail' = 1..(Len(trail) + 1) /\ trail'[Len(trail) + 1] = execution
      <3>1. 1 \in 1..Len(ext)
        BY <1>6
      <3> QED BY <1>6, <1>7, <3>1, Appended
    <2> QED BY <1>N, <1>6, <1>7, <2>1, Appended, Positions
  <1>9. /\ Notices \subseteq 1..n /\ Scheduled \subseteq 1..n /\ Executions \subseteq 1..n
        /\ \A i \in 1..n : trail[i].at <= now
        /\ n + 1 \notin Executions
    BY <1>8, Positions DEF Past
  <1>10. Notices' = Notices /\ Scheduled' = Scheduled /\ Executions' = Executions \cup {n + 1}
    <2>1. \A i \in 1..n :
            /\ i \in Notices' <=> i \in Notices
            /\ i \in Scheduled' <=> i \in Scheduled
            /\ i \in Executions' <=> i \in Executions
      BY <1>6, <1>7, <1>8, Appended
    <2>2. n + 1 \notin Notices' /\ n + 1 \notin Scheduled' /\ n + 1 \in Executions'
      BY <1>8 DEF Notices, Scheduled, Executions, execution, Note
    <2>3. /\ Notices' \subseteq 1..(n + 1) /\ Scheduled' \subseteq 1..(n + 1)
          /\ Executions' \subseteq 1..(n + 1)
      BY <1>8 DEF Notices, Scheduled, Executions
    <2>4. \A i \in 1..(n + 1) : i \in 1..n \/ i = n + 1
      OBVIOUS
    <2> QED BY <1>9, <2>1, <2>2, <2>3, <2>4
  <1>11. trail'[n + 1].at = now
    BY <1>8 DEF execution, Note
  <1>12. TypeOK'
    BY <1>1, <1>3, <1>8 DEF TypeOK
  <1>13. Past'
    <2>1. \A i \in 1..(n + 1) : trail'[i].at <= now
      BY <1>1, <1>8, <1>9, <1>11
    <2> QED BY <1>1, <1>8, <2>1 DEF Past
  <1>14. BelowCap' /\ Counted'
    <2>1. Cardinality(Executions') = Cardinality(Executions) + 1
      BY <1>9, <1>10, Positions, FS_AddElement
    <2> QED BY <1>1, <1>4, <2>1 DEF BelowCap, Counted
  <1>15. Before(Notices', n + 1) = Notices /\ Before(Scheduled', n + 1) = Scheduled
    <2>1. (\A j \in Notices : j < n + 1) /\ (\A j \in Scheduled : j < n + 1)
      <3>1. \A j \in 1..n : j < n + 1
        OBVIOUS
      <3> QED BY <1>9, <3>1, Zenon
    <2> QED BY <1>10, <2>1, Zenon DEF Before
  <1>16. Notices # {} /\ Scheduled # {}
    BY <1>1 DEF Announced
  <1>17. Announced'
    <2>1. \A i \in Executions' : Before(Notices', i) # {} /\ Before(Scheduled', i) # {}
      <3>1. \A i \in Executions : Before(Notices', i) # {} /\ Before(Scheduled', i) # {}
        BY <1>10 DEF Announced
      <3> QED BY <1>10, <1>15, <1>16, <3>1
    <2> QED BY <1>4, <1>10, <2>1 DEF Announced
  <1>18. FirstRound'
    BY <1>10 DEF FirstRound
  <1>19. OnTime(n + 1)'
    <2>1. Before(Executions', n + 1) = Executions
      <3>1. \A j \in Executions : j < n + 1
        BY <1>9
      <3> QED BY <1>10, <3>1 DEF Before
    <2>2. SUFFICES ASSUME Executions = {} PROVE OnTime(n + 1)'
      BY <2>1 DEF OnTime
    <2>3. Max(Notices) \in Notices /\ Max(Scheduled) \in Scheduled
      BY <1>9, <1>16, GreatestPosition
    <2>4. /\ decision[2] = trail[Max(Scheduled)].slot
          /\ trail[Max(Scheduled)].slot >= trail[Max(Notices)].at + NoticeLead
      BY <1>1, <1>2, <2>2, <2>3 DEF FirstRound
    <2>5. /\ trail'[Max(Scheduled)] = trail[Max(Scheduled)]
          /\ trail'[Max(Notices)] = trail[Max(Notices)]
      BY <1>8, <1>9, <2>3
    <2>6. trail[Max(Scheduled)].slot \in Nat /\ trail[Max(Notices)].at \in Nat
      <3>1. trail[Max(Notices)] \in Entry
        BY <1>8, <1>9, <2>3, Positions
      <3> QED BY <2>3, <3>1, Positions DEF Entry
    <2>7. now >= trail[Max(Scheduled)].slot /\ now >= trail[Max(Notices)].at + NoticeLead
      BY <1>1, <1>2, <2>4, <2>6
    <2>8. NoticeOf(n + 1)' = trail'[Max(Notices)].at
      BY <1>15 DEF NoticeOf
    <2> QED BY <1>11, <1>15, <2>5, <2>7, <2>8 DEF OnTime
  <1>20. /\ \A i \in Scheduled' : SlotLegal(i)'
         /\ \A i \in Executions' : OnTime(i)'
    BY <1>6, <1>7, <1>10, <1>19, OldEntries, EntryByEntry
  <1>21. SlotsAreLegal'
    BY <1>20 DEF SlotsAreLegal, SlotLegal
  <1>22. FirstRetryOnTime'
    BY <1>20 DEF FirstRetryOnTime, OnTime
  <1> QED BY <1>12, <1>13, <1>14, <1>17, <1>18, <1>21, <1>22

\* A payment.failed event of the open case.
LEMMA FailStep ==
    ASSUME IInv, NEW p \in Payments, FailAgain(p)
    PROVE  IInv'
  <1> DEFINE outcome == HandleExistingFailure(row, p)
             ext     == Inspected(outcome.path, NoSlot)
  <1>1. row \in Row /\ TypeOK
    BY DEF IInv, TypeOK
  <1>2. /\ row' = outcome.row /\ trail' = trail \o ext
        /\ now' = now /\ decisions' = decisions
    BY DEF FailAgain, Apply
  <1>3. /\ ext \in Seq(Entry)
        /\ \A k \in 1..Len(ext) :
            /\ ext[k].at = now /\ ext[k].slot = NoSlot
            /\ ext[k].to # "NOTICE_SENT" /\ ext[k].from = ext[k].to
    BY <1>1, EventPaths, QuietEntries
  <1>4. /\ row' \in Row
        /\ \/ row' = row
           \/ row'.state \notin InRetry
           \/ /\ row.state = "RETRY_EXECUTED" /\ row'.state = "NOTICE_PENDING"
              /\ row'.retries_used = row.retries_used + 1
              /\ row.retries_used + 1 < MaxRetries
    <2> HIDE DEF ext, outcome
    <2>1. /\ outcome.row \in Row
          /\ \/ /\ row.state = "CONTROL_HELD"
                /\ outcome.row = [row EXCEPT !.state = "CONTROL_STILL_FAILED"]
             \/ /\ row.state = "RETRY_EXECUTED"
                /\ outcome.row.retries_used = row.retries_used + 1
                /\ \/ outcome.row.state = "ESCALATED"
                   \/ /\ outcome.row.state = "NOTICE_PENDING"
                      /\ row.retries_used + 1 < MaxRetries
             \/ outcome.row = row
      BY <1>1, ExistingFailureOutcome DEF Leads, outcome
    <2>2. [row EXCEPT !.state = "CONTROL_STILL_FAILED"].state = "CONTROL_STILL_FAILED"
      BY <1>1 DEF Row
    <2>3. "CONTROL_STILL_FAILED" \notin InRetry /\ "ESCALATED" \notin InRetry
      BY DEF InRetry
    <2> QED BY <1>2, <2>1, <2>2, <2>3
  <1> HIDE DEF ext, outcome
  <1> QED BY <1>2, <1>3, <1>4, QuietStep

\* A success event of the open case.
LEMMA SucceedStep ==
    ASSUME IInv, NEW matches \in BOOLEAN, Succeed(matches)
    PROVE  IInv'
  <1> DEFINE outcome == HandlePaymentSuccess(row, matches)
             ext     == Inspected(outcome.path, NoSlot)
  <1>1. row \in Row /\ TypeOK
    BY DEF IInv, TypeOK
  <1>2. /\ row' = outcome.row /\ trail' = trail \o ext
        /\ now' = now /\ decisions' = decisions
    BY DEF Succeed, Apply
  <1>3. /\ ext \in Seq(Entry)
        /\ \A k \in 1..Len(ext) :
            /\ ext[k].at = now /\ ext[k].slot = NoSlot
            /\ ext[k].to # "NOTICE_SENT" /\ ext[k].from = ext[k].to
    BY <1>1, EventPaths, QuietEntries
  <1>4. row' \in Row /\ (row' = row \/ row'.state \notin InRetry)
    <2> HIDE DEF ext
    <2>1. {"CONTROL_RECOVERED", "RECOVERED", "RECOVERED_NATURALLY"} \cap InRetry = {}
      BY DEF InRetry
    <2> QED BY <1>1, <1>2, <2>1, PaymentSuccessOutcome DEF Leads
  <1> HIDE DEF ext, outcome
  <1> QED BY <1>2, <1>3, <1>4, QuietStep

-----------------------------------------------------------------------------
(***************************************************************************)
(* What the verifier can rely on.  It sees the trail only, where an event  *)
(* ignored after an execution looks like one more execution.  Three facts  *)
(* make up for that: the times of the trail never fall, the entries from a *)
(* notice to its execution are all of the schedule, and the first entry    *)
(* that looks like an execution is one.                                    *)
(***************************************************************************)

Ordered == \A i, j \in DOMAIN trail : i <= j => trail[i].at <= trail[j].at

\* Only entries into RETRY_SCHEDULED carry a slot.
SlotsOnScheduled == \A i \in Scheduled : trail[i].to = "RETRY_SCHEDULED"

\* Between the last notice before i and i itself the case only waited.
Waiting(i) ==
    \E j \in Notices :
        /\ j < i
        /\ \A k \in DOMAIN trail : j < k /\ k < i => trail[k].to = "RETRY_SCHEDULED"

NoticesOpen == row.state = "RETRY_SCHEDULED" => Waiting(Len(trail) + 1)

Answered == \A i \in Executions : Waiting(i)

FirstIsReal == \A i \in Executed(trail) : \E j \in Executions : j <= i

\* Every notice before i has had its execution before i.
Settled(i) == \A j \in Notices : j < i => \E k \in Executed(trail) : j < k /\ k < i

NoticesSettled == row.state = "RETRY_EXECUTED" => Settled(Len(trail) + 1)

\* Events ignored after an execution end no wait.
EchoesSettled == \A i \in Executed(trail) \ Executions : Settled(i)

TrailInv ==
    /\ Ordered
    /\ SlotsOnScheduled
    /\ NoticesOpen
    /\ Answered
    /\ FirstIsReal
    /\ NoticesSettled
    /\ EchoesSettled

\* The position of an entry that was not in the trail before.
LEMMA NewEntries ==
    ASSUME TypeOK, NEW ext \in Seq(Entry), trail' = trail \o ext
    PROVE  /\ Len(trail') = Len(trail) + Len(ext)
           /\ \A i \in DOMAIN trail' :
                i \in DOMAIN trail
                \/ \E k \in 1..Len(ext) : i = Len(trail) + k /\ trail'[i] = ext[k]
  <1>1. /\ Len(trail) \in Nat /\ DOMAIN trail = 1..Len(trail)
        /\ DOMAIN trail' = 1..(Len(trail) + Len(ext)) /\ Len(ext) \in Nat
        /\ trail' \in Seq(Entry)
    BY Positions, Appended
  <1>2. Len(trail') = Len(trail) + Len(ext)
    BY <1>1
  <1>3. ASSUME NEW i \in DOMAIN trail', i \notin DOMAIN trail
        PROVE  \E k \in 1..Len(ext) : i = Len(trail) + k /\ trail'[i] = ext[k]
    <2>1. PICK k \in 1..Len(ext) : i = Len(trail) + k
      <3>1. i - Len(trail) \in 1..Len(ext) /\ i = Len(trail) + (i - Len(trail))
        BY <1>1, <1>3
      <3> QED BY <3>1
    <2> QED BY <2>1, Appended
  <1> QED BY <1>2, <1>3

\* What every handler keeps by appending entries of the present.
LEMMA GrowsInOrder ==
    ASSUME TypeOK, Past, TrailInv, NEW ext \in Seq(Entry), trail' = trail \o ext,
           \A k \in 1..Len(ext) :
                ext[k].at = now /\ (ext[k].slot # NoSlot => ext[k].to = "RETRY_SCHEDULED")
    PROVE  /\ Ordered' /\ SlotsOnScheduled'
           /\ \A i \in 1..Len(trail) + 1 : Waiting(i) => Waiting(i)'
           /\ \A i \in 1..Len(trail) + 1 : Settled(i) => Settled(i)'
           /\ \A i \in Executed(trail') \ Executions' : i \in DOMAIN trail => Settled(i)'
           /\ \A i \in Executed(trail')  : i \in DOMAIN trail =>
                    \E j \in Executions' : j <= i
  <1>1. /\ Len(trail) \in Nat /\ DOMAIN trail = 1..Len(trail) /\ Len(ext) \in Nat
        /\ DOMAIN trail' = 1..(Len(trail) + Len(ext))
        /\ \A i \in DOMAIN trail : trail'[i] = trail[i] /\ i \in DOMAIN trail'
    BY Positions, Appended
  <1>2. ASSUME NEW i \in DOMAIN trail'
        PROVE  \/ i \in DOMAIN trail
               \/ /\ i > Len(trail) /\ trail'[i].at = now
                  /\ trail'[i].slot # NoSlot => trail'[i].to = "RETRY_SCHEDULED"
    BY <1>1, NewEntries
  <1>3. now \in Nat /\ \A i \in DOMAIN trail : trail[i].at \in Nat /\ trail[i].at <= now
    <2>1. \A i \in DOMAIN trail : trail[i].at \in Nat
      BY Positions DEF Entry
    <2> QED BY <2>1, BoundsAssumption DEF TypeOK, Past
  <1>4. Ordered'
    <2>1. SUFFICES ASSUME NEW i \in DOMAIN trail', NEW j \in DOMAIN trail', i <= j
                   PROVE  trail'[i].at <= trail'[j].at
      BY DEF Ordered
    <2>2. CASE j \in DOMAIN trail
      <3>1. i \in DOMAIN trail
        BY <1>1, <2>1, <2>2
      <3> QED BY <1>1, <2>1, <2>2, <3>1 DEF TrailInv, Ordered
    <2>3. CASE j \notin DOMAIN trail
      BY <1>1, <1>2, <1>3, <2>3
    <2> QED BY <2>2, <2>3
  <1>5. SlotsOnScheduled'
    <2>1. \A i \in DOMAIN trail : trail[i].slot # NoSlot => trail[i].to = "RETRY_SCHEDULED"
      BY DEF TrailInv, SlotsOnScheduled, Scheduled
    <2>2. \A i \in DOMAIN trail' : trail'[i].slot # NoSlot => trail'[i].to = "RETRY_SCHEDULED"
      BY <1>1, <1>2, <2>1
    <2> QED BY <2>2 DEF SlotsOnScheduled, Scheduled
  <1>6. ASSUME NEW i \in 1..Len(trail) + 1, Waiting(i)
        PROVE  Waiting(i)'
    <2>1. PICK j \in Notices :
            /\ j < i
            /\ \A k \in DOMAIN trail : j < k /\ k < i => trail[k].to = "RETRY_SCHEDULED"
      BY <1>6 DEF Waiting
    <2>2. j \in Notices'
      BY Appended DEF Notices
    <2>3. \A k \in DOMAIN trail' : j < k /\ k < i => trail'[k].to = "RETRY_SCHEDULED"
      BY <1>1, <2>1
    <2> QED BY <2>1, <2>2, <2>3 DEF Waiting
  <1>7. ASSUME NEW i \in Executed(trail'), i \in DOMAIN trail
        PROVE  \E j \in Executions' : j <= i
    <2>1. i \in Executed(trail)
      BY <1>1, <1>7 DEF Executed
    <2>2. PICK j \in Executions : j <= i
      BY <2>1 DEF TrailInv, FirstIsReal
    <2>3. j \in Executions'
      BY Appended, Positions
    <2> QED BY <2>2, <2>3
  <1>8. ASSUME NEW i \in 1..Len(trail) + 1, Settled(i)
        PROVE  Settled(i)'
    <2>1. SUFFICES ASSUME NEW j \in Notices', j < i
                   PROVE  \E k \in Executed(trail') : j < k /\ k < i
      BY DEF Settled
    <2>2. j \in DOMAIN trail
      BY <1>1, <2>1 DEF Notices
    <2>3. j \in Notices
      BY <2>2, Appended
    <2>4. PICK k \in Executed(trail) : j < k /\ k < i
      BY <1>8, <2>1, <2>3 DEF Settled
    <2>5. k \in Executed(trail')
      BY <1>1 DEF Executed
    <2> QED BY <2>4, <2>5
  <1>9. ASSUME NEW i \in Executed(trail') \ Executions', i \in DOMAIN trail
        PROVE  Settled(i)'
    <2>1. i \in Executed(trail) \ Executions
      BY <1>1, <1>9, Appended DEF Executed
    <2>2. Settled(i) /\ i \in 1..Len(trail) + 1
      BY <1>1, <1>9, <2>1 DEF TrailInv, EchoesSettled
    <2> QED BY <1>8, <2>2
  <1> QED BY <1>4, <1>5, <1>6, <1>7, <1>8, <1>9

\* send_notice: the wait begins at the new notice, and the slot right after it
\* is the only entry since.
LEMMA NoticeKeepsTrail ==
    ASSUME IInv, TrailInv, SendNotice
    PROVE  TrailInv'
  <1>1. PICK slot \in Slots(row.retries_used, now) :
            /\ row' = MarkNoticeSent(row).row
            /\ trail' = trail \o Inspected(MarkNoticeSent(row).path, slot)
    BY DEF SendNotice, Apply
  <1>2. /\ TypeOK /\ Past /\ slot \in Nat /\ now \in Nat /\ NoSlot \notin Int
        /\ row.retries_used \in Nat
    <2>1. TypeOK /\ Past /\ now \in Nat /\ NoSlot \notin Int /\ row.retries_used \in Nat
      BY BoundsAssumption, NoSlotAssumption DEF IInv, TypeOK, Row
    <2> QED BY <2>1, SlotsAreSafe
  <1>N. PICK n \in Nat : n = Len(trail)
    BY <1>2, Positions
  <1> DEFINE notice    == Note("NOTICE_PENDING", "NOTICE_SENT", NoSlot)
             scheduled == Note("NOTICE_SENT", "RETRY_SCHEDULED", slot)
             ext == <<notice, scheduled>>
  <1>3. /\ notice \in Entry /\ scheduled \in Entry
        /\ notice.at = now /\ notice.slot = NoSlot
        /\ notice.from = "NOTICE_PENDING" /\ notice.to = "NOTICE_SENT"
        /\ scheduled.at = now /\ scheduled.from = "NOTICE_SENT"
        /\ scheduled.to = "RETRY_SCHEDULED"
    BY <1>2 DEF Note, Entry, InspectedStates, AuditStates, CaseStates, PassingStates
  <1>4. /\ trail' = trail \o ext
        /\ ext \in Seq(Entry) /\ Len(ext) = 2 /\ ext[1] = notice /\ ext[2] = scheduled
    <2>1. trail' = trail \o ext
      BY <1>1, <1>2, NoticeEntries
    <2> HIDE DEF notice, scheduled
    <2> QED BY <1>3, <2>1
  <1> HIDE DEF notice, scheduled, ext
  <1>5. \A k \in 1..Len(ext) :
            ext[k].at = now /\ (ext[k].slot # NoSlot => ext[k].to = "RETRY_SCHEDULED")
    <2>1. \A k \in 1..2 : k = 1 \/ k = 2
      OBVIOUS
    <2> QED BY <1>3, <1>4, <2>1
  <1>6. /\ DOMAIN trail = 1..n /\ DOMAIN trail' = 1..(n + 2) /\ Len(trail') = n + 2
        /\ trail'[n + 1] = notice /\ trail'[n + 2] = scheduled
        /\ \A i \in DOMAIN trail : i \in DOMAIN trail' /\ trail'[i] = trail[i]
    <2>1. DOMAIN trail = 1..Len(trail) /\ DOMAIN trail' = 1..(Len(trail) + Len(ext))
      BY <1>2, <1>4, Positions, Appended
    <2>2. 1 \in 1..Len(ext) /\ 2 \in 1..Len(ext)
      BY <1>4
    <2>3. trail'[Len(trail) + 1] = ext[1] /\ trail'[Len(trail) + 2] = ext[2]
      BY <1>2, <1>4, <2>2, Appended
    <2>4. Len(trail') = Len(trail) + 2
      BY <1>2, <1>4, NewEntries
    <2> QED BY <1>N, <1>2, <1>4, <2>1, <2>3, <2>4, Appended
  <1>7. \A i \in DOMAIN trail' : i \in DOMAIN trail \/ i = n + 1 \/ i = n + 2
    BY <1>6
  <1>8. Ordered' /\ SlotsOnScheduled'
    BY <1>2, <1>4, <1>5, GrowsInOrder
  <1>9. NoticesOpen'
    <2>1. n + 1 \in Notices' /\ n + 1 < n + 3
      BY <1>3, <1>6 DEF Notices
    <2>2. \A k \in DOMAIN trail' : n + 1 < k /\ k < n + 3 => trail'[k].to = "RETRY_SCHEDULED"
      BY <1>3, <1>6
    <2>3. Len(trail') + 1 = n + 3
      BY <1>6
    <2>4. Waiting(n + 3)'
      BY <2>1, <2>2 DEF Waiting
    <2>5. Waiting(Len(trail) + 1)'
      BY <2>3, <2>4
    <2> QED BY <2>5 DEF NoticesOpen
  <1>10. Answered'
    <2>1. SUFFICES ASSUME NEW i \in Executions' PROVE Waiting(i)'
      BY DEF Answered
    <2>2. i \in DOMAIN trail
      BY <1>3, <1>6, <1>7 DEF Executions
    <2>3. i \in Executions /\ i \in 1..Len(trail) + 1
      <3>1. i \in Executions
        BY <1>2, <1>4, <2>2, Appended
      <3>2. i \in 1..Len(trail) + 1
        BY <1>N, <1>6, <2>2
      <3> QED BY <3>1, <3>2
    <2> QED BY <1>2, <1>4, <1>5, <2>3, GrowsInOrder DEF TrailInv, Answered
  <1>11. FirstIsReal'
    <2>1. SUFFICES ASSUME NEW i \in Executed(trail') PROVE \E j \in Executions' : j <= i
      BY DEF FirstIsReal
    <2>2. i \in DOMAIN trail
      BY <1>3, <1>6, <1>7 DEF Executed
    <2> QED BY <1>2, <1>4, <1>5, <2>2, GrowsInOrder
  <1>12. NoticesSettled'
    <2>1. row'.state = "RETRY_SCHEDULED"
      <3>1. row \in Row /\ row.state = "NOTICE_PENDING"
        BY <1>2 DEF SendNotice, TypeOK
      <3>2. row' = [row EXCEPT !.state = "RETRY_SCHEDULED"]
        BY <1>1, <3>1, MarkNoticeSentOutcome DEF Leads
      <3> QED BY <3>1, <3>2 DEF Row
    <2> QED BY <2>1 DEF NoticesSettled
  <1>13. EchoesSettled'
    <2>1. SUFFICES ASSUME NEW i \in Executed(trail') \ Executions' PROVE Settled(i)'
      BY DEF EchoesSettled
    <2>2. i \in DOMAIN trail
      BY <1>3, <1>6, <1>7 DEF Executed
    <2> QED BY <1>2, <1>4, <1>5, <2>2, GrowsInOrder
  <1> QED BY <1>8, <1>9, <1>10, <1>11, <1>12, <1>13 DEF TrailInv

\* execute_retry: the execution ends the wait that is open.
LEMMA ExecutionKeepsTrail ==
    ASSUME IInv, TrailInv, ExecuteRetry
    PROVE  TrailInv'
  <1>1. /\ TypeOK /\ Past /\ now \in Nat /\ row \in Row
        /\ row.state = "RETRY_SCHEDULED" /\ row' = AttemptExecution(row).row
    BY BoundsAssumption DEF IInv, TypeOK, ExecuteRetry, Apply
  <1>2. row'.state = "RETRY_EXECUTED"
    <2>1. row' = [row EXCEPT !.state = "RETRY_EXECUTED"]
      BY <1>1, SingleMoveOutcome DEF Leads
    <2> QED BY <1>1, <2>1 DEF Row
  <1>N. PICK n \in Nat : n = Len(trail)
    BY <1>1, Positions
  <1> DEFINE execution == Note("RETRY_SCHEDULED", "RETRY_EXECUTED", NoSlot)
             ext == <<execution>>
  <1>3. /\ execution \in Entry
        /\ execution.at = now /\ execution.slot = NoSlot
        /\ execution.from = "RETRY_SCHEDULED" /\ execution.to = "RETRY_EXECUTED"
    BY <1>1 DEF Note, Entry, InspectedStates, AuditStates, CaseStates, PassingStates
  <1>4. /\ trail' = trail \o ext
        /\ ext \in Seq(Entry) /\ Len(ext) = 1 /\ ext[1] = execution
    BY <1>1, <1>3, ExecutionEntry DEF ExecuteRetry, Apply
  <1> HIDE DEF execution, ext
  <1>5. \A k \in 1..Len(ext) :
            ext[k].at = now /\ (ext[k].slot # NoSlot => ext[k].to = "RETRY_SCHEDULED")
    BY <1>3, <1>4
  <1>6. /\ DOMAIN trail = 1..n /\ DOMAIN trail' = 1..(n + 1)
        /\ trail'[n + 1] = execution
    <2>1. DOMAIN trail = 1..Len(trail) /\ DOMAIN trail' = 1..(Len(trail) + Len(ext))
      BY <1>1, <1>4, Positions, Appended
    <2>2. 1 \in 1..Len(ext)
      BY <1>4
    <2>3. trail'[Len(trail) + 1] = ext[1]
      BY <1>1, <1>4, <2>2, Appended
    <2> QED BY <1>N, <1>4, <2>1, <2>3
  <1>7. \A i \in DOMAIN trail' : i \in DOMAIN trail \/ i = n + 1
    BY <1>6
  <1>8. Ordered' /\ SlotsOnScheduled'
    BY <1>1, <1>4, <1>5, GrowsInOrder
  <1>9. NoticesOpen'
    BY <1>2 DEF NoticesOpen
  <1>10. Answered'
    <2>1. SUFFICES ASSUME NEW i \in Executions' PROVE Waiting(i)'
      BY DEF Answered
    <2>2. i \in DOMAIN trail \/ i = n + 1
      BY <1>7 DEF Executions
    <2>3. Waiting(i) /\ i \in 1..Len(trail) + 1
      <3>1. CASE i \in DOMAIN trail
        <4>1. i \in Executions
          BY <1>1, <1>4, <3>1, Appended
        <4> QED BY <1>N, <1>6, <3>1, <4>1 DEF TrailInv, Answered
      <3>2. CASE i = n + 1
        BY <1>N, <1>1, <3>2 DEF TrailInv, NoticesOpen
      <3> QED BY <2>2, <3>1, <3>2
    <2> QED BY <1>1, <1>4, <1>5, <2>3, GrowsInOrder
  <1>11. FirstIsReal'
    <2>1. SUFFICES ASSUME NEW i \in Executed(trail') PROVE \E j \in Executions' : j <= i
      BY DEF FirstIsReal
    <2>2. CASE i \in DOMAIN trail
      BY <1>1, <1>4, <1>5, <2>2, GrowsInOrder
    <2>3. CASE i = n + 1
      <3>1. n + 1 \in Executions' /\ n + 1 <= i
        BY <1>3, <1>6, <2>3 DEF Executions
      <3> QED BY <3>1
    <2> QED BY <1>7, <2>2, <2>3 DEF Executed
  <1>12. NoticesSettled'
    <2>1. SUFFICES ASSUME NEW j \in Notices'
                   PROVE  \E k \in Executed(trail') : j < k /\ k < Len(trail') + 1
      BY DEF NoticesSettled, Settled
    <2>2. j \in 1..n
      BY <1>3, <1>6, <1>7 DEF Notices
    <2>3. n + 1 \in Executed(trail') /\ Len(trail') = n + 1
      BY <1>N, <1>1, <1>3, <1>4, <1>6, NewEntries DEF Executed
    <2>4. j < n + 1 /\ n + 1 < (n + 1) + 1
      BY <2>2
    <2> QED BY <2>3, <2>4
  <1>13. EchoesSettled'
    <2>1. SUFFICES ASSUME NEW i \in Executed(trail') \ Executions' PROVE Settled(i)'
      BY DEF EchoesSettled
    <2>2. n + 1 \in Executions'
      BY <1>3, <1>6 DEF Executions
    <2>3. i \in DOMAIN trail
      BY <1>7, <2>2 DEF Executed
    <2> QED BY <1>1, <1>4, <1>5, <2>3, GrowsInOrder
  <1> QED BY <1>8, <1>9, <1>10, <1>11, <1>12, <1>13 DEF TrailInv

\* A payment event: entries from the state of the row into itself.
LEMMA EventKeepsTrail ==
    ASSUME IInv, TrailInv, NEW path,
           path = <<row.state, row.state>> \/ Last(path) \notin InspectedStates,
           trail' = trail \o Inspected(path, NoSlot),
           row'.state \in {"RETRY_SCHEDULED", "RETRY_EXECUTED"} => row'.state = row.state
    PROVE  TrailInv'
  <1> DEFINE ext == Inspected(path, NoSlot)
  <1>1. TypeOK /\ Past
    BY DEF IInv
  <1>2. /\ ext \in Seq(Entry) /\ trail' = trail \o ext
        /\ \A k \in 1..Len(ext) :
            /\ ext[k].at = now /\ ext[k].slot = NoSlot
            /\ ext[k].to # "NOTICE_SENT" /\ ext[k].from = ext[k].to
            /\ ext[k].to = row.state
    BY <1>1, QuietEntries
  <1> HIDE DEF ext
  <1>3. /\ Len(trail) \in Nat /\ DOMAIN trail = 1..Len(trail) /\ Len(ext) \in Nat
        /\ Len(trail') = Len(trail) + Len(ext)
    BY <1>1, <1>2, Positions, Appended, NewEntries
  <1>4. /\ Notices' = Notices /\ Executions' = Executions
        /\ Notices \subseteq DOMAIN trail /\ Executions \subseteq DOMAIN trail
    BY <1>1, <1>2, QuietTrail, Positions
  <1>5. \A i \in DOMAIN trail' :
            \/ i \in DOMAIN trail /\ trail'[i] = trail[i]
            \/ i > Len(trail) /\ trail'[i].to = row.state
    <2>1. SUFFICES ASSUME NEW i \in DOMAIN trail', i \notin DOMAIN trail
                   PROVE  i > Len(trail) /\ trail'[i].to = row.state
      BY <1>1, <1>2, Appended
    <2>2. PICK k \in 1..Len(ext) : i = Len(trail) + k /\ trail'[i] = ext[k]
      BY <1>1, <1>2, <2>1, NewEntries
    <2> QED BY <1>2, <1>3, <2>2
  <1>6. /\ Ordered' /\ SlotsOnScheduled'
        /\ \A i \in 1..Len(trail) + 1 : Waiting(i) => Waiting(i)'
        /\ \A i \in Executed(trail') \ Executions' : i \in DOMAIN trail => Settled(i)'
        /\ \A i \in Executed(trail') : i \in DOMAIN trail => \E j \in Executions' : j <= i
    BY <1>1, <1>2, GrowsInOrder
  <1>7. NoticesOpen'
    <2>1. SUFFICES ASSUME row.state = "RETRY_SCHEDULED" PROVE Waiting(Len(trail) + 1)'
      BY DEF NoticesOpen
    <2>2. PICK j \in Notices :
            \A k \in DOMAIN trail : j < k /\ k < Len(trail) + 1 => trail[k].to = "RETRY_SCHEDULED"
      BY <2>1 DEF TrailInv, NoticesOpen, Waiting
    <2>3. j \in Notices' /\ j < Len(trail') + 1
      BY <1>3, <1>4
    <2>4. \A k \in DOMAIN trail' : j < k => trail'[k].to = "RETRY_SCHEDULED"
      BY <1>3, <1>5, <2>1, <2>2
    <2> QED BY <2>3, <2>4 DEF Waiting
  <1>8. Answered'
    <2>1. \A i \in Executions : Waiting(i) /\ i \in 1..Len(trail) + 1
      BY <1>3, <1>4 DEF TrailInv, Answered
    <2>2. \A i \in Executions' : Waiting(i)'
      BY <1>4, <1>6, <2>1
    <2> QED BY <2>2 DEF Answered
  <1>9. FirstIsReal'
    <2>1. SUFFICES ASSUME NEW i \in Executed(trail') PROVE \E j \in Executions' : j <= i
      BY DEF FirstIsReal
    <2>2. CASE i \in DOMAIN trail
      BY <1>6, <2>2
    <2>3. CASE i \notin DOMAIN trail
      <3>1. i \in DOMAIN trail' /\ trail'[i].to = "RETRY_EXECUTED"
        BY DEF Executed
      <3>2. row.state = "RETRY_EXECUTED" /\ i > Len(trail)
        BY <1>5, <2>3, <3>1
      <3>3. Executions # {}
        <4>1. row.retries_used \in Nat /\ Cardinality(Executions) = row.retries_used + 1
          BY <1>1, <3>2 DEF IInv, Counted, TypeOK, Row
        <4>2. SUFFICES ASSUME Executions = {} PROVE FALSE
          OBVIOUS
        <4>3. Cardinality(Executions) = 0
          BY <4>2, FS_EmptySet
        <4> QED BY <4>1, <4>3
      <3>4. PICK j \in Executions : TRUE
        BY <3>3
      <3>5. j \in Executions' /\ j <= i
        <4>1. DOMAIN trail' \subseteq Int
          BY <1>1, <1>2, <1>3, Appended
        <4> QED BY <1>3, <1>4, <3>1, <3>2, <3>4, <4>1
      <3> QED BY <3>5
    <2> QED BY <2>2, <2>3
  <1>10. /\ \A j \in Notices : j < Len(trail) + 1
         /\ Executed(trail) \subseteq Executed(trail') /\ Executed(trail) \subseteq DOMAIN trail
    BY <1>1, <1>2, <1>3, <1>4, Appended DEF Executed
  <1>11. ASSUME row.state = "RETRY_EXECUTED", NEW i \in DOMAIN trail' \cup {Len(trail') + 1},
                i > Len(trail)
         PROVE  Settled(i)'
    <2>1. SUFFICES ASSUME NEW j \in Notices
                   PROVE  \E k \in Executed(trail') : j < k /\ k < i
      BY <1>4 DEF Settled
    <2>2. PICK k \in Executed(trail) : j < k /\ k < Len(trail) + 1
      BY <1>10, <1>11 DEF TrailInv, NoticesSettled, Settled
    <2>3. i \in Int /\ k \in Int
      BY <1>1, <1>2, <1>3, <1>10, Appended
    <2> QED BY <1>3, <1>10, <1>11, <2>2, <2>3
  <1>12. NoticesSettled'
    <2>1. Len(trail') + 1 > Len(trail)
      BY <1>3
    <2> QED BY <1>11, <2>1 DEF NoticesSettled
  <1>13. EchoesSettled'
    <2>1. SUFFICES ASSUME NEW i \in Executed(trail') \ Executions' PROVE Settled(i)'
      BY DEF EchoesSettled
    <2>2. CASE i \in DOMAIN trail
      BY <1>6, <2>2
    <2>3. CASE i \notin DOMAIN trail
      <3>1. i \in DOMAIN trail' /\ trail'[i].to = "RETRY_EXECUTED"
        BY DEF Executed
      <3>2. row.state = "RETRY_EXECUTED" /\ i > Len(trail)
        BY <1>5, <2>3, <3>1
      <3> QED BY <1>11, <3>1, <3>2
    <2> QED BY <2>2, <2>3
  <1> QED BY <1>6, <1>7, <1>8, <1>9, <1>12, <1>13 DEF TrailInv

LEMMA StepTrailInv == IInv /\ TrailInv /\ [Next]_vars => TrailInv'
  <1> SUFFICES ASSUME IInv, TrailInv, [Next]_vars PROVE TrailInv'
    OBVIOUS
  <1>1. row \in Row /\ TypeOK
    BY DEF IInv, TypeOK
  <1>2. CASE SendNotice
    BY <1>2, NoticeKeepsTrail
  <1>3. CASE ExecuteRetry
    BY <1>3, ExecutionKeepsTrail
  <1>4. ASSUME NEW p \in Payments, FailAgain(p) PROVE TrailInv'
    <2> DEFINE outcome == HandleExistingFailure(row, p)
    <2>1. row' = outcome.row /\ trail' = trail \o Inspected(outcome.path, NoSlot)
      BY <1>4 DEF FailAgain, Apply
    <2>2. outcome.path = <<row.state, row.state>> \/ Last(outcome.path) \notin InspectedStates
      BY <1>1, EventPaths
    <2>3. row'.state \in {"RETRY_SCHEDULED", "RETRY_EXECUTED"} => row'.state = row.state
      <3> HIDE DEF outcome
      <3>1. /\ outcome.row \in Row
            /\ \/ outcome.row = [row EXCEPT !.state = "CONTROL_STILL_FAILED"]
               \/ outcome.row.state \in {"ESCALATED", "NOTICE_PENDING"}
               \/ outcome.row = row
        BY <1>1, ExistingFailureOutcome DEF Leads, outcome
      <3>2. [row EXCEPT !.state = "CONTROL_STILL_FAILED"].state = "CONTROL_STILL_FAILED"
        BY <1>1 DEF Row
      <3> QED BY <2>1, <3>1, <3>2
    <2> HIDE DEF outcome
    <2> QED BY <2>1, <2>2, <2>3, EventKeepsTrail
  <1>5. ASSUME NEW matches \in BOOLEAN, Succeed(matches) PROVE TrailInv'
    <2> DEFINE outcome == HandlePaymentSuccess(row, matches)
    <2>1. row' = outcome.row /\ trail' = trail \o Inspected(outcome.path, NoSlot)
      BY <1>5 DEF Succeed, Apply
    <2>2. outcome.path = <<row.state, row.state>> \/ Last(outcome.path) \notin InspectedStates
      BY <1>1, EventPaths
    <2>3. row'.state \in {"RETRY_SCHEDULED", "RETRY_EXECUTED"} => row'.state = row.state
      BY <1>1, <2>1, PaymentSuccessOutcome DEF Leads
    <2> HIDE DEF outcome
    <2> QED BY <2>1, <2>2, <2>3, EventKeepsTrail
  <1>6. CASE AdvanceClock \/ UNCHANGED vars
    <2>1. /\ row' = row /\ trail' = trail
          /\ Notices' = Notices /\ Scheduled' = Scheduled /\ Executions' = Executions
      BY <1>6 DEF AdvanceClock, vars, Notices, Scheduled, Executions
    <2> QED BY <2>1
         DEF TrailInv, Ordered, SlotsOnScheduled, NoticesOpen, Answered, FirstIsReal, Waiting,
             NoticesSettled, EchoesSettled, Settled
  <1> QED BY <1>2, <1>3, <1>4, <1>5, <1>6 DEF Next

\* The verifier's position in retry_spacing may be past the real one, as ignored
\* events count as attempts.  Nothing is missed if the waits do not fall from
\* the third on, which says nothing of the three entries of config/npci_rules.yaml.
WaitsGrow == \A i, j \in 3..Len(Spacing) : i <= j => Spacing[i] <= Spacing[j]

\* From the second attempt on, a later position asks for no shorter wait.
LEMMA LaterWaits ==
    ASSUME WaitsGrow, NEW real \in Nat, NEW seen \in Nat,
           real = seen \/ (real >= 2 /\ seen >= real)
    PROVE  /\ Spacing[Min({real + 1, Len(Spacing)})] \in Nat
           /\ Spacing[Min({seen + 1, Len(Spacing)})] \in Nat
           /\ Spacing[Min({real + 1, Len(Spacing)})] <= Spacing[Min({seen + 1, Len(Spacing)})]
  <1>1. /\ Spacing[Min({real + 1, Len(Spacing)})] \in Nat
        /\ Spacing[Min({seen + 1, Len(Spacing)})] \in Nat
    BY SpacingOfAttempt
  <1>2. SUFFICES ASSUME real >= 2, seen >= real
                 PROVE  Spacing[Min({real + 1, Len(Spacing)})] <= Spacing[Min({seen + 1, Len(Spacing)})]
    <2>1. CASE real = seen
      BY <1>1, <2>1
    <2> QED BY <1>1, <2>1
  <1>3. PICK last \in Nat : last = Len(Spacing)
    BY ScheduleAssumption DEF Loadable
  <1>4. ASSUME NEW n \in Nat
        PROVE  \E m \in Int : m = Min({n + 1, last}) /\ m \in {n + 1, last} /\ m <= last /\ m <= n + 1
    <2>1. PICK next \in Int : next = n + 1
      OBVIOUS
    <2>2. /\ Min({next, last}) \in {next, last}
          /\ Min({next, last}) <= next /\ Min({next, last}) <= last
      <3>1. next \in Int /\ last \in Int
        BY <2>1
      <3> QED BY <3>1, PairExtremes, Zenon
    <2> QED BY <2>1, <2>2
  <1>5. PICK a \in Int, b \in Int :
            /\ a = Min({real + 1, last}) /\ a \in {real + 1, last} /\ a <= last /\ a <= real + 1
            /\ b = Min({seen + 1, last}) /\ b \in {seen + 1, last} /\ b <= last /\ b <= seen + 1
    BY <1>4
  <1>6. a = b \/ (a \in 3..last /\ b \in 3..last /\ a <= b)
    BY <1>2, <1>3, <1>5
  <1>7. Spacing[a] \in Nat /\ Spacing[b] \in Nat
    BY <1>1, <1>3, <1>5
  <1>8. Spacing[a] <= Spacing[b]
    <2>1. CASE a = b
      BY <1>7, <2>1
    <2> QED BY <1>3, <1>6, <2>1 DEF WaitsGrow
  <1> QED BY <1>3, <1>5, <1>8

\* Rule 2: the wait of an early execution began at the last notice, and nothing
\* in between ended it.
LEMMA EarlyIsReported ==
    ASSUME TypeOK, Answered, EarlyExecution
    PROVE  "failed" \in NoticeLeadVerdict(trail)
  <1>1. PICK i \in Executions : trail[i].at < NoticeOf(i) + NoticeLead
    BY DEF EarlyExecution
  <1>2. PICK j \in Notices :
            /\ j < i
            /\ \A k \in DOMAIN trail : j < k /\ k < i => trail[k].to = "RETRY_SCHEDULED"
    BY DEF Answered, Waiting
  <1>3. /\ Len(trail) \in Nat /\ DOMAIN trail = 1..Len(trail)
        /\ i \in DOMAIN trail /\ j \in DOMAIN trail
        /\ \A k \in DOMAIN trail : trail[k].at \in Nat
        /\ Notices \subseteq DOMAIN trail /\ trail[i].to = "RETRY_EXECUTED"
        /\ NoticeLead \in Nat /\ NoSlot \notin Int
    BY Positions, ScheduleAssumption, NoSlotAssumption DEF Entry, Executions, Loadable
  <1>4. NoticeOf(i) = trail[j].at
    <2>1. Before(Notices, i) \in SUBSET Int /\ j \in Before(Notices, i)
      BY <1>2, <1>3 DEF Before
    <2>2. ASSUME NEW k \in Before(Notices, i) PROVE k <= j
      <3>1. k \in DOMAIN trail /\ k < i /\ trail[k].to # "RETRY_SCHEDULED"
        BY <1>3 DEF Before, Notices
      <3> QED BY <1>2, <1>3, <3>1
    <2>3. Max(Before(Notices, i)) = j
      BY <2>1, <2>2, KnownMax
    <2> QED BY <2>3 DEF NoticeOf
  <1>5. j \in LastNotice(trail, i)
    <2>1. j \in 1..i - 1 /\ trail[j].to = "NOTICE_SENT"
      BY <1>2, <1>3 DEF Notices
    <2>2. ASSUME NEW k \in j + 1..i - 1
          PROVE  trail[k].to # "NOTICE_SENT" /\ WaitEnd(trail[k]) = NoSlot
      <3>1. k \in DOMAIN trail /\ j < k /\ k < i
        BY <1>3
      <3>2. trail[k].to = "RETRY_SCHEDULED"
        BY <1>2, <3>1
      <3> QED BY <3>2 DEF WaitEnd
    <2> QED BY <2>1, <2>2 DEF LastNotice
  <1>6. WaitEnd(trail[i]) = trail[i].at /\ WaitEnd(trail[i]) # NoSlot
    BY <1>3 DEF WaitEnd
  <1>7. WaitEnd(trail[i]) - trail[j].at < NoticeLead
    BY <1>1, <1>3, <1>4, <1>6
  <1>8. i \in Early(trail)
    BY <1>3, <1>5, <1>6, <1>7 DEF Early, Matched
  <1> QED BY <1>8 DEF NoticeLeadVerdict

\* The other way: an ignored event ends no wait, since the execution before it did.
LEMMA ReportedIsEarly ==
    ASSUME TypeOK, EchoesSettled, "failed" \in NoticeLeadVerdict(trail)
    PROVE  EarlyExecution
  <1>i. PICK i \in Matched(trail) :
            \E j \in LastNotice(trail, i) : WaitEnd(trail[i]) - trail[j].at < NoticeLead
    BY DEF NoticeLeadVerdict, Early
  <1>1. PICK j \in LastNotice(trail, i) : WaitEnd(trail[i]) - trail[j].at < NoticeLead
    BY <1>i
  <1>2. /\ Len(trail) \in Nat /\ DOMAIN trail = 1..Len(trail)
        /\ \A k \in DOMAIN trail : trail[k].at \in Nat
        /\ NoticeLead \in Nat /\ NoSlot \notin Int
        /\ Notices \subseteq DOMAIN trail /\ Executed(trail) \subseteq DOMAIN trail
    BY Positions, ScheduleAssumption, NoSlotAssumption DEF Entry, Loadable, Executed
  <1>3. /\ i \in DOMAIN trail /\ WaitEnd(trail[i]) # NoSlot
        /\ j \in 1..i - 1 /\ trail[j].to = "NOTICE_SENT"
        /\ \A k \in j + 1..i - 1 : trail[k].to # "NOTICE_SENT" /\ WaitEnd(trail[k]) = NoSlot
    BY DEF Matched, LastNotice
  <1>4. i \in Int /\ j \in Int /\ j < i /\ j \in Notices /\ i \in Executed(trail)
        /\ WaitEnd(trail[i]) = trail[i].at
    BY <1>2, <1>3 DEF Notices, WaitEnd, Executed
  <1>5. ASSUME NEW k \in DOMAIN trail, j < k, k < i
        PROVE  k \notin Notices /\ k \notin Executed(trail)
    <2>1. k \in j + 1..i - 1
      BY <1>2, <1>4, <1>5
    <2>2. trail[k].to # "NOTICE_SENT" /\ WaitEnd(trail[k]) = NoSlot
      BY <1>3, <2>1
    <2>3. trail[k].at # NoSlot
      BY <1>2
    <2> QED BY <2>2, <2>3 DEF Notices, Executed, WaitEnd
  <1>6. i \in Executions
    <2>1. SUFFICES ASSUME i \notin Executions PROVE FALSE
      OBVIOUS
    <2>2. PICK k \in Executed(trail) : j < k /\ k < i
      BY <1>4, <2>1 DEF EchoesSettled, Settled
    <2> QED BY <1>2, <1>5, <2>2
  <1>7. NoticeOf(i) = trail[j].at
    <2>1. Before(Notices, i) \in SUBSET Int /\ j \in Before(Notices, i)
      BY <1>2, <1>4 DEF Before
    <2>2. ASSUME NEW k \in Before(Notices, i) PROVE k <= j
      <3>1. k \in DOMAIN trail /\ k \in Notices /\ k < i /\ k \in Int
        BY <1>2 DEF Before
      <3> QED BY <1>4, <1>5, <3>1
    <2>3. Max(Before(Notices, i)) = j
      BY <2>1, <2>2, KnownMax
    <2> QED BY <2>3 DEF NoticeOf
  <1>8. trail[i].at < NoticeOf(i) + NoticeLead
    BY <1>1, <1>2, <1>3, <1>4, <1>7
  <1> QED BY <1>6, <1>8 DEF EarlyExecution

\* Rule 4: both times the verifier looks at are there.
LEMMA PeakIsReported ==
    ASSUME TypeOK, SlotsOnScheduled, PeakExecution
    PROVE  "failed" \in PeakHourVerdict(trail)
  <1> DEFINE times(entry) ==
                IF entry.to \in {"RETRY_EXECUTED", "RETRY_SCHEDULED"}
                THEN {entry.at, entry.slot} \ {NoSlot} ELSE {}
  <1>1. /\ \A i \in DOMAIN trail : trail[i].at \in Nat
        /\ Executions \subseteq DOMAIN trail /\ Scheduled \subseteq DOMAIN trail
        /\ NoSlot \notin Int
    BY Positions, NoSlotAssumption DEF Entry
  <1>2. \E i \in DOMAIN trail : \E t \in times(trail[i]) : PeaksAt(t) # {}
    <2>1. CASE \E i \in Executions : PeaksAt(trail[i].at) # {}
      <3>1. PICK i \in Executions : PeaksAt(trail[i].at) # {}
        BY <2>1
      <3>2. i \in DOMAIN trail /\ trail[i].at \in times(trail[i])
        BY <1>1 DEF Executions
      <3> QED BY <3>1, <3>2
    <2>2. CASE \E i \in Scheduled : PeaksAt(trail[i].slot) # {}
      <3>1. PICK i \in Scheduled : PeaksAt(trail[i].slot) # {}
        BY <2>2
      <3>2. i \in DOMAIN trail /\ trail[i].slot \in times(trail[i])
        BY <1>1 DEF Scheduled, SlotsOnScheduled
      <3> QED BY <3>1, <3>2
    <2> QED BY <2>1, <2>2 DEF PeakExecution
  <1> QED BY <1>2 DEF PeakHourVerdict

\* Rule 3: of two real executions too close, the first entry after the earlier
\* one that looks like an execution is too close to it as well.
LEMMA CloseIsReported ==
    ASSUME TypeOK, Ordered, FirstIsReal, WaitsGrow, CloseExecutions
    PROVE  "failed" \in RetrySpacingVerdict(trail)
  <1> DEFINE seen       == Executed(trail)
             earlier(k) == {j \in seen : j < k}
  <1>1. PICK i \in Executions : CloseTo(trail[i].at, i)
    BY DEF CloseExecutions
  <1>2. /\ Len(trail) \in Nat /\ DOMAIN trail = 1..Len(trail)
        /\ \A k \in DOMAIN trail : trail[k].at \in Nat
        /\ Executions \subseteq seen /\ seen \subseteq DOMAIN trail
        /\ Executions \subseteq DOMAIN trail
    BY Positions DEF Entry, Executions, Executed
  <1> HIDE DEF seen
  <1> DEFINE before == Before(Executions, i)
  <1>3. before # {} /\ before \subseteq seen /\ \A k \in before : k < i /\ k \in Executions
    BY <1>1, <1>2 DEF CloseTo, Before
  <1>4. PICK p \in before : p = Max(before) /\ \A k \in before : k <= p
    <2>1. Max(before) \in before /\ \A k \in before : k <= Max(before)
      BY <1>2, <1>3, Positions
    <2> QED BY <2>1
  <1>5. trail[i].at < trail[p].at + Spacing[Min({Cardinality(before) + 1, Len(Spacing)})]
    BY <1>1, <1>4 DEF CloseTo, RequiredGap
  <1> HIDE DEF before
  <1>6. PICK e \in seen :
            /\ p < e /\ e <= i
            /\ \A k \in seen : p < k => e <= k
    <2> DEFINE after == {k \in seen : p < k}
    <2>1. after \in SUBSET Int /\ i \in after
      BY <1>2, <1>3
    <2>2. IsFiniteSet(after)
      <3>1. after \subseteq 1..Len(trail) /\ IsFiniteSet(1..Len(trail))
        BY <1>2, FS_Interval
      <3> QED BY <3>1, FS_Subset
    <2>3. PICK e \in after : \A k \in after : e <= k
      <3> HIDE DEF after
      <3> QED BY <2>1, <2>2, LeastElement
    <2>4. e \in seen /\ p < e /\ e <= i /\ \A k \in seen : p < k => e <= k
      BY <2>1, <2>3
    <2> QED BY <2>4
  <1>7. p \in DOMAIN trail /\ e \in DOMAIN trail /\ i \in DOMAIN trail
    BY <1>2, <1>3
  <1>8. /\ p \in earlier(e) /\ \A k \in earlier(e) : k <= p
        /\ earlier(e) \in SUBSET Int /\ before \subseteq earlier(e)
    <2>1. p \in earlier(e) /\ earlier(e) \in SUBSET Int
      BY <1>2, <1>3, <1>6
    <2>2. ASSUME NEW k \in earlier(e) PROVE k <= p
      <3>1. k \in seen /\ k \in Int /\ k < e /\ e \in Int /\ p \in Int
        BY <1>2, <1>7
      <3>2. SUFFICES ASSUME p < k PROVE FALSE
        BY <3>1
      <3>3. e <= k
        BY <1>6, <3>1, <3>2
      <3> QED BY <3>1, <3>3
    <2>3. ASSUME NEW k \in before PROVE k \in earlier(e)
      <3>1. k \in seen /\ k \in Int /\ k <= p
        BY <1>2, <1>3, <1>4
      <3>2. k < e
        BY <1>2, <1>6, <1>7, <3>1
      <3> QED BY <3>1, <3>2
    <2> QED BY <2>1, <2>2, <2>3
  <1>9. Max(earlier(e)) = p
    <2> HIDE DEF earlier
    <2> QED BY <1>8, KnownMax
  <1>10. IsFiniteSet(earlier(e)) /\ IsFiniteSet(before)
    <2>1. earlier(e) \subseteq 1..Len(trail) /\ IsFiniteSet(1..Len(trail))
      BY <1>2, FS_Interval
    <2> HIDE DEF earlier
    <2> QED BY <1>8, <2>1, FS_Subset
  <1>11. /\ Cardinality(before) \in Nat /\ Cardinality(earlier(e)) \in Nat
         /\ Cardinality(before) <= Cardinality(earlier(e))
    <2> HIDE DEF earlier
    <2> QED BY <1>8, <1>10, FS_Subset, FS_CardinalityType
  <1>12. \/ Cardinality(before) = Cardinality(earlier(e))
         \/ Cardinality(before) >= 2
    <2>1. CASE before \subseteq {p}
      <3>1. \A k \in earlier(e) : k = p
        <4>1. SUFFICES ASSUME NEW k \in earlier(e) PROVE k = p
          OBVIOUS
        <4>2. k \in Executed(trail) /\ k < e /\ k <= p
          BY <1>8 DEF seen
        <4>3. PICK real \in Executions : real <= k
          BY <4>2 DEF FirstIsReal
        <4>4. real < i /\ real \in Int /\ k \in Int /\ p \in Int
          BY <1>2, <1>6, <1>7, <1>8, <4>2, <4>3
        <4>5. real \in before
          BY <4>4 DEF before, Before
        <4>6. real = p
          BY <2>1, <4>5
        <4> QED BY <4>2, <4>3, <4>4, <4>6
      <3>2. earlier(e) = {p} /\ before = {p}
        <4> HIDE DEF earlier
        <4> QED BY <1>8, <2>1, <3>1
      <3> QED BY <3>2
    <2>2. CASE ~(before \subseteq {p})
      <3>1. PICK q \in before : q # p
        BY <2>2
      <3>2. Cardinality({p, q}) = 2
        <4>1. Cardinality({p}) = 1 /\ IsFiniteSet({p}) /\ q \notin {p}
          BY <3>1, FS_Singleton
        <4>2. Cardinality({p} \cup {q}) = Cardinality({p}) + 1
          BY <4>1, FS_AddElement
        <4>3. {p} \cup {q} = {p, q}
          OBVIOUS
        <4> QED BY <4>1, <4>2, <4>3
      <3>3. {p, q} \subseteq before
        BY <3>1
      <3>4. Cardinality({p, q}) <= Cardinality(before)
        BY <1>10, <3>3, FS_Subset
      <3> QED BY <1>11, <3>2, <3>4
    <2> QED BY <2>1, <2>2
  <1>13. /\ Spacing[Min({Cardinality(before) + 1, Len(Spacing)})] \in Nat
         /\ Spacing[Min({Cardinality(earlier(e)) + 1, Len(Spacing)})] \in Nat
         /\ Spacing[Min({Cardinality(before) + 1, Len(Spacing)})]
                <= Spacing[Min({Cardinality(earlier(e)) + 1, Len(Spacing)})]
    <2> HIDE DEF earlier
    <2> QED BY <1>11, <1>12, LaterWaits
  <1>14. trail[e].at <= trail[i].at
    BY <1>6, <1>7 DEF Ordered
  <1>15. trail[e].at - trail[p].at < Spacing[Min({Cardinality(earlier(e)) + 1, Len(Spacing)})]
    <2> HIDE DEF earlier
    <2>1. trail[e].at \in Nat /\ trail[p].at \in Nat /\ trail[i].at \in Nat
      BY <1>2, <1>7
    <2> QED BY <1>5, <1>13, <1>14, <2>1
  <1>16. \E k \in Executed(trail) :
            /\ {j \in Executed(trail) : j < k} # {}
            /\ trail[k].at - trail[Max({j \in Executed(trail) : j < k})].at
                    < Spacing[Min({Cardinality({j \in Executed(trail) : j < k}) + 1, Len(Spacing)})]
    BY <1>8, <1>9, <1>15 DEF seen
  <1> QED BY <1>16 DEF RetrySpacingVerdict

-----------------------------------------------------------------------------
(* The theorems *)

\* A case that has just been opened has no trail to speak of.
LEMMA InitIInv == Init => IInv
  <1> SUFFICES ASSUME Init PROVE IInv
    OBVIOUS
  <1>1. Opening \in Payments /\ MaxTime \in Nat /\ MaxRetries \in Nat \ {0}
    BY OpeningAssumption, BoundsAssumption, MaxRetriesAssumption DEF Retryable
  <1>2. /\ row \in Row /\ row.retries_used = 0
        /\ row.state \notin {"RETRY_SCHEDULED", "RETRY_EXECUTED"}
    BY <1>1, NewFailureOutcome DEF Init, Leads
  <1>3. Notices = {} /\ Scheduled = {} /\ Executions = {}
    BY DEF Init, Notices, Scheduled, Executions
  <1>4. TypeOK /\ Past /\ BelowCap
    BY <1>1, <1>2 DEF Init, TypeOK, Past, BelowCap
  <1>5. Counted
    BY <1>2, <1>3, FS_EmptySet DEF Counted
  <1>6. Announced /\ FirstRound
    BY <1>2, <1>3 DEF Init, Announced, FirstRound
  <1>7. SlotsAreLegal /\ FirstRetryOnTime
    BY <1>3 DEF SlotsAreLegal, FirstRetryOnTime
  <1> QED BY <1>4, <1>5, <1>6, <1>7 DEF IInv

\* Time passes, and nothing else changes.
LEMMA ClockStep ==
    ASSUME IInv, AdvanceClock
    PROVE  IInv'
  <1>1. /\ row' = row /\ decisions' = decisions /\ trail' = trail
        /\ now \in Nat /\ now' = now + 1 /\ now' \in 0..MaxTime
    BY BoundsAssumption DEF IInv, TypeOK, AdvanceClock
  <1>2. Notices' = Notices /\ Scheduled' = Scheduled /\ Executions' = Executions
    BY <1>1 DEF Notices, Scheduled, Executions
  <1>3. TypeOK' /\ BelowCap' /\ Counted' /\ Announced' /\ FirstRound'
    BY <1>1, <1>2 DEF IInv, TypeOK, BelowCap, Counted, Announced, FirstRound, Before
  <1>4. Past'
    <2>1. \A i \in DOMAIN trail : trail[i].at \in Nat /\ trail[i].at <= now
      BY Positions DEF IInv, Past, Entry
    <2> QED BY <1>1, <2>1 DEF Past
  <1>5. SlotsAreLegal' /\ FirstRetryOnTime'
    BY <1>1, <1>2 DEF IInv, SlotsAreLegal, FirstRetryOnTime, NoticeOf, CloseTo, RequiredGap, Before
  <1> QED BY <1>3, <1>4, <1>5 DEF IInv

LEMMA StepIInv == IInv /\ [Next]_vars => IInv'
  <1> SUFFICES ASSUME IInv, [Next]_vars PROVE IInv'
    OBVIOUS
  <1>1. CASE AdvanceClock
    BY <1>1, ClockStep
  <1>2. CASE SendNotice
    BY <1>2, NoticeStep
  <1>3. CASE ExecuteRetry
    BY <1>3, ExecutionStep
  <1>4. CASE \E p \in Payments : FailAgain(p)
    BY <1>4, FailStep
  <1>5. CASE \E matches \in BOOLEAN : Succeed(matches)
    BY <1>5, SucceedStep
  <1>6. CASE UNCHANGED vars
    <2>1. /\ row' = row /\ decisions' = decisions /\ trail' = trail /\ now' = now
          /\ Notices' = Notices /\ Scheduled' = Scheduled /\ Executions' = Executions
      BY <1>6 DEF vars, Notices, Scheduled, Executions
    <2> QED BY <2>1
         DEF IInv, TypeOK, Past, BelowCap, Counted, Announced, FirstRound, SlotsAreLegal,
             FirstRetryOnTime, NoticeOf, CloseTo, RequiredGap, Before
  <1> QED BY <1>1, <1>2, <1>3, <1>4, <1>5, <1>6 DEF Next

\* The trail of a new case has no entry, and no notice waits.
LEMMA InitTrailInv == Init => TrailInv
  <1> SUFFICES ASSUME Init PROVE TrailInv
    OBVIOUS
  <1>1. Opening \in Payments /\ MaxRetries \in Nat \ {0}
    BY OpeningAssumption, MaxRetriesAssumption DEF Retryable
  <1>2. row.state \notin {"RETRY_SCHEDULED", "RETRY_EXECUTED"}
    BY <1>1, NewFailureOutcome DEF Init, Leads
  <1>3. Scheduled = {} /\ Executions = {} /\ Executed(trail) = {} /\ DOMAIN trail = {}
    BY DEF Init, Scheduled, Executions, Executed
  <1> QED BY <1>2, <1>3
       DEF TrailInv, Ordered, SlotsOnScheduled, NoticesOpen, Answered, FirstIsReal,
           NoticesSettled, EchoesSettled

LEMMA Invariance == Spec => []IInv
  BY InitIInv, StepIInv, PTL DEF Spec

LEMMA TrailInvariance == Spec => [](IInv /\ TrailInv)
  <1>1. Init => IInv /\ TrailInv
    BY InitIInv, InitTrailInv
  <1>2. IInv /\ TrailInv /\ [Next]_vars => IInv' /\ TrailInv'
    BY StepIInv, StepTrailInv
  <1> QED BY <1>1, <1>2, PTL DEF Spec

\* Rows, decisions and trail entries keep their types (models.py): no slot is
\* before the clock starts and no decision is for an attempt past the cap.
THEOREM TypeCorrect == Spec => []TypeOK
  BY Invariance, PTL DEF IInv

\* For every configuration with separate windows, _compute_scheduled_at leaves
\* the notice its lead time, keeps the spacing to the execution before, and
\* schedules nothing in a peak window, whichever candidate the bandit takes.
THEOREM ScheduleIsLegal == Spec => []SlotsAreLegal
  BY Invariance, PTL DEF IInv

\* execute_retry runs the first retry of a case neither before its slot nor
\* before the lead time of its notice has passed, although it asks for any
\* decision that is due and not for the one of the attempt.
THEOREM FirstRetryKeepsSlot == Spec => []FirstRetryOnTime
  BY Invariance, PTL DEF IInv

\* verify_case_compliance reports every retry that was executed before the lead
\* time of its notice, closer to the retry before than retry_spacing asks, or
\* in a peak window, although it cannot tell an ignored event from an execution.
THEOREM VerifierMissesNothing ==
    ASSUME WaitsGrow
    PROVE  Spec => []NothingMissed
  <1>1. IInv /\ TrailInv => NothingMissed
    BY EarlyIsReported, CloseIsReported, PeakIsReported DEF IInv, TrailInv, NothingMissed
  <1> QED BY <1>1, TrailInvariance, PTL

\* "notice lead time respected (measured from NOTICE_SENT to RETRY_EXECUTED)":
\* of the three rules this one is exact, it reports early executions and nothing
\* else, for every configuration.
THEOREM LeadVerdictIsExact ==
    Spec => []("failed" \in NoticeLeadVerdict(trail) <=> EarlyExecution)
  <1>1. IInv /\ TrailInv => ("failed" \in NoticeLeadVerdict(trail) <=> EarlyExecution)
    BY EarlyIsReported, ReportedIsEarly DEF IInv, TrailInv
  <1> QED BY <1>1, TrailInvariance, PTL
=============================================================================
