--------------------------- MODULE RetrySchedule ---------------------------
(***************************************************************************)
(* When a retry may be scheduled: StateMachine._compute_scheduled_at with  *)
(* the helpers it calls, and the DND test of app/core/dnd.py.  Instants    *)
(* are integers counted in UTC; what the rules say of the clock on the     *)
(* wall in India is said of TimeOfDay.  send_notice passes a bandit and no *)
(* reason code, and the list of candidates is never empty: the branches    *)
(* for a missing bandit and for salary days are not reached.               *)
(***************************************************************************)
EXTENDS Integers, Sequences, FiniteSetsExt

CONSTANTS
    Day,          \* length of a day
    IstOffset,    \* Indian time minus UTC
    PeakWindows,  \* config.npci_rules.peak_windows, a sequence of [start, end]
    DndStart,     \* notices are deferred from DndStart
    DndEnd,       \* to DndEnd of the next day
    NoticeLead,   \* config.npci_rules.notice_lead_time
    Spacing,      \* config.self_imposed.retry_spacing, a sequence
    MaxWindow,    \* config.self_imposed.max_schedule_window
    SlotOffsets,  \* the delays of the candidates
    TimeScale     \* config.profile.time_scale: 1 for the real clock

\* What load_config lets through, in whole instants.
Loadable ==
    /\ Day \in Nat \ {0} /\ TimeScale \in Nat \ {0}
    /\ {IstOffset, DndStart, DndEnd, NoticeLead, MaxWindow} \subseteq Nat
    /\ PeakWindows \in Seq([start : 0..Day - 1, end : 0..Day - 1])
    /\ Spacing \in Seq(Nat) /\ Spacing # <<>>
    /\ \A i \in 2..Len(Spacing) : Spacing[i] >= Day
    /\ \A delay \in SlotOffsets : delay \in Nat /\ delay % TimeScale = 0

ASSUME ScheduleAssumption == Loadable

\* load_config does not look for it, but in the windows of config/npci_rules.yaml
\* no window ends within another.
ASSUME WindowsAssumption ==
    \A i, j \in DOMAIN PeakWindows :
        ~(PeakWindows[i].start <= PeakWindows[j].end /\ PeakWindows[j].end < PeakWindows[i].end)

-----------------------------------------------------------------------------
TimeOfDay(t) == (t + IstOffset) % Day

IsDndHour(t) == TimeOfDay(t) >= DndStart \/ TimeOfDay(t) < DndEnd

ResolveDelay(delay) == delay \div TimeScale

\* The windows, by their positions in the configuration, that contain t.
PeaksAt(t) ==
    {i \in DOMAIN PeakWindows :
        PeakWindows[i].start <= TimeOfDay(t) /\ TimeOfDay(t) < PeakWindows[i].end}

\* Mutant: the time of day is taken in UTC.
AvoidPeakWindows_Utc(t) ==
    LET peaks == PeaksAt(t - IstOffset)
    IN  IF peaks = {} THEN t ELSE t - (t % Day) + PeakWindows[Min(peaks)].end

\* Moved to the end of the first window that contains it, on the same day.
AvoidPeakWindows(t) ==
    IF PeaksAt(t) = {} THEN t
    ELSE t - TimeOfDay(t) + PeakWindows[Min(PeaksAt(t))].end

\* Mutant: the earlier of the two bounds.
FloorAt_Earlier(used, now) ==
    Min({now + NoticeLead, now + Spacing[Min({used + 1, Len(Spacing)})]})

\* The notice of the attempt has just been sent, and spacing counts from now,
\* as send_notice passes no previous_executed_at.
FloorAt(used, now) ==
    Max({now + NoticeLead, now + Spacing[Min({used + 1, Len(Spacing)})]})

LegalCandidates(floor, latest) ==
    LET offered  == {floor + ResolveDelay(delay) : delay \in SlotOffsets}
        moved    == {AvoidPeakWindows(t) : t \in {u \in offered : u <= latest}}
        legal    == {t \in moved : t <= latest}
    IN  IF legal = {} THEN {AvoidPeakWindows(floor)} ELSE legal

\* What the bandit may select.
Slots(used, now) ==
    LET floor == FloorAt(used, now)
    IN  LegalCandidates(floor, floor + MaxWindow)
=============================================================================
