------------------------- MODULE ComplianceVerifier -------------------------
(***************************************************************************)
(* verify_case_compliance of app/core/verifier.py over the entries of an   *)
(* audit trail that it looks at, each [from, to, at, slot].  A verdict is  *)
(* a set of results: none, passed, failed.  The rules that do not look at  *)
(* the times of entries are left out.                                      *)
(***************************************************************************)
EXTENDS RetrySchedule, SequencesExt

CONSTANT NoSlot  \* the scheduled_at of an entry that carries none

ASSUME NoSlotAssumption == NoSlot \notin Int

InspectedStates == {"NOTICE_SENT", "RETRY_SCHEDULED", "RETRY_EXECUTED"}

-----------------------------------------------------------------------------
\* Mutant: the wait is measured up to the slot, not up to the execution.
WaitEnd_Slot(entry) == entry.slot

\* When an entry ends the wait that a notice begins; NoSlot if it does not.
WaitEnd(entry) == IF entry.to = "RETRY_EXECUTED" THEN entry.at ELSE NoSlot

\* last_notice_entry when the loop comes to position i: the last notice before i,
\* unless an entry since then has ended its wait; as a set, empty for None.
LastNotice(trail, i) ==
    {j \in 1..i - 1 :
        /\ trail[j].to = "NOTICE_SENT"
        /\ \A k \in j + 1..i - 1 : trail[k].to # "NOTICE_SENT" /\ WaitEnd(trail[k]) = NoSlot}

\* found_execution_after_notice is set at these positions.
Matched(trail) == {i \in DOMAIN trail : WaitEnd(trail[i]) # NoSlot /\ LastNotice(trail, i) # {}}

\* The loop breaks at the first of these.
Early(trail) ==
    {i \in Matched(trail) :
        \E j \in LastNotice(trail, i) : WaitEnd(trail[i]) - trail[j].at < NoticeLead}

\* After the break there is a notice and an execution was found: no second result.
NoticeLeadVerdict(trail) ==
    IF Early(trail) # {} THEN {"failed"}
    ELSE IF LastNotice(trail, Len(trail) + 1) = {} \/ Matched(trail) = {} THEN {"passed"}
    ELSE {}

Executed(trail) == {i \in DOMAIN trail : trail[i].to = "RETRY_EXECUTED"}

\* Each execution but the first against the one before it.
RetrySpacingVerdict(trail) ==
    LET earlier(i)  == {j \in Executed(trail) : j < i}
        required(i) == Spacing[Min({Cardinality(earlier(i)) + 1, Len(Spacing)})]
        close(i)    == trail[i].at - trail[Max(earlier(i))].at < required(i)
    IN  IF \E i \in Executed(trail) : earlier(i) # {} /\ close(i)
        THEN {"failed"} ELSE {"passed"}

PeakHourVerdict(trail) ==
    LET times(entry) ==
            IF entry.to \in {"RETRY_EXECUTED", "RETRY_SCHEDULED"}
            THEN {entry.at, entry.slot} \ {NoSlot} ELSE {}
    IN  IF \E i \in DOMAIN trail : \E t \in times(trail[i]) : PeaksAt(t) # {}
        THEN {"failed"} ELSE {"passed"}
=============================================================================
