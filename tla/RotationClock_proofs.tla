------------------------ MODULE RotationClock_proofs ------------------------
(***************************************************************************)
(* Proof that a certificate is rotated in time, for every threshold,       *)
(* period, lifetime and outage.                                            *)
(***************************************************************************)
EXTENDS RotationClock, TLAPS

\* While an application serves a certificate that was not due when it
\* started, the age it will have at the next run of the job is bounded by
\* the threshold, one period and the outage so far.
AgeAtNextRunBounded ==
    up /\ ~NeedsRotation(startAge) /\ ~Expired =>
        age + timer <= HoursPerDay * ThresholdDays - 1 + Period + outage

IInv == TypeOK /\ AgeAtNextRunBounded /\ NeverServesExpired

\* Counting whole days is comparing hours: the floor of the division costs
\* nothing at the threshold itself.
LEMMA DueInHours ==
    ASSUME NEW a \in Nat
    PROVE  NeedsRotation(a) <=> a >= HoursPerDay * ThresholdDays
  BY ClockAssumption DEF ClockAssumption, NeedsRotation, HoursPerDay

\* The inductive invariant holds of the initial state.
LEMMA InitInv == Init => IInv
<1> SUFFICES ASSUME Init PROVE IInv
    OBVIOUS
<1>1. up \in BOOLEAN /\ ~up
  BY DEF Init
<1>2. TypeOK
  BY <1>1, ClockAssumption DEF ClockAssumption, Init, TypeOK
<1> QED
  BY <1>1, <1>2 DEF IInv, AgeAtNextRunBounded, NeverServesExpired

\* Every step of time, of the operator and of the job preserves it.
LEMMA NextInv == IInv /\ [Next]_vars => IInv'
<1> SUFFICES ASSUME IInv, [Next]_vars PROVE IInv'
    OBVIOUS
<1> USE ClockAssumption DEF ClockAssumption
<1>1. CASE Tick
  BY <1>1, DueInHours
  DEF Tick, IInv, TypeOK, AgeAtNextRunBounded, NeverServesExpired, Expired,
      OldestServed, HoursPerDay, NeedsRotation
<1>2. CASE Stop
  <2>1. up' \in BOOLEAN /\ ~up'
    BY <1>2 DEF Stop
  <2>2. TypeOK'
    BY <1>2, <2>1 DEF Stop, IInv, TypeOK
  <2> QED
    BY <2>1, <2>2 DEF IInv, AgeAtNextRunBounded, NeverServesExpired
<1>3. CASE Start
  BY <1>3, DueInHours
  DEF Start, IInv, TypeOK, AgeAtNextRunBounded, NeverServesExpired, Expired,
      OldestServed, HoursPerDay, NeedsRotation
<1>4. CASE Replace
  BY <1>4
  DEF Replace, IInv, TypeOK, AgeAtNextRunBounded, NeverServesExpired, Expired,
      OldestServed, HoursPerDay
<1>5. CASE JobKeeps
  BY <1>5, DueInHours
  DEF JobKeeps, JobDue, IInv, TypeOK, AgeAtNextRunBounded,
      NeverServesExpired, Expired, OldestServed, HoursPerDay, NeedsRotation
<1>6. CASE JobRotates
  BY <1>6, DueInHours
  DEF JobRotates, JobDue, IInv, TypeOK, AgeAtNextRunBounded,
      NeverServesExpired, Expired, OldestServed, HoursPerDay, NeedsRotation
<1>7. CASE JobFails
  BY <1>7, DueInHours
  DEF JobFails, JobDue, IInv, TypeOK, AgeAtNextRunBounded,
      NeverServesExpired, Expired, OldestServed, HoursPerDay, NeedsRotation
<1>8. CASE UNCHANGED vars
  BY <1>8
  DEF vars, IInv, TypeOK, AgeAtNextRunBounded, NeverServesExpired, Expired,
      OldestServed, NeedsRotation
<1> QED
  BY <1>1, <1>2, <1>3, <1>4, <1>5, <1>6, <1>7, <1>8 DEF Next

\* The invariant holds of every reachable state.
THEOREM Invariance == Spec => []IInv
  BY InitInv, NextInv, PTL DEF Spec

\* Ages, timers and outages keep their bounds.
THEOREM TypeCorrect == Spec => []TypeOK
<1>1. IInv => TypeOK
  BY DEF IInv
<1> QED
  BY <1>1, Invariance, PTL

\* With a lifetime beyond the threshold, a period and the longest outage, an
\* application that starts with a certificate not yet due never serves an
\* expired one.
THEOREM InTime == Spec => []NeverServesExpired
<1>1. IInv => NeverServesExpired
  BY DEF IInv
<1> QED
  BY <1>1, Invariance, PTL
=============================================================================
