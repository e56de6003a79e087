---------------------------- MODULE RotationClock ----------------------------
(***************************************************************************)
(* When the hourly CertRotationJob rotates: the age of the stored          *)
(* certificate, in hours, against its lifetime.  needs_rotation counts     *)
(* whole days since the certificate was issued and never looks at its      *)
(* expiry, so that a certificate is replaced in time is a matter of how    *)
(* the threshold, the period of the job and the run of failures add up.    *)
(***************************************************************************)
EXTENDS Integers

CONSTANTS
    ThresholdDays,  \* needs_rotation's threshold_days
    Period,         \* hours between two runs of the job
    Lifetime,       \* hours between issued_at and expires_at
    MaxOutage       \* bound: hours in a row in which calls to Trust may fail

ASSUME ClockAssumption ==
    /\ ThresholdDays \in Nat /\ MaxOutage \in Nat
    /\ Period \in Nat \ {0} /\ Lifetime \in Nat \ {0}

VARIABLES
    up,        \* the application is running
    age,       \* of the stored certificate; Lifetime when it has expired
    startAge,  \* age the stored certificate had when the application
               \* started with it, 0 for one rotated in since
    timer,     \* hours to the next run of the job
    outage     \* hours without an answer from Trust since rotation was due

vars == <<up, age, startAge, timer, outage>>

HoursPerDay == 24

Expired == age = Lifetime

\* (now - issued_at).days: a started day does not count.
NeedsRotationAfter(a) == a \div HoursPerDay > ThresholdDays

NeedsRotation(a) == a \div HoursPerDay >= ThresholdDays

\* The first certificate was issued when it was stored.
Init == up = FALSE /\ age = 0 /\ startAge = 0 /\ timer = 0 /\ outage = 0

TickUnscheduled ==
    /\ age' = IF Expired THEN age ELSE age + 1
    /\ timer' = timer - 1
    /\ UNCHANGED <<up, startAge, outage>>

\* An hour passes.  A run of the job that is due comes first.
Tick ==
    /\ up => timer > 0
    /\ age' = IF Expired THEN age ELSE age + 1
    /\ timer' = IF up THEN timer - 1 ELSE timer
    /\ UNCHANGED <<up, startAge, outage>>

\* The application is stopped; its schedule is gone.
Stop ==
    /\ up
    /\ up' = FALSE /\ timer' = 0 /\ startAge' = 0 /\ outage' = 0
    /\ UNCHANGED age

\* A start schedules the first run one period ahead.  Before that the ACTIVE
\* flow rotates the certificate if it is due, or serves with the old one
\* when the call fails; over an expired one it always does.
Start ==
    /\ ~up
    /\ up' = TRUE /\ timer' = Period /\ outage' = 0
    /\ \/ startAge' = age /\ UNCHANGED age
       \/ /\ NeedsRotation(age) /\ ~Expired
          /\ age' = 0 /\ startAge' = 0

\* A bootstrap file, or the development tool, replaces the certificate of a
\* stopped application.
Replace ==
    /\ ~up
    /\ age' = 0
    /\ UNCHANGED <<up, startAge, timer, outage>>

JobDue == up /\ timer = 0

JobKeeps ==
    /\ JobDue /\ ~NeedsRotation(age)
    /\ timer' = Period
    /\ UNCHANGED <<up, age, startAge, outage>>

JobRotates ==
    /\ JobDue /\ NeedsRotation(age) /\ ~Expired
    /\ age' = 0 /\ startAge' = 0 /\ outage' = 0 /\ timer' = Period
    /\ UNCHANGED up

\* Trust does not answer, or the handshake fails over an expired certificate:
\* the job keeps the certificate and tries again a period later.
JobFails ==
    /\ JobDue /\ NeedsRotation(age)
    /\ IF Expired
       THEN UNCHANGED outage
       ELSE /\ outage + Period <= MaxOutage
            /\ outage' = outage + Period
    /\ timer' = Period
    /\ UNCHANGED <<up, age, startAge>>

Next ==
    \/ Tick \/ Stop \/ Start \/ Replace
    \/ JobKeeps \/ JobRotates \/ JobFails

Spec == Init /\ [][Next]_vars

-----------------------------------------------------------------------------
\* Ages, timers and outages stay within their bounds.
TypeOK ==
    /\ up \in BOOLEAN
    /\ age \in 0..Lifetime /\ startAge \in 0..Lifetime
    /\ timer \in 0..Period
    /\ outage \in 0..MaxOutage

\* The oldest a certificate gets that was not due when the application
\* started: not due at one run, due at the next, and kept through an outage.
OldestServed == HoursPerDay * ThresholdDays - 1 + Period + MaxOutage

\* With a lifetime beyond that, an application that started with a
\* certificate not yet due never serves an expired one (needs_rotation, the
\* schedule and the except clause of _synchronize_runtime together).
NeverServesExpired ==
    /\ up
    /\ ~NeedsRotation(startAge)
    /\ OldestServed < Lifetime
    => ~Expired
=============================================================================
