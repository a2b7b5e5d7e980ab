------------------------------ MODULE Deadlines ------------------------------
(***************************************************************************)
(* The arithmetic of the session's timers (proxy_session.c): a deadline is *)
(* a struct timespec of CLOCK_MONOTONIC, computed from a duration in       *)
(* milliseconds in unsigned arithmetic of a fixed width.                   *)
(***************************************************************************)
EXTENDS Integers

CONSTANTS
    Word,       \* 2^64
    UsPerSec,   \* MICROSECONDS_PER_SECOND
    NsPerUs,    \* 1000
    NsPerMs     \* NANOSECONDS_PER_MILLISECOND

ASSUME DeadlinesAssumption ==
    /\ Word \in Nat \ {0}
    /\ UsPerSec \in Nat \ {0}
    /\ NsPerUs \in Nat \ {0}
    /\ NsPerMs \in Nat \ {0}

NsPerSec == UsPerSec * NsPerUs

Timespec == [sec : Nat, nsec : 0 .. NsPerSec - 1]

Nanoseconds(time) == time.sec * NsPerSec + time.nsec

DeadlineExpired(deadline, now) ==
    \/ now.sec > deadline.sec
    \/ now.sec = deadline.sec /\ now.nsec >= deadline.nsec

SetDeadline(now, duration_ms) ==
    LET duration_ns == (duration_ms * NsPerMs) % Word
        sec         == now.sec + (duration_ns \div NsPerSec)
        nsec        == now.nsec + (duration_ns % NsPerSec)
    IN  IF nsec >= NsPerSec
            THEN [sec |-> sec + 1, nsec |-> nsec - NsPerSec]
            ELSE [sec |-> sec, nsec |-> nsec]

(* What is left until a deadline that is ahead, borrowing from the seconds. *)
Remaining(deadline, now) ==
    LET borrow == IF deadline.nsec < now.nsec THEN 1 ELSE 0
    IN  [sec  |-> deadline.sec - now.sec - borrow,
         nsec |-> deadline.nsec - now.nsec + borrow * NsPerSec]

(* Faulty: the remaining nanoseconds are rounded down.                     *)
WaitTimeoutRoundedDown(deadline, now, maximum_usec) ==
    LET left      == Remaining(deadline, now)
        remaining == left.sec * UsPerSec + left.nsec \div NsPerUs
    IN  IF DeadlineExpired(deadline, now) THEN 0
        ELSE IF remaining < maximum_usec THEN remaining ELSE maximum_usec

(* deadline_wait_timeout_usec: how long the session may sleep.             *)
WaitTimeout(deadline, now, maximum_usec) ==
    LET left      == Remaining(deadline, now)
        remaining == (left.sec * UsPerSec
                         + (left.nsec + NsPerUs - 1) \div NsPerUs) % Word
    IN  IF DeadlineExpired(deadline, now) THEN 0
        ELSE IF remaining < maximum_usec THEN remaining ELSE maximum_usec

=============================================================================
