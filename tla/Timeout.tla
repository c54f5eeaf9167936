------------------------------ MODULE Timeout ------------------------------
(***************************************************************************)
(* The arithmetic of timed operations: from the timespec of semtimedop to  *)
(* nanoseconds on the wire (__tgcompat_glibc_semtimedop), to a deadline on *)
(* the monotonic clock (initialize_deadline), to the rounds of waiting     *)
(* (wait_for_state_change).  time_t has 64 bits.                           *)
(***************************************************************************)
EXTENDS Integers

CONSTANTS NS,        \* nanoseconds of a second, 1000000000
          Round,     \* the longest wait without looking around, 250000000
          INT64_MAX,
          INT_MAX

ASSUME TimeAssumption ==
    /\ NS \in Nat \ {0} /\ Round \in 0..(NS - 1)
    /\ INT64_MAX \in Nat /\ NS <= INT64_MAX /\ INT_MAX \in Nat

BadTimeout == -22   \* EINVAL
Overflow   == -75   \* EOVERFLOW

\* The timeout of the request, or the error of the call.
wire_timeout(seconds, nanoseconds) ==
    IF seconds < 0 \/ nanoseconds < 0 \/ nanoseconds >= NS THEN BadTimeout
    ELSE IF seconds > (INT64_MAX - nanoseconds) \div NS THEN Overflow
    ELSE seconds * NS + nanoseconds

compare_timespec(left, right) ==
    IF left.tv_sec # right.tv_sec THEN IF left.tv_sec < right.tv_sec THEN -1 ELSE 1
    ELSE IF left.tv_nsec = right.tv_nsec THEN 0
    ELSE IF left.tv_nsec < right.tv_nsec THEN -1 ELSE 1

\* Mutant: seconds and nanoseconds are added without carry.
add_no_carry(now, seconds, nanoseconds) ==
    [tv_sec |-> now.tv_sec + seconds, tv_nsec |-> now.tv_nsec + nanoseconds]

add(now, seconds, nanoseconds) ==
    IF now.tv_nsec + nanoseconds >= NS
    THEN [tv_sec  |-> now.tv_sec + seconds + 1,
          tv_nsec |-> now.tv_nsec + nanoseconds - NS]
    ELSE [tv_sec  |-> now.tv_sec + seconds,
          tv_nsec |-> now.tv_nsec + nanoseconds]

\* A deadline beyond the clock's range is far away, not in the past.
FarAway == [tv_sec |-> INT_MAX, tv_nsec |-> NS - 1]

initialize_deadline(timeout_ns, now) ==
    LET seconds == timeout_ns \div NS
    IN  IF seconds > INT_MAX \/ now.tv_sec > INT_MAX - seconds
        THEN FarAway
        ELSE add(now, seconds, timeout_ns % NS)

\* Until when wait_for_state_change sleeps.
round_end(now, deadline) ==
    LET round == add(now, 0, Round)
    IN  IF compare_timespec(deadline, round) < 0 THEN deadline ELSE round

\* Whether it then reports ETIMEDOUT.
timed_out(now, deadline) == compare_timespec(now, deadline) >= 0

-----------------------------------------------------------------------------
(* What they are to compute.                                                 *)

Value(t) == t.tv_sec * NS + t.tv_nsec

\* The timeout fits in 64 bits and is the one asked for, or the call fails.
WireExact(seconds, nanoseconds) ==
    LET wire == wire_timeout(seconds, nanoseconds)
        valid == seconds >= 0 /\ nanoseconds \in 0..(NS - 1)
    IN  /\ wire = BadTimeout <=> ~valid
        /\ wire = Overflow <=> valid /\ seconds * NS + nanoseconds > INT64_MAX
        /\ wire >= 0 => wire <= INT64_MAX /\ wire = seconds * NS + nanoseconds

\* The deadline is exactly that much later, except past the end of the clock.
DeadlineExact(timeout_ns, now) ==
    LET deadline == initialize_deadline(timeout_ns, now)
    IN  /\ deadline.tv_nsec \in 0..(NS - 1)
        /\ \/ Value(deadline) = Value(now) + timeout_ns
           \/ /\ deadline = FarAway
              /\ Value(now) + timeout_ns >= (INT_MAX + 1) * NS
        /\ now.tv_sec < INT_MAX /\ timeout_ns > 0 => Value(deadline) > Value(now)

\* A round ends at the deadline or after Round, and the deadline is noticed as
\* soon as the clock shows it.
RoundExact(now, deadline) ==
    LET end == Value(round_end(now, deadline))
    IN  /\ end = Value(deadline) \/ end = Value(now) + Round
        /\ end <= Value(deadline) /\ end <= Value(now) + Round
        /\ timed_out(now, deadline) <=> Value(now) >= Value(deadline)

=============================================================================
