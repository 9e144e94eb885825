------------------------------- MODULE Timer -------------------------------
(***************************************************************************)
(* sleep (lib/reactor/timer.cc): the absolute deadline it gives io_uring,  *)
(* as arithmetic on the two fields of a timespec.                          *)
(*                                                                         *)
(* The quotient and the remainder of C++ round towards zero, and the sum   *)
(* of two tv_nsec is passed on as it is: it may reach 2 * 10^9 - 2 and,    *)
(* for a negative duration, be negative.  The kernel refuses a negative    *)
(* field with -EINVAL and adds the two up otherwise.                       *)
(***************************************************************************)
EXTENDS Integers

Second == 1000 * 1000 * 1000

\* The operators / and % of C++ for a positive divisor.
Quotient(a, b)  == IF a >= 0 THEN a \div b ELSE -((-a) \div b)
Remainder(a, b) == a - b * Quotient(a, b)

\* What clock_gettime(CLOCK_MONOTONIC) returns.
Times == [sec : Nat, nsec : 0 .. Second - 1]

\* The instant that a pair of fields stands for, in nanoseconds.
Instant(ts) == Second * ts.sec + ts.nsec

\* The timespec that sleep passes to IoEngine::timeout.
Deadline(now, duration) ==
  [sec  |-> now.sec  + Quotient(duration, Second),
   nsec |-> now.nsec + Remainder(duration, Second)]

\* The kernel's test of a timespec.
Accepted(ts) == ts.sec >= 0 /\ ts.nsec >= 0

\* How sleep ends: normally when the deadline has passed, with an exception
\* for any other error.
Outcome(now, duration) ==
  IF Accepted(Deadline(now, duration)) THEN "returns" ELSE "throws EINVAL"

=============================================================================
