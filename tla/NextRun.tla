------------------------------- MODULE NextRun -------------------------------
(* NextRunRepository.next_run_for: when a workspace is collected next. *)
EXTENDS Integers

\* mutant: as many periods as have passed, and no more
PassedPeriods(late, delta) == late \div delta

\* how many scan intervals lie between a run that is late and the next one
Periods(late, delta) == (late \div delta) + 1

\* From a run in the past, the first point of its grid that is in the future; else one interval later.
NextRunFor(now, delta, last) ==
    LET late == now - last
    IN  IF late > 0 THEN last + delta * Periods(late, delta) ELSE last + delta

=============================================================================
