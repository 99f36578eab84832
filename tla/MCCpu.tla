--------------------------------- MODULE MCCpu ---------------------------------
(***************************************************************************)
(* Two interrupt lines, three exceptions, two program addresses.  Software *)
(* starts user programs and nested kernel code, with all interrupts        *)
(* unmasked or only the lower one.                                         *)
(***************************************************************************)
EXTENDS Cpu

Vectors == BOOLEAN \X {"user miss", "general"}

Base == [v |-> FALSE, um |-> FALSE, pum |-> FALSE, oum |-> FALSE, ie |-> FALSE,
         pie |-> FALSE, oie |-> FALSE, prio |-> 0, mask |-> Irq]

Psws ==
  {[Base EXCEPT !.pum = TRUE, !.pie = TRUE],          \* start a user program
   [Base EXCEPT !.ie = TRUE, !.v = TRUE],             \* kernel, interruptible
   [Base EXCEPT !.um = TRUE, !.oum = TRUE, !.mask = {1}],
   [Base EXCEPT !.ie = TRUE, !.oie = TRUE, !.pum = TRUE, !.mask = {1}]}
=============================================================================
