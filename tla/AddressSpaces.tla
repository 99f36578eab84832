----------------------------- MODULE AddressSpaces -----------------------------
(***************************************************************************)
(* What the two-task operating system promises its tasks: each has a       *)
(* machine of its own, with a memory, a register and an instruction        *)
(* pointer that no other task touches.                                     *)
(***************************************************************************)
EXTENDS Naturals

CONSTANTS
  Task, Readable, Writable,  \* the pages a task may load from and store to
  Value, Place,              \* contents of registers and pages; instruction addresses
  PageAt,                    \* PageAt[ip]: the page that address ip is in
  Image,                     \* Image[t]: the pages of task t as loaded
  Start                      \* the registers a task starts with

VARIABLES
  space,        \* space[t][p]: page p of task t
  context       \* context[t] = [reg, ip]

vars == <<space, context>>

Init ==
  /\ space = Image
  /\ context = [t \in Task |-> Start]

Advanced(c) == [c EXCEPT !.ip = (@ + 1) % Place]

Goes(t, c) == context' = [context EXCEPT ![t] = c]

\* An instruction that computes, or jumps.
Compute(t, v, ip) == Goes(t, [reg |-> v, ip |-> ip]) /\ UNCHANGED space

Load(t, p) ==
  /\ Goes(t, Advanced([context[t] EXCEPT !.reg = space[t][p]]))
  /\ UNCHANGED space

Store(t, p) ==
  /\ space' = [space EXCEPT ![t][p] = context[t].reg]
  /\ Goes(t, Advanced(context[t]))

\* A system call changes nothing the task can see.
Trap(t) ==
  /\ Goes(t, Advanced(context[t]))
  /\ UNCHANGED space

\* Instructions come from pages that may be read.
Next ==
  \E t \in {u \in Task : PageAt[context[u].ip] \in Readable} :
    \/ \E v \in Value, ip \in 0 .. Place - 1 : Compute(t, v, ip)
    \/ \E p \in Readable : Load(t, p)
    \/ \E p \in Writable : Store(t, p)
    \/ Trap(t)

Spec == Init /\ [][Next]_vars
=============================================================================
