------------------------------ MODULE MCTwoTasks ------------------------------
(***************************************************************************)
(* A TLB of three entries, one of them fixed, so that code and data of a   *)
(* task compete for the two others.                                        *)
(***************************************************************************)
EXTENDS TwoTasks

CONSTANTS System, IO, Gap

Frames == (Task \X TaskPage) \cup {ZeroFrame, IO}

DirectFrames == [p \in DirectPage |-> IF p = 0 THEN ZeroFrame ELSE IO]

Mapping == [frame |-> <<1, Data>>, write |-> TRUE, valid |-> TRUE]

HiValues == {Data, System, 1}
LoValues == {Mapping}

\* All entries alike, or all different and filled with what a task could use.
Samples ==
  LET sample(t) == [tlb |-> t, index |-> 1, hi |-> System, lo |-> Mapping,
                    bad |-> System] IN
  {sample([i \in 0 .. TLB_MASK |-> Made(Data, Mapping)]),
   sample([i \in 0 .. TLB_MASK |-> Made(IF i = TLB_MASK THEN Data ELSE i, Mapping)])}

\* One instruction in each of three pages; the last of them is not mapped.
Pages == [ip \in 0 .. Place - 1 |-> CASE ip = 0 -> Code [] ip = 1 -> Data [] OTHER -> Hole]

Images == [t \in Task |-> [p \in TaskPage |-> IF t = 1 THEN 0 ELSE 1]]
=============================================================================
