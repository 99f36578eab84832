-------------------------------- MODULE ICache --------------------------------
(***************************************************************************)
(* The simulator's instruction cache, sim/icache.c: read-only, so without  *)
(* dirty bits and write-backs, and with a geometry of its own.  It fills   *)
(* its lines from memory, behind the back of the data cache.               *)
(***************************************************************************)
EXTENDS PhysMem, Integers

CONSTANTS
  ISets,        \* number of sets
  IAssoc,       \* lines per set, 1 or 2
  ITag,         \* upper address bits, for this geometry
  ISplit        \* ISplit[b]: tag and index of block b

ASSUME ICacheAssumption ==
  /\ ISets \in Nat \ {0}
  /\ IAssoc \in {1, 2}
  /\ ISplit \in [Block -> ITag \X (0 .. ISets - 1)]
  /\ \A b, c \in Block : ISplit[b] = ISplit[c] => b = c

VARIABLES
  iline,        \* iline[i][w]: way w of set i
  ilru,         \* ilru[i]: the way the next miss in set i replaces
  fetched       \* how the last fetch ended

ivars == <<iline, ilru, fetched>>

IIndex == 0 .. ISets - 1
IWay == 0 .. IAssoc - 1

ICacheLine == [valid : BOOLEAN, tag : ITag, data : Line]

FetchedWord(d) == [kind |-> "fetched", data |-> d]
FetchTimeout == [kind |-> "fetch timeout"]

ITypeOK ==
  /\ iline \in [IIndex -> [IWay -> ICacheLine]]
  /\ ilru \in [IIndex -> {0, 1}]
  /\ fetched \in {FetchedWord(d) : d \in UNION {[a -> Val] : a \in Access}}
                   \cup {FetchTimeout}

-------------------------------------------------------------------------------
IHitWays(b) ==
  {w \in IWay : iline[ISplit[b][2]][w].valid /\ iline[ISplit[b][2]][w].tag = ISplit[b][1]}

IHit(b) == IHitWays(b) # {}

IWayFor(b) ==
  IF IHit(b)
    THEN CHOOSE w \in IHitWays(b) : \A x \in IHitWays(b) : w <= x
    ELSE IF IAssoc = 1 THEN 0 ELSE ilru[ISplit[b][2]]

\* Using line_0 makes line_1 the next victim and vice versa.
NextVictim(w) == 1 - w

\* icacheReadWord: the word at positions a of block b.  On a miss lru is
\* switched before the line is read, which throws if nothing backs the block.
Fetch(b, a) ==
  LET i == ISplit[b][2]
      w == IWayFor(b)
      fill == [valid |-> TRUE, tag |-> ISplit[b][1], data |-> memory[b]]
  IN /\ ilru' = [ilru EXCEPT ![i] = NextVictim(w)]
     /\ IF IHit(b) \/ b \in Backed
          THEN /\ iline' = [iline EXCEPT ![i][w] = IF IHit(b) THEN @ ELSE fill]
               /\ fetched' = FetchedWord([o \in a |-> iline'[i][w].data[o]])
          ELSE /\ fetched' = FetchTimeout
               /\ UNCHANGED iline

\* icacheInvalidate, which is also what icacheReset does to the lines.
IInvalidate ==
  /\ iline' = [i \in IIndex |-> [w \in IWay |-> [iline[i][w] EXCEPT !.valid = FALSE]]]
  /\ ilru' = [i \in IIndex |-> 0]
  /\ UNCHANGED fetched

IInit ==
  /\ iline \in [IIndex -> [IWay -> ICacheLine]]
  /\ \A i \in IIndex, w \in IWay : ~iline[i][w].valid
  /\ ilru = [i \in IIndex |-> 0]
  /\ fetched = FetchTimeout

\* What a fetch from block b would see: the cached line, else memory.
IView == [b \in Backed |->
           IF IHit(b) THEN iline[ISplit[b][2]][IWayFor(b)].data ELSE memory[b]]
=============================================================================
