---------------------------- MODULE BufferedMemory ----------------------------
(***************************************************************************)
(* What a program may rely on when it goes through the data cache: a       *)
(* memory that answers every load with the value stored last, in front of  *)
(* a backing store that lags behind.  No set, way or replacement policy    *)
(* is mentioned.                                                           *)
(*                                                                         *)
(* A call may fail with a bus timeout, and then changes nothing a later    *)
(* load can see.  It fails only if nothing backs the block it names, or if *)
(* a store to ROM was accepted and not thrown away since: that store can   *)
(* never reach the backing store, and any later call may be the one to     *)
(* report it.  The backing store may catch up with one RAM block at any    *)
(* call; a flush that succeeds makes it catch up completely; an invalidate *)
(* throws away what it has not caught up with.                             *)
(***************************************************************************)
EXTENDS FiniteSets

CONSTANTS Block, Ram, Rom, Offset, Val, Access

VARIABLES
  view,         \* what a load sees
  store,        \* what the backing store holds
  romStores,    \* ROM blocks whose contents a load sees a store to
  outcome       \* how the last call ended

bvars == <<view, store, romStores, outcome>>

Backed == Ram \cup Rom

Returned(d) == [kind |-> "returned", data |-> d]
Nothing == [o \in {} |-> o]
BusTimeout == [kind |-> "bus timeout", data |-> Nothing]

Catchup(B) ==
  /\ B \subseteq Ram
  /\ store' = [b \in Backed |-> IF b \in B THEN view[b] ELSE store[b]]

CatchupWithOne == Catchup({}) \/ \E e \in Ram : Catchup({e})

Load(b, a) ==
  /\ b \in Backed
  /\ outcome' = Returned([o \in a |-> view[b][o]])
  /\ UNCHANGED <<view, romStores>>
  /\ CatchupWithOne

Store(b, v) ==
  /\ b \in Backed
  /\ outcome' = Returned(Nothing)
  /\ view' = [view EXCEPT ![b] =
                [o \in Offset |-> IF o \in DOMAIN v THEN v[o] ELSE @[o]]]
  /\ romStores' = romStores \cup ({b} \cap Rom)
  /\ CatchupWithOne

\* The load or store of b fails.
Fail(b) ==
  /\ b \notin Backed \/ romStores # {}
  /\ outcome' = BusTimeout
  /\ UNCHANGED <<view, romStores>>
  /\ CatchupWithOne

\* A flush that fails has caught up with some blocks, one that succeeds with all.
Flush ==
  /\ IF romStores = {}
       THEN outcome' = Returned(Nothing) /\ store' = view
       ELSE outcome' = BusTimeout
  /\ UNCHANGED <<view, romStores>>
  /\ \E B \in SUBSET Ram : Catchup(B)

Invalidate ==
  /\ outcome' = Returned(Nothing)
  /\ UNCHANGED store
  /\ view' = store
  /\ romStores' = {}

Reset ==
  /\ outcome' = Returned(Nothing)
  /\ store' \in [Backed -> [Offset -> Val]]
  /\ \A b \in Rom : store'[b] = store[b]
  /\ view' = store'
  /\ romStores' = {}

Init ==
  /\ store \in [Backed -> [Offset -> Val]]
  /\ view = store
  /\ romStores = {}
  /\ outcome = Returned(Nothing)

Next ==
  \/ Invalidate
  \/ Reset
  \/ Flush
  \/ \E b \in Block :
       \/ Fail(b)
       \/ \E a \in Access :
            \/ Load(b, a)
            \/ \E v \in [a -> Val] : Store(b, v)

Spec == Init /\ [][Next]_bvars
=============================================================================
