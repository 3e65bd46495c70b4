----------------------------- MODULE MemoryMap ------------------------------
(***************************************************************************)
(* What mm/memblock.c keeps track of, without arrays: for every address,   *)
(* whether there is memory and with which flags on which node, and whether *)
(* it is reserved.  An operation that fails changes nothing.               *)
(***************************************************************************)
EXTENDS Integers

CONSTANTS
    Top,         \* addresses are 0..Top - 1
    Length,      \* lengths of the ranges operations are asked for
    Nid,         \* node ids a region may carry
    Mark         \* flags a region may carry

Place == 0..(Top - 1)

VARIABLES
    mem,         \* a record [at, flags, nid] for each address with memory
    rsv          \* addresses that are reserved

Spans == {{a \in Place : b <= a /\ a < b + s} : b \in Place, s \in Length}

MapInit == mem = {} /\ rsv = {}

\* Adding never changes memory that is already there.
Added(m, S, n) ==
    m \cup {[at |-> a, flags |-> {}, nid |-> n] : a \in S \ {x.at : x \in m}}

Removed(m, S) == {x \in m : x.at \notin S}

Flagged(m, S, f) ==
    {IF x.at \in S THEN [x EXCEPT !.flags = @ \cup {f}] ELSE x : x \in m}

Cleared(m, S, f) ==
    {IF x.at \in S THEN [x EXCEPT !.flags = @ \ {f}] ELSE x : x \in m}

Moved(m, S, n) == {IF x.at \in S THEN [x EXCEPT !.nid = n] ELSE x : x \in m}

ChangeMemory ==
    /\ UNCHANGED rsv
    /\ \E m \in {mem}, new \in {mem'}, S \in Spans :
          \/ new = Removed(m, S)
          \/ \E n \in Nid : new = Added(m, S, n) \/ new = Moved(m, S, n)
          \/ \E f \in Mark : new = Flagged(m, S, f) \/ new = Cleared(m, S, f)

ChangeReserved ==
    /\ UNCHANGED mem
    /\ \E r \in {rsv}, new \in {rsv'}, S \in Spans : new = r \cup S \/ new = r \ S

\* An operation that fails, or that asks for what is so already.
Nothing == UNCHANGED <<mem, rsv>>

MapNext == Nothing \/ ChangeMemory \/ ChangeReserved

MapSpec == MapInit /\ [][MapNext]_<<mem, rsv>>
=============================================================================
