---------------------------- MODULE OrderedList ----------------------------
(***************************************************************************)
(* A list kept in order by Fracdex keys, and people who reorder it at the  *)
(* same time. The order is the rows' position column, unique within the    *)
(* list; whoever drops a row reads its two new neighbours, has Between     *)
(* compute a key, and writes it. Between those steps others may write.     *)
(*                                                                         *)
(* The endpoint that moves a row is not part of the repository yet; the    *)
(* schema, Between and Validate are. The steps of a mover are modelled     *)
(* from what those three say of their use.                                 *)
(***************************************************************************)
EXTENDS Fracdex

CONSTANTS
    Rows,       \* rows of one list
    Movers,     \* requests that are reordering it
    Nobody,     \* no row
    Positions,  \* keys the rows may have at the start
    MaxLen,     \* bound: longer keys are left to the rebalance job
    MaxMoves    \* bound: rows that are dropped

ASSUME PositionsAssumption ==
    /\ Positions \subseteq Seq(Int)
    /\ \A k \in Positions : Validate(k)
ASSUME NobodyAssumption == Nobody \notin Rows
ASSUME BoundsAssumption == MaxLen \in Nat /\ MaxMoves \in Nat

VARIABLES
    position,  \* position[r]: the key of row r, NoKey before it is written
    moving,    \* moving[m]: the row mover m is holding
    prev,      \* prev[m], next[m]: the neighbours m dropped it between
    next,
    key,       \* key[m]: what Between answered
    moves      \* rows dropped so far

vars == <<position, moving, prev, next, key, moves>>

(* The positions of the other rows, and the two ends of the list. *)
Others(r) == {position[q] : q \in Rows \ {r}} \ {NoKey}

(* Neighbours: nothing of the list lies between them. *)
Adjacent(S, p, n) ==
    /\ p # NoKey /\ n # NoKey => Below(p, n)
    /\ \A k \in S : (p = NoKey \/ Below(p, k)) => (n # NoKey /\ ~Below(k, n))

Gaps(r) ==
    {g \in (Others(r) \cup {NoKey}) \X (Others(r) \cup {NoKey}) : Adjacent(Others(r), g[1], g[2])}

(* Some rows are in the list, the others are about to be added to it. *)
Init ==
    /\ position \in {f \in [Rows -> Positions \cup {NoKey}] :
                        /\ \E r \in Rows : f[r] = NoKey
                        /\ \A q, r \in Rows : q # r /\ f[q] = f[r] => f[q] = NoKey}
    /\ moving = [m \in Movers |-> Nobody]
    /\ prev = [m \in Movers |-> NoKey]
    /\ next = [m \in Movers |-> NoKey]
    /\ key = [m \in Movers |-> NoKey]
    /\ moves = 0

(* A row is dropped into a gap of the list as it is now. *)
Drop(m, r, p, n) ==
    /\ moving[m] = Nobody
    /\ moves < MaxMoves
    /\ <<p, n>> \in Gaps(r)
    /\ moving' = [moving EXCEPT ![m] = r]
    /\ prev' = [prev EXCEPT ![m] = p]
    /\ next' = [next EXCEPT ![m] = n]
    /\ key' = [key EXCEPT ![m] = Between(p, n)]
    /\ moves' = moves + 1
    /\ UNCHANGED position

Idle(m) ==
    /\ moving' = [moving EXCEPT ![m] = Nobody]
    /\ prev' = [prev EXCEPT ![m] = NoKey]
    /\ next' = [next EXCEPT ![m] = NoKey]
    /\ key' = [key EXCEPT ![m] = NoKey]

(* The UPDATE of the one row. The unique index refuses a key that another  *)
(* row has by now; Between's own refusal is answered too.                  *)
Write(m) ==
    /\ moving[m] # Nobody
    /\ \/ /\ key[m] \notin Errors
          /\ Len(key[m]) <= MaxLen
          /\ key[m] \notin Others(moving[m])
          /\ position' = [position EXCEPT ![moving[m]] = key[m]]
       \/ /\ key[m] \in Errors \/ Len(key[m]) > MaxLen \/ key[m] \in Others(moving[m])
          /\ UNCHANGED position
    /\ Idle(m)
    /\ UNCHANGED moves

Terminated ==
    /\ moves = MaxMoves
    /\ \A m \in Movers : moving[m] = Nobody
    /\ UNCHANGED vars

Next ==
    \/ \E m \in Movers :
        \/ \E r \in Rows : \E g \in Gaps(r) : Drop(m, r, g[1], g[2])
        \/ Write(m)
    \/ Terminated

Spec == Init /\ [][Next]_vars
-----------------------------------------------------------------------------
(* Every variable has its type, and a position is a key Validate accepts:  *)
(* what Between answers, stored once, is a bound of every later call.      *)
TypeOK ==
    /\ \A r \in Rows : position[r] # NoKey => Validate(position[r])
    /\ moving \in [Movers -> Rows \cup {Nobody}]
    /\ \A m \in Movers : \A k \in {prev[m], next[m]} : k = NoKey \/ Validate(k)
    /\ moves \in 0 .. MaxMoves

(* There is always room: Between never refuses two neighbours of a list it *)
(* filled, and the key it answers lies strictly between them, at both ends *)
(* of the integer space, across a change of width, and however deep the    *)
(* fractions of the two have become.                                       *)
LandsInGap ==
    \A m \in Movers : moving[m] # Nobody =>
        /\ key[m] \notin Errors
        /\ prev[m] # NoKey => Below(prev[m], key[m])
        /\ next[m] # NoKey => Below(key[m], next[m])
=============================================================================
