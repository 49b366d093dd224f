----------------------------- MODULE Allocation -----------------------------
(***************************************************************************)
(* How the line items of a receipt are spread over the splits of its       *)
(* draft: services/allocation_workspace.py, and the sums that              *)
(* services/validation.py asks for.                                        *)
(*                                                                         *)
(* Amounts are in cents.  Item ids and split ids are positions, category   *)
(* ids and memos are left out: a payload is its total and the amounts of   *)
(* its splits.                                                             *)
(***************************************************************************)
EXTENDS Integers, SequencesExt

CONSTANT Unknown   \* an amount that is not known (None)

ASSUME UnknownIsNoAmount == Unknown \notin Int

Main         == <<"main">>
Unassigned   == <<"unassigned">>
SplitLane(i) == <<"split", i>>

(* The lanes of a payload, in order, but for Unassigned, which is always there. *)
LaneOrder(payload) ==
    IF payload.splits = <<>> THEN <<Main>> ELSE [i \in DOMAIN payload.splits |-> SplitLane(i)]

LanesOf(payload) == ToSet(LaneOrder(payload))

PinOf(payload, l) ==
    IF l = Main THEN payload.total ELSE payload.splits[l[2]]

(* A workspace: the amounts of its items, the pinned amount of each lane and
   the lane of each item.  A workspace that a client sends may leave items out. *)
NoWorkspace == [items |-> <<>>, pins |-> <<>>, lane |-> <<>>]

-----------------------------------------------------------------------------
(* _greedy_assign_items: the larger items first, each to the lane whose
   remaining target is nearest to it. *)

Magnitude(n) == IF n < 0 THEN -n ELSE n

Known(items) == {i \in DOMAIN items : items[i] # Unknown}

Ahead(items, i, j) ==
    \/ Magnitude(items[i]) > Magnitude(items[j])
    \/ Magnitude(items[i]) = Magnitude(items[j]) /\ i < j

LastOf(items, left) == CHOOSE j \in left : \A i \in left \ {j} : Ahead(items, i, j)

Nearest(lanes, room, size) ==
    LET far(i) == Magnitude(room[lanes[i]] - size)
        best   == CHOOSE i \in DOMAIN lanes :
                    \A j \in DOMAIN lanes : far(i) < far(j) \/ (far(i) = far(j) /\ i <= j)
    IN  lanes[best]

Greedy(items, lanes, pins) ==
    LET place(i, acc) ==
          LET l == Nearest(lanes, acc.room, Magnitude(items[i]))
          IN  [room |-> [acc.room EXCEPT ![l] = @ - Magnitude(items[i])],
               lane |-> [acc.lane EXCEPT ![i] = l]]
        start == [room |-> pins, lane |-> [i \in DOMAIN items |-> Unassigned]]
        last(left) == LastOf(items, left)
    IN  MapThenFoldSet(place, start, LAMBDA i : i, last, Known(items)).lane

InitialWorkspace(payload, items) ==
    LET pins == [l \in LanesOf(payload) |-> PinOf(payload, l)]
    IN  [items |-> items, pins |-> pins,
         lane |-> Greedy(items, LaneOrder(payload), pins)]

-----------------------------------------------------------------------------
(* reconcile_allocation_workspace: the lanes follow the payload, the items stay
   those of the workspace. *)

KeptPin(payload, pins, l) ==
    IF l \notin DOMAIN pins THEN PinOf(payload, l)
    ELSE IF l = Main /\ pins[l] # payload.total THEN Unknown
    ELSE pins[l]

(* Mutant: an item keeps the lane it had. *)
KeepsLane(payload, l) == l

Remapped(payload, l) ==
    IF l \in LanesOf(payload) THEN l
    ELSE IF l \in {Main, SplitLane(1)} THEN LaneOrder(payload)[1]
    ELSE Unassigned

Reconciled(payload, ws, items) ==
    IF ws = NoWorkspace THEN InitialWorkspace(payload, items)
    ELSE [items |-> ws.items,
          pins  |-> [l \in LanesOf(payload) |-> KeptPin(payload, ws.pins, l)],
          lane  |-> [i \in DOMAIN ws.items |->
                       IF i \in DOMAIN ws.lane THEN Remapped(payload, ws.lane[i])
                       ELSE Unassigned]]

-----------------------------------------------------------------------------
(* _largest_remainder_allocation *)

Total(s) == SumFunction(s)

(* Mutant: every share is rounded to the nearest cent. *)
RoundedShares(target, weights) ==
    LET sum == Total(weights)
    IN  [i \in DOMAIN weights |->
           IF target <= 0 \/ sum = 0 THEN 0 ELSE (2 * target * weights[i] + sum) \div (2 * sum)]

(* The indices of the n largest fractional parts, the earlier ones first. *)
Largest(rest, n) ==
    {i \in DOMAIN rest :
       Cardinality({j \in DOMAIN rest : rest[j] > rest[i] \/ (rest[j] = rest[i] /\ j < i)}) < n}

Shares(target, weights) ==
    LET given == IF Total(weights) > 0 THEN weights ELSE [i \in DOMAIN weights |-> 1]
        sum   == Total(given)
        floor == [i \in DOMAIN given |-> (target * given[i]) \div sum]
        rest  == [i \in DOMAIN given |-> (target * given[i]) % sum]
        extra == Largest(rest, target - Total(floor))
    IN  IF target <= 0 THEN [i \in DOMAIN weights |-> 0]
        ELSE [i \in DOMAIN weights |-> IF i \in extra THEN floor[i] + 1 ELSE floor[i]]

-----------------------------------------------------------------------------
(* recompute_payload_from_workspace *)

(* What the known items of a lane add up to; discounts are negative. *)
Weight(ws, l) ==
    LET sum == Total([i \in DOMAIN ws.items |->
                        IF ws.lane[i] = l /\ ws.items[i] # Unknown THEN ws.items[i] ELSE 0])
    IN  IF sum < 0 THEN 0 ELSE sum

Free(ws, lanes) == {i \in DOMAIN lanes : ws.pins[lanes[i]] = Unknown}

(* The amount of each lane: everything anew, or the pins kept and the rest
   spread over the lanes without one. *)
Suggested(total, ws, lanes) ==
    Shares(total, [i \in DOMAIN lanes |-> Weight(ws, lanes[i])])

AroundPins(total, ws, lanes) ==
    LET free   == Free(ws, lanes)
        pinned == [i \in DOMAIN lanes \ free |-> ws.pins[lanes[i]]]
        given  == Shares(total - Total(pinned), [i \in free |-> Weight(ws, lanes[i])])
    IN  [i \in DOMAIN lanes |-> IF i \in free THEN given[i] ELSE pinned[i]]

(* The total belongs to the twin and the draft; it is never recomputed. *)
Recomputed(payload, ws, keepPins) ==
    LET lanes == LaneOrder(payload)
    IN  IF payload.splits = <<>> THEN payload
        ELSE [payload EXCEPT !.splits = IF keepPins THEN AroundPins(payload.total, ws, lanes)
                                                    ELSE Suggested(payload.total, ws, lanes)]

-----------------------------------------------------------------------------
(* validate_payload, as far as amounts go. *)
SumsUp(payload) ==
    /\ payload.total > 0
    /\ payload.splits # <<>> => Total(payload.splits) = payload.total
=============================================================================
