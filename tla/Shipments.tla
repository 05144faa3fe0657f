------------------------------- MODULE Shipments -------------------------------
(***************************************************************************)
(* The shipments of one warehouse: their status machine, which concurrent   *)
(* sessions drive, the routes and carriers chosen for them, the groups they *)
(* are consolidated into and the dock slots they are booked on.             *)
(*                                                                         *)
(* A move of the status reads the shipment and writes it at the commit; any *)
(* other call writes columns of its own and is one step.  `raced' and       *)
(* `renewed' are history.                                                   *)
(***************************************************************************)
EXTENDS Totals, SequencesExt

CONSTANTS
    Shipment, Carrier, Session,
    Running,        \* the sets of carriers that may be active at first
    None,           \* no shipment, carrier, group, date or dock
    Loaded, Drafts, \* the shipments that exist already, and those still drafts
    Pickup,         \* those with a scheduled_pickup inside the window
    Weight,         \* Weight[s]: recorded weight, 0 for what the generator makes
    DefaultWeight,  \* what the source reads a weight of 0 as (10)
    Region,         \* Region[s]: where s goes
    MaxLoad,        \* MaxLoad[c]: the heaviest shipment c takes
    Price,          \* Price[c]: cost_per_kg, which orders the routes; ties may fall either way
    Score,          \* Score[s][c]: how well c suits s
    MaxGroupSize, MaxGroupWeight,   \* limits of the source (10, 500)
    Day,            \* Day: the dates of the dock slots, in their order
    DockCapacity,   \* DEFAULT_DOCK_CAPACITY of the source (8)
    MaxCalls        \* bound: calls in one behaviour

ASSUME LoadedOK ==
    /\ Pickup \cup Drafts \subseteq Loaded /\ Loaded \subseteq Shipment
    /\ IsFiniteSet(Shipment) /\ IsFiniteSet(Carrier) /\ Running \subseteq SUBSET Carrier
    /\ Weight \in [Shipment -> Nat] /\ \A s \in Shipment \ Loaded : Weight[s] = 0
    /\ DefaultWeight \in Nat /\ Price \in [Carrier -> Nat]
    /\ MaxGroupSize \in Nat \ {0} /\ MaxGroupWeight \in Nat /\ DockCapacity \in Nat
    /\ Day \in Seq(Nat) /\ None \notin DOMAIN Day \cup Carrier

VARIABLES
    shipment,   \* shipment[s]: None, or a Shipment row
    route,      \* route[s]: its RoutePlan rows, oldest first
    active,     \* the active carriers
    booked,     \* booked[k]: bookings of slot k
    session,    \* session[x]: None, or the row x has read
    raced,      \* shipments whose status was written over one not read
    renewed,    \* were the slots generated anew while some were booked
    calls       \* calls so far

vars == <<shipment, route, active, booked, session, raced, renewed, calls>>

-----------------------------------------------------------------------------
Slots == DOMAIN Day
Known == {s \in Shipment : shipment[s] # None}
Status == {"draft", "planned", "consolidated", "label_generated", "in_transit",
           "out_for_delivery", "exception", "delivered", "cancelled"}

(* VALID_TRANSITIONS. *)
VALID_TRANSITIONS(status) ==
    CASE status = "draft" -> {"planned", "cancelled"}
      [] status = "planned" -> {"consolidated", "label_generated", "cancelled"}
      [] status = "consolidated" -> {"label_generated", "cancelled"}
      [] status = "label_generated" -> {"in_transit", "cancelled"}
      [] status = "in_transit" -> {"out_for_delivery", "exception", "delivered"}
      [] status = "out_for_delivery" -> {"delivered", "exception"}
      [] status = "exception" -> {"in_transit", "cancelled"}
      [] OTHER -> {}

(* The columns of a Shipment row that the calls below write.                *)
Row ==
    [status : Status, state_history : Seq(Status), carrier : Carrier \cup {None},
     group : (SUBSET Shipment) \cup {None}, delivery : Nat \cup {None}, dock : Slots \cup {None}]
ASSUME NoneIsNoRow == None \notin Row

(* The rows the calls find: of a weight of 0 they make the default. *)
WeightOf(s) == IF Weight[s] = 0 THEN DefaultWeight ELSE Weight[s]
Load(S) == Total(S, [s \in S |-> WeightOf(s)])
Fresh(history) ==
    [status |-> Last(history), state_history |-> history, carrier |-> None,
     group |-> None, delivery |-> None, dock |-> None]

Called == calls < MaxCalls /\ calls' = calls + 1

Init ==
    /\ shipment = [s \in Shipment |->
           IF s \notin Loaded THEN None
           ELSE Fresh(IF s \in Drafts THEN <<"draft">> ELSE <<"planned">>)]
    /\ route = [s \in Shipment |-> <<>>]
    /\ active \in Running
    /\ booked = [k \in Slots |-> 0]
    /\ session = [x \in Session |-> None]
    /\ raced = {} /\ renewed = FALSE /\ calls = 0

-----------------------------------------------------------------------------
(* generate_for_order, for one of the plans: drafted and planned at once. *)
Generate(s) ==
    /\ Called
    /\ shipment[s] = None
    /\ shipment' = [shipment EXCEPT ![s] = Fresh(<<"draft", "planned">>)]
    /\ UNCHANGED <<route, active, booked, session, raced, renewed>>

(* transition_state: the row is read, ... *)
Begin(x, s) ==
    /\ Called
    /\ session[x] = None /\ s \in Known
    /\ session' = [session EXCEPT ![x] = [id |-> s, read |-> shipment[s].state_history]]
    /\ UNCHANGED <<shipment, route, active, booked, raced, renewed>>

(* ... and status and state_history are written together, both made from   *)
(* what was read.  The version that goes up with them is never compared.    *)
MovedInPlace(history, new) == Append(Front(history), new)   \* mutant: no new entry
Moved(history, new) == Append(history, new)

Move(x, new) ==
    /\ session[x] # None
    /\ LET s == session[x].id
           read == session[x].read
       IN  /\ new \in VALID_TRANSITIONS(Last(read))
           /\ shipment' = [shipment EXCEPT ![s].status = new,
                                           ![s].state_history = Moved(read, new)]
           /\ raced' = IF read # shipment[s].state_history THEN raced \cup {s} ELSE raced
    /\ session' = [session EXCEPT ![x] = None]
    /\ UNCHANGED <<route, active, booked, renewed, calls>>

(* ShipmentStateError, or a session that is given up. *)
Abandon(x) ==
    /\ session[x] # None
    /\ session' = [session EXCEPT ![x] = None]
    /\ UNCHANGED <<shipment, route, active, booked, raced, renewed, calls>>

-----------------------------------------------------------------------------
(* plan_routes: an option for every active carrier, a cheapest first.        *)
(* _select_route then goes through every plan the shipment ever had.        *)
Cheapest == {c \in active : \A d \in active : Price[c] <= Price[d]}
SelectRouteOnce(plans, carrier) == plans    \* mutant: only the new plans are marked
SelectRoute(plans, carrier) ==
    [i \in DOMAIN plans |-> [plans[i] EXCEPT !.is_selected = plans[i].carrier = carrier]]

Options(best) == <<best>> \o SetToSeq(active \ {best})

PlanRoutes(s, best) ==
    LET options == Options(best)
        run == IF route[s] = <<>> THEN 1 ELSE Last(route[s]).run + 1
        plans == [i \in DOMAIN options |->
                     [run |-> run, carrier |-> options[i], is_selected |-> i = 1]]
    IN  /\ Called
        /\ s \in Known
        /\ best \in Cheapest
        /\ route' = [route EXCEPT ![s] = SelectRoute(@ \o plans, best)]
        /\ UNCHANGED <<shipment, active, booked, session, raced, renewed>>

(* assign_carrier: the best of those that can carry it.  When none can, the *)
(* answer names a carrier all the same, but the shipment is left as it is.  *)
Able(s) == {c \in active : WeightOf(s) <= MaxLoad[c]}
AssignCarrier(s, c) ==
    /\ Called
    /\ s \in Known
    /\ c \in Able(s) /\ \A d \in Able(s) : Score[s][d] <= Score[s][c]
    /\ shipment' = [shipment EXCEPT ![s].carrier = c]
    /\ UNCHANGED <<route, active, booked, session, raced, renewed>>

(* An administrator turns a carrier off or on. *)
ToggleCarrier(c) ==
    /\ Called
    /\ active' = IF c \in active THEN active \ {c} ELSE active \cup {c}
    /\ UNCHANGED <<shipment, route, booked, session, raced, renewed>>

-----------------------------------------------------------------------------
(* consolidate_window: the planned shipments of a region, lightest recorded *)
(* weight first, fill one group after the other.  `rank' is their place in   *)
(* the sorted list, `heads' are those that open a group.  A group is named   *)
(* by its members, which are in no other group.                              *)
Candidates ==
    {s \in Known \cap Pickup : shipment[s].status = "planned" /\ shipment[s].group = None}
Sorted ==
    {rank \in Injection(Candidates, 1 .. Cardinality(Candidates)) :
        \A s, t \in Candidates : Weight[s] < Weight[t] => rank[s] < rank[t]}

FullBySize(G, s) == Cardinality(G) >= MaxGroupSize      \* mutant: the weight is not checked
Full(G, s) == Cardinality(G) >= MaxGroupSize \/ Load(G) + WeightOf(s) > MaxGroupWeight

(* The group that s finds open, and the one it ends up in.                   *)
Open(rank, heads, s) ==
    {t \in Candidates : Region[t] = Region[s] /\ rank[t] < rank[s] /\ \A h \in heads :
        Region[h] = Region[s] => ~(rank[t] < rank[h] /\ rank[h] < rank[s])}
GroupOf(rank, heads, s) ==
    {t \in Candidates : Region[t] = Region[s] /\ \A h \in heads :
        Region[h] = Region[s] => (rank[h] <= rank[t] <=> rank[h] <= rank[s])}

Opens(rank, heads, s) ==
    Open(rank, heads, s) = {} \/ Full(Open(rank, heads, s), s)

Consolidate ==
    /\ Called
    /\ Candidates # {}
    /\ \E rank \in Sorted, heads \in SUBSET Candidates :
          /\ \A s \in Candidates : s \in heads <=> Opens(rank, heads, s)
          /\ shipment' = [s \in Shipment |->
                IF s \in Candidates THEN [shipment[s] EXCEPT !.group = GroupOf(rank, heads, s)]
                ELSE shipment[s]]
    /\ UNCHANGED <<route, active, booked, session, raced, renewed>>

-----------------------------------------------------------------------------
(* _find_best_slot: the first that is free, or one nearest to the date the  *)
(* shipment has; the slots of a day all count from the same hour.           *)
AnySlot == Slots    \* mutant: a full slot is offered
Free == {k \in Slots : booked[k] < DockCapacity}
Distance(k, date) == IF Day[k] < date THEN date - Day[k] ELSE Day[k] - date
BestSlots(date) ==
    {k \in Free : \A j \in Free :
        IF date = None \/ Distance(k, date) = Distance(j, date) THEN k <= j
        ELSE Distance(k, date) < Distance(j, date)}

(* schedule_shipments, for one shipment. *)
Schedule(s, k) ==
    /\ Called
    /\ s \in Known /\ k \in BestSlots(shipment[s].delivery)
    /\ booked' = [booked EXCEPT ![k] = @ + 1]
    /\ shipment' = [shipment EXCEPT ![s].delivery = Day[k], ![s].dock = k]
    /\ UNCHANGED <<route, active, session, raced, renewed>>

(* reschedule books the new slot.  It does not give the old one back, and   *)
(* the shipment keeps its date.                                             *)
Reschedule(s, k) ==
    /\ Called
    /\ s \in Known /\ k \in Free
    /\ booked' = [booked EXCEPT ![k] = @ + 1]
    /\ shipment' = [shipment EXCEPT ![s].dock = k]
    /\ UNCHANGED <<route, active, session, raced, renewed>>

(* generate_slots called again: the slots are new and empty. *)
GenerateSlots ==
    /\ Called
    /\ \E k \in Slots : booked[k] > 0
    /\ booked' = [k \in Slots |-> 0]
    /\ renewed' = TRUE
    /\ UNCHANGED <<shipment, route, active, session, raced>>

Next ==
    \/ \E s \in Shipment :
          \/ Generate(s)
          \/ \E x \in Session : Begin(x, s)
          \/ \E c \in Carrier : PlanRoutes(s, c) \/ AssignCarrier(s, c)
          \/ \E k \in Slots : Schedule(s, k) \/ Reschedule(s, k)
    \/ \E x \in Session : Abandon(x) \/ \E new \in Status : Move(x, new)
    \/ \E c \in Carrier : ToggleCarrier(c)
    \/ Consolidate \/ GenerateSlots

Spec == Init /\ [][Next]_vars

-----------------------------------------------------------------------------
(* Every shipment and slot keeps its shape. *)
TypeOK ==
    /\ shipment \in [Shipment -> Row \cup {None}]
    /\ active \subseteq Carrier
    /\ booked \in [Slots -> Nat]

(* The history of a shipment is a legal path that ends in its status, also  *)
(* after two sessions have moved it at once: the loser's move is lost, not  *)
(* mixed in.                                                                *)
HistoryTellsStatus ==
    \A s \in Known :
        LET past == shipment[s].state_history
        IN  /\ Last(past) = shipment[s].status
            /\ \A i \in 2 .. Len(past) : past[i] \in VALID_TRANSITIONS(past[i - 1])

(* However often the routes of a shipment are planned, the selected plans   *)
(* are those of one carrier, a cheapest of the last planning, and there     *)
(* is more than one only if routes were planned more than once.             *)
SelectedRoutesAgree ==
    \A s \in Shipment : route[s] # <<>> =>
        LET latest == {i \in DOMAIN route[s] : route[s][i].run = Last(route[s]).run}
            selected == {i \in DOMAIN route[s] : route[s][i].is_selected}
        IN  /\ \E i \in latest \cap selected :
                  /\ \A j \in latest : Price[route[s][i].carrier] <= Price[route[s][j].carrier]
                  /\ \A j \in selected : route[s][j].carrier = route[s][i].carrier
            /\ Cardinality(selected) <= Last(route[s]).run

(* What is put together can be carried: a shipment only has a carrier that   *)
(* takes its weight, as the fallback of assign_carrier never reaches the    *)
(* row; and a group stays within its limits, unless one shipment alone      *)
(* exceeds them, goes to one region and is not changed by later calls.      *)
LoadsFit ==
    \A s \in Known :
        LET c == shipment[s].carrier
            G == shipment[s].group
        IN  /\ c # None => WeightOf(s) <= MaxLoad[c]
            /\ G # None =>
                  /\ Cardinality(G) <= MaxGroupSize
                  /\ Load(G) <= MaxGroupWeight \/ G = {s}
                  /\ s \in G /\ \A t \in G : Region[t] = Region[s] /\ shipment[t].group = G

(* No slot is booked beyond its capacity, and every shipment has a booking  *)
(* on the slot it was last given, until the slots are generated anew.       *)
DocksCountShipments ==
    \A k \in Slots :
        /\ booked[k] <= DockCapacity
        /\ ~renewed => Cardinality({s \in Known : shipment[s].dock = k}) <= booked[k]
=============================================================================
