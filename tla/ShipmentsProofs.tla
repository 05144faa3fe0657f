--------------------------- MODULE ShipmentsProofs ---------------------------
(***************************************************************************)
(* Proofs about Shipments, for any shipments, carriers, slots and sessions.*)
(***************************************************************************)
EXTENDS Shipments, TotalTheorems, SequenceTheorems

(* A history that starts somewhere and makes legal moves only. *)
Legal(history) ==
    /\ history \in Seq(Status) /\ Len(history) >= 1
    /\ \A i \in 2 .. Len(history) : history[i] \in VALID_TRANSITIONS(history[i - 1])

RowOK(row) ==
    row \in Row /\ Legal(row.state_history) /\ Last(row.state_history) = row.status

(* A session holds a row that is there, and a history that was legal when it *)
(* was read: that is enough, since a history is never taken apart.           *)
HistoryInv ==
    /\ shipment = [s \in Shipment |-> shipment[s]]
    /\ \A s \in Shipment : shipment[s] = None \/ RowOK(shipment[s])
    /\ session = [x \in Session |-> session[x]]
    /\ \A x \in Session : session[x] # None =>
          /\ session[x].id \in Shipment /\ RowOK(shipment[session[x].id])
          /\ Legal(session[x].read)

LEMMA FreshRow ==
    ASSUME NEW history, Legal(history)
    PROVE  RowOK(Fresh(history))
<1>1. history \in Seq(Status) /\ Last(history) = history[Len(history)] /\ Len(history) >= 1
    BY DEF Legal, Last
<1>2. Last(history) \in Status
    BY <1>1
<1>3. /\ None \in Carrier \cup {None} /\ None \in Nat \cup {None}
      /\ None \in Slots \cup {None}
    OBVIOUS
<1>4. None \in (SUBSET Shipment) \cup {None}
    BY Zenon
<1>5. [status |-> Last(history), state_history |-> history, carrier |-> None,
       group |-> None, delivery |-> None, dock |-> None] \in Row
    BY <1>1, <1>2, <1>3, <1>4 DEF Row
<1> QED BY <1>5 DEF Fresh, RowOK

LEMMA LegalStart ==
    Legal(<<"draft">>) /\ Legal(<<"planned">>) /\ Legal(<<"draft", "planned">>)
<1>1. {"draft", "planned"} \subseteq Status
    BY DEF Status
<1>2. "planned" \in VALID_TRANSITIONS("draft")
    BY DEF VALID_TRANSITIONS
<1>3. Legal(<<"draft">>) /\ Legal(<<"planned">>)
    BY <1>1 DEF Legal
<1>4. Legal(<<"draft", "planned">>)
    <2>1. <<"draft", "planned">> \in Seq(Status) /\ Len(<<"draft", "planned">>) = 2
        BY <1>1
    <2>2. \A i \in 2 .. 2 : i = 2
        OBVIOUS
    <2> QED BY <1>2, <2>1, <2>2 DEF Legal
<1> QED BY <1>3, <1>4

(* Whatever else has happened to the row, a legal move of a legal history is *)
(* a legal history.                                                          *)
LEMMA MovedIsLegal ==
    ASSUME NEW history, Legal(history), NEW new \in Status, new \in VALID_TRANSITIONS(Last(history))
    PROVE  Legal(Moved(history, new)) /\ Last(Moved(history, new)) = new
<1> DEFINE n == Len(history)
           moved == Append(history, new)
<1>1. history \in Seq(Status) /\ n \in Nat /\ n >= 1
    BY DEF Legal
<1>2. /\ moved \in Seq(Status) /\ Len(moved) = n + 1 /\ moved[n + 1] = new
      /\ \A i \in 1 .. n : moved[i] = history[i]
    BY <1>1
<1>3. Last(history) = history[n] /\ Last(moved) = moved[Len(moved)]
    BY DEF Last
<1>4. ASSUME NEW i \in 2 .. n + 1 PROVE moved[i] \in VALID_TRANSITIONS(moved[i - 1])
    <2>1. CASE i = n + 1
        <3>1. moved[i] = new /\ moved[i - 1] = history[n]
            BY <1>1, <1>2, <2>1
        <3> QED BY <1>3, <3>1
    <2>2. CASE i \in 2 .. n
        <3>1. i \in 1 .. n /\ i - 1 \in 1 .. n
            BY <1>1, <2>2
        <3>2. moved[i] = history[i] /\ moved[i - 1] = history[i - 1]
            BY <1>2, <3>1
        <3>3. history[i] \in VALID_TRANSITIONS(history[i - 1])
            BY <2>2 DEF Legal
        <3> QED BY <3>2, <3>3
    <2> QED BY <1>1, <2>1, <2>2
<1>5. Legal(moved)
    <2> HIDE DEF moved, n
    <2>1. Len(moved) >= 1 /\ 2 .. Len(moved) = 2 .. n + 1
        BY <1>1, <1>2
    <2> QED BY <1>2, <1>4, <2>1 DEF Legal
<1> QED BY <1>2, <1>3, <1>5 DEF Moved

(* Rows may be made or changed as long as their history fits their status.   *)
LEMMA RowsInv ==
    ASSUME HistoryInv, session' = session, shipment' = [s \in Shipment |-> shipment'[s]],
           \A s \in Shipment : shipment'[s] = shipment[s] \/ RowOK(shipment'[s])
    PROVE  HistoryInv'
<1>1. \A s \in Shipment : shipment'[s] = None \/ RowOK(shipment'[s])
    BY DEF HistoryInv
<1>2. \A x \in Session : session'[x] # None =>
          /\ session'[x].id \in Shipment /\ RowOK(shipment'[session'[x].id])
          /\ Legal(session'[x].read)
    BY DEF HistoryInv
<1>3. session' = [x \in Session |-> session'[x]]
    BY DEF HistoryInv
<1> QED BY <1>1, <1>2, <1>3 DEF HistoryInv, RowOK, Legal

(* A session comes to rest; the rows are as RowsInv has them.                *)
LEMMA RestInv ==
    ASSUME HistoryInv, NEW x \in Session, session' = [session EXCEPT ![x] = None],
           shipment' = [s \in Shipment |-> shipment'[s]],
           \A s \in Shipment : shipment'[s] = shipment[s] \/ RowOK(shipment'[s])
    PROVE  HistoryInv'
<1>1. \A s \in Shipment : shipment'[s] = None \/ RowOK(shipment'[s])
    BY DEF HistoryInv
<1>2. /\ session' = [y \in Session |-> session'[y]]
      /\ \A y \in Session : session'[y] = IF y = x THEN None ELSE session[y]
    BY DEF HistoryInv
<1>3. \A y \in Session : session'[y] # None =>
          /\ session'[y].id \in Shipment /\ RowOK(shipment'[session'[y].id])
          /\ Legal(session'[y].read)
    BY <1>2 DEF HistoryInv
<1> QED BY <1>1, <1>2, <1>3 DEF HistoryInv, RowOK, Legal

LEMMA InitHistory == Init => HistoryInv
<1> SUFFICES ASSUME Init PROVE HistoryInv
    OBVIOUS
<1>1. \A s \in Shipment : shipment[s] = None \/ RowOK(shipment[s])
    BY LegalStart, FreshRow DEF Init
<1> QED BY <1>1 DEF Init, HistoryInv

LEMMA GenerateInv ==
    ASSUME HistoryInv, NEW s \in Shipment, Generate(s)
    PROVE  HistoryInv'
<1>1. RowOK(Fresh(<<"draft", "planned">>))
    BY LegalStart, FreshRow
<1>2. shipment' = [shipment EXCEPT ![s] = Fresh(<<"draft", "planned">>)] /\ session' = session
    BY DEF Generate
<1>3. /\ shipment' = [t \in Shipment |-> shipment'[t]]
      /\ \A t \in Shipment : shipment'[t] = IF t = s THEN Fresh(<<"draft", "planned">>)
                                            ELSE shipment[t]
    BY <1>2 DEF HistoryInv
<1> QED BY <1>1, <1>2, <1>3, RowsInv

LEMMA BeginInv ==
    ASSUME HistoryInv, NEW x \in Session, NEW s \in Shipment, Begin(x, s)
    PROVE  HistoryInv'
<1> DEFINE held == [id |-> s, read |-> shipment[s].state_history]
<1>1. session' = [session EXCEPT ![x] = held] /\ shipment' = shipment /\ shipment[s] # None
    BY DEF Begin, Known
<1>2. held.id = s /\ held.read = shipment[s].state_history
    OBVIOUS
<1> HIDE DEF held
<1>3. RowOK(shipment[s]) /\ Legal(held.read)
    BY <1>1, <1>2 DEF HistoryInv, RowOK
<1>4. /\ session' = [y \in Session |-> session'[y]]
      /\ \A y \in Session : session'[y] = IF y = x THEN held ELSE session[y]
    BY <1>1 DEF HistoryInv
<1>5. \A y \in Session : session'[y] # None =>
          /\ session'[y].id \in Shipment /\ RowOK(shipment'[session'[y].id])
          /\ Legal(session'[y].read)
    BY <1>1, <1>2, <1>3, <1>4 DEF HistoryInv
<1>6. /\ shipment' = [t \in Shipment |-> shipment'[t]]
      /\ \A t \in Shipment : shipment'[t] = None \/ RowOK(shipment'[t])
    BY <1>1 DEF HistoryInv
<1> QED BY <1>4, <1>5, <1>6 DEF HistoryInv, RowOK, Legal

LEMMA MoveInv ==
    ASSUME HistoryInv, NEW x \in Session, NEW new \in Status, Move(x, new)
    PROVE  HistoryInv'
<1> DEFINE s == session[x].id
           past == Moved(session[x].read, new)
<1>1. /\ session[x] # None /\ new \in VALID_TRANSITIONS(Last(session[x].read))
      /\ shipment' = [shipment EXCEPT ![s].status = new, ![s].state_history = past]
      /\ session' = [session EXCEPT ![x] = None]
    BY DEF Move
<1>2. s \in Shipment /\ RowOK(shipment[s]) /\ Legal(session[x].read)
    BY <1>1 DEF HistoryInv
<1>3. Legal(past) /\ Last(past) = new
    BY <1>1, <1>2, MovedIsLegal
<1> HIDE DEF s, past
<1>4. /\ shipment' = [t \in Shipment |-> shipment'[t]]
      /\ \A t \in Shipment : t # s => shipment'[t] = shipment[t]
      /\ shipment'[s] = [[shipment[s] EXCEPT !.status = new] EXCEPT !.state_history = past]
    BY <1>1, <1>2 DEF HistoryInv
<1>5. past \in Seq(Status)
    BY <1>3 DEF Legal
<1>6. RowOK(shipment'[s])
    BY <1>2, <1>3, <1>4, <1>5 DEF RowOK, Row
<1>7. \A t \in Shipment : shipment'[t] = shipment[t] \/ RowOK(shipment'[t])
    BY <1>4, <1>6
<1> QED BY <1>1, <1>4, <1>7, RestInv

LEMMA AbandonInv ==
    ASSUME HistoryInv, NEW x \in Session, Abandon(x)
    PROVE  HistoryInv'
<1>1. session' = [session EXCEPT ![x] = None] /\ shipment' = shipment
    BY DEF Abandon
<1>2. shipment' = [t \in Shipment |-> shipment'[t]]
    BY <1>1 DEF HistoryInv
<1> QED BY <1>1, <1>2, RestInv

(* Carriers, groups and docks are other columns of the row.                  *)
LEMMA OtherColumns ==
    ASSUME NEW row, RowOK(row)
    PROVE  /\ \A c \in Carrier : RowOK([row EXCEPT !.carrier = c])
           /\ \A G \in SUBSET Shipment : RowOK([row EXCEPT !.group = G])
           /\ \A k \in Slots : RowOK([row EXCEPT !.dock = k])
           /\ \A k \in Slots, date \in Nat :
                 RowOK([[row EXCEPT !.delivery = date] EXCEPT !.dock = k])
BY DEF RowOK, Row

LEMMA AssignCarrierInv ==
    ASSUME HistoryInv, NEW s \in Shipment, NEW c \in Carrier, AssignCarrier(s, c)
    PROVE  HistoryInv'
<1>1. /\ shipment' = [shipment EXCEPT ![s].carrier = c] /\ session' = session
      /\ shipment[s] # None
    BY DEF AssignCarrier, Known
<1>2. /\ shipment' = [t \in Shipment |-> shipment'[t]]
      /\ \A t \in Shipment : shipment'[t] = IF t = s THEN [shipment[s] EXCEPT !.carrier = c]
                                            ELSE shipment[t]
    BY <1>1 DEF HistoryInv
<1>3. RowOK([shipment[s] EXCEPT !.carrier = c])
    BY <1>1, OtherColumns DEF HistoryInv
<1> QED BY <1>1, <1>2, <1>3, RowsInv

LEMMA ConsolidateInv ==
    ASSUME HistoryInv, Consolidate
    PROVE  HistoryInv'
<1>1. PICK rank \in Sorted, heads \in SUBSET Candidates :
          shipment' = [s \in Shipment |->
              IF s \in Candidates THEN [shipment[s] EXCEPT !.group = GroupOf(rank, heads, s)]
              ELSE shipment[s]]
    BY DEF Consolidate
<1>2. /\ shipment' = [t \in Shipment |-> shipment'[t]]
      /\ \A t \in Shipment : shipment'[t] =
            IF t \in Candidates THEN [shipment[t] EXCEPT !.group = GroupOf(rank, heads, t)]
            ELSE shipment[t]
    BY <1>1
<1>3. \A t \in Candidates : t \in Shipment /\ RowOK(shipment[t])
    BY DEF Candidates, Known, HistoryInv
<1>4. \A t \in Candidates : GroupOf(rank, heads, t) \in SUBSET Shipment
    BY <1>3 DEF GroupOf
<1>5. \A t \in Candidates : RowOK([shipment[t] EXCEPT !.group = GroupOf(rank, heads, t)])
    BY <1>3, <1>4, OtherColumns
<1>6. session' = session
    BY DEF Consolidate
<1> QED BY <1>2, <1>5, <1>6, RowsInv

LEMMA DockInv ==
    ASSUME HistoryInv, NEW s \in Shipment, NEW k \in Slots, Schedule(s, k) \/ Reschedule(s, k)
    PROVE  HistoryInv'
<1>1. session' = session /\ shipment[s] # None /\ RowOK(shipment[s])
    BY DEF Schedule, Reschedule, Known, HistoryInv
<1>2. shipment' = [t \in Shipment |-> shipment'[t]]
    BY DEF Schedule, Reschedule, HistoryInv
<1>3. \A t \in Shipment : t # s => shipment'[t] = shipment[t]
    BY DEF Schedule, Reschedule, HistoryInv
<1>4. CASE Schedule(s, k)
    <2>1. shipment'[s] = [[shipment[s] EXCEPT !.delivery = Day[k]] EXCEPT !.dock = k]
        BY <1>4 DEF Schedule, HistoryInv
    <2>2. Day[k] \in Nat
        BY LoadedOK DEF Slots
    <2>3. RowOK([[shipment[s] EXCEPT !.delivery = Day[k]] EXCEPT !.dock = k])
        BY <1>1, <2>2, OtherColumns
    <2>4. RowOK(shipment'[s])
        BY <2>1, <2>3
    <2> QED BY <1>1, <1>2, <1>3, <2>4, RowsInv
<1>5. CASE Reschedule(s, k)
    <2>1. shipment'[s] = [shipment[s] EXCEPT !.dock = k]
        BY <1>5 DEF Reschedule, HistoryInv
    <2>2. RowOK([shipment[s] EXCEPT !.dock = k])
        BY <1>1, OtherColumns
    <2>3. RowOK(shipment'[s])
        BY <2>1, <2>2
    <2> QED BY <1>1, <1>2, <1>3, <2>3, RowsInv
<1> QED BY <1>4, <1>5

(* Every row and every session under way holds a legal history.              *)
THEOREM HistoryInvariant == Spec => []HistoryInv
<1>1. HistoryInv /\ [Next]_vars => HistoryInv'
    <2> SUFFICES ASSUME HistoryInv, [Next]_vars PROVE HistoryInv'
        OBVIOUS
    <2>1. CASE UNCHANGED <<shipment, session>>
        <3>1. shipment' = [t \in Shipment |-> shipment'[t]]
            BY <2>1 DEF HistoryInv
        <3> QED BY <2>1, <3>1, RowsInv
    <2>2. ASSUME NEW s \in Shipment, Generate(s) PROVE HistoryInv'
        BY <2>2, GenerateInv
    <2>3. ASSUME NEW s \in Shipment, NEW k \in Slots, Schedule(s, k) \/ Reschedule(s, k)
          PROVE  HistoryInv'
        BY <2>3, DockInv
    <2>4. ASSUME NEW x \in Session, NEW s \in Shipment, Begin(x, s) PROVE HistoryInv'
        BY <2>4, BeginInv
    <2>5. ASSUME NEW s \in Shipment, NEW c \in Carrier, PlanRoutes(s, c) \/ AssignCarrier(s, c)
          PROVE  HistoryInv'
        BY <2>1, <2>5, AssignCarrierInv DEF PlanRoutes
    <2>6. ASSUME NEW x \in Session, Abandon(x) \/ \E new \in Status : Move(x, new)
          PROVE  HistoryInv'
        BY <2>6, AbandonInv, MoveInv
    <2>7. ASSUME NEW c \in Carrier, ToggleCarrier(c) PROVE HistoryInv'
        BY <2>1, <2>7 DEF ToggleCarrier
    <2>8. CASE Consolidate
        BY <2>8, ConsolidateInv
    <2>9. CASE GenerateSlots
        BY <2>1, <2>9 DEF GenerateSlots
    <2>10. CASE UNCHANGED vars
        BY <2>1, <2>10 DEF vars
    <2> QED BY <2>2, <2>3, <2>4, <2>5, <2>6, <2>7, <2>8, <2>9, <2>10 DEF Next
<1> QED BY InitHistory, <1>1, PTL DEF Spec

(* The history of every shipment is a legal path that ends in its status,    *)
(* whichever sessions have moved it at once.                                 *)
THEOREM HistoryLegal == Spec => []HistoryTellsStatus
<1>1. HistoryInv => HistoryTellsStatus
    BY DEF HistoryInv, RowOK, Legal, HistoryTellsStatus, Known
<1> QED BY HistoryInvariant, <1>1, PTL
-----------------------------------------------------------------------------
(* The plans of one run are numbered with it and differ in their carrier;    *)
(* what is selected is of one carrier, a cheapest of the last run.           *)
Plan == [run : Nat, carrier : Carrier, is_selected : BOOLEAN]

RunsOK(plans) ==
    /\ \A i \in 1 .. Len(plans) : 1 <= plans[i].run /\ plans[i].run <= Last(plans).run
    /\ \A i, j \in 1 .. Len(plans) :
          plans[i].run = plans[j].run /\ plans[i].carrier = plans[j].carrier => i = j
    /\ \E i \in 1 .. Len(plans) :
          /\ plans[i].run = Last(plans).run /\ plans[i].is_selected
          /\ \A j \in 1 .. Len(plans) :
                /\ plans[j].run = Last(plans).run => Price[plans[i].carrier] <= Price[plans[j].carrier]
                /\ plans[j].is_selected => plans[j].carrier = plans[i].carrier

(* The steps of a planning: the options, a plan for each, the list they are  *)
(* added to, and the marks of the best carrier.                              *)
ListsOptions(options, A, best) ==
    /\ options \in Seq(A) /\ Len(options) >= 1 /\ options[1] = best
    /\ \A i, j \in 1 .. Len(options) : options[i] = options[j] => i = j
PlansOptions(plans, options, run) ==
    /\ plans \in Seq(Plan) /\ Len(plans) = Len(options)
    /\ \A i \in 1 .. Len(options) : plans[i].run = run /\ plans[i].carrier = options[i]
Joins(all, old, plans) ==
    /\ all \in Seq(Plan) /\ Len(all) = Len(old) + Len(plans)
    /\ \A i \in 1 .. Len(old) + Len(plans) :
          all[i] = IF i <= Len(old) THEN old[i] ELSE plans[i - Len(old)]
Marks(new, all, best) ==
    /\ new \in Seq(Plan) /\ Len(new) = Len(all)
    /\ \A i \in 1 .. Len(all) :
          /\ new[i].run = all[i].run /\ new[i].carrier = all[i].carrier
          /\ new[i].is_selected = (all[i].carrier = best)

RoutesInv ==
    /\ active \subseteq Carrier
    /\ route \in [Shipment -> Seq(Plan)]
    /\ \A s \in Shipment : route[s] # <<>> => RunsOK(route[s])

(* SetToSeq lists every member once.                                         *)
LEMMA ListOfSet ==
    ASSUME NEW S, IsFiniteSet(S)
    PROVE  /\ SetToSeq(S) \in [1 .. Cardinality(S) -> S]
           /\ IsInjective(SetToSeq(S))
           /\ Cardinality(S) \in Nat
<1>1. Cardinality(S) \in Nat /\ ExistsBijection(1 .. Cardinality(S), S)
    BY FS_CardinalityType
<1>2. \E f \in [1 .. Cardinality(S) -> S] : IsInjective(f)
    BY <1>1 DEF ExistsBijection, Bijection, Injection
<1> QED BY <1>1, <1>2, Zenon DEF SetToSeq

(* One more in front of a list of others.                                    *)
LEMMA Prepended ==
    ASSUME NEW S, NEW best \in S, NEW rest \in Seq(S),
           \A i \in 1 .. Len(rest) : rest[i] # best,
           \A i, j \in 1 .. Len(rest) : rest[i] = rest[j] => i = j
    PROVE  /\ <<best>> \o rest \in Seq(S)
           /\ Len(<<best>> \o rest) >= 1
           /\ (<<best>> \o rest)[1] = best
           /\ \A i, j \in 1 .. Len(<<best>> \o rest) :
                 (<<best>> \o rest)[i] = (<<best>> \o rest)[j] => i = j
<1> DEFINE n == Len(rest)
           front == <<best>>
           list == front \o rest
<1>1. n \in Nat
    BY LenProperties
<1>2. front \in Seq(S) /\ Len(front) = 1 /\ front[1] = best
    OBVIOUS
<1> HIDE DEF front
<1>3. /\ list \in Seq(S) /\ Len(list) = Len(front) + Len(rest)
      /\ \A i \in 1 .. Len(front) + Len(rest) :
            list[i] = IF i <= Len(front) THEN front[i] ELSE rest[i - Len(front)]
    BY <1>2, ConcatProperties
<1> HIDE DEF n, list
<1>4. /\ Len(list) = n + 1
      /\ \A i \in 1 .. n + 1 : list[i] = IF i <= 1 THEN front[i] ELSE rest[i - 1]
    <2>1. Len(front) + Len(rest) = n + 1
        BY <1>1, <1>2 DEF n
    <2> QED BY <1>2, <1>3, <2>1
<1>5. list[1] = best
    BY <1>1, <1>2, <1>4
<1>6. \A i \in 2 .. n + 1 : i - 1 \in 1 .. n /\ list[i] = rest[i - 1]
    BY <1>1, <1>4
<1>7. \A i, j \in 1 .. n + 1 : list[i] = list[j] => i = j
    <2>1. \A i, j \in 2 .. n + 1 : list[i] = list[j] => i = j
        BY <1>1, <1>6 DEF n
    <2>2. \A i \in 2 .. n + 1 : list[i] # best
        BY <1>6 DEF n
    <2> QED BY <1>1, <1>5, <2>1, <2>2
<1>8. list \in Seq(S) /\ Len(list) >= 1 /\ list[1] = best
        /\ \A i, j \in 1 .. Len(list) : list[i] = list[j] => i = j
    BY <1>1, <1>3, <1>4, <1>5, <1>7
<1> QED BY <1>8 DEF list, front

(* The options of a planning: the best first, then the others, each once.    *)
LEMMA OptionsOfRun ==
    ASSUME active \subseteq Carrier, NEW best \in active
    PROVE  ListsOptions(Options(best), active, best)
<1> DEFINE rest == SetToSeq(active \ {best})
           n == Cardinality(active \ {best})
<1>1. IsFiniteSet(active \ {best})
    BY LoadedOK, FS_Subset
<1>2. rest \in [1 .. n -> active \ {best}] /\ IsInjective(rest) /\ n \in Nat
    BY <1>1, ListOfSet
<1>3. Options(best) = <<best>> \o rest
    BY DEF Options
<1> HIDE DEF rest, n
<1>4. /\ rest \in Seq(active) /\ Len(rest) = n
      /\ \A i \in 1 .. Len(rest) : rest[i] # best
      /\ \A i, j \in 1 .. Len(rest) : rest[i] = rest[j] => i = j
    BY <1>2 DEF IsInjective
<1>5. /\ <<best>> \o rest \in Seq(active) /\ Len(<<best>> \o rest) >= 1
      /\ (<<best>> \o rest)[1] = best
      /\ \A i, j \in 1 .. Len(<<best>> \o rest) :
            (<<best>> \o rest)[i] = (<<best>> \o rest)[j] => i = j
    BY <1>4, Prepended
<1> QED BY <1>3, <1>5, Zenon DEF ListsOptions

LEMMA PlansOfRun ==
    ASSUME NEW options \in Seq(Carrier), NEW run \in Nat,
           NEW plans, plans = [i \in DOMAIN options |->
                          [run |-> run, carrier |-> options[i], is_selected |-> i = 1]]
    PROVE  PlansOptions(plans, options, run)
<1>1. /\ DOMAIN options = 1 .. Len(options) /\ Len(options) \in Nat
      /\ \A i \in 1 .. Len(options) : options[i] \in Carrier
    OBVIOUS
<1>2. \A i \in 1 .. Len(options) :
          plans[i] = [run |-> run, carrier |-> options[i], is_selected |-> i = 1]
    BY <1>1
<1>3. \A i \in 1 .. Len(options) :
          [run |-> run, carrier |-> options[i], is_selected |-> i = 1] \in Plan
    BY <1>1 DEF Plan
<1>4. plans \in [1 .. Len(options) -> Plan]
    BY <1>1, <1>3
<1>5. plans \in Seq(Plan) /\ Len(plans) = Len(options)
    BY <1>1, <1>4
<1> QED BY <1>2, <1>5 DEF PlansOptions

LEMMA SelectedPlans ==
    ASSUME NEW all \in Seq(Plan), NEW best \in Carrier
    PROVE  Marks(SelectRoute(all, best), all, best)
<1> DEFINE n == Len(all)
           new == SelectRoute(all, best)
<1>1. DOMAIN all = 1 .. n /\ n \in Nat /\ \A i \in 1 .. n : all[i] \in Plan
    OBVIOUS
<1>2. new = [i \in 1 .. n |-> [all[i] EXCEPT !.is_selected = all[i].carrier = best]]
    BY <1>1 DEF SelectRoute
<1> HIDE DEF n, new
<1>3. \A i \in 1 .. n :
          /\ new[i] \in Plan
          /\ new[i].run = all[i].run /\ new[i].carrier = all[i].carrier
          /\ new[i].is_selected = (all[i].carrier = best)
    BY <1>1, <1>2 DEF Plan
<1>4. new \in [1 .. n -> Plan]
    BY <1>2, <1>3
<1>5. new \in Seq(Plan) /\ Len(new) = n
    BY <1>1, <1>4
<1> QED BY <1>3, <1>5 DEF n, new, Marks

(* A planning adds a run of its own, and marks the plans of the best carrier *)
(* in all of them.                                                           *)
LEMMA PlannedRun ==
    ASSUME NEW old \in Seq(Plan), old # <<>> => RunsOK(old),
           NEW A, NEW best \in A, \A d \in A : Price[best] <= Price[d],
           NEW options, ListsOptions(options, A, best),
           NEW run, run = IF old = <<>> THEN 1 ELSE Last(old).run + 1,
           NEW plans, PlansOptions(plans, options, run),
           NEW all, Joins(all, old, plans),
           NEW new, Marks(new, all, best)
    PROVE  new # <<>> /\ RunsOK(new)
<1> DEFINE m == Len(old)
           n == Len(options)
<1>1. m \in Nat /\ n \in Nat /\ n >= 1 /\ \A i \in 1 .. m : old[i] \in Plan
    BY DEF ListsOptions
<1>2. /\ \A i \in 1 .. n : options[i] \in A
      /\ options[1] = best /\ \A i, j \in 1 .. n : options[i] = options[j] => i = j
    BY DEF ListsOptions
<1>3. /\ Len(new) = m + n /\ new \in Seq(Plan)
      /\ \A i \in 1 .. n : plans[i].run = run /\ plans[i].carrier = options[i]
      /\ \A i \in 1 .. m + n : all[i] = IF i <= m THEN old[i] ELSE plans[i - m]
      /\ \A i \in 1 .. m + n :
            /\ new[i].run = all[i].run /\ new[i].carrier = all[i].carrier
            /\ new[i].is_selected = (all[i].carrier = best)
    <2>1. Len(plans) = n /\ \A i \in 1 .. n : plans[i].run = run /\ plans[i].carrier = options[i]
        BY DEF PlansOptions
    <2>2. Len(all) = m + n
            /\ \A i \in 1 .. m + n : all[i] = IF i <= m THEN old[i] ELSE plans[i - m]
        BY <2>1 DEF Joins
    <2>3. /\ Len(new) = m + n /\ new \in Seq(Plan)
          /\ \A i \in 1 .. m + n :
                /\ new[i].run = all[i].run /\ new[i].carrier = all[i].carrier
                /\ new[i].is_selected = (all[i].carrier = best)
        BY <2>2 DEF Marks
    <2> QED BY <2>1, <2>2, <2>3
<1>4. old # <<>> =>
          /\ m >= 1 /\ Last(old) = old[m]
          /\ \A i \in 1 .. m : 1 <= old[i].run /\ old[i].run <= old[m].run
          /\ \A i, j \in 1 .. m :
                old[i].run = old[j].run /\ old[i].carrier = old[j].carrier => i = j
    <2> SUFFICES ASSUME old # <<>>
                 PROVE  /\ m >= 1 /\ Last(old) = old[m]
                        /\ \A i \in 1 .. m : 1 <= old[i].run /\ old[i].run <= old[m].run
                        /\ \A i, j \in 1 .. m :
                              old[i].run = old[j].run /\ old[i].carrier = old[j].carrier => i = j
        OBVIOUS
    <2>1. m >= 1 /\ Last(old) = old[m]
        BY DEF Last
    <2> QED BY <2>1 DEF RunsOK
<1> HIDE DEF m, n
<1>5. \A i \in 1 .. m : new[i].run = old[i].run /\ new[i].carrier = old[i].carrier
    <2>1. ASSUME NEW i \in 1 .. m
          PROVE  new[i].run = old[i].run /\ new[i].carrier = old[i].carrier
        <3>1. i \in 1 .. m + n /\ i <= m
            BY <1>1
        <3>2. all[i] = old[i]
            BY <1>3, <3>1
        <3> QED BY <1>3, <3>1, <3>2
    <2> QED BY <2>1
<1>6. \A i \in 1 .. n : new[m + i].run = run /\ new[m + i].carrier = options[i]
    <2>1. ASSUME NEW i \in 1 .. n
          PROVE  new[m + i].run = run /\ new[m + i].carrier = options[i]
        <3>1. m + i \in 1 .. m + n /\ ~(m + i <= m) /\ m + i - m = i
            BY <1>1
        <3>2. PICK k \in 1 .. m + n : k = m + i /\ ~(k <= m) /\ k - m = i
            BY <1>1, <3>1
        <3>3. all[k] = plans[i]
            BY <1>3, <3>2
        <3>4. new[k].run = run /\ new[k].carrier = options[i]
            BY <1>3, <3>2, <3>3
        <3> QED BY <3>2, <3>4
    <2> QED BY <2>1
<1>7. \A i \in 1 .. m + n : new[i].is_selected = (new[i].carrier = best)
    BY <1>3
<1>8. /\ run \in Nat /\ run >= 1
      /\ \A i \in 1 .. m : 1 <= old[i].run /\ old[i].run < run /\ old[i].run \in Nat
    <2>1. CASE old = <<>>
        <3>1. m = 0
            BY <2>1 DEF m
        <3> QED BY <2>1, <3>1
    <2>2. CASE old # <<>>
        <3>1. m >= 1 /\ Last(old) = old[m]
            BY <1>4, <2>2
        <3>2. old[m].run \in Nat /\ run = old[m].run + 1
            BY <1>1, <2>2, <3>1 DEF Plan
        <3>3. \A i \in 1 .. m : 1 <= old[i].run /\ old[i].run <= old[m].run
            BY <1>4, <2>2
        <3>4. \A i \in 1 .. m : old[i].run \in Nat
            BY <1>1 DEF Plan
        <3> QED BY <3>2, <3>3, <3>4
    <2> QED BY <2>1, <2>2
<1>9. ASSUME NEW i \in 1 .. m + n
      PROVE  i \in 1 .. m \/ (i - m \in 1 .. n /\ i = m + (i - m))
    BY <1>1
<1>10. \A i \in 1 .. m + n : i \notin 1 .. m =>
          new[i].run = run /\ new[i].carrier = options[i - m] /\ i - m \in 1 .. n
    <2>1. ASSUME NEW i \in 1 .. m + n, i \notin 1 .. m
          PROVE  new[i].run = run /\ new[i].carrier = options[i - m] /\ i - m \in 1 .. n
        <3>1. i - m \in 1 .. n /\ i = m + (i - m)
            BY <1>9, <2>1
        <3>2. new[m + (i - m)].run = run /\ new[m + (i - m)].carrier = options[i - m]
            BY <1>6, <3>1
        <3> QED BY <3>1, <3>2
    <2> QED BY <2>1
<1>11. Last(new).run = run /\ new # <<>>
    <2>1. m + n \in 1 .. m + n /\ m + n \notin 1 .. m
        BY <1>1
    <2>2. Last(new) = new[m + n] /\ new # <<>>
        BY <1>1, <1>3 DEF Last
    <2> QED BY <1>10, <2>1, <2>2
<1>12. \A i \in 1 .. m + n : 1 <= new[i].run /\ new[i].run <= run
    BY <1>5, <1>8, <1>10
<1>13. ASSUME NEW i \in 1 .. m + n, NEW j \in 1 .. m + n,
             new[i].run = new[j].run, new[i].carrier = new[j].carrier
      PROVE  i = j
    <2>1. CASE i \in 1 .. m /\ j \in 1 .. m
        <3>1. old[i].run = old[j].run /\ old[i].carrier = old[j].carrier
            BY <1>5, <1>13, <2>1
        <3>2. old # <<>>
            BY <1>1, <2>1 DEF m
        <3> QED BY <1>4, <2>1, <3>1, <3>2
    <2>2. CASE i \notin 1 .. m /\ j \notin 1 .. m
        <3>1. i - m = j - m
            BY <1>2, <1>10, <1>13, <2>2
        <3> QED BY <1>1, <3>1
    <2>3. CASE i \in 1 .. m /\ j \notin 1 .. m
        <3>1. old[i].run < run /\ new[i].run = old[i].run /\ new[j].run = run
            BY <1>5, <1>8, <1>10, <2>3
        <3>2. old[i].run = run /\ old[i].run \in Nat
            BY <1>8, <1>13, <2>3, <3>1
        <3> QED BY <3>1, <3>2
    <2>4. CASE i \notin 1 .. m /\ j \in 1 .. m
        <3>1. old[j].run < run /\ new[j].run = old[j].run /\ new[i].run = run
            BY <1>5, <1>8, <1>10, <2>4
        <3> QED BY <1>8, <1>13, <2>4, <3>1
    <2> QED BY <2>1, <2>2, <2>3, <2>4
<1>14. ASSUME NEW j \in 1 .. m + n, new[j].run = run
      PROVE  Price[best] <= Price[new[j].carrier]
    <2>1. j \notin 1 .. m
        BY <1>5, <1>8, <1>14
    <2>2. new[j].carrier = options[j - m] /\ j - m \in 1 .. n
        BY <1>10, <2>1
    <2> QED BY <1>2, <2>2
<1>15. /\ m + 1 \in 1 .. m + n
       /\ new[m + 1].run = run /\ new[m + 1].carrier = best /\ new[m + 1].is_selected
    <2>1. 1 \in 1 .. n /\ m + 1 \in 1 .. m + n
        BY <1>1
    <2>2. new[m + 1].run = run /\ new[m + 1].carrier = options[1]
        BY <1>6, <2>1
    <2>3. new[m + 1].is_selected = (new[m + 1].carrier = best)
        BY <1>7, <2>1
    <2> QED BY <1>2, <2>1, <2>2, <2>3
<1>16. \E i \in 1 .. m + n :
          /\ new[i].run = run /\ new[i].is_selected
          /\ \A j \in 1 .. m + n :
                /\ new[j].run = run => Price[new[i].carrier] <= Price[new[j].carrier]
                /\ new[j].is_selected => new[j].carrier = new[i].carrier
    <2>1. \A j \in 1 .. m + n : new[j].run = run => Price[new[m + 1].carrier] <= Price[new[j].carrier]
        BY <1>14, <1>15
    <2>2. \A j \in 1 .. m + n : new[j].is_selected => new[j].carrier = new[m + 1].carrier
        BY <1>7, <1>15
    <2> QED BY <1>15, <2>1, <2>2
<1> QED BY <1>3, <1>11, <1>12, <1>13, <1>16 DEF RunsOK

LEMMA PlanRoutesRuns ==
    ASSUME RoutesInv, NEW s \in Shipment, NEW c \in Carrier, PlanRoutes(s, c)
    PROVE  RoutesInv'
<1> DEFINE old == route[s]
           options == Options(c)
           run == IF old = <<>> THEN 1 ELSE Last(old).run + 1
           plans == [i \in DOMAIN options |->
                        [run |-> run, carrier |-> options[i], is_selected |-> i = 1]]
           all == old \o plans
           new == SelectRoute(all, c)
<1>1. /\ route' = [route EXCEPT ![s] = new] /\ active' = active
      /\ c \in active /\ \A d \in active : Price[c] <= Price[d]
    BY DEF PlanRoutes, Cheapest
<1>2. active \subseteq Carrier /\ old \in Seq(Plan) /\ (old # <<>> => RunsOK(old))
    BY DEF RoutesInv
<1> HIDE DEF old
<1>3. ListsOptions(options, active, c)
    BY <1>1, <1>2, OptionsOfRun
<1> HIDE DEF options
<1>4. options \in Seq(Carrier)
    BY <1>2, <1>3 DEF ListsOptions
<1>5. run \in Nat /\ run = IF old = <<>> THEN 1 ELSE Last(old).run + 1
    <2>1. CASE old # <<>>
        <3>1. Last(old) \in Plan
            BY <1>2, <2>1 DEF Last
        <3> QED BY <2>1, <3>1 DEF Plan
    <2> QED BY <2>1
<1> HIDE DEF run
<1>6. PlansOptions(plans, options, run)
    BY <1>4, <1>5, PlansOfRun
<1> HIDE DEF plans
<1>7. Joins(all, old, plans)
    <2>1. old \in Seq(Plan) /\ plans \in Seq(Plan)
        BY <1>2, <1>6 DEF PlansOptions
    <2> QED BY <2>1, ConcatProperties DEF Joins
<1> HIDE DEF all
<1>8. Marks(new, all, c) /\ new \in Seq(Plan)
    <2>1. all \in Seq(Plan) /\ c \in Carrier
        BY <1>7 DEF Joins
    <2> QED BY <2>1, SelectedPlans DEF Marks
<1> HIDE DEF new
<1>9. new # <<>> /\ RunsOK(new)
    BY <1>1, <1>2, <1>3, <1>5, <1>6, <1>7, <1>8, PlannedRun
<1>10. /\ route' \in [Shipment -> Seq(Plan)]
       /\ \A t \in Shipment : route'[t] = IF t = s THEN new ELSE route[t]
    BY <1>1, <1>8 DEF RoutesInv
<1>11. \A t \in Shipment : route'[t] # <<>> => RunsOK(route'[t])
    BY <1>9, <1>10 DEF RoutesInv
<1> QED BY <1>1, <1>10, <1>11 DEF RoutesInv, RunsOK

(* Carriers come and go, and each planning adds a run of those that are there. *)
THEOREM RoutesInvariant == Spec => []RoutesInv
<1>1. Init => RoutesInv
    <2>1. <<>> \in Seq(Plan)
        OBVIOUS
    <2> QED BY <2>1, LoadedOK DEF Init, RoutesInv
<1>2. RoutesInv /\ [Next]_vars => RoutesInv'
    <2> SUFFICES ASSUME RoutesInv, [Next]_vars PROVE RoutesInv'
        OBVIOUS
    <2>1. CASE route' = route /\ active' \subseteq Carrier
        BY <2>1 DEF RoutesInv, RunsOK
    <2>2. ASSUME NEW s \in Shipment, NEW c \in Carrier, PlanRoutes(s, c) PROVE RoutesInv'
        BY <2>2, PlanRoutesRuns
    <2>3. ASSUME NEW c \in Carrier, ToggleCarrier(c) PROVE RoutesInv'
        <3>1. route' = route /\ active' \subseteq Carrier
            BY <2>3 DEF ToggleCarrier, RoutesInv
        <3> QED BY <2>1, <3>1
    <2>4. CASE UNCHANGED <<route, active>>
        BY <2>1, <2>4 DEF RoutesInv
    <2>5. ASSUME Next, ~ \E s \in Shipment, c \in Carrier : PlanRoutes(s, c),
                 ~ \E c \in Carrier : ToggleCarrier(c)
          PROVE  UNCHANGED <<route, active>>
        BY <2>5 DEF Next, Generate, Schedule, Reschedule, Begin, AssignCarrier, Abandon, Move,
                    Consolidate, GenerateSlots
    <2> QED BY <2>2, <2>3, <2>4, <2>5 DEF vars
<1> QED BY <1>1, <1>2, PTL DEF Spec

(* However often routes are planned, the selected plans are those of one     *)
(* carrier, a cheapest of the last planning, and at most one of each run.    *)
THEOREM RoutesAgree == Spec => []SelectedRoutesAgree
<1>1. RoutesInv => SelectedRoutesAgree
    <2> SUFFICES ASSUME RoutesInv, NEW s \in Shipment, route[s] # <<>>,
                        NEW plans, plans = route[s]
                 PROVE  /\ \E i \in {i \in DOMAIN plans : plans[i].run = Last(plans).run}
                                    \cap {i \in DOMAIN plans : plans[i].is_selected} :
                              /\ \A j \in {j \in DOMAIN plans : plans[j].run = Last(plans).run} :
                                    Price[plans[i].carrier] <= Price[plans[j].carrier]
                              /\ \A j \in {j \in DOMAIN plans : plans[j].is_selected} :
                                    plans[j].carrier = plans[i].carrier
                        /\ Cardinality({i \in DOMAIN plans : plans[i].is_selected})
                              <= Last(plans).run
        BY DEF SelectedRoutesAgree
    <2>1. plans \in Seq(Plan) /\ plans # <<>> /\ RunsOK(plans)
        BY DEF RoutesInv
    <2> DEFINE selected == {i \in DOMAIN plans : plans[i].is_selected}
               runOf == [i \in selected |-> plans[i].run]
    <2>2. DOMAIN plans = 1 .. Len(plans) /\ \A i \in 1 .. Len(plans) : plans[i] \in Plan
        BY <2>1
    <2>3. Last(plans).run \in Nat
        BY <2>1, <2>2 DEF Last, Plan
    <2>4. runOf \in Injection(selected, 1 .. Last(plans).run)
        <3>1. \A i \in selected : plans[i].run \in 1 .. Last(plans).run
            BY <2>1, <2>2, <2>3 DEF RunsOK, Plan
        <3>2. \A i, j \in selected : plans[i].run = plans[j].run => i = j
            BY <2>1, <2>2 DEF RunsOK
        <3> QED BY <3>1, <3>2 DEF Injection, IsInjective
    <2>5. IsFiniteSet(1 .. Last(plans).run) /\ Cardinality(1 .. Last(plans).run) = Last(plans).run
        <3> DEFINE n == Last(plans).run
        <3>1. n \in Int /\ 1 \in Int
            BY <2>3
        <3> HIDE DEF n
        <3>2. IsFiniteSet(1 .. n) /\ Cardinality(1 .. n) = IF 1 > n THEN 0 ELSE n - 1 + 1
            BY <3>1, FS_Interval
        <3> QED BY <2>3, <3>2 DEF n
    <2>6. Cardinality(selected) <= Last(plans).run
        BY <2>4, <2>5, FS_Injection
    <2> QED BY <2>1, <2>2, <2>6 DEF RunsOK
<1> QED BY RoutesInvariant, <1>1, PTL
-----------------------------------------------------------------------------
(* Which columns a call leaves to the rows that were there; the rows that it *)
(* makes have none of them yet.                                              *)
KeepsCarriers ==
    \A s \in Shipment :
        /\ s \in Known => s \in Known' /\ shipment'[s].carrier = shipment[s].carrier
        /\ s \in Known' \ Known => shipment'[s].carrier = None
KeepsGroups ==
    \A s \in Shipment :
        /\ s \in Known => s \in Known' /\ shipment'[s].group = shipment[s].group
        /\ s \in Known' \ Known => shipment'[s].group = None
KeepsDocks ==
    \A s \in Shipment :
        /\ s \in Known => s \in Known' /\ shipment'[s].dock = shipment[s].dock
        /\ s \in Known' \ Known => shipment'[s].dock = None

LEMMA KnownRows ==
    ASSUME HistoryInv
    PROVE  /\ \A s \in Shipment : s \in Known <=> shipment[s] \in Row
           /\ Known \subseteq Shipment /\ IsFiniteSet(Known)
<1>1. \A s \in Shipment : s \in Known <=> shipment[s] \in Row
    BY NoneIsNoRow DEF HistoryInv, RowOK, Known
<1>2. Known \subseteq Shipment
    BY DEF Known
<1>3. IsFiniteSet(Known)
    BY <1>2, LoadedOK, FS_Subset
<1> QED BY <1>1, <1>2, <1>3

LEMMA SameRowsKeep ==
    ASSUME shipment' = shipment
    PROVE  KeepsCarriers /\ KeepsGroups /\ KeepsDocks
<1>1. Known' = Known
    BY DEF Known
<1> QED BY <1>1 DEF KeepsCarriers, KeepsGroups, KeepsDocks

LEMMA GenerateKeeps ==
    ASSUME HistoryInv, NEW s \in Shipment, Generate(s)
    PROVE  KeepsCarriers /\ KeepsGroups /\ KeepsDocks
<1>1. \A t \in Shipment :
          shipment'[t] = IF t = s THEN Fresh(<<"draft", "planned">>) ELSE shipment[t]
    BY DEF Generate, HistoryInv
<1>2. s \notin Known
    BY DEF Generate, Known
<1>3. /\ shipment'[s].carrier = None /\ shipment'[s].group = None /\ shipment'[s].dock = None
    BY <1>1 DEF Fresh
<1>4. \A t \in Shipment : t # s => (t \in Known' <=> t \in Known)
    BY <1>1 DEF Known
<1> QED BY <1>1, <1>2, <1>3, <1>4 DEF KeepsCarriers, KeepsGroups, KeepsDocks

LEMMA MoveKeeps ==
    ASSUME HistoryInv, HistoryInv', NEW x \in Session, NEW new \in Status, Move(x, new)
    PROVE  KeepsCarriers /\ KeepsGroups /\ KeepsDocks
<1> DEFINE s == session[x].id
           past == Moved(session[x].read, new)
<1>1. /\ session[x] # None
      /\ shipment' = [shipment EXCEPT ![s].status = new, ![s].state_history = past]
    BY DEF Move
<1>2. s \in Shipment /\ shipment[s] \in Row
    BY <1>1 DEF HistoryInv, RowOK
<1> HIDE DEF s, past
<1>3. /\ \A t \in Shipment : t # s => shipment'[t] = shipment[t]
      /\ shipment'[s] = [[shipment[s] EXCEPT !.status = new] EXCEPT !.state_history = past]
    BY <1>1, <1>2 DEF HistoryInv
<1>4. /\ shipment'[s].carrier = shipment[s].carrier /\ shipment'[s].group = shipment[s].group
      /\ shipment'[s].dock = shipment[s].dock
    BY <1>2, <1>3 DEF Row
<1>5. s \in Known /\ s \in Known'
    <2>1. s \in Known
        BY <1>2, KnownRows
    <2>2. past \in Seq(Status)
        BY <1>1, MovedIsLegal DEF HistoryInv, Legal, past, Move
    <2>3. shipment'[s] \in Row
        BY <1>2, <1>3, <2>2 DEF Row
    <2> QED BY <1>2, <2>1, <2>3, NoneIsNoRow DEF Known
<1>6. \A t \in Shipment : t # s => (t \in Known' <=> t \in Known)
    BY <1>3 DEF Known
<1> QED BY <1>3, <1>4, <1>5, <1>6 DEF KeepsCarriers, KeepsGroups, KeepsDocks

(* A change of one column of one row that is there.                          *)
LEMMA OneRowKnown ==
    ASSUME HistoryInv, HistoryInv', NEW s \in Known, shipment'[s] \in Row,
           \A t \in Shipment : t # s => shipment'[t] = shipment[t]
    PROVE  Known' = Known
<1>1. s \in Shipment
    BY DEF Known
<1> QED BY <1>1, NoneIsNoRow DEF Known

LEMMA AssignCarrierKeeps ==
    ASSUME HistoryInv, HistoryInv', NEW s \in Shipment, NEW c \in Carrier, AssignCarrier(s, c)
    PROVE  KeepsGroups /\ KeepsDocks
<1>1. /\ s \in Known /\ shipment[s] \in Row
      /\ shipment'[s] = [shipment[s] EXCEPT !.carrier = c]
      /\ \A t \in Shipment : t # s => shipment'[t] = shipment[t]
    BY KnownRows DEF AssignCarrier, HistoryInv
<1>2. /\ shipment'[s] \in Row
      /\ shipment'[s].group = shipment[s].group /\ shipment'[s].dock = shipment[s].dock
    BY <1>1 DEF Row
<1>3. Known' = Known
    BY <1>1, <1>2, OneRowKnown
<1> QED BY <1>1, <1>2, <1>3 DEF KeepsGroups, KeepsDocks

LEMMA DockKeeps ==
    ASSUME HistoryInv, HistoryInv', NEW s \in Shipment, NEW k \in Slots,
           Schedule(s, k) \/ Reschedule(s, k)
    PROVE  /\ KeepsCarriers /\ KeepsGroups /\ Known' = Known
           /\ s \in Known /\ shipment'[s].dock = k
           /\ \A t \in Shipment : t # s => shipment'[t] = shipment[t]
<1>1. /\ s \in Known /\ shipment[s] \in Row
      /\ \A t \in Shipment : t # s => shipment'[t] = shipment[t]
    BY KnownRows DEF Schedule, Reschedule, HistoryInv
<1>2. /\ shipment'[s] \in Row /\ shipment'[s].dock = k
      /\ shipment'[s].group = shipment[s].group /\ shipment'[s].carrier = shipment[s].carrier
    <2>1. CASE Schedule(s, k)
        <3>1. shipment'[s] = [[shipment[s] EXCEPT !.delivery = Day[k]] EXCEPT !.dock = k]
            BY <2>1 DEF Schedule, HistoryInv
        <3>2. Day[k] \in Nat
            BY LoadedOK DEF Slots
        <3> QED BY <1>1, <3>1, <3>2 DEF Row
    <2>2. CASE Reschedule(s, k)
        <3>1. shipment'[s] = [shipment[s] EXCEPT !.dock = k]
            BY <2>2 DEF Reschedule, HistoryInv
        <3> QED BY <1>1, <3>1 DEF Row
    <2> QED BY <2>1, <2>2
<1>3. Known' = Known
    BY <1>1, <1>2, OneRowKnown
<1> QED BY <1>1, <1>2, <1>3 DEF KeepsCarriers, KeepsGroups

(* A consolidation gives groups to its candidates, and to no other row.      *)
LEMMA ConsolidateKeeps ==
    ASSUME HistoryInv, HistoryInv', NEW rank, NEW heads,
           shipment' = [s \in Shipment |->
               IF s \in Candidates THEN [shipment[s] EXCEPT !.group = GroupOf(rank, heads, s)]
               ELSE shipment[s]]
    PROVE  /\ KeepsCarriers /\ KeepsDocks /\ Known' = Known
           /\ \A s \in Candidates : shipment'[s].group = GroupOf(rank, heads, s)
           /\ \A s \in Shipment \ Candidates : shipment'[s] = shipment[s]
<1>1. \A s \in Candidates : s \in Shipment /\ s \in Known /\ shipment[s] \in Row
    BY KnownRows DEF Candidates, Known
<1>2. \A s \in Shipment \ Candidates : shipment'[s] = shipment[s]
    OBVIOUS
<1>3. \A s \in Candidates : shipment'[s] = [shipment[s] EXCEPT !.group = GroupOf(rank, heads, s)]
    BY <1>1
<1>4. \A s \in Candidates : GroupOf(rank, heads, s) \in SUBSET Shipment
    BY <1>1 DEF GroupOf
<1>5. ASSUME NEW s \in Candidates
      PROVE  /\ shipment'[s] \in Row /\ shipment'[s].group = GroupOf(rank, heads, s)
             /\ shipment'[s].carrier = shipment[s].carrier /\ shipment'[s].dock = shipment[s].dock
    BY <1>1, <1>3, <1>4 DEF Row
<1>6. Known' = Known
    <2>1. ASSUME NEW s \in Shipment PROVE shipment'[s] # None <=> shipment[s] # None
        <3>1. CASE s \in Candidates
            BY <1>1, <1>5, <3>1, NoneIsNoRow
        <3>2. CASE s \notin Candidates
            BY <1>2, <3>2
        <3> QED BY <3>1, <3>2
    <2> QED BY <2>1 DEF Known
<1> QED BY <1>2, <1>5, <1>6 DEF KeepsCarriers, KeepsDocks

-----------------------------------------------------------------------------
(* A slot has a booking for every shipment that was last given it.           *)
OnDock(k) == {s \in Known : shipment[s].dock = k}

DocksInv ==
    /\ booked \in [Slots -> Nat]
    /\ DocksCountShipments

(* Rows may come and go between other columns as long as docks stay.         *)
LEMMA DocksKept ==
    ASSUME HistoryInv, DocksInv, KeepsDocks, booked' = booked, renewed' = renewed
    PROVE  DocksInv'
<1>1. ASSUME NEW k \in Slots PROVE OnDock(k)' \subseteq OnDock(k)
    <2>1. k # None
        BY LoadedOK DEF Slots
    <2> QED BY <2>1 DEF KeepsDocks, OnDock, Known
<1>2. ASSUME NEW k \in Slots PROVE Cardinality(OnDock(k)') <= Cardinality(OnDock(k))
    <2>1. IsFiniteSet(OnDock(k))
        BY KnownRows, FS_Subset DEF OnDock
    <2> QED BY <1>1, <2>1, FS_Subset
<1>3. ASSUME NEW k \in Slots, ~renewed PROVE Cardinality(OnDock(k)') <= booked[k]
    <2>1. Cardinality(OnDock(k)) <= booked[k] /\ booked[k] \in Nat
        BY <1>3 DEF DocksInv, DocksCountShipments, OnDock
    <2>2. IsFiniteSet(OnDock(k)) /\ IsFiniteSet(OnDock(k)')
        BY <1>1, KnownRows, FS_Subset DEF OnDock
    <2>3. Cardinality(OnDock(k)) \in Nat /\ Cardinality(OnDock(k)') \in Nat
        BY <2>2, FS_CardinalityType
    <2> QED BY <1>2, <2>1, <2>3
<1>4. \A k \in Slots : ~renewed' => Cardinality(OnDock(k)') <= booked'[k]
    BY <1>3
<1>5. booked' \in [Slots -> Nat] /\ \A k \in Slots : booked'[k] <= DockCapacity
    BY DEF DocksInv, DocksCountShipments
<1> QED BY <1>4, <1>5 DEF DocksInv, DocksCountShipments, OnDock

LEMMA DocksBooked ==
    ASSUME HistoryInv, HistoryInv', DocksInv, NEW s \in Shipment, NEW k \in Slots,
           Schedule(s, k) \/ Reschedule(s, k)
    PROVE  DocksInv'
<1>1. /\ booked' = [booked EXCEPT ![k] = booked[k] + 1] /\ renewed' = renewed
      /\ booked[k] < DockCapacity
    BY DEF Schedule, Reschedule, BestSlots, Free
<1>2. /\ booked \in [Slots -> Nat] /\ DockCapacity \in Nat
      /\ \A j \in Slots : booked[j] <= DockCapacity
      /\ \A j \in Slots : ~renewed => Cardinality(OnDock(j)) <= booked[j]
    BY LoadedOK DEF DocksInv, DocksCountShipments, OnDock
<1>3. /\ booked' \in [Slots -> Nat]
      /\ \A j \in Slots : booked'[j] = IF j = k THEN booked[k] + 1 ELSE booked[j]
    BY <1>1, <1>2
<1>4. \A j \in Slots : booked'[j] <= DockCapacity
    BY <1>1, <1>2, <1>3
<1>5. /\ Known' = Known /\ s \in Known /\ shipment'[s].dock = k
      /\ \A t \in Shipment : t # s => shipment'[t] = shipment[t]
    BY DockKeeps
<1>6. ASSUME NEW j \in Slots
      PROVE  IsFiniteSet(OnDock(j)) /\ Cardinality(OnDock(j)) \in Nat
    <2>1. IsFiniteSet(OnDock(j))
        BY KnownRows, FS_Subset DEF OnDock
    <2> QED BY <2>1, FS_CardinalityType
<1>7. ASSUME NEW j \in Slots, ~renewed
      PROVE  Cardinality(OnDock(j)') <= booked'[j]
    <2>1. CASE j # k
        <3>1. OnDock(j)' \subseteq OnDock(j)
            BY <1>5, <2>1, KnownRows DEF OnDock
        <3>2. IsFiniteSet(OnDock(j)') /\ Cardinality(OnDock(j)') <= Cardinality(OnDock(j))
            BY <1>6, <3>1, FS_Subset
        <3>3. Cardinality(OnDock(j)') \in Nat
            BY <3>2, FS_CardinalityType
        <3> QED BY <1>2, <1>3, <1>6, <1>7, <2>1, <3>2, <3>3
    <2>2. CASE j = k
        <3>1. OnDock(k)' \subseteq OnDock(k) \cup {s}
            BY <1>5, KnownRows DEF OnDock
        <3>2. /\ IsFiniteSet(OnDock(k) \cup {s})
              /\ Cardinality(OnDock(k) \cup {s}) \in {Cardinality(OnDock(k)), Cardinality(OnDock(k)) + 1}
            BY <1>6, FS_AddElement
        <3>3. IsFiniteSet(OnDock(k)') /\ Cardinality(OnDock(k)') <= Cardinality(OnDock(k) \cup {s})
            BY <3>1, <3>2, FS_Subset
        <3>4. Cardinality(OnDock(k)') \in Nat
            BY <3>3, FS_CardinalityType
        <3> QED BY <1>2, <1>3, <1>6, <1>7, <2>2, <3>2, <3>3, <3>4
    <2> QED BY <2>1, <2>2
<1>8. \A j \in Slots : ~renewed' => Cardinality(OnDock(j)') <= booked'[j]
    BY <1>1, <1>7
<1> QED BY <1>3, <1>4, <1>8 DEF DocksInv, DocksCountShipments, OnDock

LEMMA DocksRenewed ==
    ASSUME GenerateSlots
    PROVE  DocksInv'
BY LoadedOK DEF GenerateSlots, DocksInv, DocksCountShipments

THEOREM DocksInvariant == Spec => []DocksInv
<1>1. Init => DocksInv
    <2> SUFFICES ASSUME Init PROVE DocksInv
        OBVIOUS
    <2>1. \A s \in Known : s \in Shipment /\ shipment[s].dock = None
        BY DEF Init, Fresh, Known
    <2>2. \A k \in Slots : OnDock(k) = {}
        <3>1. \A k \in Slots : k # None
            BY LoadedOK DEF Slots
        <3> QED BY <2>1, <3>1 DEF OnDock
    <2>3. \A k \in Slots : Cardinality(OnDock(k)) = 0
        BY <2>2, FS_EmptySet
    <2>4. booked \in [Slots -> Nat] /\ \A k \in Slots : booked[k] = 0
        BY DEF Init
    <2> QED BY <2>3, <2>4, LoadedOK DEF DocksInv, DocksCountShipments, OnDock
<1>2. HistoryInv /\ HistoryInv' /\ DocksInv /\ [Next]_vars => DocksInv'
    <2> SUFFICES ASSUME HistoryInv, HistoryInv', DocksInv, [Next]_vars PROVE DocksInv'
        OBVIOUS
    <2>1. CASE UNCHANGED <<shipment, booked, renewed>>
        BY <2>1, SameRowsKeep, DocksKept
    <2>2. ASSUME NEW s \in Shipment, Generate(s) PROVE DocksInv'
        BY <2>2, GenerateKeeps, DocksKept DEF Generate
    <2>3. ASSUME NEW s \in Shipment, NEW k \in Slots, Schedule(s, k) \/ Reschedule(s, k)
          PROVE  DocksInv'
        BY <2>3, DocksBooked
    <2>4. ASSUME NEW x \in Session, NEW s \in Shipment, Begin(x, s) PROVE DocksInv'
        BY <2>1, <2>4 DEF Begin
    <2>5. ASSUME NEW s \in Shipment, NEW c \in Carrier, PlanRoutes(s, c) \/ AssignCarrier(s, c)
          PROVE  DocksInv'
        <3>1. CASE PlanRoutes(s, c)
            BY <2>1, <3>1 DEF PlanRoutes
        <3>2. CASE AssignCarrier(s, c)
            BY <3>2, AssignCarrierKeeps, DocksKept DEF AssignCarrier
        <3> QED BY <2>5, <3>1, <3>2
    <2>6. ASSUME NEW x \in Session, Abandon(x) \/ \E new \in Status : Move(x, new)
          PROVE  DocksInv'
        <3>1. CASE Abandon(x)
            BY <2>1, <3>1 DEF Abandon
        <3>2. ASSUME NEW new \in Status, Move(x, new) PROVE DocksInv'
            BY <3>2, MoveKeeps, DocksKept DEF Move
        <3> QED BY <2>6, <3>1, <3>2
    <2>7. ASSUME NEW c \in Carrier, ToggleCarrier(c) PROVE DocksInv'
        BY <2>1, <2>7 DEF ToggleCarrier
    <2>8. CASE Consolidate
        <3>1. KeepsDocks
            <4>1. PICK rank \in Sorted, heads \in SUBSET Candidates :
                      shipment' = [s \in Shipment |->
                          IF s \in Candidates
                          THEN [shipment[s] EXCEPT !.group = GroupOf(rank, heads, s)]
                          ELSE shipment[s]]
                BY <2>8 DEF Consolidate
            <4> QED BY <4>1, ConsolidateKeeps
        <3> QED BY <2>8, <3>1, DocksKept DEF Consolidate
    <2>9. CASE GenerateSlots
        BY <2>9, DocksRenewed
    <2>10. CASE UNCHANGED vars
        BY <2>1, <2>10 DEF vars
    <2> QED BY <2>2, <2>3, <2>4, <2>5, <2>6, <2>7, <2>8, <2>9, <2>10 DEF Next
<1> QED BY HistoryInvariant, <1>1, <1>2, PTL DEF Spec

(* No slot is booked beyond its capacity, and every shipment has a booking   *)
(* on the slot it was last given, until the slots are generated anew.        *)
THEOREM DocksCounted == Spec => []DocksCountShipments
BY DocksInvariant, PTL DEF DocksInv
-----------------------------------------------------------------------------
LEMMA WeightType == \A s \in Shipment : WeightOf(s) \in Nat
BY LoadedOK DEF WeightOf

LEMMA LoadWithOneMore ==
    ASSUME NEW S \in SUBSET Shipment, NEW s \in Shipment, s \notin S
    PROVE  Load(S \cup {s}) = Load(S) + WeightOf(s)
<1> DEFINE p == [t \in S |-> WeightOf(t)]
           T == S \cup {s}
           q == [t \in T |-> WeightOf(t)]
<1>1. IsFiniteSet(S)
    BY LoadedOK, FS_Subset
<1>2. /\ q[s] = WeightOf(s) /\ q[s] \in Nat
      /\ \A t \in S : p[t] \in Nat /\ q[t] = p[t]
    BY WeightType
<1> HIDE DEF p, q
<1>3. Total(S \cup {s}, q) = Total(S, p) + q[s]
    BY <1>1, <1>2, TotalAdd
<1> QED BY <1>2, <1>3 DEF Load, p, q

(* A finite list has a last entry in every part of it.                       *)
LEMMA LastOfGroup ==
    ASSUME NEW C, NEW n \in Nat, NEW rank \in [C -> 1 .. n], NEW G \in SUBSET C, G # {}
    PROVE  \E t \in G : \A u \in G : rank[u] <= rank[t]
<1> DEFINE T == {n - rank[t] : t \in G}
<1>1. \A t \in G : rank[t] \in 1 .. n
    OBVIOUS
<1>2. T \subseteq Nat /\ T # {}
    BY <1>1
<1>3. PICK k \in T : \A m \in T : k <= m
    BY <1>2, LeastNatural
<1>4. PICK t \in G : k = n - rank[t]
    OBVIOUS
<1>5. ASSUME NEW u \in G PROVE rank[u] <= rank[t]
    <2>1. k <= n - rank[u]
        BY <1>3
    <2> QED BY <1>1, <1>4, <2>1
<1> QED BY <1>5

(* The groups of a consolidation: of one region, each member with the same   *)
(* group, and within the limits, since its last member was let in.           *)
LEMMA GroupsOfWindow ==
    ASSUME NEW rank \in Sorted, NEW heads \in SUBSET Candidates,
           \A s \in Candidates : s \in heads <=> Opens(rank, heads, s),
           NEW s \in Candidates, NEW G, G = GroupOf(rank, heads, s)
    PROVE  /\ s \in G /\ G \subseteq Candidates
           /\ \A t \in G : Region[t] = Region[s] /\ GroupOf(rank, heads, t) = G
           /\ Cardinality(G) <= MaxGroupSize
           /\ Load(G) <= MaxGroupWeight \/ G = {s}
<1>1. Candidates \subseteq Shipment /\ IsFiniteSet(Candidates)
    BY LoadedOK, FS_Subset DEF Candidates, Known
<1>2. Cardinality(Candidates) \in Nat
    BY <1>1, FS_CardinalityType
<1>3. /\ rank \in [Candidates -> 1 .. Cardinality(Candidates)]
      /\ \A t, u \in Candidates : rank[t] = rank[u] => t = u
    BY DEF Sorted, Injection, IsInjective
<1>4. \A t \in Candidates : rank[t] \in Nat
    BY <1>2, <1>3
<1>5. s \in G /\ G \subseteq Candidates /\ \A t \in G : Region[t] = Region[s]
    BY DEF GroupOf
<1>6. ASSUME NEW t \in G
      PROVE  \A h \in heads : Region[h] = Region[s] => (rank[h] <= rank[t] <=> rank[h] <= rank[s])
    BY DEF GroupOf
<1>7. ASSUME NEW t \in G PROVE GroupOf(rank, heads, t) = G
    <2>1. Region[t] = Region[s]
        BY <1>5
    <2> QED BY <1>6, <2>1 DEF GroupOf
<1>8. PICK last \in G : \A u \in G : rank[u] <= rank[last]
    BY <1>2, <1>3, <1>5, LastOfGroup
<1> DEFINE O == Open(rank, heads, last)
<1>9. last \in Candidates /\ Region[last] = Region[s]
    BY <1>5
<1>10. CASE last \in heads
    <2>1. ASSUME NEW t \in G PROVE t = last
        <3>1. rank[last] <= rank[s]
            BY <1>4, <1>6, <1>9, <1>10
        <3>2. rank[last] <= rank[t]
            BY <1>6, <1>9, <1>10, <3>1
        <3> QED BY <1>3, <1>4, <1>5, <1>8, <3>2
    <2>2. G = {s}
        BY <1>5, <2>1
    <2>3. Cardinality(G) = 1
        BY <2>2, FS_Singleton
    <2> QED BY <1>5, <1>7, <2>2, <2>3, LoadedOK
<1>11. CASE last \notin heads
    <2>1. O # {} /\ ~Full(O, last)
        BY <1>9, <1>11 DEF Opens
    <2>2. O \subseteq Candidates /\ last \notin O
        BY <1>4, <1>9 DEF Open
    <2>3. \A t \in G : t # last => t \in O
        <3> SUFFICES ASSUME NEW t \in G, t # last PROVE t \in O
            OBVIOUS
        <3>1. t \in Candidates /\ Region[t] = Region[last]
            BY <1>5, <1>9
        <3>2. rank[t] < rank[last]
            BY <1>3, <1>4, <1>8, <1>9, <3>1
        <3>3. ASSUME NEW h \in heads, Region[h] = Region[last], rank[t] < rank[h], rank[h] < rank[last]
              PROVE  FALSE
            <4>1. h \in Candidates
                OBVIOUS
            <4>2. rank[h] <= rank[t] <=> rank[h] <= rank[last]
                BY <1>6, <1>9, <3>3
            <4> QED BY <1>4, <1>9, <3>1, <3>3, <4>1, <4>2
        <3> QED BY <3>1, <3>2, <3>3 DEF Open
    <2>4. \A t \in O : t \in G
        <3> SUFFICES ASSUME NEW t \in O PROVE t \in G
            OBVIOUS
        <3>1. t \in Candidates /\ Region[t] = Region[s] /\ rank[t] < rank[last]
            BY <1>9 DEF Open
        <3>2. ASSUME NEW h \in heads, Region[h] = Region[s]
              PROVE  rank[h] <= rank[t] <=> rank[h] <= rank[s]
            <4>1. h \in Candidates /\ h # last
                BY <1>11
            <4>2. ~(rank[t] < rank[h] /\ rank[h] < rank[last])
                BY <1>9, <3>2 DEF Open
            <4>3. rank[h] # rank[last]
                BY <1>3, <1>9, <4>1
            <4>4. rank[h] <= rank[t] <=> rank[h] <= rank[last]
                BY <1>4, <1>9, <3>1, <4>1, <4>2, <4>3
            <4> QED BY <1>6, <3>2, <4>4
        <3> QED BY <3>1, <3>2 DEF GroupOf
    <2>5. G = O \cup {last}
        BY <2>3, <2>4
    <2>6. IsFiniteSet(O)
        BY <1>1, <2>2, FS_Subset
    <2>7. Cardinality(G) = Cardinality(O) + 1 /\ Cardinality(O) \in Nat
        BY <2>2, <2>5, <2>6, FS_AddElement, FS_CardinalityType
    <2>8. Load(G) = Load(O) + WeightOf(last)
        BY <1>1, <1>9, <2>2, <2>5, LoadWithOneMore
    <2>9. Cardinality(O) < MaxGroupSize /\ Load(O) + WeightOf(last) <= MaxGroupWeight
        <3>1. /\ ~(Cardinality(O) >= MaxGroupSize)
              /\ ~(Load(O) + WeightOf(last) > MaxGroupWeight)
            BY <2>1 DEF Full
        <3>2. WeightOf(last) \in Nat
            BY <1>1, <1>9, WeightType
        <3>3. Load(O) \in Nat
            <4> DEFINE w == [t \in O |-> WeightOf(t)]
            <4>1. \A t \in O : w[t] \in Nat
                BY <1>1, <2>2, WeightType
            <4> HIDE DEF w
            <4>2. Total(O, w) \in Nat
                BY <2>6, <4>1, TotalType
            <4> QED BY <4>2 DEF Load, w
        <3> QED BY <2>7, <3>1, <3>2, <3>3, LoadedOK
    <2> QED BY <1>5, <1>7, <2>7, <2>8, <2>9, LoadedOK
<1> QED BY <1>10, <1>11

-----------------------------------------------------------------------------
(* Only what can be carried is given a carrier or put into a group, and the  *)
(* members of a group are rows that name it.                                 *)
CarriersFit ==
    \A s \in Known :
        shipment[s].carrier # None => WeightOf(s) <= MaxLoad[shipment[s].carrier]
GroupFits(s, G) ==
    /\ s \in G /\ G \subseteq Known
    /\ \A t \in G : Region[t] = Region[s] /\ shipment[t].group = G
    /\ Cardinality(G) <= MaxGroupSize
    /\ Load(G) <= MaxGroupWeight \/ G = {s}
GroupsFit ==
    \A s \in Known : shipment[s].group # None => GroupFits(s, shipment[s].group)

LoadsInv == CarriersFit /\ GroupsFit

LEMMA CarriersKept ==
    ASSUME CarriersFit, KeepsCarriers
    PROVE  CarriersFit'
<1>1. \A s \in Known' : s \in Shipment
    BY DEF Known
<1> QED BY <1>1 DEF CarriersFit, KeepsCarriers, WeightOf

LEMMA GroupsKept ==
    ASSUME GroupsFit, KeepsGroups
    PROVE  GroupsFit'
<1>1. ASSUME NEW s \in Known', NEW G, G = shipment'[s].group, G # None
      PROVE  /\ s \in G /\ G \subseteq Known'
             /\ \A t \in G : Region[t] = Region[s] /\ shipment'[t].group = G
             /\ Cardinality(G) <= MaxGroupSize
             /\ Load(G) <= MaxGroupWeight \/ G = {s}
    <2>1. s \in Shipment
        BY DEF Known
    <2>2. s \in Known /\ shipment[s].group = G
        BY <1>1, <2>1 DEF KeepsGroups
    <2>3. GroupFits(s, G)
        BY <1>1, <2>2 DEF GroupsFit
    <2>4. \A t \in G : t \in Known /\ t \in Known' /\ shipment'[t].group = shipment[t].group
        BY <2>3 DEF GroupFits, KeepsGroups, Known
    <2> QED BY <2>3, <2>4 DEF GroupFits
<1> QED BY <1>1 DEF GroupsFit, GroupFits, Load, WeightOf

LEMMA AssignedFits ==
    ASSUME HistoryInv, CarriersFit, NEW s \in Shipment, NEW c \in Carrier, AssignCarrier(s, c)
    PROVE  CarriersFit'
<1>1. /\ s \in Known /\ shipment[s] \in Row
      /\ shipment'[s] = [shipment[s] EXCEPT !.carrier = c]
      /\ \A t \in Shipment : t # s => shipment'[t] = shipment[t]
      /\ WeightOf(s) <= MaxLoad[c]
    BY KnownRows DEF AssignCarrier, HistoryInv, Able
<1>2. shipment'[s].carrier = c
    BY <1>1 DEF Row
<1>3. \A t \in Known' : t \in Shipment /\ (t # s => t \in Known)
    BY <1>1 DEF Known
<1>4. ASSUME NEW t \in Known', shipment'[t].carrier # None
      PROVE  WeightOf(t) <= MaxLoad[shipment'[t].carrier]
    <2>1. CASE t = s
        BY <1>1, <1>2, <2>1
    <2>2. CASE t # s
        BY <1>1, <1>3, <1>4, <2>2 DEF CarriersFit
    <2> QED BY <2>1, <2>2
<1> QED BY <1>4 DEF CarriersFit, WeightOf

LEMMA ConsolidatedFits ==
    ASSUME HistoryInv, HistoryInv', LoadsInv, Consolidate
    PROVE  LoadsInv'
<1>1. PICK rank \in Sorted, heads \in SUBSET Candidates :
          /\ \A s \in Candidates : s \in heads <=> Opens(rank, heads, s)
          /\ shipment' = [s \in Shipment |->
                IF s \in Candidates THEN [shipment[s] EXCEPT !.group = GroupOf(rank, heads, s)]
                ELSE shipment[s]]
    BY DEF Consolidate
<1>2. /\ KeepsCarriers /\ Known' = Known
      /\ \A s \in Candidates : shipment'[s].group = GroupOf(rank, heads, s)
      /\ \A s \in Shipment \ Candidates : shipment'[s] = shipment[s]
    BY <1>1, ConsolidateKeeps
<1>3. Candidates \subseteq Known /\ Known \subseteq Shipment
        /\ \A s \in Candidates : shipment[s].group = None
    BY DEF Candidates, Known
<1>4. ASSUME NEW s \in Known', NEW G, G = shipment'[s].group, G # None
      PROVE  /\ s \in G /\ G \subseteq Known'
             /\ \A t \in G : Region[t] = Region[s] /\ shipment'[t].group = G
             /\ Cardinality(G) <= MaxGroupSize
             /\ Load(G) <= MaxGroupWeight \/ G = {s}
    <2>1. CASE s \in Candidates
        <3>1. G = GroupOf(rank, heads, s)
            BY <1>2, <1>4, <2>1
        <3>2. /\ s \in G /\ G \subseteq Candidates
              /\ \A t \in G : Region[t] = Region[s] /\ GroupOf(rank, heads, t) = G
              /\ Cardinality(G) <= MaxGroupSize
              /\ Load(G) <= MaxGroupWeight \/ G = {s}
            BY <1>1, <2>1, <3>1, GroupsOfWindow
        <3>3. \A t \in G : shipment'[t].group = G
            BY <1>2, <3>2
        <3> QED BY <1>2, <1>3, <3>2, <3>3
    <2>2. CASE s \notin Candidates
        <3>1. s \in Known /\ shipment[s].group = G
            BY <1>2, <1>3, <1>4, <2>2
        <3>2. GroupFits(s, G)
            BY <1>4, <3>1 DEF LoadsInv, GroupsFit
        <3>3. \A t \in G : t \in Known /\ t \notin Candidates
            BY <1>3, <1>4, <3>2 DEF GroupFits
        <3>4. \A t \in G : shipment'[t] = shipment[t]
            BY <1>2, <1>3, <3>3
        <3> QED BY <1>2, <3>2, <3>4 DEF GroupFits
    <2> QED BY <2>1, <2>2
<1>5. GroupsFit'
    BY <1>4 DEF GroupsFit, GroupFits, Load, WeightOf
<1>6. CarriersFit'
    BY <1>2, CarriersKept DEF LoadsInv
<1> QED BY <1>5, <1>6 DEF LoadsInv

THEOREM LoadsInvariant == Spec => []LoadsInv
<1>1. Init => LoadsInv
    <2>1. Init => \A s \in Known : shipment[s].carrier = None /\ shipment[s].group = None
        BY DEF Init, Known, Fresh
    <2> QED BY <2>1 DEF LoadsInv, CarriersFit, GroupsFit
<1>2. HistoryInv /\ HistoryInv' /\ LoadsInv /\ [Next]_vars => LoadsInv'
    <2> SUFFICES ASSUME HistoryInv, HistoryInv', LoadsInv, [Next]_vars PROVE LoadsInv'
        OBVIOUS
    <2>1. CASE KeepsCarriers /\ KeepsGroups
        BY <2>1, CarriersKept, GroupsKept DEF LoadsInv
    <2>2. CASE shipment' = shipment
        BY <2>1, <2>2, SameRowsKeep
    <2>3. ASSUME NEW s \in Shipment, Generate(s) PROVE LoadsInv'
        BY <2>1, <2>3, GenerateKeeps
    <2>4. ASSUME NEW s \in Shipment, NEW k \in Slots, Schedule(s, k) \/ Reschedule(s, k)
          PROVE  LoadsInv'
        BY <2>1, <2>4, DockKeeps
    <2>5. ASSUME NEW x \in Session, NEW s \in Shipment, Begin(x, s) PROVE LoadsInv'
        BY <2>2, <2>5 DEF Begin
    <2>6. ASSUME NEW s \in Shipment, NEW c \in Carrier, PlanRoutes(s, c) \/ AssignCarrier(s, c)
          PROVE  LoadsInv'
        <3>1. CASE PlanRoutes(s, c)
            BY <2>2, <3>1 DEF PlanRoutes
        <3>2. CASE AssignCarrier(s, c)
            BY <3>2, AssignedFits, AssignCarrierKeeps, GroupsKept DEF LoadsInv
        <3> QED BY <2>6, <3>1, <3>2
    <2>7. ASSUME NEW x \in Session, Abandon(x) \/ \E new \in Status : Move(x, new)
          PROVE  LoadsInv'
        <3>1. CASE Abandon(x)
            BY <2>2, <3>1 DEF Abandon
        <3>2. ASSUME NEW new \in Status, Move(x, new) PROVE LoadsInv'
            BY <2>1, <3>2, MoveKeeps
        <3> QED BY <2>7, <3>1, <3>2
    <2>8. ASSUME NEW c \in Carrier, ToggleCarrier(c) PROVE LoadsInv'
        BY <2>2, <2>8 DEF ToggleCarrier
    <2>9. CASE Consolidate
        BY <2>9, ConsolidatedFits
    <2>10. CASE GenerateSlots
        BY <2>2, <2>10 DEF GenerateSlots
    <2>11. CASE UNCHANGED vars
        BY <2>2, <2>11 DEF vars
    <2> QED BY <2>3, <2>4, <2>5, <2>6, <2>7, <2>8, <2>9, <2>10, <2>11 DEF Next
<1> QED BY HistoryInvariant, <1>1, <1>2, PTL DEF Spec

(* A shipment only has a carrier that takes its weight, and a group stays    *)
(* within its limits, unless one shipment alone exceeds them, goes to one    *)
(* region and is not changed by later calls.                                 *)
THEOREM LoadsAreFit == Spec => []LoadsFit
<1>1. LoadsInv => LoadsFit
    BY DEF LoadsInv, CarriersFit, GroupsFit, GroupFits, LoadsFit
<1> QED BY LoadsInvariant, <1>1, PTL

(* Rows, carriers and bookings keep their shape. *)
THEOREM ShipmentsTypeOK == Spec => []TypeOK
<1>1. HistoryInv => shipment \in [Shipment -> Row \cup {None}]
    BY DEF HistoryInv, RowOK
<1>2. HistoryInv /\ RoutesInv /\ DocksInv => TypeOK
    BY <1>1 DEF RoutesInv, DocksInv, TypeOK
<1> QED BY HistoryInvariant, RoutesInvariant, DocksInvariant, <1>2, PTL
=============================================================================
