---------------------------- MODULE VisibilityCache ----------------------------
(***************************************************************************)
(* The cached network visibility of one SKU (Redis key netvis:{sku}) beside *)
(* the balances it is computed from.  InventoryService deletes the key when *)
(* it changes a balance, but before its transaction commits, and most calls *)
(* that change a balance do not know the cache at all; what they leave      *)
(* behind lives until the key expires.                                      *)
(***************************************************************************)
EXTENDS Visibility

CONSTANTS
    Reader,         \* concurrent calls of get_network_visibility
    Writer,         \* concurrent calls of InventoryService or the sync service
    Nothing,        \* no entry, no call under way
    Levels          \* bound: Levels[w], what may be available at w, oversold included

ASSUME LevelsOK == Levels \in [Warehouse -> SUBSET Int]

VARIABLES
    level,      \* level[w]: committed on_hand less everything held, over all rows
    entry,      \* the value under the key, or Nothing
    reader,     \* reader[r]: where its call is, and the view it has read
    writer      \* writer[s]: the balance its transaction has written, not committed

cacheVars == <<level, entry, reader, writer>>

-----------------------------------------------------------------------------
Open == {s \in Writer : writer[s] # Nothing}

CacheInit ==
    /\ level \in {l \in [Warehouse -> UNION {Levels[w] : w \in Warehouse}] :
                    \A w \in Warehouse : l[w] \in Levels[w]}
    /\ entry = Nothing
    /\ reader = [r \in Reader |-> Nothing]
    /\ writer = [s \in Writer |-> Nothing]

(* Two histories ride on a view: "lapped", a writer was open between its    *)
(* reading and its storing; "silent", a call that does not know the cache   *)
(* has committed since it was read.                                         *)
Mark(view, mark) == IF view = Nothing THEN Nothing ELSE [view EXCEPT !.marks = @ \cup {mark}]
Marked(mark) == [r \in Reader |-> Mark(reader[r], mark)]

(* get_network_visibility on a miss, or with use_cache = False: the query.  *)
(* On a hit it returns what is there.                                       *)
ReadVisibility(r, use_cache) ==
    /\ reader[r] = Nothing /\ (use_cache => entry = Nothing)
    /\ reader' = [reader EXCEPT ![r] =
          [view |-> Visible(level), marks |-> IF Open = {} THEN {} ELSE {"lapped"}]]
    /\ UNCHANGED <<level, entry, writer>>

(* ... and the SETEX with what the query returned. *)
StoreVisibility(r) ==
    /\ reader[r] # Nothing
    /\ entry' = reader[r]
    /\ reader' = [reader EXCEPT ![r] = Nothing]
    /\ UNCHANGED <<level, writer>>

(* allocate_for_order_line, adjust_inventory or the repair of sync_warehouse *)
(* has written the balance of w; its row stays locked until the commit.      *)
Change(s, w, units) ==
    /\ writer[s] = Nothing
    /\ \A t \in Open : writer[t].warehouse # w
    /\ writer' = [writer EXCEPT ![s] = [warehouse |-> w, units |-> units, deleted |-> FALSE]]
    /\ reader' = Marked("lapped")
    /\ UNCHANGED <<level, entry>>

(* Mutant: the service forgets the visibility of the network.               *)
InvalidateOwnKey(s) ==
    /\ writer[s] # Nothing /\ ~writer[s].deleted
    /\ writer' = [writer EXCEPT ![s].deleted = TRUE]
    /\ UNCHANGED <<level, entry, reader>>

(* invalidate_inventory, invalidate_pattern("netvis:*"): in the transaction. *)
Invalidate(s) ==
    /\ writer[s] # Nothing /\ ~writer[s].deleted
    /\ entry' = Nothing
    /\ writer' = [writer EXCEPT ![s].deleted = TRUE]
    /\ UNCHANGED <<level, reader>>

(* The request or the job ends; only now do other sessions see the balance. *)
CommitBalance(s) ==
    /\ writer[s] # Nothing /\ writer[s].deleted
    /\ level' = [level EXCEPT ![writer[s].warehouse] = writer[s].units]
    /\ writer' = [writer EXCEPT ![s] = Nothing]
    /\ UNCHANGED <<entry, reader>>

Rollback(s) ==
    /\ writer[s] # Nothing
    /\ writer' = [writer EXCEPT ![s] = Nothing]
    /\ UNCHANGED <<level, entry, reader>>

(* A release, an expiry, a receipt, a transfer, a pick, a count: none of    *)
(* them is given the cache.                                                 *)
CommitSilently(w, units) ==
    /\ units # level[w]
    /\ \A t \in Open : writer[t].warehouse # w
    /\ level' = [level EXCEPT ![w] = units]
    /\ reader' = Marked("silent")
    /\ entry' = Mark(entry, "silent")
    /\ UNCHANGED writer

(* Mutant: SET instead of SETEX. *)
ExpireNever == FALSE /\ UNCHANGED cacheVars

(* The time to live of the key runs out. *)
Expire ==
    /\ entry # Nothing
    /\ entry' = Nothing
    /\ UNCHANGED <<level, reader, writer>>

Read(r) == (\E use_cache \in BOOLEAN : ReadVisibility(r, use_cache)) \/ StoreVisibility(r)

ServiceCall(s) ==
    \/ \E w \in Warehouse : \E units \in Levels[w] : Change(s, w, units)
    \/ Invalidate(s) \/ CommitBalance(s) \/ Rollback(s)

CacheNext ==
    \/ \E r \in Reader : Read(r)
    \/ \E s \in Writer : ServiceCall(s)
    \/ \E w \in Warehouse : \E units \in Levels[w] : CommitSilently(w, units)
    \/ Expire

CacheSpec == CacheInit /\ [][CacheNext]_cacheVars

(* Redis expires keys by itself; no call has to be made.                    *)
FairCacheSpec == CacheSpec /\ WF_cacheVars(Expire)

-----------------------------------------------------------------------------
(* Levels, views and transactions keep their shape.                         *)
CacheTypeOK ==
    /\ \A w \in Warehouse : level[w] \in Levels[w]
    /\ \A v \in {entry} \cup {reader[r] : r \in Reader} :
          v = Nothing \/ (v.view \in [Warehouse -> Nat] /\ v.marks \subseteq {"lapped", "silent"})
    /\ \A s \in Open : writer[s].units \in Levels[writer[s].warehouse]

Stale == entry # Nothing /\ entry.view # Visible(level)

(* A cached view is out of date only if a call that does not know the cache *)
(* committed since it was read, or the view was read or stored while a      *)
(* transaction that invalidates was open: a service call that begins after  *)
(* the view was stored always takes it away.                                *)
StaleNeedsOverlap == Stale => entry.marks # {}

(* No stale view stays: however the calls interleave, and though no later   *)
(* call corrects it, the cache agrees with the balances, or is empty, again *)
(* and again.                                                               *)
StaleViewsExpire == []<>~Stale
=============================================================================
