---------------------------- MODULE AtomicBlocks ----------------------------
(***************************************************************************)
(* What SQLContext.transaction promises its callers, with no statement,     *)
(* flag or error in sight: a store of writes, changed either by one write   *)
(* made outside any block, or by all the writes of one block at once, and   *)
(* what the callers are told of them.  While a block is open nobody else    *)
(* changes the store.                                                       *)
(***************************************************************************)

CONSTANTS Threads, Writes, None

VARIABLES
    store,      \* the writes that will survive
    buffer,     \* the writes of the open block
    holder,     \* the thread whose block is open, or None
    kept,       \* the writes whose callers were told that they are committed
    gone        \* the writes of the blocks that threw

reports == <<kept, gone>>
vars == <<store, buffer, holder, reports>>

Init ==
    /\ store = {}
    /\ buffer = {}
    /\ holder = None
    /\ kept = {}
    /\ gone = {}

(* A block opens; blocks do not overlap and do not nest.                    *)
Start(t) ==
    /\ holder = None
    /\ holder' = t
    /\ UNCHANGED <<store, buffer, reports>>

(* A write of the holder waits for the end of its block.                    *)
Put(t, w) ==
    /\ holder = t
    /\ w \notin store \cup gone
    /\ buffer' = buffer \cup {w}
    /\ UNCHANGED <<store, holder, reports>>

(* A write made while no block is open is kept at once.                     *)
Single(w) ==
    /\ holder = None
    /\ w \notin gone
    /\ store' = store \cup {w}
    /\ kept' = kept \cup {w}
    /\ UNCHANGED <<buffer, holder, gone>>

(* The block ends, with all of its writes or with none.                     *)
Finish(t) ==
    /\ holder = t
    /\ store' = store \cup buffer
    /\ kept' = kept \cup buffer
    /\ buffer' = {}
    /\ holder' = None
    /\ UNCHANGED gone

(* The caller learns it at once, or only when its block has thrown.         *)
Abandon(t) ==
    /\ holder = t
    /\ buffer' = {}
    /\ holder' = None
    /\ gone' \in {gone, gone \cup buffer}
    /\ UNCHANGED <<store, kept>>

Refuse(S) ==
    /\ S \cap (store \cup buffer) = {}
    /\ gone' = gone \cup S
    /\ UNCHANGED <<store, buffer, holder, kept>>

Next ==
    \/ \E t \in Threads : Start(t) \/ Finish(t) \/ Abandon(t)
    \/ \E t \in Threads, w \in Writes : Put(t, w)
    \/ \E w \in Writes : Single(w)
    \/ \E S \in SUBSET Writes : Refuse(S)

Spec == Init /\ [][Next]_vars

-----------------------------------------------------------------------------
(* What a caller was told of a write is so and stays so.                    *)
TrueReports ==
    /\ kept \subseteq store
    /\ gone \cap (store \cup buffer) = {}
=============================================================================
