---------------------------- MODULE CancelToken -----------------------------
(***************************************************************************)
(* Cancellation (models.rs): a flag and a tokio Notify.  Tasks wait in     *)
(* cancelled() while other tasks, on other threads, call cancel().  A      *)
(* waiter registers with the Notify before it looks at the flag; a         *)
(* notification wakes exactly the waiters registered at that moment.  The  *)
(* Notify is external.                                                     *)
(***************************************************************************)
CONSTANTS Waiters, Cancellers

VARIABLES
    cancelled,     \* the flag
    registered,    \* waiters the Notify knows
    notified,      \* waiters it has woken since they registered
    at,            \* where each waiter is in cancelled()
    calling        \* where each canceller is in cancel()

token == <<cancelled, registered, notified, at, calling>>

TokenInit ==
    /\ cancelled = FALSE /\ registered = {} /\ notified = {}
    /\ at = [w \in Waiters |-> "away"]
    /\ calling = [c \in Cancellers |-> "idle"]

Goes(w, place) == at' = [at EXCEPT ![w] = place]

Enter(w) ==
    /\ at[w] = "away" /\ Goes(w, "enabling")
    /\ UNCHANGED <<cancelled, registered, notified, calling>>

(* notified() and enable().                                                *)
Enabled(w) == registered \cup {w}

Register(w) ==
    /\ at[w] = "enabling" /\ Goes(w, "checking") /\ registered' = Enabled(w)
    /\ notified' = notified \ {w} /\ UNCHANGED <<cancelled, calling>>

CheckFlag(w) ==
    /\ at[w] = "checking"
    /\ \/ /\ cancelled /\ Goes(w, "returned") /\ registered' = registered \ {w}
       \/ /\ ~cancelled /\ Goes(w, "awaiting") /\ UNCHANGED registered
    /\ UNCHANGED <<cancelled, notified, calling>>

(* The await: a waiter neither enabled nor woken registers only now.       *)
Sleep(w) ==
    /\ at[w] = "awaiting" /\ w \notin notified /\ Goes(w, "asleep")
    /\ registered' = registered \cup {w}
    /\ UNCHANGED <<cancelled, notified, calling>>

(* Woken: look at the flag, and go round the loop if it is not set.        *)
Wake(w) ==
    /\ at[w] \in {"awaiting", "asleep"} /\ w \in notified
    /\ Goes(w, IF cancelled THEN "returned" ELSE "enabling")
    /\ UNCHANGED <<cancelled, registered, notified, calling>>

(* The select that holds the wait takes another branch; later it may wait  *)
(* again.                                                                  *)
Leave(w) ==
    /\ at[w] \in {"checking", "awaiting", "asleep"} /\ Goes(w, "away")
    /\ registered' = registered \ {w} /\ notified' = notified \ {w}
    /\ UNCHANGED <<cancelled, calling>>

-----------------------------------------------------------------------------
Calls(c, place) == calling' = [calling EXCEPT ![c] = place]

Store(c) ==
    /\ calling[c] = "idle" /\ Calls(c, "notifying") /\ cancelled' = TRUE
    /\ UNCHANGED <<registered, notified, at>>

NotifyWaiters(c) ==
    /\ calling[c] = "notifying" /\ Calls(c, "done")
    /\ notified' = notified \cup registered /\ registered' = {}
    /\ UNCHANGED <<cancelled, at>>

TokenNext ==
    \/ \E w \in Waiters : Enter(w) \/ Register(w) \/ CheckFlag(w) \/ Sleep(w)
                          \/ Wake(w) \/ Leave(w)
    \/ \E c \in Cancellers : Store(c) \/ NotifyWaiters(c)

TokenSpec == TokenInit /\ [][TokenNext]_token

-----------------------------------------------------------------------------
Places == {"away", "enabling", "checking", "awaiting", "asleep", "returned"}

(* Every variable holds a value of its kind.                               *)
TokenTypeOK ==
    /\ cancelled \in BOOLEAN /\ registered \subseteq Waiters /\ notified \subseteq Waiters
    /\ at \in [Waiters -> Places]
    /\ calling \in [Cancellers -> {"idle", "notifying", "done"}]

(* No cancellation is lost: a task past its check, or asleep, although the *)
(* flag is set has been woken, or is registered with a cancel() still to   *)
(* notify.                                                                 *)
NoLostWakeup ==
    cancelled => \A w \in Waiters : at[w] \in {"awaiting", "asleep"} =>
        \/ w \in notified
        \/ w \in registered /\ \E c \in Cancellers : calling[c] = "notifying"
=============================================================================
