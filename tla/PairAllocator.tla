---------------------------- MODULE PairAllocator ----------------------------
(***************************************************************************)
(* What callers of choosePorts() and releasePorts() are promised: a pair   *)
(* of ports belongs to one caller at a time, from the answer until it is   *)
(* given back, and every question is answered, by a pair or by an error.   *)
(***************************************************************************)
CONSTANTS Caller, Pair

VARIABLES asking,   \* the callers that wait for an answer
          held      \* the pairs that each caller holds

TypeOK == asking \subseteq Caller /\ held \in [Caller -> SUBSET Pair]

Init == asking = {} /\ held = [c \in Caller |-> {}]

Ask(c) == /\ c \notin asking
          /\ asking' = asking \cup {c}
          /\ UNCHANGED held

(* An error, or a pair that nobody holds. *)
Refuse(c) == /\ c \in asking
             /\ asking' = asking \ {c}
             /\ UNCHANGED held
Grant(c) == /\ c \in asking
            /\ \E p \in Pair \ UNION {held[d] : d \in Caller} :
                 held' = [held EXCEPT ![c] = @ \cup {p}]
            /\ asking' = asking \ {c}

Release(c) == /\ \E p \in held[c] : held' = [held EXCEPT ![c] = @ \ {p}]
              /\ UNCHANGED asking

Answer(c) == Refuse(c) \/ Grant(c)
Next == \E c \in Caller : Ask(c) \/ Answer(c) \/ Release(c)

Safety == Init /\ [][Next]_<<asking, held>>
Spec == Safety /\ \A c \in Caller : WF_<<asking, held>>(Answer(c))
=============================================================================
