------------------------------ MODULE PortPool ------------------------------
(***************************************************************************)
(* The pool of RTP port pairs of network.ts: choosePorts(), which probes   *)
(* both ports of a pair by binding them, and releasePorts().  Calls run    *)
(* concurrently in one JavaScript thread: a step is what runs between two  *)
(* awaits, or what the socket of a probe does.                             *)
(*                                                                         *)
(* Other processes bind and close ports all the time, so a bind may fail   *)
(* whatever happened before.  It surely fails when a socket of our own has *)
(* the port.                                                               *)
(***************************************************************************)
EXTENDS Integers, FiniteSets, SequencesExt

CONSTANTS Caller,        \* the users of the pool
          minPort, maxPort,
          maxAttempts    \* 20 in choosePorts

ASSUME PoolAssumption ==
    /\ minPort \in Nat /\ minPort % 2 = 0
    /\ maxPort \in Nat /\ minPort < maxPort
    /\ maxAttempts \in Nat \ {0}

Offset == 0..((maxPort - minPort) \div 2 - 1)
NoOffset == -1
Port == minPort..(maxPort - 1)

VARIABLES
    availablePortOffsets,   \* the pool
    pc,        \* where each call is; "idle" when there is none
    nextOffset, second,     \* the offset and the port of the pair that are probed
    attempts,  \* failed attempts of the call
    available, \* the result of the probe
    held,      \* the offsets whose pair a caller was given and has not given back
    (* history, read by properties only *)
    tried,     \* the offsets that the call has taken
    untouched  \* those in the pool since the call began

callVars == <<pc, nextOffset, second, attempts, available, tried>>
vars == <<availablePortOffsets, callVars, held, untouched>>

TypeOK ==
    /\ availablePortOffsets \in Seq(Offset)
    /\ pc \in [Caller -> {"idle", "bind", "listening", "answer"}]
    /\ nextOffset \in [Caller -> Offset \cup {NoOffset}]
    /\ \A c \in Caller : pc[c] = "idle" <=> nextOffset[c] = NoOffset
    /\ second \in [Caller -> BOOLEAN]
    /\ attempts \in [Caller -> 0..(maxAttempts - 1)]
    /\ available \in [Caller -> BOOLEAN]
    /\ held \in [Caller -> SUBSET Offset]
    /\ tried \in [Caller -> SUBSET Offset]
    /\ untouched \in [Caller -> SUBSET Offset]

(* The pool starts in a random order. *)
Init ==
    /\ availablePortOffsets \in SetToSeqs(Offset)
    /\ pc = [c \in Caller |-> "idle"]
    /\ nextOffset = [c \in Caller |-> NoOffset]
    /\ second = [c \in Caller |-> FALSE]
    /\ attempts = [c \in Caller |-> 0]
    /\ available = [c \in Caller |-> FALSE]
    /\ held = [c \in Caller |-> {}]
    /\ tried = [c \in Caller |-> {}]
    /\ untouched = [c \in Caller |-> {}]

-----------------------------------------------------------------------------

(* Mutant of FirstPort: the pairs overlap. *)
BugFirstPort(o) == minPort + o
FirstPort(o) == minPort + o * 2
PairPorts(o) == {FirstPort(o), FirstPort(o) + 1}
ProbedPort(c) == FirstPort(nextOffset[c]) + (IF second[c] THEN 1 ELSE 0)

Calls == {c \in Caller : pc[c] # "idle"}
(* The ports that sockets of probes have at the moment. *)
OwnSockets == {ProbedPort(c) : c \in {d \in Caller : pc[d] = "listening"}}

(* Mutant of Take: the offset stays in the pool. *)
BugTake(c, p, failures) ==
    /\ nextOffset' = [nextOffset EXCEPT ![c] = Head(p)]
    /\ availablePortOffsets' = p
    /\ pc' = [pc EXCEPT ![c] = "bind"]
    /\ second' = [second EXCEPT ![c] = FALSE]
    /\ attempts' = [attempts EXCEPT ![c] = failures]
    /\ tried' = [tried EXCEPT ![c] = @ \cup {Head(p)}]

(* c starts probing the offset at the head of the pool p. *)
Take(c, p, failures) ==
    /\ nextOffset' = [nextOffset EXCEPT ![c] = Head(p)]
    /\ availablePortOffsets' = Tail(p)
    /\ pc' = [pc EXCEPT ![c] = "bind"]
    /\ second' = [second EXCEPT ![c] = FALSE]
    /\ attempts' = [attempts EXCEPT ![c] = failures]
    /\ tried' = [tried EXCEPT ![c] = @ \cup {Head(p)}]

(* The call ends, with the pool p. *)
Settle(c, p) ==
    /\ availablePortOffsets' = p
    /\ pc' = [pc EXCEPT ![c] = "idle"]
    /\ nextOffset' = [nextOffset EXCEPT ![c] = NoOffset]
    /\ second' = [second EXCEPT ![c] = FALSE]
    /\ attempts' = [attempts EXCEPT ![c] = 0]
    /\ tried' = [tried EXCEPT ![c] = {}]

(* An offset that is taken is no longer untouched for anyone. *)
Touch(o) == untouched' = [d \in Caller |-> untouched[d] \ {o}]

(* A call to choosePorts().  With an empty pool it fails at once. *)
ChoosePorts(c) ==
    /\ pc[c] = "idle" /\ availablePortOffsets # <<>>
    /\ Take(c, availablePortOffsets, 0)
    /\ untouched' = [d \in Caller |->
            (IF d = c THEN ToSet(Tail(availablePortOffsets)) ELSE untouched[d])
                \ {Head(availablePortOffsets)}]
    /\ UNCHANGED <<available, held>>

(* The socket of testPortAvailability() is bound, or emits an error. *)
Bind(c) ==
    /\ pc[c] = "bind"
    /\ \/ /\ ProbedPort(c) \notin OwnSockets
          /\ pc' = [pc EXCEPT ![c] = "listening"]
          /\ UNCHANGED available
       \/ /\ pc' = [pc EXCEPT ![c] = "answer"]
          /\ available' = [available EXCEPT ![c] = FALSE]
    /\ UNCHANGED <<availablePortOffsets, nextOffset, second, attempts, held, tried,
                   untouched>>

(* The listener closes the socket, whose callback resolves the promise. *)
Close(c) ==
    /\ pc[c] = "listening"
    /\ pc' = [pc EXCEPT ![c] = "answer"]
    /\ available' = [available EXCEPT ![c] = TRUE]
    /\ UNCHANGED <<availablePortOffsets, nextOffset, second, attempts, held, tried,
                   untouched>>

(* The first port is free: probe the second. *)
ProbeSecond(c) ==
    /\ pc[c] = "answer" /\ available[c] /\ ~second[c]
    /\ second' = [second EXCEPT ![c] = TRUE]
    /\ pc' = [pc EXCEPT ![c] = "bind"]
    /\ UNCHANGED <<availablePortOffsets, nextOffset, attempts, available, held, tried,
                   untouched>>

(* Both are: choosePorts() returns the pair. *)
ReturnPair(c) ==
    /\ pc[c] = "answer" /\ available[c] /\ second[c]
    /\ held' = [held EXCEPT ![c] = @ \cup {nextOffset[c]}]
    /\ Settle(c, availablePortOffsets)
    /\ untouched' = [untouched EXCEPT ![c] = {}]
    /\ UNCHANGED available

(* Mutant of Returned: the pair goes back to the front of the pool. *)
BugReturned(p, o) == <<o>> \o p
(* releasePorts: the pool with a pair given back. *)
Returned(p, o) == Append(p, o)

(* Mutant of TryAnother: one attempt too many. *)
BugTryAnother(c) ==
    /\ pc[c] = "answer" /\ ~available[c] /\ attempts[c] < maxAttempts
    /\ LET pool == Returned(availablePortOffsets, nextOffset[c])
       IN Take(c, pool, attempts[c] + 1) /\ Touch(Head(pool))
    /\ UNCHANGED <<available, held>>

(* A port is taken: the pair goes to the end of the pool and, in the same  *)
(* turn of the event loop, the call takes the next one...                  *)
TryAnother(c) ==
    /\ pc[c] = "answer" /\ ~available[c] /\ attempts[c] + 1 < maxAttempts
    /\ LET pool == Returned(availablePortOffsets, nextOffset[c])
       IN Take(c, pool, attempts[c] + 1) /\ Touch(Head(pool))
    /\ UNCHANGED <<available, held>>

(* Mutant of GiveUp: the last pair that was tried is not given back. *)
BugGiveUp(c) ==
    /\ pc[c] = "answer" /\ ~available[c] /\ attempts[c] + 1 = maxAttempts
    /\ Settle(c, availablePortOffsets)
    /\ untouched' = [untouched EXCEPT ![c] = {}]
    /\ UNCHANGED <<available, held>>

(* ... unless it has failed too often. *)
GiveUp(c) ==
    /\ pc[c] = "answer" /\ ~available[c] /\ attempts[c] + 1 = maxAttempts
    /\ Settle(c, Returned(availablePortOffsets, nextOffset[c]))
    /\ untouched' = [untouched EXCEPT ![c] = {}]
    /\ UNCHANGED <<available, held>>

(* A caller gives back a pair that it holds, once. *)
ReleasePorts(c) ==
    /\ \E o \in held[c] :
         /\ held' = [held EXCEPT ![c] = @ \ {o}]
         /\ availablePortOffsets' = Returned(availablePortOffsets, o)
    /\ UNCHANGED <<callVars, untouched>>

-----------------------------------------------------------------------------

Probe(c) == Bind(c) \/ Close(c)
Continue(c) == ProbeSecond(c) \/ ReturnPair(c) \/ TryAnother(c) \/ GiveUp(c)

Next == \E c \in Caller :
            ChoosePorts(c) \/ Probe(c) \/ Continue(c) \/ ReleasePorts(c)

(* A socket is bound or fails, is closed, and promises are continued.      *)
(* Nobody has to call choosePorts() or releasePorts().                     *)
Fairness == \A c \in Caller : WF_vars(Probe(c) \/ Continue(c))
Spec == Init /\ [][Next]_vars
FairSpec == Spec /\ Fairness

-----------------------------------------------------------------------------
(* Properties.                                                             *)

(* Where an offset is. *)
Places(o) == {<<"pool", i>> : i \in {j \in DOMAIN availablePortOffsets :
                                        availablePortOffsets[j] = o}}
             \cup {<<"probed", c>> : c \in {d \in Caller : nextOffset[d] = o}}
             \cup {<<"held", c>> : c \in {d \in Caller : o \in held[d]}}

(* No pair is lost and none is there twice, whatever calls do between      *)
(* taking an offset out of the pool and keeping it or giving it back.      *)
EachPairOnce == \A o \in Offset : \E place \in Places(o) : Places(o) = {place}

(* A probe does not meet a port of ours, a pair in use or another probe's: *)
(* when a call skips a pair, another process has one of its ports.         *)
ProbesMeetOnlyOthers ==
    \A c \in Calls :
        /\ \A d \in Caller, o \in Offset :
             o \in held[d] => ProbedPort(c) \notin PairPorts(o)
        /\ \A d \in Calls \ {c} : ProbedPort(c) # ProbedPort(d)

(* The attempts of a call are not spent on a pair that has failed before:  *)
(* a call takes a pair a second time only after every pair that was free   *)
(* when it began has been taken by someone.                                *)
NoRepeatBeforeAll ==
    \A c \in Calls : Cardinality(tried[c]) <= attempts[c] => untouched[c] = {}

(* A pair belongs to one caller at a time, and every call is answered.     *)
Abstract == INSTANCE PairAllocator WITH
    Pair <- Offset, asking <- Calls, held <- held
Implements == Abstract!Spec
=============================================================================
