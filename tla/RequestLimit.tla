---------------------------- MODULE RequestLimit ----------------------------
(***************************************************************************)
(* RateLimiter of src/security/rate_limiter.py: a counter in Redis for one *)
(* user, whose first increment starts the window in a second command.      *)
(* Different users have different keys, so one key is enough.              *)
(*                                                                         *)
(* Time is the distance to now: the TTL counts down and admissions age, so *)
(* that the model runs for ever in finitely many states.                   *)
(***************************************************************************)
EXTENDS Naturals, Sequences

CONSTANTS
    Calls,      \* concurrent calls of process_message for the user
    Limit,      \* rate_limit_messages
    Window,     \* rate_limit_window_seconds, in ticks
    NoKey,      \* the counter does not exist
    NoTTL,      \* the counter never expires
    MaxFaults   \* bound: calls that stop between the two commands

\* What is assumed of the constants.
Assumptions ==
    /\ {Limit, Window} \subseteq Nat \ {0} /\ MaxFaults \in Nat
    /\ NoTTL \notin Nat
    /\ NoKey \notin [count : 1..(Limit + 1), ttl : (1..Window) \cup {NoTTL}]

VARIABLES
    key,        \* rate:<channel>:<user>: its count and its TTL
    call,       \* call[r]: where check is for r
    faults,
    admitted    \* history variable: ages of the messages admitted in the last window

vars == <<key, call, faults, admitted>>

Init ==
    /\ key = NoKey
    /\ call = [r \in Calls |-> "idle"]
    /\ faults = 0
    /\ admitted = <<>>

\* Bound: the counter stays at the first count that is refused.
Counted == IF key = NoKey THEN 1 ELSE IF key.count > Limit THEN key.count ELSE key.count + 1

\* Mutation: one message more.
AllowedOneMore(count) == count <= Limit + 1

Allowed(count) == count <= Limit

\* Mutation: every message starts the window again.
IncrRestarts(r) ==
    /\ call[r] = "idle"
    /\ key' = [count |-> Counted, ttl |-> IF key = NoKey THEN NoTTL ELSE Window]
    /\ call' = [call EXCEPT ![r] = IF Counted = 1 THEN "expire" ELSE "idle"]
    /\ admitted' = IF Allowed(Counted) THEN Append(admitted, 0) ELSE admitted
    /\ UNCHANGED faults

\* INCR decides; a message counts from here.
Incr(r) ==
    /\ call[r] = "idle"
    /\ key' = IF key = NoKey THEN [count |-> Counted, ttl |-> NoTTL]
              ELSE [key EXCEPT !.count = Counted]
    /\ call' = [call EXCEPT ![r] = IF Counted = 1 THEN "expire" ELSE "idle"]
    /\ admitted' = IF Allowed(Counted) THEN Append(admitted, 0) ELSE admitted
    /\ UNCHANGED faults

\* EXPIRE of a key that has gone meanwhile does nothing.
Expire(r) ==
    /\ call[r] = "expire"
    /\ key' = IF key = NoKey THEN NoKey ELSE [key EXCEPT !.ttl = Window]
    /\ call' = [call EXCEPT ![r] = "idle"]
    /\ UNCHANGED <<faults, admitted>>

\* The process stops or loses Redis after INCR: check raises and EXPIRE is never sent.
Stop(r) ==
    /\ call[r] = "expire"
    /\ faults < MaxFaults
    /\ faults' = faults + 1
    /\ call' = [call EXCEPT ![r] = "idle"]
    /\ UNCHANGED <<key, admitted>>

\* A tick of time; Redis drops the key at the end of its TTL.  Messages are admitted in the
\* order of time, so the ones that leave the window are the first.
Tick ==
    /\ key' = IF key = NoKey \/ key.ttl = NoTTL THEN key
              ELSE IF key.ttl = 1 THEN NoKey ELSE [key EXCEPT !.ttl = @ - 1]
    /\ \E gone \in 0..Len(admitted) :
          /\ \A i \in DOMAIN admitted : i <= gone <=> admitted[i] + 1 = Window
          /\ admitted' = [i \in 1..Len(admitted) - gone |-> admitted[i + gone] + 1]
    /\ UNCHANGED <<call, faults>>

Next ==
    \/ \E r \in Calls : Incr(r) \/ Expire(r) \/ Stop(r)
    \/ Tick

\* A call runs on, and so does the clock of Redis.
Fairness == WF_vars(Tick) /\ \A r \in Calls : WF_vars(Expire(r))

Spec     == Init /\ [][Next]_vars
FairSpec == Spec /\ Fairness

-----------------------------------------------------------------------------
\* Properties

\* Every variable has its type.
TypeOK ==
    /\ key = NoKey \/ key \in [count : 1..(Limit + 1), ttl : (1..Window) \cup {NoTTL}]
    /\ call \in [Calls -> {"idle", "expire"}]
    /\ faults \in 0..MaxFaults
    /\ admitted \in Seq(0..(Window - 1))

\* A fixed window admits a user at most twice the limit in any window of time, also when
\* calls of several processes run between the two commands.
TwiceTheLimit == Len(admitted) <= 2 * Limit

\* Nobody is left to give the counter an end.
Orphaned == key # NoKey /\ key.ttl = NoTTL /\ \A r \in Calls : call[r] # "expire"

\* process_message tells a refused user to try again in a few minutes: the counter that
\* refuses goes away, unless the very call that began its window has stopped before it set
\* the end; no order of the calls leaves a counter without one.
RefusalEnds ==
    /\ (key # NoKey /\ key.count > Limit) ~> (key = NoKey \/ Orphaned)
    /\ [](Orphaned => faults > 0)
=============================================================================
