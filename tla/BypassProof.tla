---------------------------- MODULE BypassProof ----------------------------
(***************************************************************************)
(* The signed proof with which an evaluation run asks /ask to bypass the   *)
(* response cache: security/eval_cache_bypass.py and its callers in        *)
(* main.py.  A proof is valid around its timestamp, on either side of the  *)
(* server's clock, and its nonce is consumed by SET NX EX.  The nonce has  *)
(* to outlive the interval in which the proof is valid.                    *)
(*                                                                         *)
(* One proof, presented by several calls.  Time runs in ticks, Unit to the *)
(* second: the server's clock is read in whole seconds, Redis expires keys *)
(* after a duration, and a call takes time between its check and its SET.  *)
(***************************************************************************)
EXTENDS Integers

CONSTANTS
    Calls,      \* requests that present the proof
    Unit,       \* ticks in a second
    Skew,       \* MAX_CLOCK_SKEW_SECONDS
    TTL,        \* NONCE_TTL_SECONDS
    Latency,    \* a SET arrives at Redis at most this many ticks after the check
    Signed,     \* the timestamp of the proof, in seconds
    MaxTime     \* bound: the clock, in ticks

\* What is assumed of the constants.  With Skew = 90 and TTL = 190 seconds the last
\* conjunct leaves the SET nine seconds.
Assumptions ==
    /\ {Skew, TTL, Latency, Signed, MaxTime} \subseteq Nat
    /\ Unit \in Nat \ {0}
    /\ TTL * Unit >= (2 * Skew + 1) * Unit + Latency

VARIABLES
    now,        \* time
    call,       \* call[c]: "new", "checked", "authorized" or "denied"
    checked,    \* checked[c]: when the proof was validated
    nonce,      \* when the nonce's key expires, 0 when there is no key
    down        \* history variable: a SET has failed

vars == <<now, call, checked, nonce, down>>

Init ==
    /\ now = 0
    /\ call = [c \in Calls |-> "new"]
    /\ checked = [c \in Calls |-> 0]
    /\ nonce = 0
    /\ down = FALSE

Seconds == now \div Unit

\* Mutation: only an old proof is refused.
ValidNotOld == Seconds - Signed <= Skew

Valid == Seconds - Signed \in -Skew..Skew

\* validate_signed_proof changes nothing outside the request.
Check(c) ==
    /\ call[c] = "new"
    /\ call' = [call EXCEPT ![c] = IF Valid THEN "checked" ELSE "denied"]
    /\ checked' = [checked EXCEPT ![c] = now]
    /\ UNCHANGED <<now, nonce, down>>

\* authorize_once: SET key 1 NX EX TTL.
Consume(c) ==
    /\ call[c] = "checked"
    /\ IF nonce = 0
       THEN /\ call' = [call EXCEPT ![c] = "authorized"]
            /\ nonce' = now + TTL * Unit
       ELSE /\ call' = [call EXCEPT ![c] = "denied"]
            /\ UNCHANGED nonce
    /\ UNCHANGED <<now, checked, down>>

\* The store fails, before or after it has executed the command; access is denied.
StoreFails(c) ==
    /\ call[c] = "checked"
    /\ call' = [call EXCEPT ![c] = "denied"]
    /\ nonce' \in {nonce, IF nonce = 0 THEN now + TTL * Unit ELSE nonce}
    /\ down' = TRUE
    /\ UNCHANGED <<now, checked>>

\* Time passes, and no call is slower than Latency; Redis drops the key when its time is up.
Tick ==
    /\ now < MaxTime
    /\ \A c \in Calls : call[c] = "checked" => now < checked[c] + Latency
    /\ now' = now + 1
    /\ nonce' = IF nonce = now' THEN 0 ELSE nonce
    /\ UNCHANGED <<call, checked, down>>

Next ==
    \/ \E c \in Calls : Check(c) \/ Consume(c) \/ StoreFails(c)
    \/ Tick

Spec == Init /\ [][Next]_vars

-----------------------------------------------------------------------------

\* Every variable has its type, and the key is always to expire.
TypeOK ==
    /\ now \in 0..MaxTime
    /\ call \in [Calls -> {"new", "checked", "authorized", "denied"}]
    /\ checked \in [Calls -> 0..MaxTime]
    /\ nonce = 0 \/ nonce \in now + 1..now + TTL * Unit
    /\ down \in BOOLEAN

\* A proof authorizes one request, however late, often and concurrently it is presented and
\* wherever the clock that signed it stands.
AuthorizedOnce ==
    \A c, d \in Calls : call[c] = "authorized" /\ call[d] = "authorized" => c = d

\* A store that works denies a valid proof only because it has been used.
DeniedForUse ==
    \A c \in Calls : call[c] = "denied" /\ ~down =>
        \/ \E d \in Calls : call[d] = "authorized"
        \/ ~(checked[c] \div Unit - Signed \in -Skew..Skew)

\* A proof is good for exactly one request.
GoodForOne == AuthorizedOnce /\ DeniedForUse
=============================================================================
