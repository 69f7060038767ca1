------------------------------ MODULE HDELimiter ------------------------------
(***************************************************************************)
(* HDEOutgoingRateLimiter and HDEAdapter.send of src/channels/hde.py: the  *)
(* posts of one process to the HDE API under a sliding window and the      *)
(* blocks that responses set while other posts are on their way.           *)
(*                                                                         *)
(* The bodies of the limiter's two methods have no await, so that each is  *)
(* one step; the request between them is not.  Time is discrete.           *)
(***************************************************************************)
EXTENDS Integers, Sequences

CONSTANTS
    Senders,    \* calls of send that may be under way at once
    Rpm,        \* hde_rate_limit_rpm
    Minute,     \* 60 s, in ticks
    Ban,        \* hde_rate_limit_ban_seconds, in ticks
    RetryAfter, \* values of the Retry-After header, in ticks
    MaxTime     \* bound: the clock

\* What is assumed of the constants.
Assumptions == {Rpm, Minute, Ban} \subseteq Nat \ {0} /\ RetryAfter \subseteq Int /\ MaxTime \in Nat

VARIABLES
    now,
    timestamps,     \* _timestamps
    blockedUntil,   \* _blocked_until
    sender,         \* sender[s]: "idle" or "posting"
    refusal,        \* the last refusal of try_acquire: why, and retry_after_seconds
    posts,          \* history variable: the moments of all posts
    blocks          \* history variable: blocks that responses asked for

vars == <<now, timestamps, blockedUntil, sender, refusal, posts, blocks>>

None == [why |-> "none", retry |-> 0]

Init ==
    /\ now = 0
    /\ timestamps = <<>>
    /\ blockedUntil = 0
    /\ sender = [s \in Senders |-> "idle"]
    /\ refusal = None
    /\ posts = <<>>
    /\ blocks = {}

-----------------------------------------------------------------------------
\* try_acquire

\* The timestamps popped from the left: those before the first one inside the window.
Popped == CHOOSE n \in 0..Len(timestamps) :
              /\ \A i \in 1..n : timestamps[i] <= now - Minute
              /\ n < Len(timestamps) => timestamps[n + 1] > now - Minute
Kept == SubSeq(timestamps, Popped + 1, Len(timestamps))

Retry == Minute - (now - Kept[1])

RefuseBlocked(s) ==
    /\ sender[s] = "idle"
    /\ blockedUntil > now
    /\ refusal' = [why |-> "block", retry |-> blockedUntil - now]
    /\ UNCHANGED <<now, timestamps, blockedUntil, sender, posts, blocks>>

RefuseFull(s) ==
    /\ sender[s] = "idle"
    /\ blockedUntil <= now
    /\ Len(Kept) >= Rpm
    /\ timestamps' = Kept
    /\ refusal' = [why |-> "full", retry |-> Retry]
    /\ UNCHANGED <<now, blockedUntil, sender, posts, blocks>>

Acquire(s) ==
    /\ sender[s] = "idle"
    /\ blockedUntil <= now
    /\ Len(Kept) < Rpm
    /\ timestamps' = Append(Kept, now)
    /\ sender' = [sender EXCEPT ![s] = "posting"]
    /\ refusal' = None
    /\ posts' = Append(posts, now)
    /\ UNCHANGED <<now, blockedUntil, blocks>>

-----------------------------------------------------------------------------
\* The response of HDE

Later(a, b) == IF a > b THEN a ELSE b

\* Mutation: the last response decides.
BlockForLast(ticks) ==
    /\ blockedUntil' = now + ticks
    /\ blocks' = blocks \cup {[posts |-> Len(posts), until |-> now + ticks]}

\* block_for never shortens a block.
BlockFor(ticks) ==
    /\ blockedUntil' = Later(blockedUntil, now + ticks)
    /\ blocks' = blocks \cup {[posts |-> Len(posts), until |-> now + ticks]}

Respond(s) ==
    /\ sender[s] = "posting"
    /\ sender' = [sender EXCEPT ![s] = "idle"]
    /\ UNCHANGED <<now, timestamps, refusal, posts>>

\* No response at all (timeout, network error), or one that leaves enough of the limit.
RespondQuiet(s) == Respond(s) /\ UNCHANGED <<blockedUntil, blocks>>

\* The remaining limit is down to the reserve.
RespondLow(s) == Respond(s) /\ BlockFor(Minute)

\* 429 or the API's ban, with a usable Retry-After or the configured ban.
RespondRefused(s, header) ==
    /\ Respond(s)
    /\ BlockFor(IF header > 0 THEN header ELSE Ban)

Tick ==
    /\ now < MaxTime
    /\ now' = now + 1
    /\ UNCHANGED <<timestamps, blockedUntil, sender, refusal, posts, blocks>>

Next ==
    \/ \E s \in Senders :
          \/ RefuseBlocked(s) \/ RefuseFull(s) \/ Acquire(s)
          \/ RespondQuiet(s) \/ RespondLow(s)
          \/ \E header \in RetryAfter : RespondRefused(s, header)
    \/ Tick

Spec == Init /\ [][Next]_vars

-----------------------------------------------------------------------------
\* Properties

\* Every variable has its type.
TypeOK ==
    /\ now \in 0..MaxTime
    /\ timestamps \in Seq(0..now)
    /\ blockedUntil \in Nat
    /\ sender \in [Senders -> {"idle", "posting"}]
    /\ refusal \in [why : {"none", "block", "full"}, retry : Nat]
    /\ posts \in Seq(0..now)
    /\ blocks \subseteq [posts : 0..Len(posts), until : Nat]

\* No minute, wherever it begins, holds more posts than the configured number.
WindowBound ==
    \A i \in DOMAIN posts : i + Rpm \in DOMAIN posts => posts[i + Rpm] - posts[i] >= Minute

\* No post begins while a block is in force that a response has asked for, whatever later
\* responses to posts that were already on their way say.
BlocksRespected ==
    \A b \in blocks : \A i \in DOMAIN posts : i > b.posts => posts[i] >= b.until

\* A sender that the full window refuses is told the first moment at which one more post
\* keeps the bound: neither too early for HDE nor later than needed.
ExactRetry ==
    refusal' # refusal /\ refusal'.why = "full" =>
        now + refusal'.retry = posts[Len(posts) - Rpm + 1] + Minute

\* What HDE has asked for and what is configured both bound the posts, and no sender waits
\* longer than that.
PostsLimited ==
    /\ [](WindowBound /\ BlocksRespected)
    /\ [][ExactRetry]_vars
=============================================================================
