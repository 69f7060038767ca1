------------------------- MODULE BypassProofProofs -------------------------
(***************************************************************************)
(* Proofs about the signed proof of an evaluation run (BypassProof), for   *)
(* every number of calls, every clock skew, lifetime of the nonce and      *)
(* latency that satisfy Assumptions, every timestamp and every resolution  *)
(* of the clock.  After them, what is proved of every component of the     *)
(* evaluation side, for the suite that composes them: BypassProof is the   *)
(* module that MCEvaluation extends.                                       *)
(***************************************************************************)
EXTENDS MCEvaluation, TLAPS

\* The proof is valid in the seconds from Signed - Skew to Signed + Skew: in ticks, from
\* First up to, not including, Last; the SET of a call that found it valid arrives before
\* Last + Latency.
First == (Signed - Skew) * Unit
Last == (Signed + Skew + 1) * Unit

ValidAt(t) == t \div Unit - Signed \in -Skew..Skew

\* What makes a proof good for one request: a call that found it valid did so recently, and a
\* nonce, once set, outlives every such call.
NonceInv ==
    /\ \A c \in Calls : call[c] # "new" => checked[c] <= now
    /\ \A c \in Calls : call[c] = "checked" =>
          ValidAt(checked[c]) /\ now <= checked[c] + Latency
    /\ nonce # 0 => nonce >= Last + Latency
    /\ nonce # 0 => down \/ \E c \in Calls : call[c] = "authorized"
    /\ (\E c \in Calls : call[c] = "authorized") => nonce # 0 \/ now >= Last + Latency

Safe == TypeOK /\ NonceInv /\ GoodForOne

-----------------------------------------------------------------------------
(* Seconds and ticks.                                                      *)

\* A second of the clock is Unit ticks.
LEMMA Whole ==
    ASSUME NEW n \in Nat, NEW u \in Nat \ {0}
    PROVE  /\ n \div u \in Nat
           /\ u * (n \div u) <= n /\ n < u * (n \div u) + u
    BY SMT

\* Multiplication by a natural number keeps the order.
LEMMA Scaled ==
    ASSUME NEW a \in Int, NEW b \in Int, NEW u \in Nat, a <= b
    PROVE  a * u <= b * u
    BY SMT

\* A valid proof is found valid between First and Last.
LEMMA ValidWindow ==
    ASSUME Assumptions, NEW t \in Nat, ValidAt(t)
    PROVE  First <= t /\ t < Last
<1> DEFINE s == t \div Unit
<1>1. /\ Unit \in Nat \ {0} /\ Unit \in Nat /\ Signed \in Nat /\ Skew \in Nat
    BY DEF Assumptions
<1>2. s \in Nat /\ Unit * s <= t /\ t < Unit * s + Unit
    BY <1>1, Whole
<1>3. Signed - Skew <= s /\ s + 1 <= Signed + Skew + 1
    BY <1>1, <1>2 DEF ValidAt
<1> HIDE DEF s
<1>4. (Signed - Skew) * Unit <= s * Unit
    BY <1>1, <1>2, <1>3, Scaled
<1>5. (s + 1) * Unit <= (Signed + Skew + 1) * Unit
    BY <1>1, <1>2, <1>3, Scaled
<1>6. (s + 1) * Unit = Unit * s + Unit /\ s * Unit = Unit * s
    BY <1>1, <1>2
<1>7. QED
    BY <1>1, <1>2, <1>4, <1>5, <1>6 DEF First, Last

\* A nonce set at or after First lives until no call can present a valid proof any more.
LEMMA Outlives ==
    ASSUME Assumptions, NEW t \in Nat, First <= t
    PROVE  t + TTL * Unit >= Last + Latency
<1>1. /\ Unit \in Nat /\ Signed \in Nat /\ Skew \in Nat /\ TTL \in Nat /\ Latency \in Nat
      /\ TTL * Unit >= (2 * Skew + 1) * Unit + Latency
    BY DEF Assumptions
<1>2. (Signed + Skew + 1) * Unit = (Signed - Skew) * Unit + (2 * Skew + 1) * Unit
    BY <1>1
<1>3. First \in Int /\ Last \in Int /\ TTL * Unit \in Int /\ (2 * Skew + 1) * Unit \in Int
    BY <1>1 DEF First, Last
<1>4. Last = First + (2 * Skew + 1) * Unit
    BY <1>2 DEF First, Last
<1>5. QED
    BY <1>1, <1>3, <1>4

\* The lifetime of the nonce is at least a tick.
LEMMA Lifetime ==
    ASSUME Assumptions
    PROVE  /\ TTL * Unit \in Nat \ {0} /\ MaxTime \in Nat /\ Latency \in Nat
           /\ First \in Int /\ Last \in Int
<1>1. /\ Unit \in Nat \ {0} /\ Skew \in Nat /\ TTL \in Nat /\ Latency \in Nat /\ Signed \in Nat
      /\ MaxTime \in Nat /\ TTL * Unit >= (2 * Skew + 1) * Unit + Latency
    BY DEF Assumptions
<1>2. 1 * Unit <= (2 * Skew + 1) * Unit
    BY <1>1, Scaled
<1>3. (2 * Skew + 1) * Unit \in Int /\ TTL * Unit \in Int
    BY <1>1
<1>4. QED
    BY <1>1, <1>2, <1>3 DEF First, Last

\* A key that does not expire at the next tick is still to expire after it.
LEMMA Ages ==
    ASSUME NEW k, NEW t \in Nat, NEW life \in Nat \ {0}, k = 0 \/ k \in t + 1..t + life
    PROVE  \/ (IF k = t + 1 THEN 0 ELSE k) = 0
           \/ (IF k = t + 1 THEN 0 ELSE k) \in (t + 1) + 1..(t + 1) + life
<1>1. CASE k = 0 \/ k = t + 1
    BY <1>1
<1>2. CASE k \in t + 1..t + life /\ k # t + 1
  <2>1. k \in Int /\ t + 2 <= k /\ k <= t + life
      BY <1>2
  <2>2. k \in (t + 1) + 1..(t + 1) + life
      BY <2>1
  <2>3. QED
      BY <1>2, <2>2
<1>3. QED
    BY <1>1, <1>2

-----------------------------------------------------------------------------
(* The invariant.                                                          *)

LEMMA SafeInit == ASSUME Assumptions, Init PROVE Safe
<1> USE DEF Init
<1>1. TypeOK
  <2>1. 0 \in 0..MaxTime
      BY Lifetime
  <2>2. QED
      BY <2>1 DEF TypeOK
<1>2. NonceInv
    BY DEF NonceInv
<1>3. GoodForOne
    BY DEF GoodForOne, AuthorizedOnce, DeniedForUse
<1>4. QED
    BY <1>1, <1>2, <1>3 DEF Safe

\* validate_signed_proof: a call is let through only while the proof is valid.
LEMMA SafeCheck ==
    ASSUME Assumptions, Safe, NEW c \in Calls, Check(c) PROVE Safe'
<1> USE Lifetime DEF Safe
<1>1. Valid <=> ValidAt(now)
    BY DEF Valid, ValidAt, Seconds
<1>2. TypeOK'
    BY DEF Check, TypeOK
<1>3. NonceInv'
    BY <1>1 DEF Check, TypeOK, NonceInv
<1>4. AuthorizedOnce'
    BY DEF Check, TypeOK, GoodForOne, AuthorizedOnce
<1>5. DeniedForUse'
  <2> SUFFICES ASSUME NEW d \in Calls, (call[d] = "denied" /\ ~down)'
               PROVE  (\/ \E e \in Calls : call[e] = "authorized"
                       \/ ~ValidAt(checked[d]))'
      BY DEF DeniedForUse, ValidAt
  <2>1. CASE d = c
      BY <2>1, <1>1 DEF Check, TypeOK
  <2>2. CASE d # c
    <3>1. call[d] = "denied" /\ ~down /\ checked'[d] = checked[d]
        BY <2>2 DEF Check, TypeOK
    <3>2. (\E e \in Calls : call[e] = "authorized") \/ ~ValidAt(checked[d])
        BY <3>1 DEF GoodForOne, DeniedForUse, ValidAt
    <3>3. \A e \in Calls : call[e] = "authorized" => call'[e] = "authorized"
        BY DEF Check, TypeOK
    <3>4. QED
        BY <3>1, <3>2, <3>3
  <2>3. QED
      BY <2>1, <2>2
<1>6. QED
    BY <1>2, <1>3, <1>4, <1>5 DEF GoodForOne

\* A call that found the proof valid reaches Redis before Last + Latency, so it finds the
\* nonce of an earlier use.
LEMMA InTime ==
    ASSUME Assumptions, Safe, NEW c \in Calls, call[c] = "checked"
    PROVE  /\ First <= now /\ now < Last + Latency
           /\ nonce = 0 => ~\E d \in Calls : call[d] = "authorized"
<1>1. /\ checked[c] \in Nat /\ now \in Nat /\ checked[c] <= now
      /\ ValidAt(checked[c]) /\ now <= checked[c] + Latency
    BY Lifetime DEF Safe, TypeOK, NonceInv
<1>2. First <= checked[c] /\ checked[c] < Last
    BY <1>1, ValidWindow
<1>3. First <= now /\ now < Last + Latency
    BY <1>1, <1>2, Lifetime
<1>4. QED
    BY <1>1, <1>3, Lifetime DEF Safe, NonceInv

\* SET NX EX: it is executed, or not, at a moment when no other use can have lapsed.
LEMMA SafeSet ==
    ASSUME Assumptions, Safe, NEW c \in Calls, Consume(c) \/ StoreFails(c) PROVE Safe'
<1> USE Lifetime DEF Safe
<1>1. call[c] = "checked" /\ now' = now /\ checked' = checked
    BY DEF Consume, StoreFails
<1>2. /\ First <= now /\ now < Last + Latency
      /\ nonce = 0 => ~\E d \in Calls : call[d] = "authorized"
    BY <1>1, InTime
<1>3. now \in Nat /\ now + TTL * Unit >= Last + Latency
    BY <1>2, Outlives DEF TypeOK
<1>4. /\ \A d \in Calls : d # c => call'[d] = call[d]
      /\ call'[c] \in {"authorized", "denied"}
      /\ call'[c] = "authorized" => nonce = 0 /\ nonce' # 0 /\ down' = down
      /\ call'[c] = "denied" => down' \/ (nonce # 0 /\ nonce' = nonce /\ down' = down)
      /\ nonce' = nonce \/ (nonce = 0 /\ nonce' = now + TTL * Unit)
      /\ nonce' # 0 /\ nonce = 0 => down' \/ call'[c] = "authorized"
      /\ down => down'
    BY <1>3 DEF Consume, StoreFails, TypeOK
<1>5. TypeOK'
  <2>1. nonce = 0 \/ nonce \in now + 1..now + TTL * Unit
      BY DEF TypeOK
  <2> DEFINE life == TTL * Unit
  <2>2. life \in Nat \ {0}
      BY Lifetime
  <2>3. nonce' = nonce \/ nonce' = now + life
      BY <1>4
  <2> HIDE DEF life
  <2>4. (nonce = 0 \/ nonce \in now + 1..now + life)'
      BY <1>1, <1>3, <2>1, <2>2, <2>3 DEF life
  <2>5. call' \in [Calls -> {"new", "checked", "authorized", "denied"}] /\ down' \in BOOLEAN
      BY DEF Consume, StoreFails, TypeOK
  <2>6. QED
      BY <1>1, <2>4, <2>5 DEF TypeOK, life
<1>6. NonceInv'
  <2>1. /\ \A d \in Calls : (call[d] # "new" => checked[d] <= now)'
        /\ \A d \in Calls : (call[d] = "checked" => ValidAt(checked[d]) /\ now <= checked[d] + Latency)'
      BY <1>1, <1>4, <1>5 DEF NonceInv, ValidAt
  <2>2. (nonce # 0 => nonce >= Last + Latency)'
      BY <1>3, <1>4 DEF NonceInv
  <2>3. (nonce # 0 => down \/ \E d \in Calls : call[d] = "authorized")'
      BY <1>1, <1>4 DEF NonceInv
  <2>4. ((\E d \in Calls : call[d] = "authorized") => nonce # 0 \/ now >= Last + Latency)'
      BY <1>1, <1>2, <1>3, <1>4 DEF NonceInv, TypeOK
  <2>5. QED
      BY <2>1, <2>2, <2>3, <2>4 DEF NonceInv
<1>7. AuthorizedOnce'
    BY <1>2, <1>4 DEF GoodForOne, AuthorizedOnce
<1>8. DeniedForUse'
  <2> SUFFICES ASSUME NEW d \in Calls, (call[d] = "denied")', ~down'
               PROVE  \/ \E e \in Calls : call'[e] = "authorized"
                      \/ ~ValidAt(checked[d])
      BY <1>1 DEF DeniedForUse, ValidAt
  <2>1. ~down
      BY <1>4
  <2>2. (\E e \in Calls : call[e] = "authorized") => \E e \in Calls : call'[e] = "authorized"
      BY <1>1, <1>4
  <2>3. CASE d = c
      BY <2>1, <2>2, <2>3, <1>4 DEF NonceInv
  <2>4. CASE d # c
      BY <2>1, <2>2, <2>4, <1>4 DEF GoodForOne, DeniedForUse, ValidAt
  <2>5. QED
      BY <2>3, <2>4
<1>9. QED
    BY <1>5, <1>6, <1>7, <1>8 DEF GoodForOne

\* Redis drops the nonce only when no call can present a valid proof any more.
LEMMA SafeTick == ASSUME Assumptions, Safe, Tick PROVE Safe'
<1> USE Lifetime DEF Safe, Tick
<1>1. TypeOK'
  <2>1. now \in Nat /\ now' = now + 1 /\ now' \in 0..MaxTime
      BY DEF TypeOK
  <2>2. nonce = 0 \/ nonce \in now + 1..now + TTL * Unit
      BY DEF TypeOK
  <2>3. nonce' = 0 \/ nonce' \in (now + 1) + 1..(now + 1) + TTL * Unit
      BY <2>1, <2>2, Ages
  <2>4. QED
      BY <2>1, <2>3 DEF TypeOK
<1>2. NonceInv'
    BY DEF NonceInv, TypeOK, ValidAt
<1>3. GoodForOne'
    BY DEF GoodForOne, AuthorizedOnce, DeniedForUse
<1>4. QED
    BY <1>1, <1>2, <1>3

LEMMA SafeNext == ASSUME Assumptions, Safe, [Next]_vars PROVE Safe'
<1>1. CASE UNCHANGED vars
    BY <1>1 DEF vars, Safe, TypeOK, NonceInv, ValidAt, GoodForOne, AuthorizedOnce, DeniedForUse
<1>2. ASSUME NEW c \in Calls, Check(c) \/ Consume(c) \/ StoreFails(c) PROVE Safe'
    BY <1>2, SafeCheck, SafeSet
<1>3. CASE Tick
    BY <1>3, SafeTick
<1>4. QED
    BY <1>1, <1>2, <1>3 DEF Next

\* The variables keep their types, and the nonce is always to expire in the future.
THEOREM TypeCorrect == ASSUME Assumptions PROVE Spec => []TypeOK
<1>1. Init => Safe
    BY SafeInit
<1>2. Safe /\ [Next]_vars => Safe'
    BY SafeNext
<1>3. Safe => TypeOK
    BY DEF Safe
<1>4. QED
    BY <1>1, <1>2, <1>3, PTL DEF Spec

\* security/eval_cache_bypass.py: a signed proof authorizes at most one request, however many
\* calls present it, whenever they do and however slow their SET is (up to Latency), and a
\* store that works refuses a valid proof only because it has been used.
THEOREM ProofGoodForOne == ASSUME Assumptions PROVE Spec => []GoodForOne
<1>1. Init => Safe
    BY SafeInit
<1>2. Safe /\ [Next]_vars => Safe'
    BY SafeNext
<1>3. Safe => GoodForOne
    BY DEF Safe
<1>4. QED
    BY <1>1, <1>2, <1>3, PTL DEF Spec

-----------------------------------------------------------------------------
(* The suite: what is proved of each component holds in each of its        *)
(* instances in MCEvaluation.  The part of a behaviour never changes, so   *)
(* the behaviours of a part are those of its instance.                     *)

LEMMA RoutineAlone ==
  EvaluationSpec => \/ [](~(part = "routine"))
                    \/ One!Cost!Spec /\ [](part = "routine")
<1>1. EvaluationInit /\ part = "routine" => One!Cost!Init
  BY DEF EvaluationInit
<1>2. part = "routine" /\ [EvaluationNext]_evaluationVars
     => (part = "routine")' /\ [One!Cost!Next]_(One!Cost!vars)
  BY DEF EvaluationNext, Alone, evaluationVars, ledgerVars, One!Cost!vars
<1>3. ~(part = "routine") /\ [EvaluationNext]_evaluationVars => ~(part = "routine")'
  BY DEF EvaluationNext, Alone, evaluationVars
<1>4. QED
  BY <1>1, <1>2, <1>3, PTL DEF EvaluationSpec, One!Cost!Spec

LEMMA FullAlone ==
  EvaluationSpec => \/ [](~(part = "full"))
                    \/ Two!Cost!Spec /\ [](part = "full")
<1>1. EvaluationInit /\ part = "full" => Two!Cost!Init
  BY DEF EvaluationInit, One!Cost!Init, Two!Cost!Init
<1>2. part = "full" /\ [EvaluationNext]_evaluationVars
     => (part = "full")' /\ [Two!Cost!Next]_(Two!Cost!vars)
  BY DEF EvaluationNext, Alone, evaluationVars, ledgerVars, Two!Cost!vars
<1>3. ~(part = "full") /\ [EvaluationNext]_evaluationVars => ~(part = "full")'
  BY DEF EvaluationNext, Alone, evaluationVars
<1>4. QED
  BY <1>1, <1>2, <1>3, PTL DEF EvaluationSpec, Two!Cost!Spec

LEMMA ChainAlone ==
  EvaluationSpec => \/ [](~(part = "chain"))
                    \/ Three!Cost!Spec /\ [](part = "chain")
<1>1. EvaluationInit /\ part = "chain" => Three!Cost!Init
  BY DEF EvaluationInit
<1>2. part = "chain" /\ [EvaluationNext]_evaluationVars
     => (part = "chain")' /\ [Three!Cost!Next]_(Three!Cost!vars)
  BY DEF EvaluationNext, Alone, evaluationVars, ledgerVars, Three!Cost!vars
<1>3. ~(part = "chain") /\ [EvaluationNext]_evaluationVars => ~(part = "chain")'
  BY DEF EvaluationNext, Alone, evaluationVars
<1>4. QED
  BY <1>1, <1>2, <1>3, PTL DEF EvaluationSpec, Three!Cost!Spec

LEMMA RegistryAlone ==
  EvaluationSpec => \/ [](~(part = "registry"))
                    \/ One!Registry!Spec /\ [](part = "registry")
<1>1. EvaluationInit /\ part = "registry" => One!Registry!Init
  BY DEF EvaluationInit
<1>2. part = "registry" /\ [EvaluationNext]_evaluationVars
     => (part = "registry")' /\ [One!Registry!Next]_(One!Registry!vars)
  BY DEF EvaluationNext, Alone, evaluationVars, registryVars, One!Registry!vars
<1>3. ~(part = "registry") /\ [EvaluationNext]_evaluationVars => ~(part = "registry")'
  BY DEF EvaluationNext, Alone, evaluationVars
<1>4. QED
  BY <1>1, <1>2, <1>3, PTL DEF EvaluationSpec, One!Registry!Spec

LEMMA PrivateAlone ==
  EvaluationSpec => \/ [](~(part = "private"))
                    \/ One!Spec /\ [](part = "private")
<1>1. EvaluationInit /\ part = "private" => One!Init
  BY DEF EvaluationInit
<1>2. part = "private" /\ [EvaluationNext]_evaluationVars
     => (part = "private")' /\ [One!Next]_(One!vars)
  BY DEF EvaluationNext, Alone, evaluationVars, evalVars, One!vars, One!files, One!served
<1>3. ~(part = "private") /\ [EvaluationNext]_evaluationVars => ~(part = "private")'
  BY DEF EvaluationNext, Alone, evaluationVars
<1>4. QED
  BY <1>1, <1>2, <1>3, PTL DEF EvaluationSpec, One!Spec

LEMMA DeployedAlone ==
  EvaluationSpec => \/ [](~(part = "deployed"))
                    \/ Two!Spec /\ [](part = "deployed")
<1>1. EvaluationInit /\ part = "deployed" => Two!Init
  BY DEF EvaluationInit
<1>2. part = "deployed" /\ [EvaluationNext]_evaluationVars
     => (part = "deployed")' /\ [Two!Next]_(Two!vars)
  BY DEF EvaluationNext, Alone, evaluationVars, evalVars, Two!vars, Two!files, Two!served
<1>3. ~(part = "deployed") /\ [EvaluationNext]_evaluationVars => ~(part = "deployed")'
  BY DEF EvaluationNext, Alone, evaluationVars
<1>4. QED
  BY <1>1, <1>2, <1>3, PTL DEF EvaluationSpec, Two!Spec

LEMMA PaidAlone ==
  EvaluationSpec => \/ [](~(part = "paid"))
                    \/ Three!Spec /\ [](part = "paid")
<1>1. EvaluationInit /\ part = "paid" => Three!Init
  BY DEF EvaluationInit
<1>2. part = "paid" /\ [EvaluationNext]_evaluationVars
     => (part = "paid")' /\ [Three!Next]_(Three!vars)
  BY DEF EvaluationNext, Alone, evaluationVars, evalVars, Three!vars, Three!files, Three!served
<1>3. ~(part = "paid") /\ [EvaluationNext]_evaluationVars => ~(part = "paid")'
  BY DEF EvaluationNext, Alone, evaluationVars
<1>4. QED
  BY <1>1, <1>2, <1>3, PTL DEF EvaluationSpec, Three!Spec

LEMMA CommitAlone ==
  EvaluationSpec => \/ [](~(part = "commit"))
                    \/ One!Run!Spec /\ [](part = "commit")
<1>1. EvaluationInit /\ part = "commit" => One!Run!Init
  BY DEF EvaluationInit
<1>2. part = "commit" /\ [EvaluationNext]_evaluationVars
     => (part = "commit")' /\ [One!Run!Next]_(One!Run!vars)
  BY DEF EvaluationNext, Alone, evaluationVars, launchVars, One!Run!vars, One!Run!runDir,
     One!Run!server
<1>3. ~(part = "commit") /\ [EvaluationNext]_evaluationVars => ~(part = "commit")'
  BY DEF EvaluationNext, Alone, evaluationVars
<1>4. QED
  BY <1>1, <1>2, <1>3, PTL DEF EvaluationSpec, One!Run!Spec

LEMMA MovingAlone ==
  EvaluationSpec => \/ [](~(part = "moving"))
                    \/ Two!Run!Spec /\ [](part = "moving")
<1>1. EvaluationInit /\ part = "moving" => Two!Run!Init
  BY DEF EvaluationInit
<1>2. part = "moving" /\ [EvaluationNext]_evaluationVars
     => (part = "moving")' /\ [Two!Run!Next]_(Two!Run!vars)
  BY DEF EvaluationNext, Alone, evaluationVars, launchVars, Two!Run!vars, Two!Run!runDir,
     Two!Run!server
<1>3. ~(part = "moving") /\ [EvaluationNext]_evaluationVars => ~(part = "moving")'
  BY DEF EvaluationNext, Alone, evaluationVars
<1>4. QED
  BY <1>1, <1>2, <1>3, PTL DEF EvaluationSpec, Two!Run!Spec

LEMMA ProofAlone ==
  EvaluationSpec => \/ [](~(part = "proof"))
                    \/ Spec /\ [](part = "proof")
<1>1. EvaluationInit /\ part = "proof" => Init
  BY DEF EvaluationInit
<1>2. part = "proof" /\ [EvaluationNext]_evaluationVars
     => (part = "proof")' /\ [Next]_(vars)
  BY DEF EvaluationNext, Alone, evaluationVars, vars
<1>3. ~(part = "proof") /\ [EvaluationNext]_evaluationVars => ~(part = "proof")'
  BY DEF EvaluationNext, Alone, evaluationVars
<1>4. QED
  BY <1>1, <1>2, <1>3, PTL DEF EvaluationSpec, Spec

SomePart == \/ part = "routine" \/ part = "full" \/ part = "chain" \/ part = "registry"
            \/ part = "private" \/ part = "deployed" \/ part = "paid"
            \/ part = "commit" \/ part = "moving" \/ part = "proof"

LEMMA OnePart == EvaluationSpec => []SomePart
<1>1. EvaluationInit => SomePart
  BY DEF EvaluationInit, SomePart
<1>2. SomePart /\ [EvaluationNext]_evaluationVars => SomePart'
  BY DEF EvaluationNext, Alone, evaluationVars, SomePart
<1>3. QED
  BY <1>1, <1>2, PTL DEF EvaluationSpec

\* Of the ledger, in each part.
LEMMA LedgerParts ==
  /\ One!Cost!Spec => []One!Cost!TypeOK /\ One!Cost!LedgerHolds
  /\ Two!Cost!Spec => []Two!Cost!TypeOK /\ Two!Cost!LedgerHolds
  /\ Three!Cost!Spec => []Three!Cost!TypeOK /\ Three!Cost!LedgerHolds
  BY EvaluationAssumption, One!LedgerKept, Two!LedgerKept, Three!LedgerKept

LEMMA RegistryPart == One!Registry!Spec => []One!Registry!TypeOK /\ One!Registry!FreezeIsFinal
  BY EvaluationAssumption, One!FrozenForGood

\* Whatever part of the evaluation side a behaviour is about, its variables keep their types.
THEOREM EvaluationTyped == EvaluationSpec => []PartsTyped
<1>1. /\ part = "routine" /\ One!Cost!TypeOK => PartsTyped
      /\ part = "full" /\ Two!Cost!TypeOK => PartsTyped
      /\ part = "chain" /\ Three!Cost!TypeOK => PartsTyped
      /\ part = "registry" /\ One!Registry!TypeOK => PartsTyped
      /\ part = "private" /\ One!TypeOK => PartsTyped
      /\ part = "deployed" /\ Two!TypeOK => PartsTyped
      /\ part = "paid" /\ Three!TypeOK => PartsTyped
      /\ part = "commit" /\ One!Run!TypeOK => PartsTyped
      /\ part = "moving" /\ Two!Run!TypeOK => PartsTyped
      /\ part = "proof" /\ TypeOK => PartsTyped
  BY DEF PartsTyped
<1>2. /\ One!Spec => []One!TypeOK
      /\ Two!Spec => []Two!TypeOK
      /\ Three!Spec => []Three!TypeOK
  BY EvaluationAssumption, One!TypeCorrect, Two!TypeCorrect, Three!TypeCorrect
<1>3. /\ One!Run!Spec => []One!Run!TypeOK
      /\ Two!Run!Spec => []Two!Run!TypeOK
  BY EvaluationAssumption, One!LaunchesTyped, Two!LaunchesTyped
<1>4. Spec => []TypeOK
  BY EvaluationAssumption, TypeCorrect
<1>5. QED
  BY <1>1, <1>2, <1>3, <1>4, OnePart, LedgerParts, RegistryPart, RoutineAlone, FullAlone,
     ChainAlone, RegistryAlone, PrivateAlone, DeployedAlone, PaidAlone, CommitAlone, MovingAlone,
     ProofAlone, PTL DEF SomePart

\* cost_governance.py and run_ask.py, the loop over the cases: routine reservations keep to the
\* rolling cap in any 24 hours, a full evaluation is not repeated but under a waiver, a reference
\* is used once, whoever asks has paid, and an abandoned record stops the ledger, which is a book
\* of reservations at one step.
THEOREM EvaluationPaid == EvaluationSpec => LedgerHolds
<1> DEFINE Safety == /\ part = "routine" => One!Cost!RoutineWithinCap /\ One!Cost!PaidAsReserved
                     /\ part = "full" => Two!Cost!FullOnce /\ Two!Cost!ReferenceOnce
                     /\ part = "chain" => Three!Cost!FullOnce /\ Three!Cost!ReferenceOnce
           Steps == /\ part = "routine" => One!Cost!ClosedByAbandoned /\ One!Cost!BookStep
                    /\ part = "full" => Two!Cost!ClosedByAbandoned /\ Two!Cost!BookStep
                    /\ part = "chain" => Three!Cost!ClosedByAbandoned /\ Three!Cost!BookStep
<1>1. /\ part = "routine" /\ One!Cost!RoutineWithinCap /\ One!Cost!PaidAsReserved => Safety
      /\ part = "full" /\ Two!Cost!FullOnce /\ Two!Cost!ReferenceOnce => Safety
      /\ part = "chain" /\ Three!Cost!FullOnce /\ Three!Cost!ReferenceOnce => Safety
      /\ ~(part = "routine") /\ ~(part = "full") /\ ~(part = "chain") => Safety
  OBVIOUS
<1>2. /\ (/\ part = "routine" /\ [One!Cost!ClosedByAbandoned]_(One!Cost!vars)
          /\ [One!Cost!Book!Next]_(One!Cost!Book!bookVars)) => [Steps]_ledgerVars
      /\ (/\ part = "full" /\ [Two!Cost!ClosedByAbandoned]_(Two!Cost!vars)
          /\ [Two!Cost!Book!Next]_(Two!Cost!Book!bookVars)) => [Steps]_ledgerVars
      /\ (/\ part = "chain" /\ [Three!Cost!ClosedByAbandoned]_(Three!Cost!vars)
          /\ [Three!Cost!Book!Next]_(Three!Cost!Book!bookVars)) => [Steps]_ledgerVars
      /\ ~(part = "routine") /\ ~(part = "full") /\ ~(part = "chain") => [Steps]_ledgerVars
  BY DEF ledgerVars, One!Cost!vars, Two!Cost!vars, Three!Cost!vars,
     One!Cost!BookStep, Two!Cost!BookStep, Three!Cost!BookStep
<1>3. ~(part = "routine" /\ part = "full") /\ ~(part = "routine" /\ part = "chain")
      /\ ~(part = "full" /\ part = "chain")
  OBVIOUS
<1>4. QED
  BY <1>1, <1>2, <1>3, LedgerParts, RoutineAlone, FullAlone, ChainAlone, PTL
     DEF LedgerHolds, One!Cost!LedgerHolds, Two!Cost!LedgerHolds, Three!Cost!LedgerHolds,
     One!Cost!Book!BookSpec, Two!Cost!Book!BookSpec, Three!Cost!Book!BookSpec

\* private_dataset_registry.py: a frozen version is bound to bytes that passed every check and
\* changes only by being superseded by a frozen one that names it.
THEOREM EvaluationFrozen == EvaluationSpec => FreezeIsFinal
<1> DEFINE Stays == \A v \in Refs : One!Registry!Frozen(registry[v]) =>
                      /\ One!Registry!Frozen(registry'[v])
                      /\ registry'[v].bound = registry[v].bound
                      /\ registry[v].state = "superseded" => registry'[v] = registry[v]
<1>1. ~(part = "registry") /\ [EvaluationNext]_evaluationVars => [Stays]_(One!Registry!vars)
  BY DEF EvaluationNext, Alone, evaluationVars, registryVars, One!Registry!vars
<1>2. /\ One!Registry!FrozenIsSealed /\ One!Registry!SupersededByFrozen =>
           (part = "registry" => One!Registry!FrozenIsSealed /\ One!Registry!SupersededByFrozen)
      /\ ~(part = "registry") =>
           (part = "registry" => One!Registry!FrozenIsSealed /\ One!Registry!SupersededByFrozen)
  OBVIOUS
<1>3. QED
  BY <1>1, <1>2, RegistryPart, RegistryAlone, PTL
     DEF FreezeIsFinal, One!Registry!FreezeIsFinal, One!Registry!FrozenStays, EvaluationSpec

\* run_ask.py, the exclusive started receipt: a selection is put to the bot once under seal and
\* once per runtime as a replay, and not under seal after it was replayed.
THEOREM EvaluationAskedOnce == EvaluationSpec => AskedOnce
<1> DEFINE Once  == (part = "private" => One!OneShot) /\ (part = "deployed" => Two!OneShot)
           Fresh == (part = "private" => One!FreshStart) /\ (part = "deployed" => Two!FreshStart)
<1>1. /\ One!Spec => One!AskedOnce
      /\ Two!Spec => Two!AskedOnce
  BY EvaluationAssumption, One!SelectionAskedOnce, Two!SelectionAskedOnce
<1>2. /\ part = "private" /\ One!OneShot => Once
      /\ part = "deployed" /\ Two!OneShot => Once
      /\ ~(part = "private") /\ ~(part = "deployed") => Once
  OBVIOUS
<1>3. /\ part = "private" /\ [One!FreshStart]_(One!vars) => [Fresh]_evalVars
      /\ part = "deployed" /\ [Two!FreshStart]_(Two!vars) => [Fresh]_evalVars
      /\ ~(part = "private") /\ ~(part = "deployed") => [Fresh]_evalVars
  BY DEF evalVars, One!vars, One!files, One!served, Two!vars, Two!files, Two!served
<1>4. ~(part = "private" /\ part = "deployed")
  OBVIOUS
<1>5. QED
  BY <1>1, <1>2, <1>3, <1>4, PrivateAlone, DeployedAlone, PTL
     DEF AskedOnce, One!AskedOnce, Two!AskedOnce

\* run_ask.py, run_eval: what was asked, paid for and answered is what the files of the run say,
\* however it ends, with one deployment at most while the runs last.
THEOREM EvaluationOnRecord == EvaluationSpec => []RunIsOnRecord
<1>1. /\ One!Spec => []One!RunIsOnRecord
      /\ Two!Spec => []Two!RunIsOnRecord
      /\ Three!Spec => []Three!RunIsOnRecord
  BY EvaluationAssumption, One!RunsOnRecord, Two!RunsOnRecord, Three!RunsOnRecord
<1>2. /\ part = "private" /\ One!RunIsOnRecord => RunIsOnRecord
      /\ part = "deployed" /\ Two!RunIsOnRecord => RunIsOnRecord
      /\ part = "paid" /\ Three!RunIsOnRecord => RunIsOnRecord
      /\ ~(part = "private") /\ ~(part = "deployed") /\ ~(part = "paid") => RunIsOnRecord
  BY DEF RunIsOnRecord
<1>3. QED
  BY <1>1, <1>2, PrivateAlone, DeployedAlone, PaidAlone, PTL

\* run_pilot50_candidate_server_local.sh: a commit's cases are asked by one run, nobody removes
\* another's container, a published directory leaves the name free, what is left behind is told,
\* and a completed run asked its own container as its preflight had verified it.
THEOREM EvaluationLaunched == EvaluationSpec => LaunchIsSound
<1> DEFINE Safety == /\ part = "commit" => One!Run!OneAsk
                     /\ part = "moving" => Two!Run!PublishedGone /\ Two!Run!NothingLeft
                                             /\ Two!Run!CompletedSound
           Foreign == part = "commit" => One!Run!KeepsForeign
<1>1. /\ One!Run!Spec => One!Run!LaunchIsSound
      /\ Two!Run!Spec => Two!Run!LaunchIsSound
  BY EvaluationAssumption, One!LaunchesSound, Two!LaunchesSound
<1>2. /\ part = "commit" /\ One!Run!OneAsk => Safety
      /\ (/\ part = "moving" /\ Two!Run!PublishedGone /\ Two!Run!NothingLeft
          /\ Two!Run!CompletedSound) => Safety
      /\ ~(part = "commit") /\ ~(part = "moving") => Safety
  OBVIOUS
<1>3. /\ part = "commit" /\ [One!Run!KeepsForeign]_(One!Run!vars) => [Foreign]_launchVars
      /\ ~(part = "commit") => [Foreign]_launchVars
  BY DEF launchVars, One!Run!vars, One!Run!runDir, One!Run!server
<1>4. QED
  BY <1>1, <1>2, <1>3, CommitAlone, MovingAlone, PTL
     DEF LaunchIsSound, One!Run!LaunchIsSound, Two!Run!LaunchIsSound
=============================================================================
