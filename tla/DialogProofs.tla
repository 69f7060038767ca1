----------------------------- MODULE DialogProofs -----------------------------
(***************************************************************************)
(* Proofs about the turns of a dialog, for any messages, events and length *)
(* of the session's tail, and any number of faults.                        *)
(*                                                                         *)
(* After them, about the two limits on the way of a message and what is    *)
(* left behind: the limit on the messages of a user (RequestLimit), for    *)
(* every limit and window, any number of concurrent calls and of calls     *)
(* that stop between INCR and EXPIRE; the posts to HDE (HDELimiter), for   *)
(* every limit, block and header and any number of posts on their way; and *)
(* retention (Retention), for every TTL, any events, turns and runs of the *)
(* command.                                                                *)
(***************************************************************************)
EXTENDS Dialog, FiniteSetTheorems, SequenceTheorems, WellFoundedInduction, TLAPS

\* Where a turn has the session in its hands, and where Redis has the same or none.
LoadedPc   == {"save", "screen", "answer", "append", "persist", "upsert"}
MirroredPc == {"screen", "answer", "append", "persist", "upsert"}
HadPc      == {"persist", "upsert", "log"} \cup EndedPc

-----------------------------------------------------------------------------
(* Whatever the lock does.                                                 *)

\* Rows are numbered; a message is appended by its own turn, once.
Numbered == \A i \in DOMAIN rows : rows[i].id = i
Once ==
    /\ \A i, j \in DOMAIN history : history[i] = history[j] => i = j
    /\ \A i \in DOMAIN history : turn[history[i]].pc \in HadPc

\* A turn that has been had by h, and messages that are such turns, each once.
HadIn(m, h)  == \E a \in DOMAIN h : h[a] = m
GoodIn(q, h) ==
    /\ \A i \in DOMAIN q : HadIn(q[i], h)
    /\ \A i, j \in DOMAIN q : q[i] = q[j] => i = j

\* Every session and the rows show such messages; a row is that of a turn past its persist.
WrittenPc == {"upsert", "log"} \cup EndedPc
RowsGood ==
    /\ \A i, j \in DOMAIN rows : rows[i].message = rows[j].message => i = j
    /\ \A i \in DOMAIN rows : HadIn(rows[i].message, history) /\ turn[rows[i].message].pc \in WrittenPc
Shown ==
    /\ RowsGood
    /\ session # NoSession => GoodIn(session.recent, history)
    /\ \A m \in Messages :
         /\ turn[m].pc \in LoadedPc => GoodIn(turn[m].session.recent, history)
         /\ turn[m].pc = "persist" => HadIn(m, history)

-----------------------------------------------------------------------------
(* While turns end within the TTL of the lock.                             *)

\* Who runs holds the lock.
Holds == \A m \in Messages : Running(m) => lock = m

\* The session in Redis is the one at hand, or has expired.
Mirrored ==
    \A m \in Messages :
        turn[m].pc \in MirroredPc /\ session # NoSession => session = turn[m].session

\* The counter is never behind the rows.
AtLeast(n) == \A i \in DOMAIN rows : rows[i].index <= n

Counted ==
    /\ \A i, j \in DOMAIN rows : i < j => rows[i].index < rows[j].index
    /\ memory = NoMemory => rows = <<>>
    /\ memory # NoMemory => AtLeast(memory.count)
    /\ session # NoSession => AtLeast(session.count)
    /\ \A m \in Messages :
         /\ turn[m].pc \in (LoadedPc \cup {"turns"}) => AtLeast(turn[m].session.count)
         /\ turn[m].pc = "persist" =>
              \A i \in DOMAIN rows : rows[i].index < turn[m].session.count

\* The messages of q are turns of h, in the order of h.
OrderedIn(q, h) ==
    /\ \A i \in DOMAIN q : \E a \in DOMAIN h : q[i] = h[a]
    /\ \A i, j \in DOMAIN q : \A a, b \in DOMAIN h :
         i < j /\ q[i] = h[a] /\ q[j] = h[b] => a < b
InOrder(q) == OrderedIn(q, history)

Messaged == [i \in DOMAIN rows |-> rows[i].message]

Ordered ==
    /\ InOrder(Messaged)
    /\ session # NoSession => InOrder(session.recent)
    /\ \A m \in Messages :
         /\ turn[m].pc \in LoadedPc => InOrder(turn[m].session.recent)
         /\ turn[m].pc = "persist" =>
              /\ Len(history) > 0 /\ history[Len(history)] = m
              /\ \A i \in DOMAIN rows : rows[i].message # m

-----------------------------------------------------------------------------
(* Without faults.                                                         *)

\* s holds the whole dialog.
Whole(s) ==
    /\ s.count = Len(history)
    /\ s.recent = Newest(history, Recent)
    /\ s.summary = Kept(Evicted(history, Recent))

Persisting == \E m \in Messages : turn[m].pc = "persist"
Changing == \E m \in Messages : turn[m].pc \in {"screen", "answer", "append", "persist"}

\* So do the session, the turn that runs and, but for the turn being written, the rows and the
\* row of user_memory, which has the clarification of the session.
Complete ==
    faults = 0 =>
        /\ session # NoSession => Whole(session)
        /\ \A m \in Messages :
             /\ turn[m].pc \in LoadedPc => Whole(turn[m].session)
             /\ turn[m].pc = "turns" =>
                  /\ turn[m].session.count = Len(history)
                  /\ turn[m].session.summary = Kept(Evicted(history, Recent))
        /\ Len(rows) = IF Persisting THEN Len(history) - 1 ELSE Len(history)
        /\ \A i \in DOMAIN rows : rows[i].message = history[i]
        /\ memory # NoMemory => memory.count <= Len(history)
        /\ ~Persisting /\ memory = NoMemory => history = <<>>
        /\ ~Persisting /\ memory # NoMemory =>
             memory.count = Len(history) /\ memory.summary = Kept(Evicted(history, Recent))
        /\ ~Changing /\ session # NoSession =>
             /\ memory # NoMemory
             /\ memory.context.pending = session.pending
             /\ memory.context.attempts = session.attempts

-----------------------------------------------------------------------------
(* The tail of a sequence and what comes before it.                        *)

LEMMA SameSequence ==
    ASSUME NEW s \in Seq(Messages), NEW t \in Seq(Messages),
           Len(s) = Len(t), \A i \in 1..Len(s) : s[i] = t[i]
    PROVE  s = t
BY SeqEqual

LEMMA AppendParts ==
    ASSUME NEW s \in Seq(Messages), NEW x \in Messages
    PROVE  /\ Append(s, x) \in Seq(Messages)
           /\ Len(Append(s, x)) = Len(s) + 1
           /\ Append(s, x)[Len(s) + 1] = x
           /\ \A i \in 1..Len(s) : Append(s, x)[i] = s[i]
BY AppendProperties

LEMMA ConcatParts ==
    ASSUME NEW s \in Seq(Messages), NEW t \in Seq(Messages)
    PROVE  /\ s \o t \in Seq(Messages) /\ Len(s \o t) = Len(s) + Len(t)
           /\ \A i \in 1..(Len(s) + Len(t)) :
                (s \o t)[i] = IF i <= Len(s) THEN s[i] ELSE t[i - Len(s)]
BY ConcatProperties

LEMMA TailParts ==
    ASSUME NEW s \in Seq(Messages), NEW n \in Nat
    PROVE  /\ Newest(s, n) \in Seq(Messages) /\ Evicted(s, n) \in Seq(Messages)
           /\ Len(Newest(s, n)) = (IF Len(s) <= n THEN Len(s) ELSE n)
           /\ Len(Evicted(s, n)) = (IF Len(s) <= n THEN 0 ELSE Len(s) - n)
           /\ \A i \in 1..Len(Newest(s, n)) :
                Newest(s, n)[i] = s[Len(Evicted(s, n)) + i]
           /\ \A i \in 1..Len(Evicted(s, n)) : Evicted(s, n)[i] = s[i]
<1>1. CASE Len(s) <= n
    BY <1>1 DEF Newest, Evicted
<1>2. CASE Len(s) > n
    BY <1>2 DEF Newest, Evicted
<1>3. QED
    BY <1>1, <1>2

\* To append to the tail and evict is to append to the whole and evict.
LEMMA TailAppend ==
    ASSUME NEW s \in Seq(Messages), NEW x \in Messages, NEW n \in Nat \ {0}
    PROVE  /\ Newest(Append(Newest(s, n), x), n) = Newest(Append(s, x), n)
           /\ Evicted(s, n) \o Evicted(Append(Newest(s, n), x), n) = Evicted(Append(s, x), n)
<1> DEFINE t == Newest(s, n)
           tx == Append(t, x)
           sx == Append(s, x)
           nx == Newest(sx, n)
           ex == Evicted(sx, n)
           nt == Newest(tx, n)
           et == Evicted(tx, n)
           e == Evicted(s, n)
<1>1. /\ t \in Seq(Messages) /\ e \in Seq(Messages)
      /\ Len(t) = (IF Len(s) <= n THEN Len(s) ELSE n)
      /\ Len(e) = (IF Len(s) <= n THEN 0 ELSE Len(s) - n)
      /\ \A i \in 1..Len(t) : t[i] = s[Len(e) + i]
      /\ \A i \in 1..Len(e) : e[i] = s[i]
    BY TailParts
<1>2. CASE Len(s) < n
  <2>1. t = s /\ e = <<>>
      BY <1>2 DEF Newest, Evicted
  <2>2. tx = sx
      BY <2>1
  <2>3. sx \in Seq(Messages)
      OBVIOUS
  <2>4. ex \in Seq(Messages)
      BY <2>3, TailParts
  <2>5. <<>> \o ex = ex
      BY <2>4, ConcatEmptySeq
  <2>6. QED
      BY <2>1, <2>2, <2>5
<1>3. CASE Len(s) >= n
  <2>1. PICK k \in Nat : Len(s) = k + n
    <3>1. Len(s) - n \in Nat /\ Len(s) = (Len(s) - n) + n
        BY <1>3
    <3>2. QED
        BY <3>1
  <2>2. n \in Nat /\ n >= 1
      OBVIOUS
  <2>3. /\ sx \in Seq(Messages) /\ Len(sx) = k + n + 1 /\ sx[k + n + 1] = x
        /\ \A i \in 1..(k + n) : sx[i] = s[i]
      BY <2>1, AppendParts
  <2>4. /\ Len(t) = n /\ Len(e) = k
        /\ \A i \in 1..n : t[i] = s[k + i]
        /\ \A i \in 1..k : e[i] = s[i]
    <3> HIDE DEF t, e
    <3>1. Len(t) = n /\ Len(e) = k
        BY <1>1, <2>1, <2>2
    <3>2. QED
        BY <1>1, <3>1
  <2>5. /\ tx \in Seq(Messages) /\ Len(tx) = n + 1 /\ tx[n + 1] = x
        /\ \A i \in 1..n : tx[i] = s[k + i]
    <3> HIDE DEF t
    <3>1. /\ tx \in Seq(Messages) /\ Len(tx) = Len(t) + 1
          /\ tx[Len(t) + 1] = x
          /\ \A i \in 1..Len(t) : tx[i] = t[i]
        BY <1>1, AppendParts
    <3>2. QED
        BY <2>4, <3>1
  <2> HIDE DEF sx, tx, t, e
  <2>6. /\ nt \in Seq(Messages) /\ Len(nt) = n
        /\ et \in Seq(Messages) /\ Len(et) = 1
        /\ \A i \in 1..n : nt[i] = tx[1 + i]
        /\ et[1] = s[k + 1]
    <3>1. /\ nt \in Seq(Messages) /\ et \in Seq(Messages)
          /\ Len(nt) = (IF Len(tx) <= n THEN Len(tx) ELSE n)
          /\ Len(et) = (IF Len(tx) <= n THEN 0 ELSE Len(tx) - n)
          /\ \A i \in 1..Len(nt) : nt[i] = tx[Len(et) + i]
          /\ \A i \in 1..Len(et) : et[i] = tx[i]
        BY <2>2, <2>5, TailParts
    <3> HIDE DEF nt, et
    <3>2. Len(nt) = n /\ Len(et) = 1
        BY <2>2, <2>5, <3>1
    <3>3. et[1] = tx[1]
      <4>1. 1 \in 1..Len(et)
          BY <3>2
      <4>2. QED
          BY <3>1, <4>1
    <3>4. tx[1] = s[k + 1]
        BY <2>2, <2>5
    <3>5. \A i \in 1..n : nt[i] = tx[1 + i]
        BY <3>1, <3>2
    <3>6. QED
        BY <3>1, <3>2, <3>3, <3>4, <3>5
  <2>7. /\ nx \in Seq(Messages) /\ Len(nx) = n
        /\ ex \in Seq(Messages) /\ Len(ex) = k + 1
        /\ \A i \in 1..n : nx[i] = sx[(k + 1) + i]
        /\ \A i \in 1..(k + 1) : ex[i] = sx[i]
    <3>1. /\ nx \in Seq(Messages) /\ ex \in Seq(Messages)
          /\ Len(nx) = (IF Len(sx) <= n THEN Len(sx) ELSE n)
          /\ Len(ex) = (IF Len(sx) <= n THEN 0 ELSE Len(sx) - n)
          /\ \A i \in 1..Len(nx) : nx[i] = sx[Len(ex) + i]
          /\ \A i \in 1..Len(ex) : ex[i] = sx[i]
        BY <2>2, <2>3, TailParts
    <3> HIDE DEF nx, ex
    <3>2. Len(nx) = n /\ Len(ex) = k + 1
        BY <2>2, <2>3, <3>1
    <3>3. QED
        BY <3>1, <3>2
  <2> HIDE DEF nx, ex, nt, et
  <2>8. ASSUME NEW i \in 1..n
        PROVE  nt[i] = nx[i]
    <3>1. nt[i] = tx[1 + i] /\ nx[i] = sx[(k + 1) + i] /\ i \in Nat
        BY <2>2, <2>6, <2>7
    <3>2. CASE i = n
      <4>1. (k + 1) + i = k + n + 1 /\ 1 + i = n + 1
          BY <2>2, <3>2
      <4>2. QED
          BY <2>3, <2>5, <3>1, <4>1
    <3>3. CASE i < n
      <4>1. 1 + i \in 1..n /\ (k + 1) + i \in 1..(k + n) /\ k + (1 + i) = (k + 1) + i
          BY <2>2, <3>1, <3>3
      <4>2. tx[1 + i] = s[k + (1 + i)]
          BY <2>5, <4>1
      <4>3. sx[(k + 1) + i] = s[(k + 1) + i]
          BY <2>3, <4>1
      <4>4. QED
          BY <3>1, <4>1, <4>2, <4>3
    <3>4. QED
        BY <2>2, <3>2, <3>3
  <2>9. nt = nx
      BY <2>6, <2>7, <2>8, SameSequence
  <2>10. /\ e \o et \in Seq(Messages) /\ Len(e \o et) = k + 1
         /\ \A i \in 1..(k + 1) :
              (e \o et)[i] = IF i <= k THEN e[i] ELSE et[i - k]
    <3>1. /\ e \o et \in Seq(Messages) /\ Len(e \o et) = Len(e) + Len(et)
          /\ \A i \in 1..(Len(e) + Len(et)) :
               (e \o et)[i] = IF i <= Len(e) THEN e[i] ELSE et[i - Len(e)]
        BY <1>1, <2>6, ConcatParts
    <3>2. QED
        BY <2>4, <2>6, <3>1
  <2>11. ASSUME NEW i \in 1..(k + 1)
         PROVE  (e \o et)[i] = ex[i]
    <3>1. ex[i] = s[i]
      <4>1. i \in 1..(k + n)
          BY <2>2
      <4>2. QED
          BY <2>3, <2>7, <4>1
    <3>2. CASE i <= k
      <4>1. i \in 1..k
          BY <3>2
      <4>2. (e \o et)[i] = e[i]
          BY <2>10, <3>2
      <4>3. QED
          BY <2>4, <3>1, <4>1, <4>2
    <3>3. CASE i = k + 1
      <4>1. ~(i <= k) /\ i - k = 1
          BY <3>3
      <4>2. (e \o et)[i] = et[i - k]
          BY <2>10, <4>1
      <4>3. QED
          BY <2>6, <3>1, <3>3, <4>1, <4>2
    <3>4. i <= k \/ i = k + 1
        OBVIOUS
    <3>5. QED
        BY <3>2, <3>3, <3>4
  <2>12. e \o et = ex
      BY <2>7, <2>10, <2>11, SameSequence
  <2>13. QED
      BY <2>9, <2>12 DEF t, e, nx, ex, nt, et, tx, sx
<1>4. QED
    BY <1>1, <1>2, <1>3

-----------------------------------------------------------------------------
(* What a summary keeps.                                                   *)

\* The first number of a set of numbers.
LEMMA FirstOf ==
    ASSUME NEW S \in SUBSET Nat, S # {}
    PROVE  \E x \in S : \A y \in S : x <= y
<1>1. PICK x \in S : \A y \in S : ~ (<<y, x>> \in OpToRel(<, Nat))
    BY NatLessThanWellFounded, WFMin
<1>2. \A y \in S : y \in Nat /\ x \in Nat
    OBVIOUS
<1>3. \A y \in S : ~ (y < x)
    BY <1>1, <1>2, Zenon DEF OpToRel
<1>4. QED
    BY <1>2, <1>3

LEMMA TailOf ==
    ASSUME NEW s \in Seq(Messages), NEW n \in 0..Len(s)
    PROVE  /\ Newest(s, n) \in Seq(Messages) /\ Len(Newest(s, n)) = n
           /\ \A i \in 1..n : Newest(s, n)[i] = s[(Len(s) - n) + i]
<1>1. n \in Nat /\ Len(s) \in Nat /\ n <= Len(s)
    OBVIOUS
<1>2. /\ Len(Newest(s, n)) = (IF Len(s) <= n THEN Len(s) ELSE n)
      /\ Len(Evicted(s, n)) = (IF Len(s) <= n THEN 0 ELSE Len(s) - n)
      /\ Newest(s, n) \in Seq(Messages)
      /\ \A i \in 1..Len(Newest(s, n)) : Newest(s, n)[i] = s[Len(Evicted(s, n)) + i]
    BY <1>1, TailParts
<1>3. Len(Newest(s, n)) = n /\ Len(Evicted(s, n)) = Len(s) - n
    BY <1>1, <1>2
<1>4. QED
    BY <1>2, <1>3

\* The longest tail that fits is a tail that fits and none longer does.
LEMMA KeptParts ==
    ASSUME Assumptions, NEW q \in Seq(Messages)
    PROVE  /\ Room(q) \in 0..Len(q) /\ Newest(q, Room(q)) \in Summaries
           /\ \A k \in 0..Len(q) : Newest(q, k) \in Summaries => k <= Room(q)
           /\ Kept(q) \in Seq(Messages) /\ Len(Kept(q)) = Room(q)
<1> DEFINE l == Len(q)
           S == {k \in Nat : k <= l /\ Newest(q, l - k) \in Summaries}
<1>1. l \in Nat /\ Newest(q, 0) = <<>>
  <2>1. l \in Nat /\ 0 \in 0..l
      OBVIOUS
  <2>2. Newest(q, 0) \in Seq(Messages) /\ Len(Newest(q, 0)) = 0
      BY <2>1, TailOf
  <2>3. QED
      BY <2>1, <2>2, EmptySeq
<1>2. l - l = 0 /\ l \in S
  <2>1. l - l = 0
      BY <1>1
  <2>2. QED
      BY <1>1, <2>1 DEF Assumptions
<1>3. PICK d \in S : \A k \in S : d <= k
    BY <1>2, FirstOf
<1> DEFINE n == l - d
<1>4. n \in 0..l /\ Newest(q, n) \in Summaries
    BY <1>1, <1>3
<1>5. ASSUME NEW k \in 0..l, Newest(q, k) \in Summaries
      PROVE  k <= n
  <2>1. l - k \in Nat /\ l - k <= l /\ l - (l - k) = k
      BY <1>1
  <2>2. l - k \in S
      BY <1>5, <2>1
  <2>3. d <= l - k /\ d \in Nat
      BY <1>3, <2>2
  <2>4. QED
      BY <1>1, <2>1, <2>3
<1> HIDE DEF n, S
<1>6. /\ Room(q) \in 0..l /\ Newest(q, Room(q)) \in Summaries
      /\ \A k \in 0..l : Newest(q, k) \in Summaries => k <= Room(q)
    BY <1>4, <1>5, Zenon DEF Room
<1>7. QED
    BY <1>6, TailOf DEF Kept

LEMMA KeptNothing ==
    ASSUME Assumptions
    PROVE  Kept(<<>>) = <<>>
<1>1. PICK q \in Seq(Messages) : q = <<>>
  <2>1. <<>> \in Seq(Messages)
      OBVIOUS
  <2>2. QED
      BY <2>1, Zenon
<1>2. Room(q) \in 0..Len(q) /\ Kept(q) \in Seq(Messages) /\ Len(Kept(q)) = Room(q)
    BY KeptParts
<1>3. Room(q) = 0
    BY <1>1, <1>2
<1>4. QED
    BY <1>1, <1>2, <1>3, EmptySeq

\* To add to what is kept, and cut, is to add to the whole, and cut.
LEMMA KeptLonger ==
    ASSUME Assumptions, NEW q \in Seq(Messages), NEW e \in Seq(Messages)
    PROVE  Kept(Kept(q) \o e) = Kept(q \o e)
<1> DEFINE kq == Kept(q)
           a == q \o e
           b == kq \o e
           r == Room(q)
           l == Len(q)
           le == Len(e)
<1>1. /\ l \in Nat /\ le \in Nat /\ r \in 0..l
      /\ kq \in Seq(Messages) /\ Len(kq) = r
      /\ \A i \in 1..r : kq[i] = q[(l - r) + i]
      /\ \A k \in 0..l : Newest(q, k) \in Summaries => k <= r
  <2>1. l \in Nat /\ le \in Nat
      OBVIOUS
  <2>2. /\ r \in 0..l /\ kq \in Seq(Messages) /\ Len(kq) = r
        /\ \A k \in 0..l : Newest(q, k) \in Summaries => k <= r
      BY KeptParts
  <2>3. \A i \in 1..r : Newest(q, r)[i] = q[(l - r) + i]
    <3> HIDE DEF r, kq
    <3>1. QED
        BY <2>2, TailOf
  <2>4. QED
      BY <2>1, <2>2, <2>3 DEF Kept
<1>2. /\ a \in Seq(Messages) /\ Len(a) = l + le
      /\ \A i \in 1..(l + le) : a[i] = IF i <= l THEN q[i] ELSE e[i - l]
    BY ConcatParts
<1> HIDE DEF kq, r
<1>3. /\ b \in Seq(Messages) /\ Len(b) = r + le
      /\ \A i \in 1..(r + le) : b[i] = IF i <= r THEN kq[i] ELSE e[i - r]
    BY <1>1, ConcatParts
<1> HIDE DEF a, b
<1>4. ASSUME NEW k \in 0..(r + le)
      PROVE  Newest(b, k) = Newest(a, k)
  <2>1. /\ Newest(b, k) \in Seq(Messages) /\ Len(Newest(b, k)) = k
        /\ \A i \in 1..k : Newest(b, k)[i] = b[((r + le) - k) + i]
    <3>1. k \in 0..Len(b)
        BY <1>3
    <3>2. /\ Newest(b, k) \in Seq(Messages) /\ Len(Newest(b, k)) = k
          /\ \A i \in 1..k : Newest(b, k)[i] = b[(Len(b) - k) + i]
        BY <1>3, <3>1, TailOf
    <3>3. QED
        BY <1>3, <3>2
  <2>2. k \in 0..(l + le)
      BY <1>1
  <2>3. /\ Newest(a, k) \in Seq(Messages) /\ Len(Newest(a, k)) = k
        /\ \A i \in 1..k : Newest(a, k)[i] = a[((l + le) - k) + i]
    <3>1. k \in 0..Len(a)
        BY <1>2, <2>2
    <3>2. /\ Newest(a, k) \in Seq(Messages) /\ Len(Newest(a, k)) = k
          /\ \A i \in 1..k : Newest(a, k)[i] = a[(Len(a) - k) + i]
        BY <1>2, <3>1, TailOf
    <3>3. QED
        BY <1>2, <3>2
  <2>4. ASSUME NEW i \in 1..k
        PROVE  Newest(b, k)[i] = Newest(a, k)[i]
    <3> DEFINE j == ((r + le) - k) + i
    <3>1. /\ j \in 1..(r + le) /\ j + (l - r) \in 1..(l + le)
          /\ ((l + le) - k) + i = j + (l - r)
        BY <1>1
    <3> HIDE DEF j
    <3>2. Newest(b, k)[i] = b[j] /\ Newest(a, k)[i] = a[j + (l - r)]
        BY <2>1, <2>3, <3>1 DEF j
    <3>3. CASE j <= r
      <4>1. j \in 1..r /\ j + (l - r) <= l /\ (l - r) + j = j + (l - r)
          BY <1>1, <3>1, <3>3
      <4>2. b[j] = q[(l - r) + j] /\ a[j + (l - r)] = q[j + (l - r)]
          BY <1>1, <1>2, <1>3, <3>1, <3>3, <4>1
      <4>3. QED
          BY <3>2, <4>1, <4>2
    <3>4. CASE ~(j <= r)
      <4>1. ~(j + (l - r) <= l) /\ (j + (l - r)) - l = j - r
          BY <1>1, <3>1, <3>4
      <4>2. b[j] = e[j - r] /\ a[j + (l - r)] = e[(j + (l - r)) - l]
          BY <1>2, <1>3, <3>1, <3>4, <4>1
      <4>3. QED
          BY <3>2, <4>1, <4>2
    <3>5. QED
        BY <3>3, <3>4
  <2>5. QED
      BY <2>1, <2>3, <2>4, SameSequence
<1>5. ASSUME NEW k \in 0..(l + le), Newest(a, k) \in Summaries
      PROVE  k <= r + le
  <2>1. SUFFICES ASSUME k > le
                 PROVE  k - le <= r
      BY <1>1
  <2>2. k - le \in 0..l /\ k - le \in 1..k
      BY <1>1, <2>1
  <2> DEFINE t == Newest(a, k)
             p == SubSeq(t, 1, k - le)
             u == Newest(q, k - le)
  <2>3. /\ t \in Seq(Messages) /\ Len(t) = k
        /\ \A i \in 1..k : t[i] = a[((l + le) - k) + i]
    <3>1. k \in 0..Len(a)
        BY <1>2
    <3>2. /\ t \in Seq(Messages) /\ Len(t) = k
          /\ \A i \in 1..k : t[i] = a[(Len(a) - k) + i]
        BY <1>2, <3>1, TailOf
    <3>3. QED
        BY <1>2, <3>2
  <2>4. /\ u \in Seq(Messages) /\ Len(u) = k - le
        /\ \A i \in 1..(k - le) : u[i] = q[(l - (k - le)) + i]
      BY <2>2, TailOf
  <2> HIDE DEF t, u
  <2>5. /\ p \in Seq(Messages) /\ Len(p) = k - le
        /\ \A i \in 1..(k - le) : p[i] = t[i]
      BY <2>2, <2>3
  <2>6. p \in Summaries
    <3>1. t \in Summaries /\ 1 \in 1..(Len(t) + 1) /\ k - le \in 0..Len(t)
        BY <1>5, <2>2, <2>3 DEF t
    <3>2. QED
        BY <3>1 DEF Assumptions
  <2> HIDE DEF p
  <2>7. ASSUME NEW i \in 1..(k - le)
        PROVE  p[i] = u[i]
    <3>1. /\ i \in 1..k /\ ((l + le) - k) + i \in 1..(l + le) /\ ((l + le) - k) + i <= l
          /\ ((l + le) - k) + i = (l - (k - le)) + i
        BY <1>1, <2>2
    <3>2. p[i] = a[((l + le) - k) + i]
        BY <2>3, <2>5, <3>1
    <3>3. a[((l + le) - k) + i] = q[((l + le) - k) + i]
        BY <1>2, <3>1
    <3>4. QED
        BY <2>4, <3>1, <3>2, <3>3
  <2>8. p = u
      BY <2>4, <2>5, <2>7, SameSequence
  <2>9. QED
      BY <1>1, <2>2, <2>6, <2>8 DEF u
<1> DEFINE ra == Room(a)
           rb == Room(b)
<1>6. /\ ra \in 0..(l + le) /\ Newest(a, ra) \in Summaries
      /\ \A k \in 0..(l + le) : Newest(a, k) \in Summaries => k <= ra
    BY <1>2, KeptParts
<1>7. /\ rb \in 0..(r + le) /\ Newest(b, rb) \in Summaries
      /\ \A k \in 0..(r + le) : Newest(b, k) \in Summaries => k <= rb
    BY <1>3, KeptParts
<1> HIDE DEF ra, rb
<1>8. ra \in 0..(r + le)
    BY <1>1, <1>5, <1>6
<1>9. ra <= rb
    BY <1>4, <1>6, <1>7, <1>8
<1>10. rb \in 0..(l + le)
    BY <1>1, <1>7
<1>11. rb <= ra
    BY <1>4, <1>6, <1>7, <1>10
<1>12. ra = rb
    BY <1>6, <1>7, <1>9, <1>11
<1>13. Newest(b, rb) = Newest(a, ra)
    BY <1>4, <1>8, <1>12
<1>14. QED
    BY <1>13 DEF Kept, ra, rb, a, b, kq

-----------------------------------------------------------------------------
(* The rows in the order the code reads them.                              *)

RowSet == [id : Nat, index : Nat, message : Messages]

LEMMA RowFields ==
    ASSUME rows \in Seq(RowSet), NEW i \in DOMAIN rows
    PROVE  rows[i].id \in Nat /\ rows[i].index \in Nat /\ rows[i].message \in Messages
<1>1. rows[i] \in RowSet
    OBVIOUS
<1>2. QED
    BY <1>1 DEF RowSet

\* Of two rows, one has fewer before it.
LEMMA FewerBefore ==
    ASSUME rows \in Seq(RowSet), Numbered,
           NEW i \in DOMAIN rows, NEW j \in DOMAIN rows, Precedes(i, j)
    PROVE  Cardinality(RowsBefore(i)) # Cardinality(RowsBefore(j))
<1>1. IsFiniteSet(DOMAIN rows)
  <2>1. DOMAIN rows = 1..Len(rows) /\ 1 \in Int /\ Len(rows) \in Int
      OBVIOUS
  <2>2. QED
      BY <2>1, FS_Interval
<1>2. IsFiniteSet(RowsBefore(j))
  <2>1. RowsBefore(j) \in SUBSET DOMAIN rows
      BY DEF RowsBefore
  <2>2. QED
      BY <1>1, <2>1, FS_Subset
<1>3. RowsBefore(i) \in SUBSET RowsBefore(j)
  <2>1. ASSUME NEW k \in RowsBefore(i)
        PROVE  k \in RowsBefore(j)
    <3>1. k \in DOMAIN rows /\ Precedes(k, i)
        BY DEF RowsBefore
    <3>2. /\ rows[i].index \in Nat /\ rows[j].index \in Nat /\ rows[k].index \in Nat
          /\ rows[i].id \in Nat /\ rows[j].id \in Nat /\ rows[k].id \in Nat
        BY <3>1, RowFields
    <3>3. Precedes(k, j)
        BY <3>1, <3>2 DEF Precedes
    <3>4. QED
        BY <3>1, <3>3 DEF RowsBefore
  <2>2. QED
      BY <2>1
<1>4. i \in RowsBefore(j) /\ i \notin RowsBefore(i)
    BY RowFields DEF RowsBefore, Precedes
<1>5. QED
    BY <1>2, <1>3, <1>4, FS_Subset

\* Every place in the order has a row.
LEMMA RowAtEvery ==
    ASSUME rows \in Seq(RowSet), Numbered
    PROVE  \A k \in DOMAIN rows :
             RowAt(k) \in DOMAIN rows /\ Cardinality(RowsBefore(RowAt(k))) = k - 1
<1> DEFINE rank == [i \in DOMAIN rows |-> Cardinality(RowsBefore(i)) + 1]
<1>1. /\ IsFiniteSet(DOMAIN rows) /\ Cardinality(DOMAIN rows) = Len(rows)
      /\ DOMAIN rows = 1..Len(rows) /\ Len(rows) \in Nat
  <2>1. DOMAIN rows = 1..Len(rows) /\ 1 \in Int /\ Len(rows) \in Int /\ Len(rows) \in Nat
      OBVIOUS
  <2>2. IsFiniteSet(1..Len(rows))
        /\ Cardinality(1..Len(rows)) = IF 1 > Len(rows) THEN 0 ELSE Len(rows) - 1 + 1
      BY <2>1, FS_Interval
  <2>3. QED
      BY <2>1, <2>2
<1>2. ASSUME NEW i \in DOMAIN rows
      PROVE  rank[i] \in DOMAIN rows
  <2>1. RowsBefore(i) \in SUBSET (DOMAIN rows)
      BY DEF RowsBefore
  <2>2. IsFiniteSet(RowsBefore(i)) /\ Cardinality(RowsBefore(i)) <= Cardinality(DOMAIN rows)
        /\ (Cardinality(DOMAIN rows) = Cardinality(RowsBefore(i)) => DOMAIN rows = RowsBefore(i))
      BY <1>1, <2>1, FS_Subset
  <2>3. i \notin RowsBefore(i)
      BY RowFields DEF RowsBefore, Precedes
  <2>4. Cardinality(RowsBefore(i)) \in Nat
      BY <2>2, FS_CardinalityType
  <2>5. Cardinality(RowsBefore(i)) # Len(rows)
      BY <1>1, <2>2, <2>3
  <2>6. QED
      BY <1>1, <2>2, <2>4, <2>5
<1>3. ASSUME NEW i \in DOMAIN rows, NEW j \in DOMAIN rows, i # j
      PROVE  rank[i] # rank[j]
  <2>1. Precedes(i, j) \/ Precedes(j, i)
    <3>1. rows[i].index \in Nat /\ rows[j].index \in Nat
        BY RowFields
    <3>2. rows[i].id = i /\ rows[j].id = j /\ i \in Nat /\ j \in Nat
        BY <1>1 DEF Numbered
    <3>3. QED
        BY <1>3, <3>1, <3>2 DEF Precedes
  <2>2. Cardinality(RowsBefore(i)) # Cardinality(RowsBefore(j))
      BY <2>1, FewerBefore
  <2>3. Cardinality(RowsBefore(i)) \in Nat /\ Cardinality(RowsBefore(j)) \in Nat
    <3>1. RowsBefore(i) \in SUBSET (DOMAIN rows) /\ RowsBefore(j) \in SUBSET (DOMAIN rows)
        BY DEF RowsBefore
    <3>2. IsFiniteSet(RowsBefore(i)) /\ IsFiniteSet(RowsBefore(j))
        BY <1>1, <3>1, FS_Subset
    <3>3. QED
        BY <3>2, FS_CardinalityType
  <2>4. QED
      BY <2>2, <2>3
<1>4. rank \in Injection(DOMAIN rows, DOMAIN rows)
  <2>1. rank \in [DOMAIN rows -> DOMAIN rows]
      BY <1>2
  <2> HIDE DEF rank
  <2>2. QED
      BY <1>3, <2>1 DEF Injection, IsInjective
<1>5. rank \in Surjection(DOMAIN rows, DOMAIN rows)
  <2> HIDE DEF rank
  <2>1. QED
      BY <1>1, <1>4, FS_Injection
<1>6. ASSUME NEW k \in DOMAIN rows
      PROVE  \E i \in DOMAIN rows : Cardinality(RowsBefore(i)) = k - 1
  <2>1. PICK i \in DOMAIN rows : rank[i] = k
    <3> HIDE DEF rank
    <3>1. QED
        BY <1>5 DEF Surjection
  <2>2. Cardinality(RowsBefore(i)) \in Nat
    <3>1. RowsBefore(i) \in SUBSET (DOMAIN rows)
        BY DEF RowsBefore
    <3>2. QED
        BY <1>1, <3>1, FS_Subset, FS_CardinalityType
  <2>3. QED
      BY <2>1, <2>2
<1>7. QED
    BY <1>6 DEF RowAt

LEMMA MessagedTyped ==
    ASSUME rows \in Seq(RowSet)
    PROVE  /\ Messaged \in Seq(Messages) /\ Len(Messaged) = Len(rows)
           /\ \A i \in DOMAIN rows : Messaged[i] = rows[i].message
<1>1. Messaged \in [1..Len(rows) -> Messages] /\ Len(rows) \in Nat
    BY RowFields DEF Messaged
<1>2. Messaged \in Seq(Messages)
    BY <1>1
<1>3. DOMAIN Messaged = 1..Len(rows)
    BY <1>1
<1>4. Len(Messaged) = Len(rows)
    BY <1>1, <1>2, <1>3
<1>5. QED
    BY <1>2, <1>4 DEF Messaged

LEMMA RecentTyped ==
    ASSUME rows \in Seq(RowSet), Numbered, Recent \in Nat
    PROVE  RecentTurns \in Seq(Messages)
<1> DEFINE q == [k \in DOMAIN rows |-> rows[RowAt(k)].message]
<1>1. \A k \in DOMAIN rows : rows[RowAt(k)].message \in Messages
    BY RowAtEvery, RowFields
<1>2. q \in [1..Len(rows) -> Messages] /\ Len(rows) \in Nat
    BY <1>1
<1> HIDE DEF q
<1>3. q \in Seq(Messages)
    BY <1>2
<1>4. Newest(q, Recent) \in Seq(Messages)
    BY <1>3, TailParts
<1>5. QED
    BY <1>4 DEF RecentTurns, q

\* While a later row has a greater index the order is that of the rows.
LEMMA RecentIsTail ==
    ASSUME rows \in Seq(RowSet), Numbered,
           \A i, j \in DOMAIN rows : i < j => rows[i].index < rows[j].index
    PROVE  RecentTurns = Newest(Messaged, Recent)
<1>1. ASSUME NEW i \in DOMAIN rows
      PROVE  Cardinality(RowsBefore(i)) = i - 1
  <2>1. i \in Nat /\ i >= 1 /\ DOMAIN rows = 1..Len(rows) /\ Len(rows) \in Nat
      OBVIOUS
  <2>2. ASSUME NEW j \in DOMAIN rows
        PROVE  Precedes(j, i) <=> j < i
    <3>1. rows[i].index \in Nat /\ rows[j].index \in Nat
        BY RowFields
    <3>2. rows[i].id = i /\ rows[j].id = j /\ j \in Nat
        BY DEF Numbered
    <3>3. CASE j < i
        BY <3>1, <3>3 DEF Precedes
    <3>4. CASE j = i
        BY <3>1, <3>2, <3>4 DEF Precedes
    <3>5. CASE i < j
      <4>1. rows[i].index < rows[j].index
          BY <3>5
      <4>2. QED
          BY <2>1, <3>1, <3>2, <3>5, <4>1 DEF Precedes
    <3>6. QED
        BY <2>1, <3>2, <3>3, <3>4, <3>5
  <2>3. RowsBefore(i) = 1..(i - 1)
      BY <2>1, <2>2 DEF RowsBefore
  <2>4. Cardinality(1..(i - 1)) = IF 1 > i - 1 THEN 0 ELSE (i - 1) - 1 + 1
    <3>1. 1 \in Int /\ i - 1 \in Int
        BY <2>1
    <3>2. QED
        BY <3>1, FS_Interval
  <2>5. QED
      BY <2>1, <2>3, <2>4
<1>2. ASSUME NEW k \in DOMAIN rows
      PROVE  RowAt(k) = k
  <2>1. RowAt(k) \in DOMAIN rows /\ Cardinality(RowsBefore(RowAt(k))) = k - 1
      BY RowAtEvery
  <2>2. Cardinality(RowsBefore(RowAt(k))) = RowAt(k) - 1
      BY <1>1, <2>1
  <2>3. QED
      BY <2>1, <2>2
<1>3. [k \in DOMAIN rows |-> rows[RowAt(k)].message] = Messaged
    BY <1>2 DEF Messaged
<1>4. QED
    BY <1>3 DEF RecentTurns

-----------------------------------------------------------------------------
(* What a step does, as one of a few kinds.                                *)

AllPc   == {"waiting"} \cup RunningPc \cup EndedPc
TurnSet == [pc : AllPc, session : SessionSet, analysed : BOOLEAN]

\* The turn of m moves to q with s at hand; the others stay.
Moved(m, q, s) ==
    /\ turn' \in [Messages -> TurnSet]
    /\ turn'[m].pc = q /\ turn'[m].session = s
    /\ \A n \in Messages \ {m} : turn'[n] = turn[n]

\* s is t but for the event and the clarification.
Amends(s, t) ==
    s \in SessionSet /\ s.count = t.count /\ s.recent = t.recent /\ s.summary = t.summary

Takes(m) ==
    /\ turn[m].pc = "waiting" /\ lock = Nobody /\ lock' = m
    /\ Moved(m, "rate", turn[m].session)
    /\ UNCHANGED <<storeVars, faults, history>>

Hops(m, q) ==
    /\ <<turn[m].pc, q>> \in
         {<<"waiting", "failed">>, <<"rate", "get">>, <<"rate", "log">>, <<"get", "memory">>,
          <<"screen", "append">>, <<"screen", "answer">>, <<"answer", "append">>}
    /\ Moved(m, q, turn[m].session)
    /\ UNCHANGED <<lock, storeVars, faults, history>>

Loads(m, q, s) ==
    /\ \/ turn[m].pc = "get" /\ session # NoSession /\ q = "screen" /\ s = session
       \/ turn[m].pc = "memory" /\ memory = NoMemory /\ q = "save" /\ s = Fresh
       \/ turn[m].pc = "memory" /\ memory # NoMemory /\ q = "turns" /\ s = FromMemory(memory)
       \/ turn[m].pc = "turns" /\ q = "save" /\ s = [turn[m].session EXCEPT !.recent = RecentTurns]
    /\ Moved(m, q, s)
    /\ UNCHANGED <<lock, storeVars, faults, history>>

Saves(m, q, s) ==
    /\ turn[m].pc \in {"save", "screen", "answer"} /\ q \in {"screen", "answer", "append"}
    /\ Amends(s, turn[m].session)
    /\ session' = s
    /\ Moved(m, q, s)
    /\ UNCHANGED <<lock, rows, memory, faults, history>>

Appends(m) ==
    /\ turn[m].pc = "append"
    /\ session' = Appended(turn[m].session, m)
    /\ history' = Append(history, m)
    /\ Moved(m, "persist", Appended(turn[m].session, m))
    /\ UNCHANGED <<lock, rows, memory, faults>>

Persists(m, q) ==
    /\ turn[m].pc = "persist" /\ q \in {"upsert", "log"}
    /\ Persisted(m, turn[m].session)
    /\ Moved(m, q, turn[m].session)
    /\ UNCHANGED <<lock, session, faults, history>>

Upserts(m) ==
    /\ turn[m].pc = "upsert"
    /\ Upserted(turn[m].session)
    /\ Moved(m, "log", turn[m].session)
    /\ UNCHANGED <<lock, session, rows, faults, history>>

Loses(m, q) ==
    /\ turn[m].pc \in {"persist", "upsert"} /\ q \in {"upsert", "log"}
    /\ faults' \in 1..MaxFaults
    /\ Moved(m, q, turn[m].session)
    /\ UNCHANGED <<lock, storeVars, history>>

Ends(m, q) ==
    /\ Running(m) /\ q \in EndedPc
    /\ \/ turn[m].pc = "log" /\ faults' = faults
       \/ faults' \in 1..MaxFaults
    /\ lock' \in {lock, IF lock = m THEN Nobody ELSE lock}
    /\ Moved(m, q, turn[m].session)
    /\ UNCHANGED <<storeVars, history>>

Kinds ==
    \/ \E m \in Messages : Takes(m) \/ Appends(m) \/ Upserts(m)
    \/ \E m \in Messages, q \in AllPc : Hops(m, q) \/ Persists(m, q) \/ Loses(m, q) \/ Ends(m, q)
    \/ \E m \in Messages, q \in AllPc, s \in SessionSet : Loads(m, q, s) \/ Saves(m, q, s)
    \/ LockExpire \/ SessionExpire \/ UNCHANGED vars

LEMMA Types ==
    ASSUME TypeOK
    PROVE  /\ lock \in Messages \cup {Nobody}
           /\ session \in SessionSet \cup {NoSession}
           /\ rows \in Seq(RowSet)
           /\ memory \in MemorySet \cup {NoMemory}
           /\ turn \in [Messages -> TurnSet]
           /\ faults \in 0..MaxFaults
           /\ history \in Seq(Messages)
BY DEF TypeOK, RowSet, TurnSet, AllPc

LEMMA TurnFields ==
    ASSUME TypeOK, NEW m \in Messages
    PROVE  turn[m] \in TurnSet /\ turn[m].pc \in AllPc /\ turn[m].session \in SessionSet
           /\ turn[m].analysed \in BOOLEAN
<1>1. turn[m] \in TurnSet
    BY Types
<1>2. QED
    BY <1>1 DEF TurnSet

LEMMA SessionFields ==
    ASSUME NEW s \in SessionSet
    PROVE  /\ s.count \in Nat /\ s.recent \in Seq(Messages) /\ s.summary \in Seq(Messages)
           /\ s.forum \in Forums \cup {NoForum} /\ s.pending \in BOOLEAN /\ s.attempts \in Nat
BY DEF SessionSet

LEMMA FreshTyped == Fresh \in SessionSet
<1>1. <<>> \in Seq(Messages)
    OBVIOUS
<1>2. QED
    BY <1>1 DEF Fresh, SessionSet

LEMMA FromMemoryTyped ==
    ASSUME NEW mem \in MemorySet
    PROVE  FromMemory(mem) \in SessionSet
<1>1. <<>> \in Seq(Messages)
    OBVIOUS
<1>2. /\ mem.lastForum \in Forums \cup {NoForum} /\ mem.context \in ContextSet
      /\ mem.summary \in Seq(Messages) /\ mem.count \in Nat
    BY DEF MemorySet
<1>3. /\ mem.context.forum \in Forums \cup {NoForum} /\ mem.context.pending \in BOOLEAN
      /\ mem.context.attempts \in Nat
    BY <1>2 DEF ContextSet
<1>4. QED
    BY <1>1, <1>2, <1>3 DEF FromMemory, SessionSet

\* A turn is a tail and a summary longer.
LEMMA AppendedParts ==
    ASSUME Assumptions, NEW s \in SessionSet, NEW m \in Messages
    PROVE  /\ Appended(s, m) \in SessionSet
           /\ Appended(s, m).count = s.count + 1
           /\ Appended(s, m).recent = Newest(Append(s.recent, m), Recent)
           /\ Appended(s, m).summary = Kept(s.summary \o Evicted(Append(s.recent, m), Recent))
<1> DEFINE r == Newest(Append(s.recent, m), Recent)
           e == Kept(s.summary \o Evicted(Append(s.recent, m), Recent))
           n == s.count + 1
<1>1. s.recent \in Seq(Messages) /\ s.summary \in Seq(Messages) /\ s.count \in Nat
    BY SessionFields
<1>2. Append(s.recent, m) \in Seq(Messages)
    BY <1>1, AppendParts
<1>3. r \in Seq(Messages) /\ Evicted(Append(s.recent, m), Recent) \in Seq(Messages)
    BY <1>2, TailParts DEF Assumptions
<1>4. e \in Seq(Messages)
    BY <1>1, <1>3, ConcatParts, KeptParts
<1>5. Appended(s, m) = [s EXCEPT !.count = n, !.recent = r, !.summary = e]
    BY DEF Appended
<1>6. n \in Nat
    BY <1>1
<1> HIDE DEF r, e, n
<1>7. /\ Appended(s, m) \in SessionSet /\ Appended(s, m).count = n
      /\ Appended(s, m).recent = r /\ Appended(s, m).summary = e
    BY <1>1, <1>3, <1>4, <1>5, <1>6 DEF SessionSet
<1>8. QED
    BY <1>7 DEF r, e, n

LEMMA AmendsTyped ==
    ASSUME NEW s \in SessionSet
    PROVE  /\ Amends(s, s) /\ Amends(Answered(s), s) /\ Amends(Asking(s), s)
           /\ \A f \in Forums \cup {s.forum, NoForum} : Amends([s EXCEPT !.forum = f], s)
<1>1. /\ s.forum \in Forums \cup {NoForum} /\ s.attempts \in Nat
    BY SessionFields
<1>2. /\ Answered(s) \in SessionSet /\ Answered(s).count = s.count
      /\ Answered(s).recent = s.recent /\ Answered(s).summary = s.summary
    BY DEF Answered, SessionSet
<1>3. /\ Asking(s) \in SessionSet /\ Asking(s).count = s.count
      /\ Asking(s).recent = s.recent /\ Asking(s).summary = s.summary
  <2> DEFINE k == s.attempts + 1
  <2>1. k \in Nat
      BY <1>1
  <2>2. Asking(s) = [s EXCEPT !.pending = TRUE, !.attempts = k]
      BY DEF Asking
  <2> HIDE DEF k
  <2>3. QED
      BY <2>1, <2>2 DEF SessionSet
<1>4. ASSUME NEW f \in Forums \cup {s.forum, NoForum}
      PROVE  Amends([s EXCEPT !.forum = f], s)
    BY <1>1 DEF Amends, SessionSet
<1>5. QED
    BY <1>2, <1>3, <1>4 DEF Amends

LEMMA GotoMoves ==
    ASSUME TypeOK, NEW m \in Messages, NEW q \in AllPc, Goto(m, q)
    PROVE  Moved(m, q, turn[m].session)
<1> DEFINE next == [turn[m] EXCEPT !.pc = q]
<1>1. next \in TurnSet /\ next.pc = q /\ next.session = turn[m].session
    BY TurnFields DEF TurnSet
<1>2. turn' = [turn EXCEPT ![m] = next]
    BY DEF Goto
<1> HIDE DEF next
<1>3. QED
    BY <1>1, <1>2, Types DEF Moved

LEMMA WithMoves ==
    ASSUME TypeOK, NEW m \in Messages, NEW q \in AllPc, NEW s \in SessionSet,
           turn' = [turn EXCEPT ![m].pc = q, ![m].session = s]
    PROVE  Moved(m, q, s)
<1> DEFINE next == [turn[m] EXCEPT !.pc = q, !.session = s]
<1>1. next \in TurnSet /\ next.pc = q /\ next.session = s
    BY TurnFields DEF TurnSet
<1>2. turn' = [turn EXCEPT ![m] = next]
    BY Types
<1> HIDE DEF next
<1>3. QED
    BY <1>1, <1>2, Types DEF Moved

LEMMA TakesKind ==
    ASSUME TypeOK, NEW m \in Messages, Acquire(m)
    PROVE  Takes(m)
<1>1. "rate" \in AllPc
    BY DEF AllPc, RunningPc
<1>2. QED
    BY <1>1, GotoMoves DEF Acquire, Takes

LEMMA HopsKind ==
    ASSUME TypeOK, NEW m \in Messages, LockTimeout(m) \/ CheckRate(m)
    PROVE  \E q \in AllPc : Hops(m, q)
<1>1. {"failed", "get", "log"} \subseteq AllPc
    BY DEF AllPc, RunningPc, EndedPc
<1>2. CASE LockTimeout(m)
  <2>1. Moved(m, "failed", turn[m].session)
      BY <1>1, <1>2, GotoMoves DEF LockTimeout
  <2>2. Hops(m, "failed")
      BY <1>2, <2>1 DEF LockTimeout, Hops
  <2>3. QED
      BY <1>1, <2>2
<1>3. CASE CheckRate(m)
  <2>1. PICK q \in {"get", "log"} : Goto(m, q)
      BY <1>3 DEF CheckRate
  <2>2. Moved(m, q, turn[m].session)
      BY <1>1, <2>1, GotoMoves
  <2>3. Hops(m, q)
      BY <1>3, <2>2 DEF CheckRate, Hops
  <2>4. QED
      BY <1>1, <2>3
<1>4. QED
    BY <1>2, <1>3

LEMMA GetSessionKind ==
    ASSUME TypeOK, NEW m \in Messages, GetSession(m)
    PROVE  \E q \in AllPc : Hops(m, q) \/ \E s \in SessionSet : Loads(m, q, s)
<1>1. {"screen", "memory"} \subseteq AllPc
    BY DEF AllPc, RunningPc
<1>2. CASE session # NoSession
  <2>1. session \in SessionSet
      BY <1>2, Types
  <2>2. Moved(m, "screen", session)
      BY <1>1, <1>2, <2>1, WithMoves DEF GetSession
  <2>3. Loads(m, "screen", session)
      BY <1>2, <2>2 DEF GetSession, Loads
  <2>4. QED
      BY <1>1, <2>1, <2>3
<1>3. CASE session = NoSession
  <2>1. Moved(m, "memory", turn[m].session)
      BY <1>1, <1>3, GotoMoves DEF GetSession
  <2>2. Hops(m, "memory")
      BY <1>3, <2>1 DEF GetSession, Hops
  <2>3. QED
      BY <1>1, <2>2
<1>4. QED
    BY <1>2, <1>3

LEMMA ReadMemoryKind ==
    ASSUME TypeOK, NEW m \in Messages, ReadMemory(m)
    PROVE  \E q \in AllPc, s \in SessionSet : Loads(m, q, s)
<1>1. {"save", "turns"} \subseteq AllPc
    BY DEF AllPc, RunningPc
<1>2. CASE memory = NoMemory
  <2>1. Moved(m, "save", Fresh)
      BY <1>1, <1>2, FreshTyped, WithMoves DEF ReadMemory
  <2>2. Loads(m, "save", Fresh)
      BY <1>2, <2>1 DEF ReadMemory, Loads
  <2>3. QED
      BY <1>1, <2>2, FreshTyped
<1>3. CASE memory # NoMemory
  <2>1. FromMemory(memory) \in SessionSet
      BY <1>3, Types, FromMemoryTyped
  <2>2. Moved(m, "turns", FromMemory(memory))
      BY <1>1, <1>3, <2>1, WithMoves DEF ReadMemory
  <2>3. Loads(m, "turns", FromMemory(memory))
      BY <1>3, <2>2 DEF ReadMemory, Loads
  <2>4. QED
      BY <1>1, <2>1, <2>3
<1>4. QED
    BY <1>2, <1>3

LEMMA ReadTurnsKind ==
    ASSUME Assumptions, TypeOK, Numbered, NEW m \in Messages, ReadTurns(m)
    PROVE  \E q \in AllPc, s \in SessionSet : Loads(m, q, s)
<1> DEFINE s == [turn[m].session EXCEPT !.recent = RecentTurns]
           next == [turn[m] EXCEPT !.pc = "save", !.session = s]
<1>1. RecentTurns \in Seq(Messages)
    BY Types, RecentTyped DEF Assumptions
<1>2. s \in SessionSet
    BY <1>1, TurnFields DEF SessionSet
<1>3. next \in TurnSet /\ next.pc = "save" /\ next.session = s
  <2>1. "save" \in AllPc
      BY DEF AllPc, RunningPc
  <2> HIDE DEF s
  <2>2. QED
      BY <1>2, <2>1, TurnFields DEF TurnSet
<1>4. turn' = [turn EXCEPT ![m] = next]
    BY Types DEF ReadTurns
<1>5. Moved(m, "save", s)
  <2> HIDE DEF next, s
  <2>1. QED
      BY <1>3, <1>4, Types DEF Moved
<1>6. Loads(m, "save", s)
    BY <1>5 DEF ReadTurns, Loads
<1>7. "save" \in AllPc
    BY DEF AllPc, RunningPc
<1> HIDE DEF s
<1>8. QED
    BY <1>2, <1>6, <1>7

\* What the turn may do with a session that differs from its own in the event or the
\* clarification.
LEMMA SaveIfChangedKind ==
    ASSUME TypeOK, NEW m \in Messages, NEW q \in {"answer", "append"}, NEW s,
           turn[m].pc \in {"screen", "answer"},
           turn[m].pc = "answer" => q = "append",
           Amends(s, turn[m].session), SaveIfChanged(m, s, q),
           UNCHANGED <<lock, rows, memory, faults, history>>
    PROVE  Hops(m, q) \/ Saves(m, q, s)
<1>1. q \in AllPc
    BY DEF AllPc, RunningPc
<1>2. s \in SessionSet
    BY DEF Amends
<1>3. CASE s = turn[m].session
  <2>1. Goto(m, q) /\ UNCHANGED session
      BY <1>3 DEF SaveIfChanged
  <2>2. Moved(m, q, turn[m].session)
      BY <1>1, <2>1, GotoMoves
  <2>3. QED
      BY <2>1, <2>2 DEF Hops, storeVars
<1>4. CASE s # turn[m].session
  <2>1. Save(m, s, q)
      BY <1>4 DEF SaveIfChanged
  <2>2. Moved(m, q, s)
      BY <1>1, <1>2, <2>1, WithMoves DEF Save
  <2>3. QED
      BY <2>1, <2>2 DEF Save, Saves
<1>5. QED
    BY <1>3, <1>4

LEMMA SaveRestoredKind ==
    ASSUME TypeOK, NEW m \in Messages, SaveRestored(m)
    PROVE  \E q \in AllPc, s \in SessionSet : Saves(m, q, s)
<1> DEFINE s == turn[m].session
<1>1. "screen" \in AllPc
    BY DEF AllPc, RunningPc
<1>2. s \in SessionSet /\ Amends(s, s)
    BY TurnFields, AmendsTyped
<1>3. Moved(m, "screen", s)
    BY <1>1, <1>2, WithMoves DEF SaveRestored, Save
<1>4. Saves(m, "screen", s)
    BY <1>2, <1>3 DEF SaveRestored, Save, Saves
<1>5. QED
    BY <1>1, <1>2, <1>4

LEMMA ScreenKind ==
    ASSUME TypeOK, NEW m \in Messages, Screen(m)
    PROVE  \E q \in AllPc : Hops(m, q) \/ \E s \in SessionSet : Saves(m, q, s)
<1> DEFINE t == turn[m].session
<1>1. {"append", "answer"} \subseteq AllPc
    BY DEF AllPc, RunningPc
<1>2. t \in SessionSet /\ turn[m].pc = "screen"
      /\ UNCHANGED <<lock, rows, memory, faults, history>>
    BY TurnFields DEF Screen
<1>3. CASE Goto(m, "append") /\ UNCHANGED session
  <2>1. Moved(m, "append", t)
      BY <1>1, <1>3, GotoMoves
  <2>2. Hops(m, "append")
      BY <1>2, <1>3, <2>1 DEF Hops, storeVars
  <2>3. QED
      BY <1>1, <2>2
<1>4. CASE SaveIfChanged(m, Answered(t), "append")
  <2>1. Amends(Answered(t), t)
      BY <1>2, AmendsTyped
  <2>2. Hops(m, "append") \/ Saves(m, "append", Answered(t))
      BY <1>2, <1>4, <2>1, SaveIfChangedKind
  <2>3. QED
      BY <1>1, <2>1, <2>2 DEF Amends
<1>5. ASSUME NEW f \in Forums \cup {t.forum}, SaveIfChanged(m, [t EXCEPT !.forum = f], "answer")
      PROVE  \E q \in AllPc : Hops(m, q) \/ \E s \in SessionSet : Saves(m, q, s)
  <2>1. Amends([t EXCEPT !.forum = f], t)
      BY <1>2, AmendsTyped
  <2>2. Hops(m, "answer") \/ Saves(m, "answer", [t EXCEPT !.forum = f])
      BY <1>2, <1>5, <2>1, SaveIfChangedKind
  <2>3. QED
      BY <1>1, <2>1, <2>2 DEF Amends
<1>6. QED
    BY <1>3, <1>4, <1>5 DEF Screen

LEMMA AnswerKind ==
    ASSUME TypeOK, NEW m \in Messages, AnswerAnalysed(m) \/ AnswerUnanalysed(m)
    PROVE  \E q \in AllPc : Hops(m, q) \/ \E s \in SessionSet : Saves(m, q, s)
<1> DEFINE t == turn[m].session
<1>1. "append" \in AllPc
    BY DEF AllPc, RunningPc
<1>2. t \in SessionSet /\ turn[m].pc = "answer"
      /\ UNCHANGED <<lock, rows, memory, faults, history>>
    BY TurnFields DEF AnswerAnalysed, AnswerUnanalysed
<1>3. CASE AnswerUnanalysed(m)
  <2>1. CASE Goto(m, "append") /\ UNCHANGED session
    <3>1. Moved(m, "append", t)
        BY <1>1, <2>1, GotoMoves
    <3>2. Hops(m, "append")
        BY <1>2, <2>1, <3>1 DEF Hops, storeVars
    <3>3. QED
        BY <1>1, <3>2
  <2>2. CASE SaveIfChanged(m, Answered(t), "append")
    <3>1. Amends(Answered(t), t)
        BY <1>2, AmendsTyped
    <3>2. Hops(m, "append") \/ Saves(m, "append", Answered(t))
        BY <1>2, <2>2, <3>1, SaveIfChangedKind
    <3>3. QED
        BY <1>1, <3>1, <3>2 DEF Amends
  <2>3. QED
      BY <1>3, <2>1, <2>2 DEF AnswerUnanalysed
<1>4. CASE AnswerAnalysed(m)
  <2>1. PICK f \in Forums \cup {t.forum, NoForum}, clarify \in BOOLEAN :
          LET base == [t EXCEPT !.forum = f]
              s    == IF clarify THEN Asking(base) ELSE Answered(base)
          IN  /\ session' = s
              /\ turn' = [turn EXCEPT ![m].pc = "append", ![m].session = s,
                                      ![m].analysed = TRUE]
      BY <1>4 DEF AnswerAnalysed
  <2> DEFINE base == [t EXCEPT !.forum = f]
             s    == IF clarify THEN Asking(base) ELSE Answered(base)
             next == [turn[m] EXCEPT !.pc = "append", !.session = s, !.analysed = TRUE]
  <2>2. Amends(base, t) /\ base \in SessionSet
    <3>1. Amends(base, t)
        BY <1>2, AmendsTyped
    <3>2. QED
        BY <3>1 DEF Amends
  <2>3. Amends(s, base)
    <3> HIDE DEF base
    <3>1. QED
        BY <2>2, AmendsTyped
  <2>4. Amends(s, t)
      BY <2>2, <2>3 DEF Amends
  <2>5. s \in SessionSet
      BY <2>4 DEF Amends
  <2>6. turn' = [turn EXCEPT ![m] = next] /\ session' = s
      BY <2>1, Types
  <2> HIDE DEF s, base
  <2>7. next \in TurnSet /\ next.pc = "append" /\ next.session = s
      BY <1>1, <2>5, TurnFields DEF TurnSet
  <2> HIDE DEF next
  <2>8. Moved(m, "append", s)
      BY <2>6, <2>7, Types DEF Moved
  <2>9. Saves(m, "append", s)
      BY <1>2, <2>4, <2>6, <2>8 DEF Saves
  <2>10. QED
      BY <1>1, <2>5, <2>9
<1>5. QED
    BY <1>3, <1>4

LEMMA AppendsKind ==
    ASSUME Assumptions, TypeOK, NEW m \in Messages, AppendTurn(m)
    PROVE  Appends(m)
<1>1. "persist" \in AllPc
    BY DEF AllPc, RunningPc
<1>2. Appended(turn[m].session, m) \in SessionSet
    BY TurnFields, AppendedParts
<1>3. Moved(m, "persist", Appended(turn[m].session, m))
    BY <1>1, <1>2, WithMoves DEF AppendTurn, Save
<1>4. QED
    BY <1>3 DEF AppendTurn, Save, Appends

LEMMA FaultCounted ==
    ASSUME Assumptions, TypeOK, Fault
    PROVE  faults' \in 1..MaxFaults
BY Types DEF Fault, Assumptions

LEMMA PersistsKind ==
    ASSUME Assumptions, TypeOK, NEW m \in Messages, PersistTurn(m)
    PROVE  \E q \in AllPc : Persists(m, q) \/ Loses(m, q)
<1> DEFINE q == IF turn[m].analysed THEN "upsert" ELSE "log"
<1>1. q \in {"upsert", "log"} /\ q \in AllPc
    BY DEF AllPc, RunningPc
<1>2. Goto(m, q) /\ turn[m].pc = "persist" /\ UNCHANGED <<lock, session, history>>
    BY DEF PersistTurn
<1> HIDE DEF q
<1>3. Moved(m, q, turn[m].session)
    BY <1>1, <1>2, GotoMoves
<1>4. CASE Persisted(m, turn[m].session) /\ Works
  <2>1. Persists(m, q)
      BY <1>1, <1>2, <1>3, <1>4 DEF Persists, Works
  <2>2. QED
      BY <1>1, <2>1
<1>5. CASE UNCHANGED <<rows, memory>> /\ Fault
  <2>1. Loses(m, q)
      BY <1>1, <1>2, <1>3, <1>5, FaultCounted DEF Loses, storeVars
  <2>2. QED
      BY <1>1, <2>1
<1>6. QED
    BY <1>4, <1>5 DEF PersistTurn

LEMMA UpsertsKind ==
    ASSUME Assumptions, TypeOK, NEW m \in Messages, UpsertMemory(m)
    PROVE  Upserts(m) \/ Loses(m, "log")
<1>1. "log" \in AllPc
    BY DEF AllPc, RunningPc
<1>2. Moved(m, "log", turn[m].session) /\ turn[m].pc = "upsert"
      /\ UNCHANGED <<lock, session, rows, history>>
    BY <1>1, GotoMoves DEF UpsertMemory
<1>3. CASE Upserted(turn[m].session) /\ Works
    BY <1>2, <1>3 DEF Upserts, Works
<1>4. CASE UNCHANGED memory /\ Fault
    BY <1>2, <1>4, FaultCounted DEF Loses, storeVars
<1>5. QED
    BY <1>3, <1>4 DEF UpsertMemory

LEMMA EndsKind ==
    ASSUME Assumptions, TypeOK, NEW m \in Messages, Finish(m) \/ Raise(m) \/ Crash(m)
    PROVE  \E q \in AllPc : Ends(m, q)
<1>1. EndedPc \subseteq AllPc /\ {"done", "failed", "crashed"} \subseteq EndedPc
    BY DEF AllPc, EndedPc
<1>2. CASE Finish(m)
  <2>1. Moved(m, "done", turn[m].session) /\ turn[m].pc = "log"
        /\ UNCHANGED <<storeVars, history>>
      BY <1>1, <1>2, GotoMoves DEF Finish
  <2>2. Running(m)
      BY <2>1 DEF Running, RunningPc
  <2>3. faults' = faults \/ faults' \in 1..MaxFaults
      BY <1>2, FaultCounted DEF Finish, Release, Works
  <2>4. lock' \in {lock, IF lock = m THEN Nobody ELSE lock}
      BY <1>2 DEF Finish, Release
  <2>5. Ends(m, "done")
      BY <1>1, <2>1, <2>2, <2>3, <2>4 DEF Ends
  <2>6. QED
      BY <1>1, <2>5
<1>3. CASE Raise(m)
  <2>1. Moved(m, "failed", turn[m].session)
      BY <1>1, <1>3, GotoMoves DEF Raise
  <2>2. Ends(m, "failed")
      BY <1>1, <1>3, <2>1, FaultCounted DEF Raise, Ends
  <2>3. QED
      BY <1>1, <2>2
<1>4. CASE Crash(m)
  <2>1. Moved(m, "crashed", turn[m].session)
      BY <1>1, <1>4, GotoMoves DEF Crash
  <2>2. Ends(m, "crashed")
      BY <1>1, <1>4, <2>1, FaultCounted DEF Crash, Ends
  <2>3. QED
      BY <1>1, <2>2
<1>5. QED
    BY <1>2, <1>3, <1>4

LEMMA StepKinds ==
    ASSUME Assumptions, TypeOK, Numbered, [Next]_vars
    PROVE  Kinds
<1>1. ASSUME NEW m \in Messages, Acquire(m)
      PROVE  Kinds
    BY <1>1, TakesKind DEF Kinds
<1>2. ASSUME NEW m \in Messages, LockTimeout(m) \/ CheckRate(m)
      PROVE  Kinds
    BY <1>2, HopsKind DEF Kinds
<1>3. ASSUME NEW m \in Messages, GetSession(m)
      PROVE  Kinds
    BY <1>3, GetSessionKind DEF Kinds
<1>4. ASSUME NEW m \in Messages, ReadMemory(m) \/ ReadTurns(m)
      PROVE  Kinds
    BY <1>4, ReadMemoryKind, ReadTurnsKind DEF Kinds
<1>5. ASSUME NEW m \in Messages, SaveRestored(m)
      PROVE  Kinds
    BY <1>5, SaveRestoredKind DEF Kinds
<1>6. ASSUME NEW m \in Messages, Screen(m)
      PROVE  Kinds
    BY <1>6, ScreenKind DEF Kinds
<1>7. ASSUME NEW m \in Messages, AnswerAnalysed(m) \/ AnswerUnanalysed(m)
      PROVE  Kinds
    BY <1>7, AnswerKind DEF Kinds
<1>8. ASSUME NEW m \in Messages, AppendTurn(m)
      PROVE  Kinds
    BY <1>8, AppendsKind DEF Kinds
<1>9. ASSUME NEW m \in Messages, PersistTurn(m)
      PROVE  Kinds
    BY <1>9, PersistsKind DEF Kinds
<1>10. ASSUME NEW m \in Messages, UpsertMemory(m)
       PROVE  Kinds
  <2>1. "log" \in AllPc
      BY DEF AllPc, RunningPc
  <2>2. QED
      BY <1>10, <2>1, UpsertsKind DEF Kinds
<1>11. ASSUME NEW m \in Messages, Finish(m) \/ Raise(m) \/ Crash(m)
       PROVE  Kinds
    BY <1>11, EndsKind DEF Kinds
<1>12. CASE LockExpire \/ SessionExpire \/ UNCHANGED vars
    BY <1>12 DEF Kinds
<1>13. QED
    BY <1>1, <1>2, <1>3, <1>4, <1>5, <1>6, <1>7, <1>8, <1>9, <1>10, <1>11, <1>12
       DEF Next, Step

-----------------------------------------------------------------------------
(* Types, numbers and the order of the history, whatever the lock does.    *)

LEMMA RowTyped ==
    ASSUME TypeOK, NEW m \in Messages, NEW s \in SessionSet, Persisted(m, s)
    PROVE  /\ rows' \in Seq(RowSet) /\ Len(rows') = Len(rows) + 1
           /\ \A i \in DOMAIN rows : rows'[i] = rows[i]
           /\ rows'[Len(rows) + 1].id = Len(rows) + 1
           /\ rows'[Len(rows) + 1].index = s.count
           /\ rows'[Len(rows) + 1].message = m
           /\ DOMAIN rows = 1..Len(rows) /\ Len(rows) \in Nat
           /\ DOMAIN rows' = 1..(Len(rows) + 1)
<1> DEFINE row == [id |-> Len(rows) + 1, index |-> s.count, message |-> m]
<1>1. Len(rows) \in Nat /\ Len(rows) + 1 \in Nat /\ s.count \in Nat /\ rows \in Seq(RowSet)
    BY Types, SessionFields
<1>2. row \in RowSet /\ row.id = Len(rows) + 1 /\ row.index = s.count /\ row.message = m
    BY <1>1 DEF RowSet
<1>3. rows' = Append(rows, row)
    BY DEF Persisted
<1> HIDE DEF row
<1>4. /\ Append(rows, row) \in Seq(RowSet) /\ Len(Append(rows, row)) = Len(rows) + 1
      /\ \A i \in 1..Len(rows) : Append(rows, row)[i] = rows[i]
      /\ Append(rows, row)[Len(rows) + 1] = row
    BY <1>1, <1>2, AppendProperties
<1>5. DOMAIN rows = 1..Len(rows) /\ DOMAIN Append(rows, row) = 1..Len(Append(rows, row))
    BY <1>1, <1>4
<1>6. QED
    BY <1>1, <1>2, <1>3, <1>4, <1>5

LEMMA ContextTyped ==
    ASSUME NEW s \in SessionSet
    PROVE  Context(s) \in ContextSet
BY SessionFields DEF Context, ContextSet

LEMMA PersistedMemory ==
    ASSUME TypeOK, NEW m \in Messages, NEW s \in SessionSet, Persisted(m, s)
    PROVE  /\ memory' \in MemorySet
           /\ memory'.context = Context(s) /\ memory'.summary = s.summary
           /\ memory = NoMemory => memory'.count = s.count
           /\ memory # NoMemory =>
                memory'.count = IF memory.count < s.count THEN s.count ELSE memory.count
<1>1. Context(s) \in ContextSet /\ s.summary \in Seq(Messages) /\ s.count \in Nat
    BY ContextTyped, SessionFields
<1>2. CASE memory = NoMemory
    BY <1>1, <1>2 DEF Persisted, MemorySet
<1>3. CASE memory # NoMemory
  <2> DEFINE n == IF memory.count < s.count THEN s.count ELSE memory.count
  <2>1. memory \in MemorySet
      BY <1>3, Types
  <2>2. n \in Nat
      BY <1>1, <2>1 DEF MemorySet
  <2>3. memory' = [memory EXCEPT !.context = Context(s), !.summary = s.summary, !.count = n]
      BY <1>3, <2>1 DEF Persisted, MemorySet
  <2> HIDE DEF n
  <2>4. /\ memory' \in MemorySet /\ memory'.context = Context(s)
        /\ memory'.summary = s.summary /\ memory'.count = n
      BY <1>1, <2>1, <2>2, <2>3 DEF MemorySet
  <2>5. QED
      BY <1>3, <2>4 DEF n
<1>4. QED
    BY <1>2, <1>3

LEMMA UpsertedMemory ==
    ASSUME TypeOK, NEW s \in SessionSet, Upserted(s)
    PROVE  /\ memory' \in MemorySet /\ memory'.context = Context(s)
           /\ memory = NoMemory => memory'.count = 0
           /\ memory # NoMemory =>
                memory'.count = memory.count /\ memory'.summary = memory.summary
<1>1. Context(s) \in ContextSet /\ s.forum \in Forums \cup {NoForum} /\ <<>> \in Seq(Messages)
    BY ContextTyped, SessionFields
<1>2. CASE memory = NoMemory
    BY <1>1, <1>2 DEF Upserted, MemorySet
<1>3. CASE memory # NoMemory
  <2>1. memory \in MemorySet
      BY <1>3, Types
  <2>2. memory' = [memory EXCEPT !.lastForum = s.forum, !.context = Context(s)]
      BY <1>3 DEF Upserted
  <2>3. QED
      BY <1>1, <1>3, <2>1, <2>2 DEF MemorySet
<1>4. QED
    BY <1>2, <1>3

LEMMA TypeStep ==
    ASSUME Assumptions, TypeOK, Kinds
    PROVE  TypeOK'
<1> DEFINE Store == /\ session' \in SessionSet \cup {NoSession}
                    /\ rows' \in Seq(RowSet)
                    /\ memory' \in MemorySet \cup {NoMemory}
           Rest == /\ lock' \in Messages \cup {Nobody}
                   /\ turn' \in [Messages -> TurnSet]
                   /\ faults' \in 0..MaxFaults
                   /\ history' \in Seq(Messages)
<1>1. ASSUME NEW m \in Messages, Takes(m)
      PROVE  Store /\ Rest
    BY <1>1, Types DEF Takes, Moved, storeVars
<1>2. ASSUME NEW m \in Messages, Appends(m)
      PROVE  Store /\ Rest
  <2>1. Appended(turn[m].session, m) \in SessionSet
      BY TurnFields, AppendedParts
  <2>2. Append(history, m) \in Seq(Messages)
      BY Types, AppendParts
  <2>3. QED
      BY <1>2, <2>1, <2>2, Types DEF Appends, Moved
<1>3. ASSUME NEW m \in Messages, Upserts(m)
      PROVE  Store /\ Rest
    BY <1>3, Types, TurnFields, UpsertedMemory DEF Upserts, Moved
<1>4. ASSUME NEW m \in Messages, NEW q \in AllPc, Hops(m, q)
      PROVE  Store /\ Rest
    BY <1>4, Types DEF Hops, Moved, storeVars
<1>5. ASSUME NEW m \in Messages, NEW q \in AllPc, Persists(m, q)
      PROVE  Store /\ Rest
  <2>1. rows' \in Seq(RowSet) /\ memory' \in MemorySet
      BY <1>5, TurnFields, RowTyped, PersistedMemory DEF Persists
  <2>2. QED
      BY <1>5, <2>1, Types DEF Persists, Moved
<1>6. ASSUME NEW m \in Messages, NEW q \in AllPc, Loses(m, q)
      PROVE  Store /\ Rest
    BY <1>6, Types DEF Loses, Moved, storeVars, Assumptions
<1>7. ASSUME NEW m \in Messages, NEW q \in AllPc, Ends(m, q)
      PROVE  Store /\ Rest
  <2>1. lock' \in Messages \cup {Nobody}
      BY <1>7, Types DEF Ends
  <2>2. faults' \in 0..MaxFaults
      BY <1>7, Types DEF Ends, Assumptions
  <2>3. QED
      BY <1>7, <2>1, <2>2, Types DEF Ends, Moved, storeVars
<1>8. ASSUME NEW m \in Messages, NEW q \in AllPc, NEW s \in SessionSet, Loads(m, q, s)
      PROVE  Store /\ Rest
  <2>1. Moved(m, q, s) /\ UNCHANGED <<lock, storeVars, faults, history>>
      BY <1>8 DEF Loads
  <2>2. QED
      BY <2>1, Types DEF Moved, storeVars
<1>9. ASSUME NEW m \in Messages, NEW q \in AllPc, NEW s \in SessionSet, Saves(m, q, s)
      PROVE  Store /\ Rest
    BY <1>9, Types DEF Saves, Moved
<1>10. ASSUME LockExpire \/ SessionExpire \/ UNCHANGED vars
       PROVE  Store /\ Rest
    BY <1>10, Types DEF LockExpire, SessionExpire, vars, storeVars
<1>11. Store /\ Rest
    BY <1>1, <1>2, <1>3, <1>4, <1>5, <1>6, <1>7, <1>8, <1>9, <1>10 DEF Kinds
<1>12. QED
    BY <1>11 DEF TypeOK, RowSet, TurnSet, AllPc

LEMMA RowsMove ==
    ASSUME Kinds
    PROVE  rows' = rows \/ \E m \in Messages, q \in AllPc : Persists(m, q)
BY DEF Kinds, Takes, Appends, Upserts, Hops, Loses, Ends, Loads, Saves, LockExpire, SessionExpire,
       vars, storeVars

LEMMA HistoryMove ==
    ASSUME Kinds
    PROVE  history' = history \/ \E m \in Messages : Appends(m)
BY DEF Kinds, Takes, Upserts, Hops, Loses, Ends, Loads, Saves, Persists, LockExpire,
       SessionExpire, vars, storeVars

LEMMA HadStays ==
    ASSUME Kinds, NEW n \in Messages, turn[n].pc \in HadPc
    PROVE  turn'[n].pc \in HadPc
<1>1. ASSUME NEW m \in Messages, NEW q, NEW s, Moved(m, q, s),
             turn[m].pc \in HadPc => q \in HadPc
      PROVE  turn'[n].pc \in HadPc
    BY <1>1 DEF Moved
<1>2. {"persist", "upsert", "log"} \subseteq HadPc /\ EndedPc \subseteq HadPc
    BY DEF HadPc
<1>3. ASSUME NEW m \in Messages, Takes(m) \/ Appends(m) \/ Upserts(m)
      PROVE  turn'[n].pc \in HadPc
    BY <1>1, <1>3 DEF Takes, Appends, Upserts, HadPc, EndedPc
<1>4. ASSUME NEW m \in Messages, NEW q \in AllPc, Hops(m, q)
      PROVE  turn'[n].pc \in HadPc
  <2>1. turn[m].pc \notin HadPc
      BY <1>4 DEF Hops, HadPc, EndedPc
  <2>2. QED
      BY <1>1, <1>4, <2>1 DEF Hops
<1>5. ASSUME NEW m \in Messages, NEW q \in AllPc, Persists(m, q) \/ Loses(m, q) \/ Ends(m, q)
      PROVE  turn'[n].pc \in HadPc
  <2>1. q \in HadPc
      BY <1>2, <1>5 DEF Persists, Loses, Ends
  <2>2. QED
      BY <1>1, <1>5, <2>1 DEF Persists, Loses, Ends
<1>6. ASSUME NEW m \in Messages, NEW q \in AllPc, NEW s \in SessionSet,
             Loads(m, q, s) \/ Saves(m, q, s)
      PROVE  turn'[n].pc \in HadPc
  <2>1. turn[m].pc \notin HadPc
      BY <1>6 DEF Loads, Saves, HadPc, EndedPc
  <2>2. QED
      BY <1>1, <1>6, <2>1 DEF Loads, Saves
<1>7. CASE LockExpire \/ SessionExpire \/ UNCHANGED vars
    BY <1>7 DEF LockExpire, SessionExpire, vars
<1>8. QED
    BY <1>3, <1>4, <1>5, <1>6, <1>7 DEF Kinds

LEMMA NumberedStep ==
    ASSUME TypeOK, Numbered, Kinds
    PROVE  Numbered'
<1>1. CASE rows' = rows
    BY <1>1 DEF Numbered
<1>2. ASSUME NEW m \in Messages, NEW q \in AllPc, Persists(m, q)
      PROVE  Numbered'
  <2>1. turn[m].session \in SessionSet /\ Persisted(m, turn[m].session)
      BY <1>2, TurnFields DEF Persists
  <2>2. /\ \A i \in DOMAIN rows : rows'[i] = rows[i]
        /\ rows'[Len(rows) + 1].id = Len(rows) + 1
        /\ DOMAIN rows = 1..Len(rows) /\ Len(rows) \in Nat
        /\ DOMAIN rows' = 1..(Len(rows) + 1)
      BY <2>1, RowTyped
  <2>3. QED
      BY <2>2 DEF Numbered
<1>3. QED
    BY <1>1, <1>2, RowsMove

LEMMA HistoryAppended ==
    ASSUME TypeOK, NEW m \in Messages, Appends(m)
    PROVE  /\ history' \in Seq(Messages) /\ Len(history') = Len(history) + 1
           /\ \A i \in DOMAIN history : history'[i] = history[i]
           /\ history'[Len(history) + 1] = m
           /\ DOMAIN history = 1..Len(history) /\ Len(history) \in Nat
           /\ DOMAIN history' = 1..(Len(history) + 1)
<1>1. history \in Seq(Messages) /\ history' = Append(history, m)
    BY Types DEF Appends
<1>2. /\ Append(history, m) \in Seq(Messages) /\ Len(Append(history, m)) = Len(history) + 1
      /\ \A i \in 1..Len(history) : Append(history, m)[i] = history[i]
      /\ Append(history, m)[Len(history) + 1] = m
    BY <1>1, AppendParts
<1>3. DOMAIN history = 1..Len(history) /\ Len(history) \in Nat
    BY <1>1
<1>4. DOMAIN Append(history, m) = 1..Len(Append(history, m))
    BY <1>2
<1>5. QED
    BY <1>1, <1>2, <1>3, <1>4

LEMMA NotHadYet ==
    ASSUME Once, NEW m \in Messages, turn[m].pc = "append"
    PROVE  \A i \in DOMAIN history : history[i] # m
<1>1. "append" \notin HadPc
    BY DEF HadPc, EndedPc
<1>2. QED
    BY <1>1 DEF Once

LEMMA OnceStep ==
    ASSUME TypeOK, Once, Kinds
    PROVE  Once'
<1>1. CASE history' = history
  <2>1. \A i \in DOMAIN history : history[i] \in Messages
      BY Types
  <2>2. QED
      BY <1>1, <2>1, HadStays DEF Once
<1>2. ASSUME NEW m \in Messages, Appends(m)
      PROVE  Once'
  <2>1. \A i \in DOMAIN history : history[i] # m /\ history[i] \in Messages
      BY <1>2, Types, NotHadYet DEF Appends
  <2>2. /\ \A i \in DOMAIN history : history'[i] = history[i]
        /\ history'[Len(history) + 1] = m
        /\ DOMAIN history = 1..Len(history) /\ Len(history) \in Nat
        /\ DOMAIN history' = 1..(Len(history) + 1)
      BY <1>2, HistoryAppended
  <2>3. turn'[m].pc \in HadPc
      BY <1>2 DEF Appends, Moved, HadPc
  <2>4. ASSUME NEW i \in DOMAIN history'
        PROVE  turn'[history'[i]].pc \in HadPc
      BY <2>1, <2>2, <2>3, HadStays DEF Once
  <2>5. ASSUME NEW i \in DOMAIN history', NEW j \in DOMAIN history', history'[i] = history'[j]
        PROVE  i = j
      BY <2>1, <2>2, <2>5 DEF Once
  <2>6. QED
      BY <2>4, <2>5 DEF Once
<1>3. QED
    BY <1>1, <1>2, HistoryMove

\* The tail of such messages, and what the rows restore.
LEMMA GoodTail ==
    ASSUME NEW h, NEW q \in Seq(Messages), NEW n \in Nat, GoodIn(q, h)
    PROVE  GoodIn(Newest(q, n), h)
<1> DEFINE t == Newest(q, n)
           k == Len(Evicted(q, n))
<1>1. /\ t \in Seq(Messages) /\ k \in Nat /\ Len(t) \in Nat /\ k + Len(t) = Len(q)
      /\ \A i \in 1..Len(t) : t[i] = q[k + i]
    BY TailParts
<1> HIDE DEF t, k
<1>2. \A i \in DOMAIN t : k + i \in DOMAIN q /\ t[i] = q[k + i] /\ i \in Nat
    BY <1>1
<1>3. \A i \in DOMAIN t : HadIn(t[i], h)
    BY <1>2 DEF GoodIn
<1>4. ASSUME NEW i \in DOMAIN t, NEW j \in DOMAIN t, t[i] = t[j]
      PROVE  i = j
  <2>1. k + i = k + j
      BY <1>2, <1>4 DEF GoodIn
  <2>2. QED
      BY <1>1, <1>2, <2>1
<1>5. GoodIn(t, h)
    BY <1>3, <1>4 DEF GoodIn
<1>6. QED
    BY <1>5 DEF t

LEMMA RecentGood ==
    ASSUME Assumptions, TypeOK, Numbered, RowsGood
    PROVE  GoodIn(RecentTurns, history)
<1> DEFINE q == [k \in DOMAIN rows |-> rows[RowAt(k)].message]
<1>1. rows \in Seq(RowSet)
    BY Types
<1>2. \A k \in DOMAIN rows :
        RowAt(k) \in DOMAIN rows /\ Cardinality(RowsBefore(RowAt(k))) = k - 1
    BY <1>1, RowAtEvery
<1>3. \A k \in DOMAIN rows : rows[RowAt(k)].message \in Messages
    BY <1>1, <1>2, RowFields
<1>4. q \in [1..Len(rows) -> Messages] /\ Len(rows) \in Nat /\ DOMAIN rows = 1..Len(rows)
    BY <1>1, <1>3
<1>5. DOMAIN q = DOMAIN rows /\ \A k \in DOMAIN rows : q[k] = rows[RowAt(k)].message
    OBVIOUS
<1> HIDE DEF q
<1>6. q \in Seq(Messages)
    BY <1>4
<1>7. \A k \in DOMAIN q : HadIn(q[k], history)
    BY <1>2, <1>5 DEF RowsGood
<1>8. ASSUME NEW k \in DOMAIN q, NEW l \in DOMAIN q, q[k] = q[l]
      PROVE  k = l
  <2>1. RowAt(k) = RowAt(l)
      BY <1>2, <1>5, <1>8 DEF RowsGood
  <2>2. k - 1 = l - 1
      BY <1>2, <1>5, <2>1
  <2>3. QED
      BY <1>4, <1>5, <2>2
<1>9. GoodIn(q, history)
    BY <1>7, <1>8 DEF GoodIn
<1>10. GoodIn(Newest(q, Recent), history)
    BY <1>6, <1>9, GoodTail DEF Assumptions
<1>11. QED
    BY <1>10 DEF RecentTurns, q

\* What was had stays so.
LEMMA HadGrows ==
    ASSUME TypeOK, Kinds
    PROVE  /\ \A m : HadIn(m, history) => HadIn(m, history')
           /\ \A q : GoodIn(q, history) => GoodIn(q, history')
<1>1. ASSUME NEW m, HadIn(m, history)
      PROVE  HadIn(m, history')
  <2>1. PICK a \in DOMAIN history : history[a] = m
      BY <1>1 DEF HadIn
  <2>2. CASE history' = history
      BY <1>1, <2>2
  <2>3. ASSUME NEW n \in Messages, Appends(n)
        PROVE  HadIn(m, history')
    <3>1. a \in DOMAIN history' /\ history'[a] = m
        BY <2>1, <2>3, HistoryAppended
    <3>2. QED
        BY <3>1 DEF HadIn
  <2>4. QED
      BY <2>2, <2>3, HistoryMove
<1>2. QED
    BY <1>1 DEF GoodIn

\* The rows stay good while no turn goes back.
LEMMA RowsGoodKept ==
    ASSUME TypeOK, Kinds, RowsGood, UNCHANGED rows
    PROVE  RowsGood'
<1>1. \A i \in DOMAIN rows : rows[i].message \in Messages
    BY Types, RowFields
<1>2. ASSUME NEW n \in Messages, turn[n].pc \in WrittenPc
      PROVE  turn'[n].pc \in WrittenPc
  <2>1. ASSUME NEW m \in Messages, NEW q, NEW s, Moved(m, q, s),
               turn[m].pc \in WrittenPc => q \in WrittenPc
        PROVE  turn'[n].pc \in WrittenPc
      BY <1>2, <2>1 DEF Moved
  <2>2. ASSUME NEW m \in Messages, Takes(m) \/ Appends(m) \/ Upserts(m)
        PROVE  turn'[n].pc \in WrittenPc
      BY <2>1, <2>2 DEF Takes, Appends, Upserts, WrittenPc, EndedPc
  <2>3. ASSUME NEW m \in Messages, NEW q \in AllPc, Hops(m, q)
        PROVE  turn'[n].pc \in WrittenPc
    <3>1. turn[m].pc \notin WrittenPc
        BY <2>3 DEF Hops, WrittenPc, EndedPc
    <3>2. QED
        BY <2>1, <2>3, <3>1 DEF Hops
  <2>4. ASSUME NEW m \in Messages, NEW q \in AllPc, Persists(m, q) \/ Loses(m, q) \/ Ends(m, q)
        PROVE  turn'[n].pc \in WrittenPc
    <3>1. q \in WrittenPc
        BY <2>4 DEF Persists, Loses, Ends, WrittenPc
    <3>2. QED
        BY <2>1, <2>4, <3>1 DEF Persists, Loses, Ends
  <2>5. ASSUME NEW m \in Messages, NEW q \in AllPc, NEW s \in SessionSet,
               Loads(m, q, s) \/ Saves(m, q, s)
        PROVE  turn'[n].pc \in WrittenPc
    <3>1. turn[m].pc \notin WrittenPc
        BY <2>5 DEF Loads, Saves, WrittenPc, EndedPc
    <3>2. QED
        BY <2>1, <2>5, <3>1 DEF Loads, Saves
  <2>6. CASE LockExpire \/ SessionExpire \/ UNCHANGED vars
      BY <1>2, <2>6 DEF LockExpire, SessionExpire, vars
  <2>7. QED
      BY <2>2, <2>3, <2>4, <2>5, <2>6 DEF Kinds
<1>3. QED
    BY <1>1, <1>2, HadGrows DEF RowsGood

\* A turn that moves with a good session at hand.
LEMMA ShownMoves ==
    ASSUME TypeOK, Kinds, Shown, NEW m \in Messages, NEW q \in AllPc, NEW s \in SessionSet,
           Moved(m, q, s), RowsGood',
           q \in LoadedPc => GoodIn(s.recent, history'),
           q = "persist" => HadIn(m, history'),
           session' # NoSession => session' = session \/ GoodIn(session'.recent, history')
    PROVE  Shown'
<1>1. session' # NoSession => GoodIn(session'.recent, history')
    BY HadGrows DEF Shown
<1>2. ASSUME NEW n \in Messages
      PROVE  /\ turn'[n].pc \in LoadedPc => GoodIn(turn'[n].session.recent, history')
             /\ turn'[n].pc = "persist" => HadIn(n, history')
  <2>1. CASE n = m
      BY <2>1 DEF Moved
  <2>2. CASE n # m
    <3>1. turn'[n] = turn[n]
        BY <2>2 DEF Moved
    <3>2. QED
        BY <3>1, HadGrows DEF Shown
  <2>3. QED
      BY <2>1, <2>2
<1>3. QED
    BY <1>1, <1>2 DEF Shown

LEMMA ShownAppends ==
    ASSUME Assumptions, TypeOK, Once, Kinds, Shown, NEW m \in Messages, Appends(m)
    PROVE  Shown'
<1> DEFINE s == turn[m].session
           t == Append(s.recent, m)
<1>1. /\ turn[m].pc = "append" /\ "append" \in LoadedPc /\ "persist" \in AllPc
      /\ s \in SessionSet /\ s.recent \in Seq(Messages) /\ Len(s.recent) \in Nat
      /\ session' = Appended(s, m) /\ rows' = rows /\ Moved(m, "persist", Appended(s, m))
    BY TurnFields, SessionFields DEF Appends, LoadedPc, AllPc, RunningPc
<1>2. GoodIn(s.recent, history) /\ GoodIn(s.recent, history')
    BY <1>1, HadGrows DEF Shown
<1>3. HadIn(m, history') /\ ~HadIn(m, history)
  <2>1. /\ history'[Len(history) + 1] = m /\ Len(history) + 1 \in DOMAIN history'
      BY HistoryAppended
  <2>2. QED
      BY <1>1, <2>1, NotHadYet DEF HadIn
<1>4. /\ t \in Seq(Messages) /\ t[Len(s.recent) + 1] = m
      /\ \A i \in 1..Len(s.recent) : t[i] = s.recent[i]
      /\ DOMAIN t = 1..(Len(s.recent) + 1) /\ DOMAIN s.recent = 1..Len(s.recent)
  <2>1. t \in Seq(Messages) /\ Len(t) = Len(s.recent) + 1 /\ t[Len(s.recent) + 1] = m
        /\ \A i \in 1..Len(s.recent) : t[i] = s.recent[i]
      BY <1>1, AppendParts
  <2> HIDE DEF t
  <2>2. QED
      BY <1>1, <2>1
<1> HIDE DEF s, t
<1>5. GoodIn(t, history')
  <2> DEFINE k == Len(s.recent)
             b == s.recent
  <2>1. /\ k \in Nat /\ DOMAIN t = 1..(k + 1) /\ DOMAIN b = 1..k /\ t[k + 1] = m
        /\ \A i \in 1..k : t[i] = b[i]
      BY <1>1, <1>4
  <2>2. \A i \in DOMAIN t : i \in DOMAIN b \/ i = k + 1
      BY <2>1
  <2>3. \A i \in DOMAIN b : b[i] # m /\ HadIn(b[i], history')
      BY <1>2, <1>3 DEF GoodIn
  <2> HIDE DEF k, b
  <2>4. \A i \in DOMAIN t : HadIn(t[i], history')
      BY <1>3, <2>1, <2>2, <2>3
  <2>5. \A i, j \in DOMAIN b : b[i] = b[j] => i = j
      BY <1>2 DEF GoodIn, b
  <2>6. ASSUME NEW i \in DOMAIN t, NEW j \in DOMAIN t, t[i] = t[j]
        PROVE  i = j
      BY <2>1, <2>2, <2>3, <2>5, <2>6
  <2>7. QED
      BY <2>4, <2>6 DEF GoodIn
<1>6. Appended(s, m) \in SessionSet /\ Appended(s, m).recent = Newest(t, Recent)
    BY <1>1, AppendedParts DEF t
<1>7. GoodIn(Appended(s, m).recent, history')
    BY <1>4, <1>5, <1>6, GoodTail DEF Assumptions
<1>8. RowsGood'
    BY <1>1, RowsGoodKept DEF Shown
<1>9. QED
    BY <1>1, <1>3, <1>6, <1>7, <1>8, ShownMoves

LEMMA ShownPersists ==
    ASSUME TypeOK, Kinds, Shown, NEW m \in Messages, NEW q \in AllPc, Persists(m, q)
    PROVE  Shown'
<1> DEFINE s == turn[m].session
<1>1. /\ turn[m].pc = "persist" /\ "persist" \in LoadedPc /\ q \in WrittenPc
      /\ s \in SessionSet /\ Persisted(m, s) /\ Moved(m, q, s)
      /\ session' = session /\ history' = history /\ q # "persist"
    BY TurnFields DEF Persists, LoadedPc, WrittenPc
<1>2. GoodIn(s.recent, history) /\ HadIn(m, history)
    BY <1>1 DEF Shown
<1>3. /\ \A i \in DOMAIN rows : rows'[i] = rows[i]
      /\ rows'[Len(rows) + 1].message = m
      /\ DOMAIN rows = 1..Len(rows) /\ Len(rows) \in Nat
      /\ DOMAIN rows' = 1..(Len(rows) + 1)
    BY <1>1, RowTyped
<1>4. \A i \in DOMAIN rows : rows[i].message \in Messages /\ rows[i].message # m
  <2>1. "persist" \notin WrittenPc
      BY DEF WrittenPc, EndedPc
  <2>2. QED
      BY <1>1, <2>1, Types, RowFields DEF Shown, RowsGood
<1> HIDE DEF s
<1>5. RowsGood'
  <2>1. ASSUME NEW i \in DOMAIN rows', NEW j \in DOMAIN rows',
               rows'[i].message = rows'[j].message
        PROVE  i = j
      BY <1>3, <1>4, <2>1 DEF Shown, RowsGood
  <2>2. ASSUME NEW i \in DOMAIN rows'
        PROVE  HadIn(rows'[i].message, history') /\ turn'[rows'[i].message].pc \in WrittenPc
    <3>1. CASE i \in DOMAIN rows
      <4>1. rows'[i] = rows[i] /\ turn'[rows[i].message] = turn[rows[i].message]
          BY <1>1, <1>3, <1>4, <3>1 DEF Moved
      <4>2. QED
          BY <1>1, <3>1, <4>1 DEF Shown, RowsGood
    <3>2. CASE i = Len(rows) + 1
        BY <1>1, <1>2, <1>3, <3>2 DEF Moved
    <3>3. QED
        BY <1>3, <3>1, <3>2
  <2>3. QED
      BY <2>1, <2>2 DEF RowsGood
<1>6. QED
    BY <1>1, <1>2, <1>5, ShownMoves

LEMMA ShownLoads ==
    ASSUME Assumptions, TypeOK, Numbered, Kinds, Shown, NEW m \in Messages, NEW q \in AllPc,
           NEW s \in SessionSet, Loads(m, q, s)
    PROVE  Shown'
<1>1. Moved(m, q, s) /\ UNCHANGED <<session, rows, history>> /\ q # "persist"
    BY DEF Loads, storeVars
<1>2. RowsGood'
    BY <1>1, RowsGoodKept DEF Shown
<1>3. q \in LoadedPc => GoodIn(s.recent, history)
  <2>1. CASE session # NoSession /\ s = session
      BY <2>1 DEF Shown
  <2>2. CASE s = Fresh
    <3>1. s.recent = <<>>
        BY <2>2 DEF Fresh
    <3>2. QED
        BY <3>1 DEF GoodIn
  <2>3. CASE q = "turns"
      BY <2>3 DEF LoadedPc
  <2>4. CASE s = [turn[m].session EXCEPT !.recent = RecentTurns]
    <3>1. turn[m].session \in SessionSet
        BY TurnFields
    <3>2. s.recent = RecentTurns
        BY <2>4, <3>1 DEF SessionSet
    <3>3. QED
        BY <3>2, RecentGood DEF Shown
  <2>5. QED
      BY <2>1, <2>2, <2>3, <2>4 DEF Loads
<1>4. QED
    BY <1>1, <1>2, <1>3, ShownMoves

\* Every step keeps what is shown good, whatever the lock does.
LEMMA ShownStep ==
    ASSUME Assumptions, TypeOK, Numbered, Once, Shown, Kinds
    PROVE  Shown'
<1>1. rows' = rows => RowsGood'
    BY RowsGoodKept DEF Shown
<1>2. ASSUME NEW m \in Messages, Takes(m) \/ Upserts(m)
      PROVE  Shown'
  <2>1. PICK q \in {"rate", "log"} : Moved(m, q, turn[m].session)
      BY <1>2 DEF Takes, Upserts
  <2>2. /\ q \notin LoadedPc /\ q # "persist" /\ q \in AllPc
        /\ UNCHANGED <<session, rows, history>> /\ turn[m].session \in SessionSet
      BY <1>2, TurnFields DEF Takes, Upserts, storeVars, LoadedPc, AllPc, RunningPc
  <2>3. QED
      BY <1>1, <2>1, <2>2, ShownMoves
<1>3. ASSUME NEW m \in Messages, NEW q \in AllPc, Hops(m, q) \/ Loses(m, q) \/ Ends(m, q)
      PROVE  Shown'
  <2>1. /\ Moved(m, q, turn[m].session) /\ turn[m].session \in SessionSet /\ q # "persist"
        /\ UNCHANGED <<session, rows, history>>
        /\ q \in LoadedPc => turn[m].pc \in LoadedPc
      BY <1>3, TurnFields DEF Hops, Loses, Ends, storeVars, LoadedPc, EndedPc
  <2>2. QED
      BY <1>1, <2>1, ShownMoves DEF Shown
<1>4. ASSUME NEW m \in Messages, NEW q \in AllPc, NEW s \in SessionSet, Saves(m, q, s)
      PROVE  Shown'
  <2>1. /\ Moved(m, q, s) /\ q # "persist" /\ session' = s /\ UNCHANGED <<rows, history>>
        /\ s.recent = turn[m].session.recent /\ turn[m].pc \in LoadedPc
      BY <1>4 DEF Saves, Amends, LoadedPc
  <2>2. GoodIn(s.recent, history')
      BY <2>1 DEF Shown
  <2>3. QED
      BY <1>1, <2>1, <2>2, ShownMoves
<1>5. ASSUME LockExpire \/ SessionExpire \/ UNCHANGED vars
      PROVE  Shown'
  <2>1. /\ UNCHANGED <<rows, turn, history>>
        /\ session' = session \/ session' = NoSession
      BY <1>5 DEF LockExpire, SessionExpire, vars, storeVars
  <2>2. QED
      BY <1>1, <2>1 DEF Shown
<1>6. QED
    BY <1>2, <1>3, <1>4, <1>5, ShownAppends, ShownPersists, ShownLoads DEF Kinds

Base == TypeOK /\ Numbered /\ Once /\ Shown

LEMMA BaseInit ==
    ASSUME Assumptions, Init
    PROVE  Base
<1>1. Fresh \in SessionSet /\ <<>> \in Seq(RowSet) /\ <<>> \in Seq(Messages)
    BY FreshTyped
<1>2. "waiting" \in AllPc /\ 0 \in 0..MaxFaults
    BY DEF AllPc, Assumptions
<1>3. turn \in [Messages -> TurnSet]
  <2>1. [pc |-> "waiting", session |-> Fresh, analysed |-> FALSE] \in TurnSet
      BY <1>1, <1>2 DEF TurnSet
  <2>2. QED
      BY <2>1 DEF Init
<1>4. TypeOK
    BY <1>1, <1>2, <1>3 DEF Init, TypeOK, RowSet, TurnSet, AllPc
<1>5. DOMAIN rows = {} /\ DOMAIN history = {}
    BY DEF Init
<1>6. Numbered /\ Once
    BY <1>5 DEF Numbered, Once
<1>7. Shown
  <2>1. "waiting" \notin LoadedPc
      BY DEF LoadedPc
  <2>2. QED
      BY <1>5, <2>1 DEF Init, Shown, RowsGood
<1>8. QED
    BY <1>4, <1>6, <1>7 DEF Base

LEMMA BaseStep ==
    ASSUME Assumptions, Base, [Next]_vars
    PROVE  Kinds /\ Base'
<1>1. Kinds
    BY StepKinds DEF Base
<1>2. QED
    BY <1>1, TypeStep, NumberedStep, OnceStep, ShownStep DEF Base

\* Every variable has its type, for any messages, events, length of the tail and faults, also
\* when turns outlive the lock and interleave at every await (manager.py; memory.py).
THEOREM TypeCorrect ==
    ASSUME Assumptions
    PROVE  Spec => []TypeOK
<1>1. Init => Base
    BY BaseInit
<1>2. Base /\ [Next]_vars => Base'
    BY BaseStep
<1>3. Base => TypeOK
    BY DEF Base
<1>4. QED
    BY <1>1, <1>2, <1>3, PTL DEF Spec

-----------------------------------------------------------------------------
(* The lock.                                                               *)

\* A step that moves the turn of m moves no other, and takes the lock from nobody but m.
LEMMA LockMove ==
    ASSUME Kinds
    PROVE  \/ UNCHANGED <<lock, turn>>
           \/ LockExpire
           \/ \E m \in Messages : Takes(m)
           \/ \E m \in Messages, q \in AllPc : Hops(m, q)
           \/ \E m \in Messages, q \in AllPc : Ends(m, q)
           \/ \E m \in Messages : /\ Running(m) /\ turn'[m].pc \in RunningPc
                                 /\ lock' = lock
                                 /\ \A n \in Messages \ {m} : turn'[n] = turn[n]
<1>1. ASSUME NEW m \in Messages, Appends(m) \/ Upserts(m)
      PROVE  /\ Running(m) /\ turn'[m].pc \in RunningPc /\ lock' = lock
             /\ \A n \in Messages \ {m} : turn'[n] = turn[n]
    BY <1>1 DEF Appends, Upserts, Running, RunningPc, Moved
<1>2. ASSUME NEW m \in Messages, NEW q \in AllPc, Persists(m, q) \/ Loses(m, q)
      PROVE  /\ Running(m) /\ turn'[m].pc \in RunningPc /\ lock' = lock
             /\ \A n \in Messages \ {m} : turn'[n] = turn[n]
    BY <1>2 DEF Persists, Loses, Running, RunningPc, Moved, storeVars
<1>3. ASSUME NEW m \in Messages, NEW q \in AllPc, NEW s \in SessionSet,
             Loads(m, q, s) \/ Saves(m, q, s)
      PROVE  /\ Running(m) /\ turn'[m].pc \in RunningPc /\ lock' = lock
             /\ \A n \in Messages \ {m} : turn'[n] = turn[n]
    BY <1>3 DEF Loads, Saves, Running, RunningPc, Moved, storeVars
<1>4. CASE SessionExpire \/ UNCHANGED vars
    BY <1>4 DEF SessionExpire, vars
<1>5. QED
    BY <1>1, <1>2, <1>3, <1>4 DEF Kinds

LEMMA HoldsStep ==
    ASSUME Assumptions, LeaseOutlivesTurn, TypeOK, Holds, Kinds
    PROVE  Holds'
<1>1. RunningPc \cap EndedPc = {} /\ "waiting" \notin RunningPc /\ "rate" \in RunningPc
      /\ "failed" \notin RunningPc /\ Nobody \notin Messages
    BY DEF RunningPc, EndedPc, Assumptions
<1>2. CASE UNCHANGED <<lock, turn>>
    BY <1>2 DEF Holds, Running
<1>3. CASE LockExpire
  <2>1. lock \in Messages /\ Ended(lock) /\ turn' = turn
      BY <1>3, Types DEF LockExpire
  <2>2. ASSUME NEW n \in Messages, Running(n)
        PROVE  FALSE
      BY <1>1, <2>1, <2>2 DEF Holds, Running, Ended
  <2>3. QED
      BY <2>1, <2>2 DEF Holds, Running
<1>4. ASSUME NEW m \in Messages, Takes(m)
      PROVE  Holds'
  <2>1. \A n \in Messages : ~Running(n)
      BY <1>1, <1>4 DEF Holds, Takes
  <2>2. QED
      BY <1>4, <2>1 DEF Holds, Takes, Running, Moved
<1>5. ASSUME NEW m \in Messages, NEW q \in AllPc, Hops(m, q)
      PROVE  Holds'
  <2>1. \A n \in Messages : turn'[n].pc \in RunningPc => turn[n].pc \in RunningPc
      BY <1>1, <1>5 DEF Hops, Moved, RunningPc
  <2>2. QED
      BY <1>5, <2>1 DEF Holds, Running, Hops
<1>6. ASSUME NEW m \in Messages, NEW q \in AllPc, Ends(m, q)
      PROVE  Holds'
  <2>1. lock = m /\ turn'[m].pc \notin RunningPc
      BY <1>1, <1>6 DEF Ends, Moved, Holds
  <2>2. \A n \in Messages : ~(turn'[n].pc \in RunningPc)
      BY <1>6, <2>1 DEF Ends, Moved, Holds, Running
  <2>3. QED
      BY <2>2 DEF Holds, Running
<1>7. ASSUME NEW m \in Messages, Running(m), turn'[m].pc \in RunningPc, lock' = lock,
             \A n \in Messages \ {m} : turn'[n] = turn[n]
      PROVE  Holds'
    BY <1>7 DEF Holds, Running
<1>8. QED
    BY <1>2, <1>3, <1>4, <1>5, <1>6, <1>7, LockMove

LEMMA Fenced ==
    ASSUME Assumptions, Kinds
    PROVE  FencedRelease
<1> SUFFICES ASSUME NEW m \in Messages, Running(m), lock = m, lock' # m, turn'[m] = turn[m]
             PROVE  turn' = turn
    BY DEF FencedRelease
<1>1. Nobody \notin Messages /\ RunningPc \cap EndedPc = {}
    BY DEF Assumptions, RunningPc, EndedPc
<1>2. ASSUME NEW n \in Messages, NEW q \in AllPc, Ends(n, q)
      PROVE  FALSE
  <2>1. n = m
      BY <1>2 DEF Ends
  <2>2. turn'[m].pc \in EndedPc
      BY <1>2, <2>1 DEF Ends, Moved
  <2>3. QED
      BY <1>1, <2>2 DEF Running
<1>3. ASSUME NEW n \in Messages, Takes(n)
      PROVE  FALSE
    BY <1>1, <1>3 DEF Takes
<1>4. ASSUME NEW n \in Messages, NEW q \in AllPc, Hops(n, q)
      PROVE  FALSE
    BY <1>4 DEF Hops
<1>5. CASE LockExpire
    BY <1>5 DEF LockExpire
<1>6. QED
    BY <1>2, <1>3, <1>4, <1>5, LockMove

\* While turns end within the TTL of the lock no two run at once, and whether they do or not a
\* turn that has outlived its lease does not release the lock of another, for any messages and
\* faults (manager.py, _distributed_lock).
THEOREM LockHeld ==
    ASSUME Assumptions
    PROVE  Spec => LockHolds
<1>1. Init => Base
    BY BaseInit
<1>2. Base /\ [Next]_vars => Base'
    BY BaseStep
<1>3. Base /\ [Next]_vars => FencedRelease
    BY BaseStep, Fenced
<1>4. Init => (LeaseOutlivesTurn => Holds)
    BY DEF Init, Holds, Running, RunningPc
<1>5. Base /\ (LeaseOutlivesTurn => Holds) /\ [Next]_vars => (LeaseOutlivesTurn => Holds)'
    BY BaseStep, HoldsStep DEF Base
<1>6. (LeaseOutlivesTurn => Holds) => (LeaseOutlivesTurn => SerializedTurn)
    BY DEF Holds, SerializedTurn
<1>7. QED
    BY <1>1, <1>2, <1>3, <1>4, <1>5, <1>6, PTL DEF Spec, LockHolds

-----------------------------------------------------------------------------
(* While turns end within the TTL: the session and the counter.            *)

LEMMA Alone ==
    ASSUME Holds, NEW m \in Messages, NEW n \in Messages, Running(m), Running(n)
    PROVE  m = n
BY DEF Holds

LEMMA MirroredStep ==
    ASSUME TypeOK, Holds, Mirrored, Kinds
    PROVE  Mirrored'
<1> SUFFICES ASSUME NEW n \in Messages, turn'[n].pc \in MirroredPc, session' # NoSession
             PROVE  session' = turn'[n].session
    BY DEF Mirrored
<1>1. MirroredPc \subseteq RunningPc /\ {"persist", "screen", "answer", "append"} \subseteq MirroredPc
      /\ MirroredPc \cap EndedPc = {}
      /\ \A q \in {"rate", "log", "save", "turns", "failed", "get", "memory"} : q \notin MirroredPc
    BY DEF MirroredPc, RunningPc, EndedPc
<1>2. ASSUME NEW m \in Messages, Takes(m)
      PROVE  session' = turn'[n].session
    BY <1>1, <1>2 DEF Takes, Moved, Mirrored, storeVars
<1>3. ASSUME NEW m \in Messages, Appends(m)
      PROVE  session' = turn'[n].session
  <2>1. CASE n = m
      BY <1>3, <2>1 DEF Appends, Moved
  <2>2. CASE n # m
    <3>1. Running(m) /\ Running(n)
        BY <1>1, <1>3, <2>2 DEF Appends, Moved, Running, RunningPc
    <3>2. QED
        BY <2>2, <3>1, Alone
  <2>3. QED
      BY <2>1, <2>2
<1>4. ASSUME NEW m \in Messages, Upserts(m)
      PROVE  session' = turn'[n].session
    BY <1>1, <1>4 DEF Upserts, Moved, Mirrored
<1>5. ASSUME NEW m \in Messages, NEW q \in AllPc, Hops(m, q)
      PROVE  session' = turn'[n].session
  <2>1. q \in MirroredPc => turn[m].pc \in MirroredPc
      BY <1>1, <1>5 DEF Hops
  <2>2. QED
      BY <1>5, <2>1 DEF Hops, Moved, Mirrored, storeVars
<1>6. ASSUME NEW m \in Messages, NEW q \in AllPc, Persists(m, q)
      PROVE  session' = turn'[n].session
    BY <1>1, <1>6 DEF Persists, Moved, Mirrored
<1>7. ASSUME NEW m \in Messages, NEW q \in AllPc, Loses(m, q)
      PROVE  session' = turn'[n].session
  <2>1. turn[m].pc \in MirroredPc
      BY <1>7 DEF Loses, MirroredPc
  <2>2. QED
      BY <1>7, <2>1 DEF Loses, Moved, Mirrored, storeVars
<1>8. ASSUME NEW m \in Messages, NEW q \in AllPc, Ends(m, q)
      PROVE  session' = turn'[n].session
    BY <1>1, <1>8 DEF Ends, Moved, Mirrored, storeVars
<1>9. ASSUME NEW m \in Messages, NEW q \in AllPc, NEW s \in SessionSet, Loads(m, q, s)
      PROVE  session' = turn'[n].session
  <2>1. q \in MirroredPc => s = session
      BY <1>1, <1>9 DEF Loads
  <2>2. Moved(m, q, s) /\ session' = session
      BY <1>9 DEF Loads, storeVars
  <2>3. QED
      BY <2>1, <2>2 DEF Moved, Mirrored
<1>10. ASSUME NEW m \in Messages, NEW q \in AllPc, NEW s \in SessionSet, Saves(m, q, s)
       PROVE  session' = turn'[n].session
  <2>1. CASE n = m
      BY <1>10, <2>1 DEF Saves, Moved
  <2>2. CASE n # m
    <3>1. Running(m) /\ Running(n)
        BY <1>1, <1>10, <2>2 DEF Saves, Moved, Running, RunningPc
    <3>2. QED
        BY <2>2, <3>1, Alone
  <2>3. QED
      BY <2>1, <2>2
<1>11. CASE LockExpire \/ SessionExpire \/ UNCHANGED vars
    BY <1>11 DEF LockExpire, SessionExpire, vars, storeVars, Mirrored
<1>12. QED
    BY <1>2, <1>3, <1>4, <1>5, <1>6, <1>7, <1>8, <1>9, <1>10, <1>11 DEF Kinds

LEMMA IndexTyped ==
    ASSUME TypeOK
    PROVE  /\ \A i \in DOMAIN rows : rows[i].index \in Nat
           /\ \A m \in Messages : turn[m].session.count \in Nat
           /\ memory # NoMemory => memory.count \in Nat
<1>1. \A i \in DOMAIN rows : rows[i].index \in Nat
    BY Types, RowFields
<1>2. \A m \in Messages : turn[m].session.count \in Nat
    BY TurnFields, SessionFields
<1>3. memory # NoMemory => memory.count \in Nat
    BY Types DEF MemorySet
<1>4. QED
    BY <1>1, <1>2, <1>3

\* The counters stay ahead of the rows if those that are written or loaded are.
LEMMA CountedSame ==
    ASSUME Counted, rows' = rows, NEW m \in Messages, NEW q, NEW s, Moved(m, q, s),
           q \in (LoadedPc \cup {"turns"}) => AtLeast(s.count),
           q = "persist" => \A i \in DOMAIN rows : rows[i].index < s.count,
           memory' = memory
             \/ (memory' # NoMemory /\ \A i \in DOMAIN rows : rows[i].index <= memory'.count),
           session' = session \/ \A i \in DOMAIN rows : rows[i].index <= session'.count
    PROVE  Counted'
<1>1. \A i, j \in DOMAIN rows' : i < j => rows'[i].index < rows'[j].index
    BY DEF Counted
<1>2. /\ memory' = NoMemory => rows' = <<>>
      /\ memory' # NoMemory => \A i \in DOMAIN rows' : rows'[i].index <= memory'.count
    BY DEF Counted, AtLeast
<1>3. session' # NoSession => \A i \in DOMAIN rows' : rows'[i].index <= session'.count
    BY DEF Counted, AtLeast
<1>4. ASSUME NEW n \in Messages
      PROVE  /\ turn'[n].pc \in (LoadedPc \cup {"turns"}) =>
                  \A i \in DOMAIN rows' : rows'[i].index <= turn'[n].session.count
             /\ turn'[n].pc = "persist" =>
                  \A i \in DOMAIN rows' : rows'[i].index < turn'[n].session.count
  <2>1. CASE n = m
      BY <2>1 DEF Moved, AtLeast
  <2>2. CASE n # m
      BY <2>2 DEF Moved, AtLeast, Counted
  <2>3. QED
      BY <2>1, <2>2
<1>5. QED
    BY <1>1, <1>2, <1>3, <1>4 DEF Counted, AtLeast

LEMMA CountedPersists ==
    ASSUME Assumptions, TypeOK, Holds, Mirrored, Counted,
           NEW m \in Messages, NEW q \in AllPc, Persists(m, q)
    PROVE  Counted'
<1> DEFINE s == turn[m].session
           k == Len(rows) + 1
<1>1. s \in SessionSet /\ s.count \in Nat /\ Persisted(m, s) /\ turn[m].pc = "persist"
      /\ Moved(m, q, s) /\ session' = session /\ q \in {"upsert", "log"}
    BY TurnFields, SessionFields DEF Persists
<1>2. \A i \in DOMAIN rows : rows[i].index < s.count /\ rows[i].index \in Nat
    BY <1>1, IndexTyped DEF Counted
<1>3. /\ \A i \in DOMAIN rows : rows'[i] = rows[i]
      /\ rows'[k].index = s.count
      /\ DOMAIN rows = 1..Len(rows) /\ Len(rows) \in Nat
      /\ DOMAIN rows' = 1..(Len(rows) + 1)
    BY <1>1, RowTyped
<1>4. ASSUME NEW i \in DOMAIN rows'
      PROVE  (i \in DOMAIN rows /\ rows'[i] = rows[i] /\ rows[i].index < s.count) \/ i = k
    BY <1>2, <1>3
<1> HIDE DEF s, k
<1>5. ASSUME NEW i \in DOMAIN rows', NEW j \in DOMAIN rows', i < j
      PROVE  rows'[i].index < rows'[j].index
  <2>1. i \in DOMAIN rows
      BY <1>3, <1>5 DEF k
  <2>2. CASE j \in DOMAIN rows
      BY <1>3, <1>5, <2>1, <2>2 DEF Counted
  <2>3. CASE j = k
      BY <1>2, <1>3, <2>1, <2>3
  <2>4. QED
      BY <1>4, <2>2, <2>3
<1>6. ASSUME NEW i \in DOMAIN rows'
      PROVE  rows'[i].index <= s.count /\ rows'[i].index \in Nat
    BY <1>1, <1>2, <1>3, <1>4
<1>7. /\ memory' # NoMemory
      /\ \A i \in DOMAIN rows' : rows'[i].index <= memory'.count
  <2>1. /\ memory' \in MemorySet
        /\ memory = NoMemory => memory'.count = s.count
        /\ memory # NoMemory =>
             memory'.count = IF memory.count < s.count THEN s.count ELSE memory.count
      BY <1>1, PersistedMemory
  <2>2. memory # NoMemory => memory.count \in Nat
      BY IndexTyped
  <2>3. memory' # NoMemory
      BY <2>1 DEF Assumptions
  <2>4. s.count <= memory'.count /\ memory'.count \in Nat
      BY <1>1, <2>1, <2>2
  <2>5. QED
      BY <1>1, <1>6, <2>3, <2>4
<1>8. session' # NoSession => \A i \in DOMAIN rows' : rows'[i].index <= session'.count
  <2>1. "persist" \in MirroredPc
      BY DEF MirroredPc
  <2>2. session' # NoSession => session' = s
      BY <1>1, <2>1 DEF Mirrored, s
  <2>3. QED
      BY <1>6, <2>2
<1>9. ASSUME NEW n \in Messages, turn'[n].pc \in (LoadedPc \cup {"turns"})
      PROVE  n = m
  <2>1. LoadedPc \cup {"turns"} \subseteq RunningPc
      BY DEF LoadedPc, RunningPc
  <2>2. n # m => Running(n)
      BY <1>1, <1>9, <2>1 DEF Moved, Running
  <2>3. Running(m)
      BY <1>1 DEF Running, RunningPc
  <2>4. QED
      BY <2>2, <2>3, Alone
<1>10. ASSUME NEW n \in Messages
       PROVE  /\ turn'[n].pc \in (LoadedPc \cup {"turns"}) =>
                   \A i \in DOMAIN rows' : rows'[i].index <= turn'[n].session.count
              /\ turn'[n].pc # "persist"
  <2>1. "persist" \in LoadedPc
      BY DEF LoadedPc
  <2>2. turn'[m].pc # "persist" /\ turn'[m].session = s
      BY <1>1 DEF Moved
  <2>3. QED
      BY <1>6, <1>9, <2>1, <2>2
<1>11. QED
    BY <1>5, <1>7, <1>8, <1>10 DEF Counted, AtLeast

LEMMA CountedStep ==
    ASSUME Assumptions, TypeOK, Holds, Mirrored, Counted, Kinds
    PROVE  Counted'
<1>1. {"rate", "get", "memory", "log", "failed"} \cap (LoadedPc \cup {"turns", "persist"}) = {}
      /\ EndedPc \cap (LoadedPc \cup {"turns", "persist"}) = {}
      /\ {"save", "screen", "answer", "append", "persist", "upsert"} \subseteq LoadedPc
    BY DEF LoadedPc, EndedPc
<1>2. ASSUME NEW m \in Messages, Takes(m)
      PROVE  Counted'
    BY <1>1, <1>2, CountedSame DEF Takes, storeVars
<1>3. ASSUME NEW m \in Messages, Appends(m)
      PROVE  Counted'
  <2> DEFINE s == turn[m].session
             t == Appended(s, m)
  <2>1. s \in SessionSet /\ s.count \in Nat /\ t.count = s.count + 1
      BY TurnFields, SessionFields, AppendedParts
  <2>2. AtLeast(s.count)
      BY <1>1, <1>3 DEF Appends, Counted
  <2>3. \A i \in DOMAIN rows : rows[i].index \in Nat
      BY IndexTyped
  <2>4. /\ Moved(m, "persist", t) /\ session' = t /\ memory' = memory /\ rows' = rows
      BY <1>3 DEF Appends
  <2> HIDE DEF s, t
  <2>5. /\ AtLeast(t.count)
        /\ \A i \in DOMAIN rows : rows[i].index < t.count
      BY <2>1, <2>2, <2>3 DEF AtLeast
  <2>6. QED
      BY <2>4, <2>5, CountedSame DEF AtLeast
<1>4. ASSUME NEW m \in Messages, Upserts(m)
      PROVE  Counted'
  <2>1. turn[m].session \in SessionSet /\ Moved(m, "log", turn[m].session)
        /\ UNCHANGED <<session, rows>>
      BY <1>4, TurnFields DEF Upserts
  <2>2. /\ memory' \in MemorySet
        /\ memory # NoMemory => memory'.count = memory.count
      BY <1>4, <2>1, UpsertedMemory DEF Upserts
  <2>3. memory' # NoMemory
      BY <2>2 DEF Assumptions
  <2>4. \A i \in DOMAIN rows : rows[i].index <= memory'.count
    <3>1. CASE memory = NoMemory
      <4>1. DOMAIN rows = {}
          BY <3>1 DEF Counted
      <4>2. QED
          BY <4>1
    <3>2. CASE memory # NoMemory
        BY <2>2, <3>2 DEF Counted, AtLeast
    <3>3. QED
        BY <3>1, <3>2
  <2>5. QED
      BY <1>1, <2>1, <2>3, <2>4, CountedSame
<1>5. ASSUME NEW m \in Messages, NEW q \in AllPc, Hops(m, q)
      PROVE  Counted'
  <2>1. /\ q \in (LoadedPc \cup {"turns"}) => turn[m].pc \in LoadedPc
        /\ q # "persist"
      BY <1>1, <1>5 DEF Hops
  <2>2. q \in (LoadedPc \cup {"turns"}) => AtLeast(turn[m].session.count)
      BY <2>1 DEF Counted
  <2>3. QED
      BY <1>5, <2>1, <2>2, CountedSame DEF Hops, storeVars
<1>6. ASSUME NEW m \in Messages, NEW q \in AllPc, Persists(m, q)
      PROVE  Counted'
    BY <1>6, CountedPersists
<1>7. ASSUME NEW m \in Messages, NEW q \in AllPc, Loses(m, q)
      PROVE  Counted'
  <2>1. AtLeast(turn[m].session.count)
      BY <1>1, <1>7 DEF Loses, Counted
  <2>2. QED
      BY <1>7, <2>1, CountedSame DEF Loses, storeVars
<1>8. ASSUME NEW m \in Messages, NEW q \in AllPc, Ends(m, q)
      PROVE  Counted'
    BY <1>1, <1>8, CountedSame DEF Ends, storeVars
<1>9. ASSUME NEW m \in Messages, NEW q \in AllPc, NEW s \in SessionSet, Loads(m, q, s)
      PROVE  Counted'
  <2>1. Moved(m, q, s) /\ rows' = rows /\ memory' = memory /\ session' = session
        /\ q # "persist"
      BY <1>9 DEF Loads, storeVars
  <2>2. AtLeast(s.count)
    <3>1. CASE turn[m].pc = "get"
        BY <1>9, <3>1 DEF Loads, Counted
    <3>2. CASE turn[m].pc = "memory" /\ memory = NoMemory
      <4>1. DOMAIN rows = {}
          BY <3>2 DEF Counted
      <4>2. QED
          BY <4>1 DEF AtLeast
    <3>3. CASE turn[m].pc = "memory" /\ memory # NoMemory
      <4>1. s = FromMemory(memory)
          BY <1>9, <3>3 DEF Loads
      <4>2. s.count = memory.count
          BY <4>1 DEF FromMemory
      <4>3. QED
          BY <3>3, <4>2 DEF Counted
    <3>4. CASE turn[m].pc = "turns"
      <4>1. s = [turn[m].session EXCEPT !.recent = RecentTurns]
          BY <1>9, <3>4 DEF Loads
      <4>2. s.count = turn[m].session.count
          BY <4>1, TurnFields DEF SessionSet
      <4>3. QED
          BY <3>4, <4>2 DEF Counted
    <3>5. QED
        BY <1>9, <3>1, <3>2, <3>3, <3>4 DEF Loads
  <2>3. QED
      BY <2>1, <2>2, CountedSame
<1>10. ASSUME NEW m \in Messages, NEW q \in AllPc, NEW s \in SessionSet, Saves(m, q, s)
       PROVE  Counted'
  <2>1. AtLeast(turn[m].session.count)
      BY <1>1, <1>10 DEF Saves, Counted
  <2>2. s.count = turn[m].session.count
      BY <1>10 DEF Saves, Amends
  <2>3. QED
      BY <1>10, <2>1, <2>2, CountedSame DEF Saves, AtLeast
<1>11. CASE LockExpire \/ SessionExpire \/ UNCHANGED vars
  <2>1. UNCHANGED <<rows, memory, turn>> /\ (session' = session \/ session' = NoSession)
      BY <1>11 DEF LockExpire, SessionExpire, vars, storeVars
  <2>2. QED
      BY <2>1 DEF Counted, AtLeast
<1>12. QED
    BY <1>2, <1>3, <1>4, <1>5, <1>6, <1>7, <1>8, <1>9, <1>10, <1>11 DEF Kinds

-----------------------------------------------------------------------------
(* While turns end within the TTL: the messages.                           *)

LEMMA OrderedTail ==
    ASSUME NEW q \in Seq(Messages), NEW h, NEW n \in Nat, OrderedIn(q, h)
    PROVE  OrderedIn(Newest(q, n), h)
<1> DEFINE t == Newest(q, n)
           k == Len(Evicted(q, n))
<1>1. /\ t \in Seq(Messages) /\ k \in Nat
      /\ k + Len(t) = Len(q)
      /\ \A i \in 1..Len(t) : t[i] = q[k + i]
  <2>1. /\ Newest(q, n) \in Seq(Messages) /\ Evicted(q, n) \in Seq(Messages)
        /\ Len(Newest(q, n)) = (IF Len(q) <= n THEN Len(q) ELSE n)
        /\ Len(Evicted(q, n)) = (IF Len(q) <= n THEN 0 ELSE Len(q) - n)
        /\ \A i \in 1..Len(Newest(q, n)) : Newest(q, n)[i] = q[Len(Evicted(q, n)) + i]
      BY TailParts
  <2>2. Len(q) \in Nat
      OBVIOUS
  <2>3. QED
      BY <2>1, <2>2
<1>2. DOMAIN t = 1..Len(t) /\ Len(t) \in Nat /\ DOMAIN q = 1..Len(q)
    BY <1>1
<1> HIDE DEF t, k
<1>3. ASSUME NEW i \in DOMAIN t
      PROVE  k + i \in DOMAIN q /\ t[i] = q[k + i] /\ i \in Nat
    BY <1>1, <1>2
<1>4. ASSUME NEW i \in DOMAIN t
      PROVE  \E a \in DOMAIN h : t[i] = h[a]
    BY <1>3 DEF OrderedIn
<1>5. ASSUME NEW i \in DOMAIN t, NEW j \in DOMAIN t, NEW a \in DOMAIN h, NEW b \in DOMAIN h,
             i < j, t[i] = h[a], t[j] = h[b]
      PROVE  a < b
  <2>1. k + i < k + j
      BY <1>1, <1>3, <1>5
  <2>2. q[k + i] = h[a] /\ q[k + j] = h[b] /\ k + i \in DOMAIN q /\ k + j \in DOMAIN q
      BY <1>3, <1>5
  <2>3. QED
      BY <2>1, <2>2 DEF OrderedIn
<1>6. OrderedIn(t, h)
    BY <1>4, <1>5 DEF OrderedIn
<1>7. QED
    BY <1>6 DEF t

\* A turn that is had leaves the order of the others.
LEMMA OrderedLonger ==
    ASSUME NEW q, NEW h \in Seq(Messages), NEW g, NEW m, OrderedIn(q, h),
           DOMAIN g = 1..(Len(h) + 1), g[Len(h) + 1] = m,
           \A i \in DOMAIN h : g[i] = h[i] /\ h[i] # m
    PROVE  OrderedIn(q, g)
<1>1. DOMAIN h = 1..Len(h) /\ Len(h) \in Nat
    OBVIOUS
<1>2. DOMAIN h \subseteq DOMAIN g
    BY <1>1
<1>3. ASSUME NEW i \in DOMAIN q, NEW a \in DOMAIN g, q[i] = g[a]
      PROVE  a \in DOMAIN h /\ q[i] = h[a]
  <2>1. PICK c \in DOMAIN h : q[i] = h[c]
      BY DEF OrderedIn
  <2>2. q[i] # m
      BY <2>1
  <2>3. a # Len(h) + 1
      BY <1>3, <2>2
  <2>4. a \in DOMAIN h
      BY <1>1, <2>3
  <2>5. QED
      BY <1>3, <2>4
<1>4. \A i \in DOMAIN q : \E a \in DOMAIN g : q[i] = g[a]
    BY <1>2 DEF OrderedIn
<1>5. ASSUME NEW i \in DOMAIN q, NEW j \in DOMAIN q, NEW a \in DOMAIN g, NEW b \in DOMAIN g,
             i < j, q[i] = g[a], q[j] = g[b]
      PROVE  a < b
    BY <1>3, <1>5 DEF OrderedIn
<1>6. QED
    BY <1>4, <1>5 DEF OrderedIn

\* The last turn comes after the others.
LEMMA OrderedExtended ==
    ASSUME NEW q \in Seq(Messages), NEW h \in Seq(Messages), NEW m, NEW p, OrderedIn(q, h),
           DOMAIN p = 1..(Len(q) + 1), p[Len(q) + 1] = m,
           \A i \in DOMAIN q : p[i] = q[i] /\ q[i] # m,
           Len(h) > 0, h[Len(h)] = m,
           \A i, j \in DOMAIN h : h[i] = h[j] => i = j
    PROVE  OrderedIn(p, h)
<1>1. /\ DOMAIN h = 1..Len(h) /\ Len(h) \in Nat
      /\ DOMAIN q = 1..Len(q) /\ Len(q) \in Nat
    OBVIOUS
<1>2. Len(h) \in DOMAIN h
    BY <1>1
<1>3. ASSUME NEW i \in DOMAIN p
      PROVE  (i \in DOMAIN q /\ p[i] = q[i]) \/ (i = Len(q) + 1 /\ p[i] = m)
    BY <1>1
<1>4. ASSUME NEW i \in DOMAIN p
      PROVE  \E a \in DOMAIN h : p[i] = h[a]
    BY <1>2, <1>3 DEF OrderedIn
<1>5. ASSUME NEW i \in DOMAIN p, NEW j \in DOMAIN p, NEW a \in DOMAIN h, NEW b \in DOMAIN h,
             i < j, p[i] = h[a], p[j] = h[b]
      PROVE  a < b
  <2>1. i \in DOMAIN q /\ p[i] = q[i] /\ q[i] # m
      BY <1>1, <1>3, <1>5
  <2>2. a # Len(h)
      BY <1>5, <2>1
  <2>3. CASE j \in DOMAIN q
      BY <1>5, <2>1, <2>3 DEF OrderedIn
  <2>4. CASE j = Len(q) + 1
    <3>1. b = Len(h)
        BY <1>2, <1>5, <2>4
    <3>2. QED
        BY <1>1, <2>2, <3>1
  <2>5. QED
      BY <1>3, <2>3, <2>4
<1>6. QED
    BY <1>4, <1>5 DEF OrderedIn

LEMMA OrderedSame ==
    ASSUME Ordered, rows' = rows, history' = history, NEW m \in Messages, NEW q, NEW s,
           Moved(m, q, s), q # "persist" \/ turn[m].pc = "persist",
           q \in LoadedPc => InOrder(s.recent),
           session' = session \/ OrderedIn(session'.recent, history)
    PROVE  Ordered'
<1>1. OrderedIn(Messaged', history')
  <2>1. Messaged' = Messaged
      BY DEF Messaged
  <2>2. QED
      BY <2>1 DEF Ordered, InOrder
<1>2. session' # NoSession => OrderedIn(session'.recent, history')
    BY DEF Ordered, InOrder
<1>3. ASSUME NEW n \in Messages
      PROVE  /\ turn'[n].pc \in LoadedPc => OrderedIn(turn'[n].session.recent, history')
             /\ turn'[n].pc = "persist" =>
                  /\ Len(history') > 0 /\ history'[Len(history')] = n
                  /\ \A i \in DOMAIN rows' : rows'[i].message # n
  <2>1. CASE n = m
      BY <2>1 DEF Moved, InOrder, Ordered
  <2>2. CASE n # m
      BY <2>2 DEF Moved, InOrder, Ordered
  <2>3. QED
      BY <2>1, <2>2
<1>4. QED
    BY <1>1, <1>2, <1>3 DEF Ordered, InOrder

LEMMA OrderedAppends ==
    ASSUME Assumptions, TypeOK, Once, Holds, Ordered, NEW m \in Messages, Appends(m)
    PROVE  Ordered'
<1> DEFINE s == turn[m].session
           t == Appended(s, m)
<1>1. s \in SessionSet /\ s.recent \in Seq(Messages) /\ turn[m].pc = "append"
      /\ session' = t /\ rows' = rows /\ Moved(m, "persist", t)
    BY TurnFields, SessionFields DEF Appends
<1>2. t.recent = Newest(Append(s.recent, m), Recent)
    BY <1>1, AppendedParts
<1>3. /\ history' \in Seq(Messages) /\ Len(history') = Len(history) + 1
      /\ \A i \in DOMAIN history : history'[i] = history[i]
      /\ history'[Len(history) + 1] = m
      /\ DOMAIN history = 1..Len(history) /\ Len(history) \in Nat
      /\ DOMAIN history' = 1..(Len(history) + 1)
    BY HistoryAppended
<1>4. /\ history \in Seq(Messages)
      /\ \A i \in DOMAIN history : history[i] # m
    BY <1>1, Types, NotHadYet
<1> HIDE DEF s, t
<1>5. ASSUME NEW q, OrderedIn(q, history)
      PROVE  OrderedIn(q, history')
    BY <1>3, <1>4, <1>5, OrderedLonger
<1>6. OrderedIn(s.recent, history)
    BY <1>1 DEF Ordered, InOrder, LoadedPc, s
<1>7. \A i \in DOMAIN s.recent : s.recent[i] # m
    BY <1>4, <1>6 DEF OrderedIn
<1>8. \A i, j \in DOMAIN history' : history'[i] = history'[j] => i = j
    BY <1>3, <1>4 DEF Once
<1>9. OrderedIn(Append(s.recent, m), history')
  <2>1. OrderedIn(s.recent, history')
      BY <1>5, <1>6
  <2>2. DOMAIN s.recent = 1..Len(s.recent) /\ Len(s.recent) \in Nat
      BY <1>1
  <2>3. /\ Append(s.recent, m) \in Seq(Messages)
        /\ Len(Append(s.recent, m)) = Len(s.recent) + 1
        /\ Append(s.recent, m)[Len(s.recent) + 1] = m
        /\ \A i \in 1..Len(s.recent) : Append(s.recent, m)[i] = s.recent[i]
      BY <1>1, AppendParts
  <2>4. DOMAIN Append(s.recent, m) = 1..(Len(s.recent) + 1)
      BY <2>3
  <2>5. Len(history') > 0 /\ history'[Len(history')] = m
      BY <1>3
  <2> DEFINE r == s.recent
             p == Append(s.recent, m)
             h == history'
  <2>6. /\ r \in Seq(Messages) /\ h \in Seq(Messages) /\ OrderedIn(r, h)
        /\ DOMAIN p = 1..(Len(r) + 1) /\ p[Len(r) + 1] = m
        /\ \A i \in DOMAIN r : p[i] = r[i] /\ r[i] # m
        /\ Len(h) > 0 /\ h[Len(h)] = m
        /\ \A i, j \in DOMAIN h : h[i] = h[j] => i = j
      BY <1>1, <1>3, <1>7, <1>8, <2>1, <2>2, <2>3, <2>4, <2>5
  <2> HIDE DEF r, p, h
  <2>7. OrderedIn(p, h)
      BY <2>6, OrderedExtended
  <2>8. QED
      BY <2>7 DEF p, h
<1>10. OrderedIn(t.recent, history')
  <2>1. Append(s.recent, m) \in Seq(Messages) /\ Recent \in Nat
      BY <1>1, AppendParts DEF Assumptions
  <2>2. QED
      BY <1>2, <1>9, <2>1, OrderedTail
<1>11. OrderedIn(Messaged', history')
  <2>1. Messaged' = Messaged
      BY <1>1 DEF Messaged
  <2>2. OrderedIn(Messaged, history)
      BY DEF Ordered, InOrder
  <2>3. QED
      BY <1>5, <2>1, <2>2
<1>12. ASSUME NEW n \in Messages
       PROVE  /\ turn'[n].pc \in LoadedPc => OrderedIn(turn'[n].session.recent, history')
              /\ turn'[n].pc = "persist" => n = m
  <2>1. CASE n = m
      BY <1>1, <1>10, <2>1 DEF Moved
  <2>2. CASE n # m
    <3>1. turn'[n] = turn[n]
        BY <1>1, <2>2 DEF Moved
    <3>2. turn[n].pc # "persist"
      <4>1. Running(m) /\ (turn[n].pc = "persist" => Running(n))
          BY <1>1 DEF Running, RunningPc
      <4>2. QED
          BY <2>2, <4>1, Alone
    <3>3. turn[n].pc \in LoadedPc => OrderedIn(turn[n].session.recent, history)
        BY DEF Ordered, InOrder
    <3>4. QED
        BY <1>5, <3>1, <3>2, <3>3
  <2>3. QED
      BY <2>1, <2>2
<1>13. \A i \in DOMAIN rows' : rows'[i].message # m
  <2>1. \A i \in DOMAIN rows : \E a \in DOMAIN history : rows[i].message = history[a]
      BY DEF Ordered, InOrder, OrderedIn, Messaged
  <2>2. QED
      BY <1>1, <1>4, <2>1
<1>14. Len(history') > 0 /\ history'[Len(history')] = m
    BY <1>3
<1>15. QED
    BY <1>1, <1>10, <1>11, <1>12, <1>13, <1>14 DEF Ordered, InOrder

LEMMA OrderedPersists ==
    ASSUME TypeOK, Once, Holds, Ordered, NEW m \in Messages, NEW q \in AllPc, Persists(m, q)
    PROVE  Ordered'
<1> DEFINE s == turn[m].session
<1>1. s \in SessionSet /\ Persisted(m, s) /\ turn[m].pc = "persist" /\ q # "persist"
      /\ Moved(m, q, s) /\ session' = session /\ history' = history
    BY TurnFields DEF Persists
<1>2. /\ \A i \in DOMAIN rows : rows'[i] = rows[i]
      /\ rows'[Len(rows) + 1].message = m
      /\ DOMAIN rows = 1..Len(rows) /\ Len(rows) \in Nat
      /\ DOMAIN rows' = 1..(Len(rows) + 1)
    BY <1>1, RowTyped
<1>3. /\ Messaged \in Seq(Messages) /\ Len(Messaged) = Len(rows)
      /\ \A i \in DOMAIN rows : Messaged[i] = rows[i].message
    BY Types, MessagedTyped
<1>4. /\ DOMAIN Messaged' = 1..(Len(Messaged) + 1)
      /\ Messaged'[Len(Messaged) + 1] = m
      /\ \A i \in DOMAIN Messaged : Messaged'[i] = Messaged[i] /\ Messaged[i] # m
  <2>1. DOMAIN Messaged' = DOMAIN rows' /\ DOMAIN Messaged = DOMAIN rows
      BY DEF Messaged
  <2>2. \A i \in DOMAIN rows' : Messaged'[i] = rows'[i].message
      BY DEF Messaged
  <2>3. \A i \in DOMAIN rows : rows[i].message # m
      BY <1>1 DEF Ordered
  <2>4. QED
      BY <1>2, <1>3, <2>1, <2>2, <2>3
<1>5. /\ history \in Seq(Messages) /\ Len(history) > 0 /\ history[Len(history)] = m
      /\ \A i, j \in DOMAIN history : history[i] = history[j] => i = j
      /\ OrderedIn(Messaged, history)
    BY <1>1, Types DEF Ordered, Once, InOrder
<1>6. OrderedIn(Messaged', history)
    BY <1>3, <1>4, <1>5, OrderedExtended
<1>7. ASSUME NEW n \in Messages
      PROVE  /\ turn'[n].pc \in LoadedPc => OrderedIn(turn'[n].session.recent, history)
             /\ turn'[n].pc # "persist"
  <2>1. CASE n = m
    <3>1. OrderedIn(s.recent, history)
        BY <1>1 DEF Ordered, InOrder, LoadedPc
    <3>2. QED
        BY <1>1, <2>1, <3>1 DEF Moved
  <2>2. CASE n # m
    <3>1. turn'[n] = turn[n]
        BY <1>1, <2>2 DEF Moved
    <3>2. turn[n].pc # "persist"
      <4>1. Running(m) /\ (turn[n].pc = "persist" => Running(n))
          BY <1>1 DEF Running, RunningPc
      <4>2. QED
          BY <2>2, <4>1, Alone
    <3>3. QED
        BY <3>1, <3>2 DEF Ordered, InOrder
  <2>3. QED
      BY <2>1, <2>2
<1>8. session' # NoSession => OrderedIn(session'.recent, history)
    BY <1>1 DEF Ordered, InOrder
<1>9. QED
    BY <1>1, <1>6, <1>7, <1>8 DEF Ordered, InOrder

LEMMA OrderedStep ==
    ASSUME Assumptions, Base, Holds, Counted, Ordered, Kinds
    PROVE  Ordered'
<1>1. {"rate", "get", "memory", "log", "failed", "turns"} \cap LoadedPc = {}
      /\ EndedPc \cap (LoadedPc \cup {"persist"}) = {}
      /\ {"save", "screen", "answer", "append", "persist", "upsert"} \subseteq LoadedPc
    BY DEF LoadedPc, EndedPc
<1>2. ASSUME NEW m \in Messages, Takes(m)
      PROVE  Ordered'
    BY <1>1, <1>2, OrderedSame DEF Takes, storeVars
<1>3. ASSUME NEW m \in Messages, Appends(m)
      PROVE  Ordered'
    BY <1>3, OrderedAppends DEF Base
<1>4. ASSUME NEW m \in Messages, Upserts(m)
      PROVE  Ordered'
    BY <1>1, <1>4, OrderedSame DEF Upserts
<1>5. ASSUME NEW m \in Messages, NEW q \in AllPc, Hops(m, q)
      PROVE  Ordered'
  <2>1. /\ q \in LoadedPc => turn[m].pc \in LoadedPc
        /\ q # "persist"
      BY <1>1, <1>5 DEF Hops
  <2>2. q \in LoadedPc => InOrder(turn[m].session.recent)
      BY <2>1 DEF Ordered
  <2>3. QED
      BY <1>5, <2>1, <2>2, OrderedSame DEF Hops, storeVars
<1>6. ASSUME NEW m \in Messages, NEW q \in AllPc, Persists(m, q)
      PROVE  Ordered'
    BY <1>6, OrderedPersists DEF Base
<1>7. ASSUME NEW m \in Messages, NEW q \in AllPc, Loses(m, q)
      PROVE  Ordered'
  <2>1. InOrder(turn[m].session.recent) /\ q # "persist"
      BY <1>1, <1>7 DEF Loses, Ordered
  <2>2. QED
      BY <1>7, <2>1, OrderedSame DEF Loses, storeVars
<1>8. ASSUME NEW m \in Messages, NEW q \in AllPc, Ends(m, q)
      PROVE  Ordered'
    BY <1>1, <1>8, OrderedSame DEF Ends, storeVars
<1>9. ASSUME NEW m \in Messages, NEW q \in AllPc, NEW s \in SessionSet, Loads(m, q, s)
      PROVE  Ordered'
  <2>1. Moved(m, q, s) /\ rows' = rows /\ history' = history /\ session' = session
        /\ q # "persist"
      BY <1>9 DEF Loads, storeVars
  <2>2. q \in LoadedPc => InOrder(s.recent)
    <3>1. CASE turn[m].pc = "get"
        BY <1>9, <3>1 DEF Loads, Ordered
    <3>2. CASE turn[m].pc = "memory" /\ memory = NoMemory
      <4>1. s.recent = <<>>
          BY <1>9, <3>2 DEF Loads, Fresh
      <4>2. DOMAIN s.recent = {}
          BY <4>1
      <4>3. QED
          BY <4>2 DEF InOrder, OrderedIn
    <3>3. CASE turn[m].pc = "memory" /\ memory # NoMemory
      <4>1. q = "turns"
          BY <1>9, <3>3 DEF Loads
      <4>2. QED
          BY <1>1, <4>1
    <3>4. CASE turn[m].pc = "turns"
      <4>1. s = [turn[m].session EXCEPT !.recent = RecentTurns]
          BY <1>9, <3>4 DEF Loads
      <4>2. s.recent = RecentTurns
          BY <4>1, TurnFields DEF SessionSet, Base
      <4>3. RecentTurns = Newest(Messaged, Recent)
          BY Types, RecentIsTail DEF Base, Counted
      <4>4. Messaged \in Seq(Messages) /\ Recent \in Nat
          BY Types, MessagedTyped DEF Base, Assumptions
      <4>5. OrderedIn(Newest(Messaged, Recent), history)
          BY <4>4, OrderedTail DEF Ordered, InOrder
      <4>6. QED
          BY <4>2, <4>3, <4>5 DEF InOrder
    <3>5. QED
        BY <1>9, <3>1, <3>2, <3>3, <3>4 DEF Loads
  <2>3. QED
      BY <2>1, <2>2, OrderedSame
<1>10. ASSUME NEW m \in Messages, NEW q \in AllPc, NEW s \in SessionSet, Saves(m, q, s)
       PROVE  Ordered'
  <2>1. InOrder(turn[m].session.recent)
      BY <1>1, <1>10 DEF Saves, Ordered
  <2>2. s.recent = turn[m].session.recent
      BY <1>10 DEF Saves, Amends
  <2>3. QED
      BY <1>10, <2>1, <2>2, OrderedSame DEF Saves, InOrder
<1>11. CASE LockExpire \/ SessionExpire \/ UNCHANGED vars
  <2>1. UNCHANGED <<rows, history, turn>> /\ (session' = session \/ session' = NoSession)
      BY <1>11 DEF LockExpire, SessionExpire, vars, storeVars
  <2>2. Messaged' = Messaged
      BY <2>1 DEF Messaged
  <2>3. QED
      BY <2>1, <2>2 DEF Ordered, InOrder
<1>12. QED
    BY <1>2, <1>3, <1>4, <1>5, <1>6, <1>7, <1>8, <1>9, <1>10, <1>11 DEF Kinds

-----------------------------------------------------------------------------
(* Without faults: the whole dialog.                                       *)

ChangingPc == {"screen", "answer", "append", "persist"}

\* A turn that changes nothing but where it is and, whole, what it has at hand.
LEMMA CompleteSame ==
    ASSUME Complete, UNCHANGED <<storeVars, faults, history>>, NEW m \in Messages, NEW q, NEW s,
           Moved(m, q, s), q # "persist", turn[m].pc # "persist",
           turn[m].pc \in ChangingPc => q \in ChangingPc,
           faults = 0 /\ q \in LoadedPc => Whole(s),
           faults = 0 /\ q = "turns" =>
             s.count = Len(history) /\ s.summary = Kept(Evicted(history, Recent))
    PROVE  Complete'
<1> SUFFICES ASSUME faults' = 0
             PROVE  Complete'
    BY DEF Complete
<1>1. faults = 0 /\ UNCHANGED <<session, rows, memory, history>>
    BY DEF storeVars
<1>2. Persisting' <=> Persisting
  <2>1. \A n \in Messages : turn'[n].pc = "persist" <=> turn[n].pc = "persist"
      BY DEF Moved
  <2>2. QED
      BY <2>1 DEF Persisting
<1>3. Changing => Changing'
  <2>1. \A n \in Messages : turn[n].pc \in ChangingPc => turn'[n].pc \in ChangingPc
      BY DEF Moved
  <2>2. QED
      BY <2>1 DEF Changing, ChangingPc
<1>4. ASSUME NEW n \in Messages
      PROVE  /\ turn'[n].pc \in LoadedPc => Whole(turn'[n].session)
             /\ turn'[n].pc = "turns" =>
                  /\ turn'[n].session.count = Len(history)
                  /\ turn'[n].session.summary = Kept(Evicted(history, Recent))
  <2>1. CASE n = m
      BY <1>1, <2>1 DEF Moved
  <2>2. CASE n # m
      BY <1>1, <2>2 DEF Moved, Complete
  <2>3. QED
      BY <2>1, <2>2
<1>5. QED
  <2> USE <1>1, <1>2, <1>3, <1>4
  <2>1. session' # NoSession => Whole(session)
      BY DEF Complete
  <2>2. Len(rows) = IF Persisting' THEN Len(history) - 1 ELSE Len(history)
      BY DEF Complete
  <2>3. /\ \A i \in DOMAIN rows : rows[i].message = history[i]
        /\ memory # NoMemory => memory.count <= Len(history)
        /\ ~Persisting' /\ memory = NoMemory => history = <<>>
        /\ ~Persisting' /\ memory # NoMemory =>
             memory.count = Len(history) /\ memory.summary = Kept(Evicted(history, Recent))
      BY DEF Complete
  <2>4. ~Changing' /\ session # NoSession =>
             /\ memory # NoMemory
             /\ memory.context.pending = session.pending
             /\ memory.context.attempts = session.attempts
      BY DEF Complete
  <2>5. QED
      BY <2>1, <2>2, <2>3, <2>4 DEF Complete, Whole

LEMMA CompleteSaves ==
    ASSUME Complete, NEW m \in Messages, NEW q, NEW s, Saves(m, q, s)
    PROVE  Complete'
<1> SUFFICES ASSUME faults' = 0
             PROVE  Complete'
    BY DEF Complete
<1>1. /\ faults = 0 /\ UNCHANGED <<rows, memory, history>> /\ session' = s /\ Moved(m, q, s)
      /\ turn[m].pc \in {"save", "screen", "answer"} /\ q \in {"screen", "answer", "append"}
    BY DEF Saves
<1>2. Whole(s)
  <2>1. Whole(turn[m].session)
      BY <1>1 DEF Complete, LoadedPc
  <2>2. QED
      BY <2>1 DEF Saves, Amends, Whole
<1>3. Persisting' <=> Persisting
  <2>1. \A n \in Messages : turn'[n].pc = "persist" <=> turn[n].pc = "persist"
      BY <1>1 DEF Moved
  <2>2. QED
      BY <2>1 DEF Persisting
<1>4. Changing'
    BY <1>1 DEF Changing, Moved
<1>5. ASSUME NEW n \in Messages
      PROVE  /\ turn'[n].pc \in LoadedPc => Whole(turn'[n].session)
             /\ turn'[n].pc = "turns" =>
                  /\ turn'[n].session.count = Len(history)
                  /\ turn'[n].session.summary = Kept(Evicted(history, Recent))
  <2>1. CASE n = m
      BY <1>1, <1>2, <2>1 DEF Moved
  <2>2. CASE n # m
      BY <1>1, <2>2 DEF Moved, Complete
  <2>3. QED
      BY <2>1, <2>2
<1>6. /\ Len(rows) = IF Persisting' THEN Len(history) - 1 ELSE Len(history)
      /\ \A i \in DOMAIN rows : rows[i].message = history[i]
      /\ memory # NoMemory => memory.count <= Len(history)
      /\ ~Persisting' /\ memory = NoMemory => history = <<>>
      /\ ~Persisting' /\ memory # NoMemory =>
           memory.count = Len(history) /\ memory.summary = Kept(Evicted(history, Recent))
    BY <1>1, <1>3 DEF Complete
<1>7. QED
    BY <1>1, <1>2, <1>4, <1>5, <1>6 DEF Complete, Whole

LEMMA WholeAppended ==
    ASSUME Assumptions, TypeOK, NEW s \in SessionSet, NEW m \in Messages, Whole(s),
           history' = Append(history, m)
    PROVE  /\ Appended(s, m).count = Len(history')
           /\ Appended(s, m).recent = Newest(history', Recent)
           /\ Appended(s, m).summary = Kept(Evicted(history', Recent))
<1>1. history \in Seq(Messages) /\ Recent \in Nat \ {0}
    BY Types DEF Assumptions
<1>2. Len(Append(history, m)) = Len(history) + 1
    BY <1>1, AppendParts
<1>3. /\ Newest(Append(Newest(history, Recent), m), Recent) = Newest(Append(history, m), Recent)
      /\ Evicted(history, Recent) \o Evicted(Append(Newest(history, Recent), m), Recent)
           = Evicted(Append(history, m), Recent)
    BY <1>1, TailAppend
<1>4. /\ s.count = Len(history) /\ s.recent = Newest(history, Recent)
      /\ s.summary = Kept(Evicted(history, Recent))
    BY DEF Whole
<1>5. /\ Evicted(history, Recent) \in Seq(Messages)
      /\ Newest(history, Recent) \in Seq(Messages)
      /\ Append(Newest(history, Recent), m) \in Seq(Messages)
    BY <1>1, TailParts, AppendParts
<1>6. Evicted(Append(Newest(history, Recent), m), Recent) \in Seq(Messages)
    BY <1>1, <1>5, TailParts
<1>7. Appended(s, m).summary = Kept(Evicted(Append(history, m), Recent))
  <2> DEFINE new == Evicted(Append(Newest(history, Recent), m), Recent)
  <2>1. Appended(s, m).summary = Kept(s.summary \o new)
      BY <1>4, AppendedParts
  <2> HIDE DEF new
  <2>2. Kept(Kept(Evicted(history, Recent)) \o new) = Kept(Evicted(history, Recent) \o new)
      BY <1>5, <1>6, KeptLonger DEF new
  <2>3. QED
      BY <1>3, <1>4, <2>1, <2>2 DEF new
<1>8. QED
    BY <1>2, <1>3, <1>4, <1>7, AppendedParts

LEMMA CompleteAppends ==
    ASSUME Assumptions, TypeOK, Holds, Complete, NEW m \in Messages, Appends(m)
    PROVE  Complete'
<1> SUFFICES ASSUME faults' = 0
             PROVE  Complete'
    BY DEF Complete
<1> DEFINE s == turn[m].session
           t == Appended(s, m)
<1>1. /\ faults = 0 /\ UNCHANGED <<rows, memory>> /\ session' = t /\ Moved(m, "persist", t)
      /\ turn[m].pc = "append" /\ s \in SessionSet /\ history' = Append(history, m)
    BY TurnFields DEF Appends
<1>2. Whole(s)
    BY <1>1 DEF Complete, LoadedPc
<1>3. /\ t.count = Len(history') /\ t.recent = Newest(history', Recent)
      /\ t.summary = Kept(Evicted(history', Recent))
    BY <1>1, <1>2, WholeAppended
<1> HIDE DEF s, t
<1>4. ASSUME NEW n \in Messages, n # m
      PROVE  turn'[n] = turn[n] /\ ~Running(n)
  <2>1. Running(m)
      BY <1>1 DEF Running, RunningPc
  <2>2. QED
      BY <1>1, <1>4, <2>1, Alone DEF Moved
<1>5. ~Persisting /\ Persisting' /\ Changing'
  <2>1. \A n \in Messages : turn[n].pc # "persist"
      BY <1>1, <1>4 DEF Running, RunningPc
  <2>2. turn'[m].pc = "persist"
      BY <1>1 DEF Moved
  <2>3. QED
      BY <2>1, <2>2 DEF Persisting, Changing
<1>6. /\ Len(history') = Len(history) + 1 /\ Len(history) \in Nat
      /\ \A i \in DOMAIN history : history'[i] = history[i]
      /\ DOMAIN history = 1..Len(history)
    BY HistoryAppended
<1>7. Len(rows) = Len(history) /\ \A i \in DOMAIN rows : rows[i].message = history[i]
    BY <1>1, <1>5 DEF Complete
<1>8. Len(rows') = Len(history') - 1 /\ \A i \in DOMAIN rows' : rows'[i].message = history'[i]
  <2>1. DOMAIN rows = 1..Len(rows)
      BY Types
  <2>2. QED
      BY <1>1, <1>6, <1>7, <2>1
<1>9. memory' # NoMemory => memory'.count <= Len(history')
  <2>1. memory # NoMemory => memory.count <= Len(history) /\ memory.count \in Nat
      BY <1>1, IndexTyped DEF Complete
  <2>2. QED
      BY <1>1, <1>6, <2>1
<1>10. ASSUME NEW n \in Messages
       PROVE  /\ turn'[n].pc \in LoadedPc =>
                   /\ turn'[n].session.count = Len(history')
                   /\ turn'[n].session.recent = Newest(history', Recent)
                   /\ turn'[n].session.summary = Kept(Evicted(history', Recent))
              /\ turn'[n].pc # "turns"
  <2>1. CASE n = m
      BY <1>1, <1>3, <2>1 DEF Moved
  <2>2. CASE n # m
    <3>1. turn'[n] = turn[n] /\ turn[n].pc \notin RunningPc
        BY <1>4, <2>2 DEF Running
    <3>2. QED
        BY <3>1 DEF LoadedPc, RunningPc
  <2>3. QED
      BY <2>1, <2>2
<1>11. QED
    BY <1>1, <1>3, <1>5, <1>8, <1>9, <1>10 DEF Complete, Whole

LEMMA CompletePersists ==
    ASSUME Assumptions, TypeOK, Holds, Mirrored, Ordered, Complete,
           NEW m \in Messages, NEW q \in AllPc, Persists(m, q)
    PROVE  Complete'
<1> SUFFICES ASSUME faults' = 0
             PROVE  Complete'
    BY DEF Complete
<1> DEFINE s == turn[m].session
           n == Len(history)
<1>1. /\ faults = 0 /\ UNCHANGED <<session, history>> /\ Moved(m, q, s)
      /\ turn[m].pc = "persist" /\ s \in SessionSet /\ Persisted(m, s) /\ q \in {"upsert", "log"}
    BY TurnFields DEF Persists
<1>2. Whole(s)
    BY <1>1 DEF Complete, LoadedPc
<1>3. session # NoSession => session = s
    BY <1>1 DEF Mirrored, MirroredPc
<1> HIDE DEF s
<1>4. ASSUME NEW k \in Messages, k # m
      PROVE  turn'[k] = turn[k] /\ ~Running(k)
  <2>1. Running(m)
      BY <1>1 DEF Running, RunningPc
  <2>2. QED
      BY <1>1, <1>4, <2>1, Alone DEF Moved
<1>5. Persisting /\ ~Persisting'
  <2>1. \A k \in Messages : turn'[k].pc # "persist"
      BY <1>1, <1>4 DEF Running, RunningPc, Moved
  <2>2. QED
      BY <1>1, <2>1 DEF Persisting
<1>6. history[n] = m /\ n \in Nat /\ n > 0
  <2>1. n \in Nat
      BY Types
  <2>2. QED
      BY <1>1, <2>1 DEF Ordered
<1>7. Len(rows) = n - 1 /\ \A i \in DOMAIN rows : rows[i].message = history[i]
    BY <1>1, <1>5 DEF Complete
<1>8. Len(rows') = n /\ \A i \in DOMAIN rows' : rows'[i].message = history[i]
  <2>1. /\ Len(rows') = Len(rows) + 1
        /\ \A i \in DOMAIN rows : rows'[i] = rows[i]
        /\ rows'[Len(rows) + 1].message = m
        /\ DOMAIN rows = 1..Len(rows) /\ Len(rows) \in Nat
        /\ DOMAIN rows' = 1..(Len(rows) + 1)
      BY <1>1, RowTyped
  <2>2. Len(rows) + 1 = n
      BY <1>6, <1>7
  <2> HIDE DEF n
  <2>3. ASSUME NEW i \in DOMAIN rows'
        PROVE  rows'[i].message = history[i]
    <3>1. CASE i = n
        BY <1>6, <2>1, <2>2, <3>1
    <3>2. CASE i # n
      <4>1. i \in DOMAIN rows
          BY <1>6, <2>1, <2>2, <3>2
      <4>2. QED
          BY <1>7, <2>1, <4>1
    <3>3. QED
        BY <3>1, <3>2
  <2>4. QED
      BY <2>1, <2>2, <2>3
<1>9. /\ memory' # NoMemory /\ memory'.context = Context(s)
      /\ memory'.summary = Kept(Evicted(history, Recent)) /\ memory'.count = n
  <2>1. /\ memory' \in MemorySet
        /\ memory'.context = Context(s) /\ memory'.summary = s.summary
        /\ memory = NoMemory => memory'.count = s.count
        /\ memory # NoMemory =>
             memory'.count = IF memory.count < s.count THEN s.count ELSE memory.count
      BY <1>1, PersistedMemory
  <2>2. s.count = n /\ s.summary = Kept(Evicted(history, Recent))
      BY <1>2 DEF Whole
  <2>3. memory # NoMemory => memory.count <= n /\ memory.count \in Nat
      BY <1>1, IndexTyped DEF Complete
  <2>4. memory' # NoMemory
      BY <2>1 DEF Assumptions
  <2>5. memory'.count = n
      BY <1>6, <2>1, <2>2, <2>3
  <2>6. QED
      BY <2>1, <2>2, <2>4, <2>5
<1>10. session # NoSession =>
         memory'.context.pending = session.pending /\ memory'.context.attempts = session.attempts
    BY <1>3, <1>9 DEF Context
<1>11. ASSUME NEW k \in Messages
       PROVE  /\ turn'[k].pc \in LoadedPc => Whole(turn'[k].session)
              /\ turn'[k].pc # "turns"
  <2>1. CASE k = m
      BY <1>1, <1>2, <2>1 DEF Moved
  <2>2. CASE k # m
    <3>1. turn'[k] = turn[k] /\ turn[k].pc \notin RunningPc
        BY <1>4, <2>2 DEF Running
    <3>2. QED
        BY <3>1 DEF LoadedPc, RunningPc
  <2>3. QED
      BY <2>1, <2>2
<1>12. session # NoSession => Whole(session)
    BY <1>1 DEF Complete
<1> HIDE DEF n
<1>13. memory'.count <= n
    BY <1>6, <1>9
<1>14. QED
    BY <1>1, <1>5, <1>8, <1>9, <1>10, <1>11, <1>12, <1>13 DEF Complete, Whole, n

LEMMA CompleteUpserts ==
    ASSUME Assumptions, TypeOK, Holds, Mirrored, Complete, NEW m \in Messages, Upserts(m)
    PROVE  Complete'
<1> SUFFICES ASSUME faults' = 0
             PROVE  Complete'
    BY DEF Complete
<1> DEFINE s == turn[m].session
<1>1. /\ faults = 0 /\ UNCHANGED <<session, history, rows>> /\ Moved(m, "log", s)
      /\ turn[m].pc = "upsert" /\ s \in SessionSet /\ Upserted(s)
    BY TurnFields DEF Upserts
<1>2. session # NoSession => session = s
    BY <1>1 DEF Mirrored, MirroredPc
<1> HIDE DEF s
<1>3. ~Persisting /\ ~Persisting'
  <2>1. ASSUME NEW k \in Messages
        PROVE  turn[k].pc # "persist" /\ turn'[k].pc # "persist"
    <3>1. Running(m) /\ (turn[k].pc = "persist" => Running(k))
        BY <1>1 DEF Running, RunningPc
    <3>2. turn[k].pc # "persist"
        BY <1>1, <3>1, Alone
    <3>3. QED
        BY <1>1, <3>2 DEF Moved
  <2>2. QED
      BY <2>1 DEF Persisting
<1>4. /\ memory' # NoMemory /\ memory'.context = Context(s)
      /\ memory'.count = Len(history) /\ memory'.summary = Kept(Evicted(history, Recent))
  <2>1. /\ memory' \in MemorySet /\ memory'.context = Context(s)
        /\ memory = NoMemory => memory'.count = 0
        /\ memory # NoMemory =>
             memory'.count = memory.count /\ memory'.summary = memory.summary
      BY <1>1, UpsertedMemory
  <2>2. memory' # NoMemory
      BY <2>1 DEF Assumptions
  <2>3. CASE memory = NoMemory
    <3>1. history = <<>>
        BY <1>1, <1>3, <2>3 DEF Complete
    <3>2. Len(history) = 0 /\ Kept(Evicted(history, Recent)) = <<>>
        BY <3>1, KeptNothing DEF Evicted, Assumptions
    <3>3. memory'.summary = <<>>
        BY <1>1, <2>3 DEF Upserted
    <3>4. QED
        BY <2>1, <2>2, <2>3, <3>2, <3>3
  <2>4. CASE memory # NoMemory
      BY <1>1, <1>3, <2>1, <2>2, <2>4 DEF Complete
  <2>5. QED
      BY <2>3, <2>4
<1>5. session # NoSession =>
        memory'.context.pending = session.pending /\ memory'.context.attempts = session.attempts
    BY <1>2, <1>4 DEF Context
<1>6. ASSUME NEW n \in Messages
      PROVE  /\ turn'[n].pc \in LoadedPc => Whole(turn'[n].session)
             /\ turn'[n].pc = "turns" =>
                  /\ turn'[n].session.count = Len(history)
                  /\ turn'[n].session.summary = Kept(Evicted(history, Recent))
  <2>1. CASE n = m
      BY <1>1, <2>1 DEF Moved, LoadedPc
  <2>2. CASE n # m
      BY <1>1, <2>2 DEF Moved, Complete
  <2>3. QED
      BY <2>1, <2>2
<1>7. /\ Len(rows) = Len(history)
      /\ \A i \in DOMAIN rows : rows[i].message = history[i]
      /\ session # NoSession => Whole(session)
    BY <1>1, <1>3 DEF Complete
<1>8. Len(history) <= Len(history)
    BY Types
<1>9. QED
    BY <1>1, <1>3, <1>4, <1>5, <1>6, <1>7, <1>8 DEF Complete, Whole

\* With no turn being written the rows are the history.
LEMMA RowsAreHistory ==
    ASSUME Assumptions, Base, Counted, Complete, faults = 0, ~Persisting
    PROVE  RecentTurns = Newest(history, Recent)
<1>1. Messaged \in Seq(Messages) /\ history \in Seq(Messages) /\ Len(Messaged) = Len(rows)
      /\ \A i \in DOMAIN rows : Messaged[i] = rows[i].message
    BY Types, MessagedTyped DEF Base
<1>2. Len(Messaged) = Len(history)
    BY <1>1 DEF Complete
<1>3. ASSUME NEW i \in 1..Len(Messaged)
      PROVE  Messaged[i] = history[i]
  <2>1. i \in DOMAIN rows
      BY <1>1, Types DEF Base
  <2>2. QED
      BY <1>1, <2>1 DEF Complete
<1>4. Messaged = history
    BY <1>1, <1>2, <1>3, SameSequence
<1>5. RecentTurns = Newest(Messaged, Recent)
    BY Types, RecentIsTail DEF Base, Counted
<1>6. QED
    BY <1>4, <1>5

LEMMA CompleteStep ==
    ASSUME Assumptions, Base, Holds, Mirrored, Counted, Ordered, Complete, Kinds
    PROVE  Complete'
<1>1. /\ {"rate", "get", "memory", "log", "failed", "turns", "waiting"} \cap LoadedPc = {}
      /\ EndedPc \cap (LoadedPc \cup {"persist", "turns"}) = {}
      /\ {"save", "screen", "answer", "append", "persist", "upsert"} \subseteq LoadedPc
    BY DEF LoadedPc, EndedPc
<1>2. ASSUME NEW m \in Messages, Takes(m)
      PROVE  Complete'
    BY <1>1, <1>2, CompleteSame DEF Takes, ChangingPc
<1>3. ASSUME NEW m \in Messages, Appends(m)
      PROVE  Complete'
    BY <1>3, CompleteAppends DEF Base
<1>4. ASSUME NEW m \in Messages, Upserts(m)
      PROVE  Complete'
    BY <1>4, CompleteUpserts DEF Base
<1>5. ASSUME NEW m \in Messages, NEW q \in AllPc, Hops(m, q)
      PROVE  Complete'
  <2>1. /\ q \in LoadedPc => turn[m].pc \in LoadedPc
        /\ q # "persist" /\ q # "turns" /\ turn[m].pc # "persist"
        /\ turn[m].pc \in ChangingPc => q \in ChangingPc
      BY <1>1, <1>5 DEF Hops, ChangingPc
  <2>2. faults = 0 /\ q \in LoadedPc => Whole(turn[m].session)
      BY <2>1 DEF Complete
  <2>3. QED
      BY <1>5, <2>1, <2>2, CompleteSame DEF Hops
<1>6. ASSUME NEW m \in Messages, NEW q \in AllPc, Persists(m, q)
      PROVE  Complete'
    BY <1>6, CompletePersists DEF Base
<1>7. ASSUME faults' \in 1..MaxFaults
      PROVE  Complete'
  <2>1. faults' # 0
      BY <1>7 DEF Assumptions
  <2>2. QED
      BY <2>1 DEF Complete
<1>8. ASSUME NEW m \in Messages, NEW q \in AllPc, Ends(m, q)
      PROVE  Complete'
  <2>1. CASE faults' \in 1..MaxFaults
      BY <1>7, <2>1
  <2>2. CASE turn[m].pc = "log" /\ faults' = faults
    <3>1. q \notin LoadedPc /\ q # "persist" /\ q # "turns" /\ "log" \notin ChangingPc
        BY <1>1, <1>8 DEF Ends, ChangingPc
    <3>2. Moved(m, q, turn[m].session) /\ UNCHANGED <<storeVars, faults, history>>
        BY <1>8, <2>2 DEF Ends
    <3>3. QED
        BY <2>2, <3>1, <3>2, CompleteSame
  <2>3. QED
      BY <1>8, <2>1, <2>2 DEF Ends
<1>9. ASSUME NEW m \in Messages, NEW q \in AllPc, NEW s \in SessionSet, Loads(m, q, s)
      PROVE  Complete'
  <2>1. /\ Moved(m, q, s) /\ UNCHANGED <<storeVars, faults, history>> /\ q # "persist"
        /\ turn[m].pc \in {"get", "memory", "turns"}
      BY <1>9 DEF Loads
  <2>2. ~Persisting
    <3>1. ASSUME NEW k \in Messages, turn[k].pc = "persist"
          PROVE  FALSE
      <4>1. Running(m) /\ Running(k)
          BY <2>1, <3>1 DEF Running, RunningPc
      <4>2. k = m
          BY <4>1, Alone
      <4>3. QED
          BY <2>1, <3>1, <4>2
    <3>2. QED
        BY <3>1 DEF Persisting
  <2>3. CASE turn[m].pc = "get"
    <3>1. faults = 0 => Whole(s)
        BY <1>9, <2>3 DEF Loads, Complete
    <3>2. q # "turns" /\ turn[m].pc \notin ChangingPc
        BY <1>9, <2>3 DEF Loads, ChangingPc
    <3>3. QED
        BY <2>1, <2>3, <3>1, <3>2, CompleteSame
  <2>4. CASE turn[m].pc = "memory" /\ memory = NoMemory
    <3>1. s = Fresh /\ q # "turns" /\ turn[m].pc \notin ChangingPc
        BY <1>9, <2>4 DEF Loads, ChangingPc
    <3>2. faults = 0 => Whole(s)
      <4>1. faults = 0 => history = <<>>
          BY <2>2, <2>4 DEF Complete
      <4>2. QED
          BY <3>1, <4>1, KeptNothing DEF Whole, Fresh, Newest, Evicted, Assumptions
    <3>3. QED
        BY <2>1, <2>4, <3>1, <3>2, CompleteSame
  <2>5. CASE turn[m].pc = "memory" /\ memory # NoMemory
    <3>1. s = FromMemory(memory) /\ q = "turns" /\ turn[m].pc \notin ChangingPc
        BY <1>9, <2>5 DEF Loads, ChangingPc
    <3>2. faults = 0 => s.count = Len(history) /\ s.summary = Kept(Evicted(history, Recent))
        BY <2>2, <2>5, <3>1 DEF Complete, FromMemory
    <3>3. q \notin LoadedPc
        BY <1>1, <3>1
    <3>4. QED
        BY <2>1, <2>5, <3>1, <3>2, <3>3, CompleteSame
  <2>6. CASE turn[m].pc = "turns"
    <3>1. s = [turn[m].session EXCEPT !.recent = RecentTurns] /\ q # "turns"
          /\ turn[m].pc \notin ChangingPc
        BY <1>9, <2>6 DEF Loads, ChangingPc
    <3>2. s.recent = RecentTurns /\ s.count = turn[m].session.count
          /\ s.summary = turn[m].session.summary
        BY <3>1, TurnFields DEF SessionSet, Base
    <3>3. faults = 0 => Whole(s)
        BY <2>2, <2>6, <3>2, RowsAreHistory DEF Complete, Whole
    <3>4. QED
        BY <2>1, <2>6, <3>1, <3>3, CompleteSame
  <2>7. QED
      BY <2>1, <2>3, <2>4, <2>5, <2>6
<1>10. ASSUME NEW m \in Messages, NEW q \in AllPc, NEW s \in SessionSet, Saves(m, q, s)
       PROVE  Complete'
    BY <1>10, CompleteSaves
<1>11. CASE LockExpire \/ SessionExpire \/ UNCHANGED vars
  <2>1. UNCHANGED <<rows, memory, faults, history, turn>>
        /\ (session' = session \/ session' = NoSession)
      BY <1>11 DEF LockExpire, SessionExpire, vars, storeVars
  <2>2. (Persisting' <=> Persisting) /\ (Changing' <=> Changing)
      BY <2>1 DEF Persisting, Changing
  <2>3. QED
      BY <2>1, <2>2 DEF Complete, Whole
<1>12. QED
    BY <1>2, <1>3, <1>4, <1>5, <1>6, <1>7, <1>8, <1>9, <1>10, <1>11 DEF Kinds, Loses

-----------------------------------------------------------------------------

Remembered == Holds /\ Mirrored /\ Counted /\ Ordered /\ Complete

LEMMA RememberedInit ==
    ASSUME Assumptions, Init
    PROVE  Remembered
<1>1. /\ session = NoSession /\ rows = <<>> /\ memory = NoMemory /\ history = <<>>
      /\ \A m \in Messages : turn[m].pc = "waiting"
      /\ DOMAIN rows = {} /\ DOMAIN history = {}
    BY DEF Init
<1>2. "waiting" \notin (RunningPc \cup LoadedPc \cup MirroredPc \cup {"turns"})
    BY DEF RunningPc, LoadedPc, MirroredPc
<1>3. Holds /\ Mirrored
    BY <1>1, <1>2 DEF Holds, Running, Mirrored
<1>4. Counted
    BY <1>1, <1>2 DEF Counted
<1>5. Ordered
  <2>1. DOMAIN Messaged = {}
      BY <1>1 DEF Messaged
  <2>2. InOrder(Messaged)
      BY <2>1 DEF InOrder, OrderedIn
  <2>3. QED
      BY <1>1, <1>2, <2>2 DEF Ordered
<1>6. Complete
  <2>1. ~Persisting /\ Len(rows) = Len(history)
      BY <1>1 DEF Persisting
  <2>2. QED
      BY <1>1, <1>2, <2>1 DEF Complete
<1>7. QED
    BY <1>3, <1>4, <1>5, <1>6 DEF Remembered

LEMMA RememberedStep ==
    ASSUME Assumptions, LeaseOutlivesTurn, Base, Remembered, [Next]_vars
    PROVE  Remembered'
<1>1. Kinds
    BY BaseStep
<1>2. QED
    BY <1>1, HoldsStep, MirroredStep, CountedStep, OrderedStep, CompleteStep
       DEF Remembered, Base

LEMMA RememberedIsDialog ==
    ASSUME Assumptions, Base, Remembered
    PROVE  TurnIndexUnique /\ RecentInOrder /\ WholeDialog /\ RestoreFaithful
<1>1. TurnIndexUnique
  <2>1. \A i \in DOMAIN rows : rows[i].index \in Nat /\ i \in Nat
      BY IndexTyped, Types DEF Base
  <2>2. \A i, j \in DOMAIN rows : i < j => rows[i].index < rows[j].index
      BY DEF Remembered, Counted
  <2>3. SUFFICES ASSUME NEW i \in DOMAIN rows, NEW j \in DOMAIN rows,
                        rows[i].index = rows[j].index, i # j
                 PROVE  FALSE
      BY DEF TurnIndexUnique
  <2>4. CASE i < j
    <3>1. rows[i].index < rows[j].index
        BY <2>2, <2>4
    <3>2. QED
        BY <2>1, <2>3, <3>1
  <2>5. CASE j < i
    <3>1. rows[j].index < rows[i].index
        BY <2>2, <2>5
    <3>2. QED
        BY <2>1, <2>3, <3>1
  <2>6. QED
      BY <2>1, <2>3, <2>4, <2>5
<1>2. RecentInOrder
  <2> SUFFICES ASSUME session # NoSession
               PROVE  LET PositionOf(m) == CHOOSE i \in DOMAIN history : history[i] = m
                      IN  /\ \A i \in DOMAIN session.recent : \E j \in DOMAIN history :
                               session.recent[i] = history[j]
                          /\ \A i, j \in DOMAIN session.recent :
                               i < j => PositionOf(session.recent[i]) < PositionOf(session.recent[j])
      BY DEF RecentInOrder
  <2> DEFINE PositionOf(m) == CHOOSE i \in DOMAIN history : history[i] = m
             r == session.recent
  <2>1. OrderedIn(r, history)
      BY DEF Remembered, Ordered, InOrder
  <2>2. ASSUME NEW i \in DOMAIN r
        PROVE  PositionOf(r[i]) \in DOMAIN history /\ r[i] = history[PositionOf(r[i])]
    <3>1. \E a \in DOMAIN history : history[a] = r[i]
        BY <2>1 DEF OrderedIn
    <3>2. QED
        BY <3>1
  <2>3. ASSUME NEW i \in DOMAIN r, NEW j \in DOMAIN r, i < j
        PROVE  PositionOf(r[i]) < PositionOf(r[j])
    <3> HIDE DEF PositionOf, r
    <3>1. QED
        BY <2>1, <2>2, <2>3 DEF OrderedIn
  <2>4. \A i \in DOMAIN r : \E j \in DOMAIN history : r[i] = history[j]
      BY <2>1 DEF OrderedIn
  <2>5. QED
      BY <2>3, <2>4
<1>3. WholeDialog
  <2> DEFINE old == Evicted(history, Recent)
             n == Len(session.summary)
  <2> SUFFICES ASSUME faults = 0, session # NoSession
               PROVE  /\ session.recent = Newest(history, Recent)
                      /\ session.summary = Newest(old, n) /\ session.summary \in Summaries
                      /\ n < Len(old) => Newest(old, n + 1) \notin Summaries
      BY DEF WholeDialog
  <2>1. Whole(session)
      BY DEF Remembered, Complete
  <2>2. old \in Seq(Messages) /\ Len(old) \in Nat
      BY Types, TailParts DEF Base, Assumptions
  <2> HIDE DEF old
  <2>3. /\ Room(old) \in 0..Len(old) /\ Newest(old, Room(old)) \in Summaries
        /\ \A k \in 0..Len(old) : Newest(old, k) \in Summaries => k <= Room(old)
        /\ Len(Kept(old)) = Room(old)
      BY <2>2, KeptParts
  <2>4. session.summary = Newest(old, Room(old)) /\ n = Room(old)
      BY <2>1, <2>3 DEF Whole, Kept, old
  <2>5. n < Len(old) => Newest(old, n + 1) \notin Summaries
    <3>1. SUFFICES ASSUME n < Len(old), Newest(old, n + 1) \in Summaries
                   PROVE  FALSE
        OBVIOUS
    <3> HIDE DEF n
    <3>2. n \in Nat /\ n + 1 \in 0..Len(old)
        BY <2>2, <2>3, <2>4, <3>1
    <3>3. n + 1 <= n
        BY <2>3, <2>4, <3>1, <3>2
    <3>4. QED
        BY <3>2, <3>3
  <2>6. QED
      BY <2>1, <2>3, <2>4, <2>5 DEF Whole
<1>4. RestoreFaithful
  <2> SUFFICES ASSUME faults = 0, lock = Nobody, session # NoSession
               PROVE  /\ memory # NoMemory
                      /\ [Restored EXCEPT !.forum = NoForum] = [session EXCEPT !.forum = NoForum]
      BY DEF RestoreFaithful
  <2>1. \A m \in Messages : ~Running(m)
      BY DEF Remembered, Holds, Assumptions
  <2>2. ~Persisting /\ ~Changing
      BY <2>1 DEF Running, RunningPc, Persisting, Changing
  <2>3. /\ memory # NoMemory
        /\ memory.context.pending = session.pending
        /\ memory.context.attempts = session.attempts
        /\ memory.count = Len(history) /\ memory.summary = Kept(Evicted(history, Recent))
        /\ Whole(session)
      BY <2>2 DEF Remembered, Complete
  <2>4. RecentTurns = Newest(history, Recent)
      BY <2>2, RowsAreHistory DEF Remembered
  <2>5. session \in SessionSet /\ FromMemory(memory) \in SessionSet
      BY <2>3, Types, FromMemoryTyped DEF Base
  <2>6. /\ FromMemory(memory).count = session.count
        /\ FromMemory(memory).summary = session.summary
        /\ FromMemory(memory).pending = session.pending
        /\ FromMemory(memory).attempts = session.attempts
        /\ RecentTurns = session.recent
      BY <2>3, <2>4 DEF FromMemory, Whole
  <2> DEFINE f == FromMemory(memory)
  <2>7. Restored = [f EXCEPT !.recent = RecentTurns]
      BY DEF Restored
  <2> HIDE DEF f
  <2>8. [Restored EXCEPT !.forum = NoForum] = [session EXCEPT !.forum = NoForum]
      BY <2>5, <2>6, <2>7 DEF SessionSet, f
  <2>9. QED
      BY <2>3, <2>8
<1>5. QED
    BY <1>1, <1>2, <1>3, <1>4

\* The last messages are turns that were had, each once, also when turns outlive the lock and
\* write back what they have read.  While they do not, they are in their order, a turn_index
\* names one row, and without faults the session is the whole dialog up to what the summary has
\* no room for, and so is what would be restored in its place, through any evictions, expiries
\* and restorations, and for any length of the texts (manager.py, get_or_create, append_turn
\* and _append_summary; memory.py, append_turn and get_recent_turns).
THEOREM DialogRemembered ==
    ASSUME Assumptions
    PROVE  Spec => []TurnsRemembered
<1>1. Init => Base /\ (LeaseOutlivesTurn => Remembered)
    BY BaseInit, RememberedInit
<1>2. Base /\ (LeaseOutlivesTurn => Remembered) /\ [Next]_vars
        => (Base /\ (LeaseOutlivesTurn => Remembered))'
    BY BaseStep, RememberedStep
<1>3. Base => NothingInvented
    BY DEF Base, Shown, GoodIn, HadIn, NothingInvented
<1>4. Base /\ (LeaseOutlivesTurn => Remembered) => TurnsRemembered
    BY <1>3, RememberedIsDialog DEF TurnsRemembered
<1>5. QED
    BY <1>1, <1>2, <1>4, PTL DEF Spec

-----------------------------------------------------------------------------
(* The limit on a user's messages (RequestLimit).                          *)

CONSTANTS Calls, MaxMessages, Window, NoKey, NoTTL, MaxStops
VARIABLES key, call, stops, admitted

Rate == INSTANCE RequestLimit WITH Limit <- MaxMessages, MaxFaults <- MaxStops, faults <- stops

Counters == [count : 1..(MaxMessages + 1), ttl : (1..Window) \cup {NoTTL}]

\* What the window holds was admitted by the counter there is and by the one before it: the
\* first n messages, Limit at most, by the one before, and the others were counted since.
\* When the counter that there is expires, in ttl ticks, those n have left the window.
Before(n) ==
    /\ n <= Len(admitted) /\ Len(admitted) - n <= MaxMessages /\ Len(admitted) - n <= key.count
    /\ key.ttl # NoTTL => \A i \in 1..n : admitted[i] + key.ttl >= Window

TwoCounters ==
    /\ key = NoKey => Len(admitted) <= MaxMessages
    /\ key # NoKey => \E n \in 0..MaxMessages : Before(n)

LimitSafe == Rate!TypeOK /\ TwoCounters

-----------------------------------------------------------------------------
(* Types.                                                                  *)

LEMMA LimitConstants ==
    ASSUME Rate!Assumptions
    PROVE  /\ MaxMessages \in Nat \ {0} /\ Window \in Nat \ {0} /\ MaxStops \in Nat
           /\ NoTTL \notin Nat /\ NoKey \notin Counters
    BY DEF Rate!Assumptions, Counters

LEMMA LimitTypeInit == ASSUME Rate!Assumptions, Rate!Init PROVE Rate!TypeOK
    BY LimitConstants DEF Rate!Init, Rate!TypeOK

\* The counter counts up to the first count that is refused.
LEMMA Counts ==
    ASSUME Rate!Assumptions, Rate!TypeOK
    PROVE  /\ Rate!Counted \in 1..(MaxMessages + 1)
           /\ key = NoKey => Rate!Counted = 1
           /\ key # NoKey => /\ key \in Counters /\ key.count <= Rate!Counted
                             /\ Rate!Counted <= MaxMessages => Rate!Counted = key.count + 1
    BY LimitConstants DEF Rate!Counted, Rate!TypeOK, Counters

\* A message is admitted at age 0.
LEMMA Admits ==
    ASSUME Rate!Assumptions, Rate!TypeOK, NEW r \in Calls, Rate!Incr(r)
    PROVE  /\ admitted' \in Seq(0..(Window - 1))
           /\ Rate!Counted <= MaxMessages => /\ Len(admitted') = Len(admitted) + 1
                                  /\ \A i \in 1..Len(admitted) : admitted'[i] = admitted[i]
           /\ Rate!Counted > MaxMessages => admitted' = admitted
<1> DEFINE Age == 0..(Window - 1)
<1>1. admitted \in Seq(Age) /\ 0 \in Age /\ Rate!Counted \in Nat /\ MaxMessages \in Nat
    BY LimitConstants, Counts DEF Rate!TypeOK
<1>2. admitted' = IF Rate!Counted <= MaxMessages THEN Append(admitted, 0) ELSE admitted
    BY DEF Rate!Incr, Rate!Allowed
<1> HIDE DEF Age
<1>3. admitted' \in Seq(Age)
    BY <1>1, <1>2
<1>4. Rate!Counted <= MaxMessages => /\ Len(admitted') = Len(admitted) + 1
                          /\ \A i \in 1..Len(admitted) : admitted'[i] = admitted[i]
    BY <1>1, <1>2
<1>5. QED
    BY <1>1, <1>2, <1>3, <1>4 DEF Age

\* The window holds a sequence of ages.
LEMMA Aged ==
    ASSUME Rate!TypeOK
    PROVE  /\ Len(admitted) \in Nat /\ DOMAIN admitted = 1..Len(admitted)
           /\ \A i \in 1..Len(admitted) : admitted[i] \in 0..(Window - 1)
<1> DEFINE Age == 0..(Window - 1)
<1>1. admitted \in Seq(Age)
    BY DEF Rate!TypeOK
<1> HIDE DEF Age
<1>2. /\ Len(admitted) \in Nat /\ DOMAIN admitted = 1..Len(admitted)
      /\ \A i \in 1..Len(admitted) : admitted[i] \in Age
    BY <1>1
<1>3. QED
    BY <1>2 DEF Age

\* What a tick does to the ages in the window.
LEMMA Ages ==
    ASSUME Rate!Assumptions, Rate!TypeOK, Rate!Tick
    PROVE  /\ admitted' \in Seq(0..(Window - 1))
           /\ \E gone \in 0..Len(admitted) :
                /\ \A i \in 1..Len(admitted) : i <= gone <=> admitted[i] + 1 = Window
                /\ Len(admitted') = Len(admitted) - gone
                /\ \A i \in 1..Len(admitted') : admitted'[i] = admitted[i + gone] + 1
<1> DEFINE Age == 0..(Window - 1)
<1>1. Len(admitted) \in Nat /\ DOMAIN admitted = 1..Len(admitted)
      /\ \A i \in 1..Len(admitted) : admitted[i] \in Age
    BY Aged
<1>2. PICK gone \in 0..Len(admitted) :
          /\ \A i \in 1..Len(admitted) : i <= gone <=> admitted[i] + 1 = Window
          /\ admitted' = [i \in 1..Len(admitted) - gone |-> admitted[i + gone] + 1]
    BY <1>1 DEF Rate!Tick
<1>3. ASSUME NEW i \in 1..Len(admitted) - gone
      PROVE  admitted[i + gone] + 1 \in Age
  <2>1. i + gone \in 1..Len(admitted) /\ ~(i + gone <= gone)
      BY <1>1
  <2>2. admitted[i + gone] + 1 # Window /\ admitted[i + gone] \in 0..(Window - 1)
      BY <1>1, <1>2, <2>1
  <2>3. QED
      BY <2>2, LimitConstants
<1>4. Len(admitted) - gone \in Nat
    BY <1>1
<1>5. admitted' \in Seq(Age) /\ Len(admitted') = Len(admitted) - gone
  <2> HIDE DEF Age
  <2>1. QED
      BY <1>2, <1>3, <1>4
<1>6. QED
    BY <1>2, <1>5

LEMMA LimitTypeNext == ASSUME Rate!Assumptions, Rate!TypeOK, [Rate!Next]_(Rate!vars)
  PROVE Rate!TypeOK'
<1> USE LimitConstants DEF Rate!TypeOK
<1>1. CASE UNCHANGED Rate!vars
    BY <1>1 DEF Rate!vars
<1>2. ASSUME NEW r \in Calls, Rate!Incr(r) PROVE Rate!TypeOK'
  <2>1. key' \in Counters
      BY <1>2, Counts DEF Rate!Incr, Counters
  <2>2. call' \in [Calls -> {"idle", "expire"}]
      BY <1>2 DEF Rate!Incr
  <2>3. QED
      BY <1>2, <2>1, <2>2, Admits DEF Rate!Incr, Counters
<1>3. ASSUME NEW r \in Calls, Rate!Expire(r) PROVE Rate!TypeOK'
    BY <1>3 DEF Rate!Expire
<1>4. ASSUME NEW r \in Calls, Rate!Stop(r) PROVE Rate!TypeOK'
    BY <1>4 DEF Rate!Stop
<1>5. CASE Rate!Tick
  <2>1. admitted' \in Seq(0..(Window - 1))
      BY <1>5, Ages
  <2>2. key' = NoKey \/ key' \in Counters
      BY <1>5 DEF Rate!Tick, Counters
  <2>3. QED
      BY <1>5, <2>1, <2>2 DEF Rate!Tick, Counters
<1>6. QED
    BY <1>1, <1>2, <1>3, <1>4, <1>5 DEF Rate!Next

-----------------------------------------------------------------------------
(* The invariant.                                                          *)

LEMMA TwoCountersInit == ASSUME Rate!Assumptions, Rate!Init PROVE TwoCounters
    BY LimitConstants DEF Rate!Init, TwoCounters

\* INCR: the first message of a new counter, one more, or one that is refused.
LEMMA TwoCountersIncr ==
    ASSUME Rate!Assumptions, LimitSafe, NEW r \in Calls, Rate!Incr(r) PROVE TwoCounters'
<1> USE LimitConstants, Aged DEF LimitSafe
<1>1. /\ key' \in Counters /\ key' # NoKey /\ key'.count = Rate!Counted
      /\ key = NoKey => key'.ttl = NoTTL
      /\ key # NoKey => key'.ttl = key.ttl
    BY Counts DEF Rate!Incr, Counters
<1>2. CASE key = NoKey
  <2>1. Rate!Counted = 1 /\ Rate!Counted <= MaxMessages
      BY <1>2, Counts
  <2>2. Len(admitted) \in 0..MaxMessages /\ Len(admitted') = Len(admitted) + 1
    <3>1. Len(admitted') = Len(admitted) + 1
        BY <2>1, Admits
    <3>2. QED
        BY <1>2, <3>1 DEF TwoCounters
  <2>. PICK n \in 0..MaxMessages : n = Len(admitted)
      BY <2>2
  <2>3. Before(n)'
      BY <1>1, <1>2, <2>1, <2>2 DEF Before
  <2>4. QED
      BY <1>1, <2>3 DEF TwoCounters
<1>3. CASE key # NoKey
  <2>1. PICK n \in 0..MaxMessages : Before(n)
      BY <1>3 DEF TwoCounters
  <2>2. Before(n)'
    <3> USE <1>1, <1>3, <2>1
    <3>1. CASE Rate!Counted <= MaxMessages
      <4>1. /\ Rate!Counted = key.count + 1 /\ key.count \in Nat
            /\ Len(admitted') = Len(admitted) + 1
          BY <3>1, Counts, Admits DEF Counters
      <4>2. /\ n <= Len(admitted') /\ Len(admitted') - n <= MaxMessages
            /\ Len(admitted') - n <= key'.count
          BY <3>1, <4>1 DEF Before
      <4>3. \A i \in 1..n : admitted'[i] = admitted[i]
          BY <3>1, Admits DEF Before
      <4>4. QED
          BY <4>2, <4>3 DEF Before
    <3>2. CASE Rate!Counted > MaxMessages
        BY <3>2, Counts, Admits DEF Before, Counters
    <3>3. QED
        BY <3>1, <3>2, Counts
  <2>3. QED
      BY <1>1, <2>2 DEF TwoCounters
<1>4. QED
    BY <1>2, <1>3

\* EXPIRE: whatever is in the window leaves it before the counter does.
LEMMA TwoCountersExpire ==
    ASSUME Rate!Assumptions, LimitSafe, NEW r \in Calls, Rate!Expire(r) PROVE TwoCounters'
<1> USE LimitConstants, Aged DEF LimitSafe
<1>1. CASE key = NoKey
    BY <1>1 DEF Rate!Expire, TwoCounters
<1>2. CASE key # NoKey
  <2>1. key' = [key EXCEPT !.ttl = Window] /\ admitted' = admitted /\ key \in Counters
      BY <1>2 DEF Rate!Expire, Rate!TypeOK, Counters
  <2>2. key' \in Counters /\ key'.ttl = Window /\ key'.count = key.count
      BY <2>1 DEF Counters
  <2>3. PICK n \in 0..MaxMessages : Before(n)
      BY <1>2 DEF TwoCounters
  <2>4. \A i \in 1..n : admitted[i] \in Nat
      BY <2>3, Aged DEF Before
  <2>5. Before(n)'
      BY <2>1, <2>2, <2>3, <2>4 DEF Before
  <2>6. QED
      BY <2>2, <2>5 DEF TwoCounters
<1>3. QED
    BY <1>1, <1>2

\* A tick: what the counter before it admitted has left the window when the counter goes.
LEMMA TwoCountersTick ==
    ASSUME Rate!Assumptions, LimitSafe, Rate!Tick PROVE TwoCounters'
<1> USE LimitConstants, Aged DEF LimitSafe
<1>1. PICK gone \in 0..Len(admitted) :
                /\ \A i \in 1..Len(admitted) : i <= gone <=> admitted[i] + 1 = Window
                /\ Len(admitted') = Len(admitted) - gone
                /\ \A i \in 1..Len(admitted') : admitted'[i] = admitted[i + gone] + 1
    BY Ages
<1>2. CASE key = NoKey
    BY <1>1, <1>2 DEF Rate!Tick, TwoCounters
<1>3. ASSUME key # NoKey PROVE TwoCounters'
  <2>1. key \in Counters
      BY <1>3 DEF Rate!TypeOK, Counters
  <2>2. PICK n \in 0..MaxMessages : Before(n)
      BY <1>3 DEF TwoCounters
  <2> DEFINE m == IF gone <= n THEN n - gone ELSE 0
  <2>3. m \in 0..MaxMessages /\ m <= Len(admitted') /\ Len(admitted') - m <= Len(admitted) - n
        /\ \A i \in 1..m : i + gone \in 1..n /\ i \in 1..Len(admitted')
      BY <1>1, <2>2 DEF Before
  <2> HIDE DEF m
  <2>4. CASE key.ttl = NoTTL
    <3>1. key' = key
        BY <2>4 DEF Rate!Tick
    <3>2. Before(m)'
        BY <2>1, <2>2, <2>3, <2>4, <3>1 DEF Before, Counters
    <3>3. QED
        BY <1>3, <2>3, <3>1, <3>2 DEF TwoCounters
  <2>5. CASE key.ttl = 1
    <3>1. key' = NoKey
        BY <2>5 DEF Rate!Tick
    <3>2. n <= gone
      <4>1. CASE n = 0
          BY <4>1
      <4>2. CASE n \in 1..MaxMessages
        <5>1. n \in 1..Len(admitted) /\ admitted[n] + 1 >= Window
            BY <2>2, <2>5, <4>2 DEF Before
        <5>2. admitted[n] \in 0..(Window - 1)
            BY <5>1, Aged
        <5>3. QED
            BY <1>1, <5>1, <5>2
      <4>3. QED
          BY <4>1, <4>2
    <3>3. Len(admitted') <= MaxMessages
        BY <1>1, <2>2, <3>2 DEF Before
    <3>4. QED
        BY <3>1, <3>3 DEF TwoCounters
  <2>6. CASE key.ttl \in 2..Window
    <3>1. key' = [key EXCEPT !.ttl = @ - 1]
        BY <1>3, <2>6 DEF Rate!Tick
    <3>2. key' \in Counters /\ key'.ttl = key.ttl - 1 /\ key'.count = key.count
        BY <2>1, <2>6, <3>1 DEF Counters
    <3>3. \A i \in 1..m : admitted'[i] + key'.ttl >= Window
      <4>1. TAKE i \in 1..m
      <4>2. admitted'[i] = admitted[i + gone] + 1
          BY <1>1, <2>3
      <4>3. admitted[i + gone] + key.ttl >= Window
        <5>1. key.ttl # NoTTL
            BY <2>6
        <5>2. QED
            BY <2>2, <2>3, <5>1 DEF Before
      <4>4. i + gone \in 1..Len(admitted) /\ admitted[i + gone] \in Nat
          BY <2>2, <2>3, Aged DEF Before
      <4>5. QED
          BY <2>6, <3>2, <4>2, <4>3, <4>4
    <3>4. Before(m)'
        BY <2>1, <2>2, <2>3, <3>2, <3>3 DEF Before, Counters
    <3>5. QED
        BY <2>3, <3>2, <3>4 DEF TwoCounters
  <2>7. QED
      BY <2>1, <2>4, <2>5, <2>6 DEF Counters
<1>4. QED
    BY <1>2, <1>3

LEMMA LimitSafeNext == ASSUME Rate!Assumptions, LimitSafe, [Rate!Next]_(Rate!vars)
  PROVE LimitSafe'
<1>1. Rate!TypeOK'
    BY LimitTypeNext DEF LimitSafe
<1>2. CASE UNCHANGED Rate!vars
    BY <1>1, <1>2 DEF Rate!vars, LimitSafe, TwoCounters, Before
<1>3. ASSUME NEW r \in Calls, Rate!Stop(r) PROVE TwoCounters'
    BY <1>3 DEF Rate!Stop, LimitSafe, TwoCounters, Before
<1>4. QED
    BY <1>1, <1>2, <1>3, TwoCountersIncr, TwoCountersExpire, TwoCountersTick
    DEF Rate!Next, LimitSafe

-----------------------------------------------------------------------------
(* The messages of a user: the theorems.                                   *)

\* The counter is one of the counts up to the first refused one, with or without a TTL.
THEOREM LimitTyped == ASSUME Rate!Assumptions PROVE Rate!Spec => []Rate!TypeOK
<1>1. Rate!Init => Rate!TypeOK
    BY LimitTypeInit
<1>2. Rate!TypeOK /\ [Rate!Next]_(Rate!vars) => Rate!TypeOK'
    BY LimitTypeNext
<1>3. QED
    BY <1>1, <1>2, PTL DEF Rate!Spec

\* security/rate_limiter.py, check: no window of time, wherever it begins, holds more than
\* twice the limit of a user's messages, however the two commands of concurrent calls
\* interleave and whichever of them are never sent.
THEOREM AtMostTwice == ASSUME Rate!Assumptions PROVE Rate!Spec => []Rate!TwiceTheLimit
<1>1. Rate!Init => LimitSafe
    BY LimitTypeInit, TwoCountersInit DEF LimitSafe
<1>2. LimitSafe /\ [Rate!Next]_(Rate!vars) => LimitSafe'
    BY LimitSafeNext
<1>3. LimitSafe => Rate!TwiceTheLimit
    BY LimitConstants, Aged DEF LimitSafe, TwoCounters, Before, Rate!TwiceTheLimit
<1>4. QED
    BY <1>1, <1>2, <1>3, PTL DEF Rate!Spec

-----------------------------------------------------------------------------
(* Posts to HDE (HDELimiter).                                              *)

CONSTANTS Senders, Rpm, Minute, Ban, RetryAfter, MaxTime
VARIABLES now, timestamps, blockedUntil, sender, refusal, posts, blocks

Limiter == INSTANCE HDELimiter

\* The timestamps are the last posts, Rpm at most, all but the first gap of them.
Remembers(gap) ==
    /\ Len(posts) = gap + Len(timestamps)
    /\ \A i \in 1..Len(timestamps) : timestamps[i] = posts[gap + i]
    /\ \A i \in 1..gap : posts[i] <= now - Minute

LastPosts ==
    /\ Len(timestamps) <= Rpm
    /\ \E gap \in Nat : Remembers(gap)
    /\ \A i, j \in 1..Len(posts) : i <= j => posts[i] <= posts[j]

\* No block that was asked for outlasts the one that is kept.
Blocked == \A b \in blocks : b.until <= blockedUntil

Posting == Limiter!TypeOK /\ LastPosts /\ Blocked /\ Limiter!WindowBound /\ Limiter!BlocksRespected

\* Popping leaves the timestamps inside the window.
LEMMA Pops ==
    ASSUME Limiter!Assumptions, Limiter!TypeOK
    PROVE  /\ Limiter!Popped \in 0..Len(timestamps)
           /\ \A i \in 1..Limiter!Popped : timestamps[i] <= now - Minute
           /\ Limiter!Popped < Len(timestamps) => timestamps[Limiter!Popped + 1] > now - Minute
<1>1. timestamps \in Seq(Nat) /\ now \in Nat /\ Minute \in Nat
    BY DEF Limiter!Assumptions, Limiter!TypeOK
<1> DEFINE S == {i \in 1..Len(timestamps) : timestamps[i] > now - Minute}
           Fits(n) == /\ \A i \in 1..n : timestamps[i] <= now - Minute
                      /\ n < Len(timestamps) => timestamps[n + 1] > now - Minute
<1>2. \E n \in 0..Len(timestamps) : Fits(n)
  <2>1. CASE S = {}
    <3>1. Len(timestamps) \in Nat /\ \A i \in 1..Len(timestamps) : timestamps[i] \in Nat
        BY <1>1
    <3>2. \A i \in 1..Len(timestamps) : timestamps[i] <= now - Minute
        BY <1>1, <2>1, <3>1
    <3>3. Fits(Len(timestamps))
        BY <3>1, <3>2
    <3>4. QED
        BY <3>1, <3>3
  <2>2. CASE S # {}
    <3> S \in SUBSET Nat
        BY <1>1
    <3>1. PICK x \in S : \A y \in S : x <= y
      <4> HIDE DEF S
      <4> QED BY <2>2, FirstOf
    <3>2. PICK n \in 0..Len(timestamps) : x = n + 1
      <4>1. x \in 1..Len(timestamps) /\ Len(timestamps) \in Nat
          BY <1>1, <3>1
      <4>2. x - 1 \in 0..Len(timestamps) /\ x = (x - 1) + 1
          BY <4>1
      <4>3. QED
          BY <4>2
    <3>3. ASSUME NEW i \in 1..n PROVE timestamps[i] <= now - Minute
      <4>1. i \in 1..Len(timestamps) /\ ~ (x <= i) /\ timestamps[i] \in Nat
          BY <1>1, <3>1, <3>2
      <4>2. i \notin S
          BY <3>1, <4>1
      <4>3. QED
          BY <1>1, <4>1, <4>2
    <3>4. Fits(n)
        BY <3>1, <3>2, <3>3
    <3>5. QED
        BY <3>4
  <2>3. QED
      BY <2>1, <2>2
<1>3. Limiter!Popped = CHOOSE n \in 0..Len(timestamps) : Fits(n)
    BY DEF Limiter!Popped
<1>4. Limiter!Popped \in 0..Len(timestamps) /\ Fits(Limiter!Popped)
    BY <1>2, <1>3
<1>5. QED
    BY <1>4

LEMMA PostsInit == ASSUME Limiter!Assumptions, Limiter!Init PROVE Posting
<1>1. Limiter!TypeOK
  BY DEF Limiter!Init, Limiter!TypeOK, Limiter!None, Limiter!Assumptions
<1>2. Len(posts) = 0 /\ Len(timestamps) = 0 /\ blocks = {} /\ DOMAIN posts = {}
  BY DEF Limiter!Init
<1>3. Remembers(0)
  BY <1>2 DEF Remembers
<1>4. LastPosts
  BY <1>2, <1>3 DEF LastPosts, Limiter!Assumptions
<1>5. QED
  BY <1>1, <1>2, <1>4 DEF Posting, Blocked, Limiter!WindowBound, Limiter!BlocksRespected

LEMMA Remainder ==
    ASSUME NEW n \in Nat, NEW s \in Seq(0..n), NEW p \in Nat, NEW rest \in Nat,
           Len(s) = p + rest
    PROVE  LET q == SubSeq(s, p + 1, p + rest) IN
           /\ q \in Seq(0..n) /\ Len(q) = rest
           /\ \A i \in 1..rest : q[i] = s[p + i]
<1> DEFINE Moments == 0..n
<1>1. s \in Seq(Moments)
    OBVIOUS
<1> HIDE DEF Moments
<1>2. \A i \in (p + 1)..(p + rest) : s[i] \in Moments
    BY <1>1
<1>3. SubSeq(s, p + 1, p + rest) \in Seq(Moments)
    BY <1>1, <1>2, SubSeqProperties
<1>4. Len(SubSeq(s, p + 1, p + rest)) = rest
    BY <1>1, SubSeqProperties
<1>5. ASSUME NEW i \in 1..rest PROVE SubSeq(s, p + 1, p + rest)[i] = s[p + i]
    BY <1>1, <1>4
<1>6. QED
    BY <1>3, <1>4, <1>5 DEF Moments

\* What is kept are the last posts again, those of the last minute.
LEMMA Keeps ==
    ASSUME Limiter!Assumptions, Limiter!TypeOK, LastPosts
    PROVE  /\ Limiter!Kept \in Seq(0..now)
           /\ Len(Limiter!Kept) \in 0..Len(timestamps)
           /\ Limiter!Kept # <<>> => Limiter!Kept[1] > now - Minute
           /\ \E gap \in Nat :
                 /\ Len(posts) = gap + Len(Limiter!Kept)
                 /\ \A i \in 1..Len(Limiter!Kept) : Limiter!Kept[i] = posts[gap + i]
                 /\ \A i \in 1..gap : posts[i] <= now - Minute
<1>1. /\ timestamps \in Seq(0..now) /\ posts \in Seq(0..now) /\ now \in Nat /\ Minute \in Nat
      /\ Len(timestamps) \in Nat /\ Len(posts) \in Nat
    BY DEF Limiter!Assumptions, Limiter!TypeOK
<1>2. PICK old \in Nat : Remembers(old)
    BY DEF LastPosts
<1>3. PICK p \in 0..Len(timestamps) :
        /\ p = Limiter!Popped
        /\ \A i \in 1..p : timestamps[i] <= now - Minute
        /\ p < Len(timestamps) => timestamps[p + 1] > now - Minute
    BY Pops
<1>4. PICK rest \in Nat : Len(timestamps) = p + rest
  <2>1. Len(timestamps) - p \in Nat /\ Len(timestamps) = p + (Len(timestamps) - p)
      BY <1>1, <1>3
  <2>2. QED
      BY <2>1
<1>5. /\ Limiter!Kept \in Seq(0..now) /\ Len(Limiter!Kept) = rest
      /\ \A i \in 1..rest : Limiter!Kept[i] = timestamps[p + i]
  <2> DEFINE last == SubSeq(timestamps, p + 1, p + rest)
  <2>1. p \in Nat /\ Limiter!Kept = last
      BY <1>3, <1>4 DEF Limiter!Kept
  <2>2. /\ last \in Seq(0..now) /\ Len(last) = rest
        /\ \A i \in 1..rest : last[i] = timestamps[p + i]
      BY <1>1, <1>4, <2>1, Remainder
  <2> HIDE DEF last
  <2>3. QED
      BY <2>1, <2>2
<1>6. Limiter!Kept # <<>> => Limiter!Kept[1] > now - Minute
  <2>1. CASE rest = 0
      BY <1>5, <2>1
  <2>2. CASE rest # 0
    <3>1. 1 \in 1..rest /\ p < Len(timestamps)
        BY <1>4, <2>2
    <3>2. QED
        BY <1>3, <1>5, <3>1
  <2>3. QED
      BY <2>1, <2>2
<1>7. Len(posts) = (old + p) + rest /\ old + p \in Nat
    BY <1>1, <1>2, <1>3, <1>4 DEF Remembers
<1>8. \A i \in 1..rest : Limiter!Kept[i] = posts[(old + p) + i]
  <2>1. ASSUME NEW i \in 1..rest PROVE Limiter!Kept[i] = posts[(old + p) + i]
    <3>1. p + i \in 1..Len(timestamps)
        BY <1>3, <1>4
    <3>2. timestamps[p + i] = posts[old + (p + i)]
        BY <1>2, <3>1 DEF Remembers
    <3>3. QED
        BY <1>3, <1>4, <1>5, <3>2
  <2>2. QED
      BY <2>1
<1>9. \A i \in 1..(old + p) : posts[i] <= now - Minute
  <2>1. ASSUME NEW i \in 1..(old + p) PROVE posts[i] <= now - Minute
    <3>1. CASE i <= old
        BY <1>2, <3>1 DEF Remembers
    <3>2. CASE i > old
      <4>1. PICK k \in 1..p : i = old + k
          BY <1>3, <3>2
      <4>2. k \in 1..Len(timestamps) /\ timestamps[k] = posts[old + k]
          BY <1>2, <1>3, <1>4, <4>1 DEF Remembers
      <4>3. QED
          BY <1>3, <4>1, <4>2
    <3>3. QED
        BY <3>1, <3>2
  <2>2. QED
      BY <2>1
<1>10. QED
    BY <1>4, <1>5, <1>6, <1>7, <1>8, <1>9

LEMMA Added ==
    ASSUME NEW n \in Nat, NEW s \in Seq(0..n)
    PROVE  /\ Append(s, n) \in Seq(0..n) /\ Len(Append(s, n)) = Len(s) + 1
           /\ Append(s, n)[Len(s) + 1] = n
           /\ \A i \in 1..Len(s) : Append(s, n)[i] = s[i] /\ s[i] \in 0..n
<1> DEFINE Moments == 0..n
<1>1. s \in Seq(Moments) /\ n \in Moments
    OBVIOUS
<1> HIDE DEF Moments
<1>2. /\ Append(s, n) \in Seq(Moments) /\ Len(Append(s, n)) = Len(s) + 1
      /\ Append(s, n)[Len(s) + 1] = n
      /\ \A i \in 1..Len(s) : Append(s, n)[i] = s[i] /\ s[i] \in Moments
    BY <1>1
<1>3. QED
    BY <1>2 DEF Moments

\* A sender is refused.
LEMMA PostsRefused ==
    ASSUME Limiter!Assumptions, Posting, NEW s \in Senders,
           Limiter!RefuseBlocked(s) \/ Limiter!RefuseFull(s)
    PROVE  Posting'
<1>1. /\ now \in Nat /\ Minute \in Nat /\ blockedUntil \in Nat /\ Rpm \in Nat \ {0}
      /\ Limiter!TypeOK /\ LastPosts
    BY DEF Limiter!Assumptions, Posting, Limiter!TypeOK
<1>2. CASE Limiter!RefuseBlocked(s)
  <2>1. UNCHANGED <<now, timestamps, blockedUntil, sender, posts, blocks>>
      BY <1>2 DEF Limiter!RefuseBlocked
  <2>2. refusal' \in [why : {"none", "block", "full"}, retry : Nat]
      BY <1>1, <1>2 DEF Limiter!RefuseBlocked
  <2>3. QED
      BY <2>1, <2>2 DEF Posting, Limiter!TypeOK, LastPosts, Remembers, Blocked,
                        Limiter!WindowBound, Limiter!BlocksRespected
<1>3. CASE Limiter!RefuseFull(s)
  <2>1. /\ UNCHANGED <<now, blockedUntil, sender, posts, blocks>>
        /\ timestamps' = Limiter!Kept /\ Len(Limiter!Kept) >= Rpm
        /\ refusal' = [why |-> "full", retry |-> Limiter!Retry]
      BY <1>3 DEF Limiter!RefuseFull
  <2>2. Limiter!Kept \in Seq(0..now) /\ Len(Limiter!Kept) \in 0..Len(timestamps)
      BY <1>1, Keeps
  <2>3. Limiter!Retry \in Nat
    <3>1. Limiter!Kept # <<>>
        BY <1>1, <2>1
    <3>2. Limiter!Kept[1] \in 0..now /\ Limiter!Kept[1] > now - Minute
        BY <1>1, <2>2, <3>1, Keeps
    <3>3. QED
        BY <1>1, <3>2 DEF Limiter!Retry
  <2>4. refusal' \in [why : {"none", "block", "full"}, retry : Nat]
      BY <2>1, <2>3
  <2>5. LastPosts'
    <3>1. \E gap \in Nat : Remembers(gap)'
        BY <1>1, <2>1, Keeps DEF Remembers
    <3>2. Len(timestamps') <= Rpm
      <4>1. Len(Limiter!Kept) <= Len(timestamps) /\ Len(timestamps) <= Rpm
            /\ Len(timestamps) \in Nat /\ Len(Limiter!Kept) \in Nat
          BY <1>1, <2>2 DEF LastPosts, Limiter!TypeOK
      <4>2. QED
          BY <1>1, <2>1, <4>1
    <3>3. QED
        BY <1>1, <2>1, <3>1, <3>2 DEF LastPosts
  <2>6. Limiter!TypeOK'
      BY <2>1, <2>2, <2>4 DEF Posting, Limiter!TypeOK
  <2>7. QED
      BY <2>1, <2>5, <2>6 DEF Posting, Blocked, Limiter!WindowBound, Limiter!BlocksRespected
<1>4. QED
    BY <1>2, <1>3

LEMMA PostsAcquire ==
    ASSUME Limiter!Assumptions, Posting, NEW s \in Senders, Limiter!Acquire(s)
    PROVE  Posting'
<1>1. /\ now \in Nat /\ Minute \in Nat /\ blockedUntil \in Nat /\ Rpm \in Nat \ {0}
      /\ Limiter!TypeOK /\ LastPosts /\ Blocked /\ Limiter!WindowBound /\ Limiter!BlocksRespected
      /\ posts \in Seq(0..now) /\ Len(posts) \in Nat
    BY DEF Limiter!Assumptions, Posting, Limiter!TypeOK
<1>2. /\ blockedUntil <= now /\ Len(Limiter!Kept) < Rpm
      /\ timestamps' = Append(Limiter!Kept, now) /\ posts' = Append(posts, now)
      /\ sender' = [sender EXCEPT ![s] = "posting"] /\ refusal' = Limiter!None
      /\ UNCHANGED <<now, blockedUntil, blocks>>
    BY DEF Limiter!Acquire
<1>3. PICK gap \in Nat :
        /\ Len(posts) = gap + Len(Limiter!Kept)
        /\ \A i \in 1..Len(Limiter!Kept) : Limiter!Kept[i] = posts[gap + i]
        /\ \A i \in 1..gap : posts[i] <= now - Minute
    BY <1>1, Keeps
<1>4. PICK kept \in Nat : kept = Len(Limiter!Kept)
    BY <1>1, Keeps
<1>5. Limiter!Kept \in Seq(0..now) /\ DOMAIN posts = 1..Len(posts)
    BY <1>1, Keeps
<1>6. /\ posts' \in Seq(0..now) /\ Len(posts') = Len(posts) + 1 /\ posts'[Len(posts) + 1] = now
      /\ \A i \in 1..Len(posts) : posts'[i] = posts[i] /\ posts[i] \in 0..now
    BY <1>1, <1>2, Added
<1>7. /\ timestamps' \in Seq(0..now) /\ Len(timestamps') = kept + 1 /\ timestamps'[kept + 1] = now
      /\ \A i \in 1..kept : timestamps'[i] = Limiter!Kept[i]
    BY <1>1, <1>2, <1>4, <1>5, Added
<1>8. Limiter!TypeOK'
  <2>1. sender' \in [Senders -> {"idle", "posting"}]
      BY <1>1, <1>2 DEF Limiter!TypeOK
  <2>2. refusal' \in [why : {"none", "block", "full"}, retry : Nat]
      BY <1>2 DEF Limiter!None
  <2>3. blocks' \subseteq [posts : 0..Len(posts'), until : Nat]
    <3>1. 0..Len(posts) \subseteq 0..Len(posts')
        BY <1>1, <1>6
    <3>2. QED
        BY <1>1, <1>2, <3>1 DEF Limiter!TypeOK
  <2>4. QED
      BY <1>1, <1>2, <1>6, <1>7, <2>1, <2>2, <2>3 DEF Limiter!TypeOK
<1>9. LastPosts'
  <2>1. Remembers(gap)'
    <3>1. Len(posts') = gap + Len(timestamps')
        BY <1>1, <1>3, <1>4, <1>6, <1>7
    <3>2. ASSUME NEW i \in 1..(kept + 1) PROVE timestamps'[i] = posts'[gap + i]
      <4>1. CASE i \in 1..kept
        <5>1. gap + i \in 1..Len(posts)
            BY <1>3, <1>4, <4>1
        <5>2. posts'[gap + i] = posts[gap + i] /\ timestamps'[i] = Limiter!Kept[i]
            BY <1>6, <1>7, <4>1, <5>1
        <5>3. QED
            BY <1>3, <1>4, <4>1, <5>2
      <4>2. CASE i = kept + 1
          BY <1>3, <1>4, <1>6, <1>7, <4>2
      <4>3. QED
          BY <4>1, <4>2
    <3>3. \A i \in 1..gap : posts'[i] <= now - Minute
        BY <1>3, <1>4, <1>6
    <3>4. QED
        BY <1>2, <1>7, <3>1, <3>2, <3>3 DEF Remembers
  <2>2. Len(timestamps') <= Rpm
      BY <1>1, <1>2, <1>4, <1>7
  <2>3. ASSUME NEW i \in 1..(Len(posts) + 1), NEW j \in 1..(Len(posts) + 1), i <= j
        PROVE  posts'[i] <= posts'[j]
    <3>1. CASE j \in 1..Len(posts)
      <4>1. i \in 1..Len(posts)
          BY <1>1, <2>3, <3>1
      <4>2. QED
          BY <1>1, <1>6, <2>3, <3>1, <4>1 DEF LastPosts
    <3>2. CASE j = Len(posts) + 1
      <4>1. i \in 1..Len(posts) \/ i = Len(posts) + 1
          BY <1>1
      <4>2. QED
          BY <1>1, <1>6, <3>2, <4>1
    <3>3. QED
        BY <1>1, <3>1, <3>2
  <2>4. QED
      BY <1>6, <2>1, <2>2, <2>3 DEF LastPosts
<1>10. Limiter!WindowBound'
  <2>1. ASSUME NEW i \in 1..(Len(posts) + 1), i + Rpm \in 1..(Len(posts) + 1)
        PROVE  posts'[i + Rpm] - posts'[i] >= Minute
    <3>1. i \in 1..Len(posts) /\ posts'[i] = posts[i] /\ posts[i] \in Nat
        BY <1>1, <1>6, <2>1
    <3>2. CASE i + Rpm \in 1..Len(posts)
      <4>1. posts'[i + Rpm] = posts[i + Rpm] /\ i + Rpm \in DOMAIN posts /\ i \in DOMAIN posts
          BY <1>5, <1>6, <3>1, <3>2
      <4>2. QED
          BY <1>1, <3>1, <4>1 DEF Limiter!WindowBound
    <3>3. CASE i + Rpm = Len(posts) + 1
      <4>1. i \in 1..gap
          BY <1>1, <1>2, <1>3, <1>4, <3>1, <3>3
      <4>2. posts[i] <= now - Minute /\ posts'[i + Rpm] = now
          BY <1>3, <1>6, <3>3, <4>1
      <4>3. QED
          BY <1>1, <3>1, <4>2
    <3>4. QED
        BY <1>1, <2>1, <3>2, <3>3
  <2>2. DOMAIN posts' = 1..(Len(posts) + 1)
      BY <1>6
  <2>3. QED
      BY <2>1, <2>2 DEF Limiter!WindowBound
<1>11. Limiter!BlocksRespected'
  <2>1. ASSUME NEW b \in blocks, NEW i \in 1..(Len(posts) + 1), i > b.posts
        PROVE  posts'[i] >= b.until
    <3>1. CASE i \in 1..Len(posts)
        BY <1>1, <1>5, <1>6, <2>1, <3>1 DEF Limiter!BlocksRespected
    <3>2. CASE i = Len(posts) + 1
      <4>1. b.until \in Nat /\ b.until <= blockedUntil
          BY <1>1 DEF Blocked, Limiter!TypeOK
      <4>2. QED
          BY <1>1, <1>2, <1>6, <3>2, <4>1
    <3>3. QED
        BY <1>1, <3>1, <3>2
  <2>2. DOMAIN posts' = 1..(Len(posts) + 1)
      BY <1>6
  <2>3. QED
      BY <1>2, <2>1, <2>2 DEF Limiter!BlocksRespected
<1>12. QED
    BY <1>1, <1>2, <1>8, <1>9, <1>10, <1>11 DEF Posting, Blocked

LEMMA PostsBlock ==
    ASSUME Limiter!Assumptions, Posting, NEW s \in Senders, NEW ticks \in Nat,
           Limiter!Respond(s), Limiter!BlockFor(ticks)
    PROVE  Posting'
<1>1. /\ now \in Nat /\ blockedUntil \in Nat /\ posts \in Seq(0..now) /\ Len(posts) \in Nat
      /\ Limiter!TypeOK /\ Blocked /\ Limiter!BlocksRespected
    BY DEF Posting, Limiter!TypeOK
<1>2. /\ sender' = [sender EXCEPT ![s] = "idle"]
      /\ UNCHANGED <<now, timestamps, refusal, posts>>
      /\ blocks' = blocks \cup {[posts |-> Len(posts), until |-> now + ticks]}
    BY DEF Limiter!Respond, Limiter!BlockFor
<1>3. blockedUntil' \in Nat /\ blockedUntil' >= blockedUntil /\ blockedUntil' >= now + ticks
    BY <1>1 DEF Limiter!BlockFor, Limiter!Later
<1>4. Limiter!TypeOK'
  <2>1. [posts |-> Len(posts), until |-> now + ticks] \in [posts : 0..Len(posts), until : Nat]
      BY <1>1
  <2>2. QED
      BY <1>1, <1>2, <1>3, <2>1 DEF Limiter!TypeOK
<1>5. Blocked'
  <2>1. ASSUME NEW b \in blocks' PROVE b.until <= blockedUntil'
    <3>1. CASE b \in blocks
        BY <1>1, <1>3, <3>1 DEF Blocked, Limiter!TypeOK
    <3>2. CASE b = [posts |-> Len(posts), until |-> now + ticks]
        BY <1>3, <3>2
    <3>3. QED
        BY <1>2, <3>1, <3>2
  <2>2. QED
      BY <2>1 DEF Blocked
<1>6. Limiter!BlocksRespected'
  <2>1. ASSUME NEW b \in blocks', NEW i \in DOMAIN posts, i > b.posts PROVE posts[i] >= b.until
    <3>1. CASE b \in blocks
        BY <1>1, <2>1, <3>1 DEF Limiter!BlocksRespected
    <3>2. CASE b = [posts |-> Len(posts), until |-> now + ticks]
        BY <1>1, <2>1, <3>2
    <3>3. QED
        BY <1>2, <3>1, <3>2
  <2>2. QED
      BY <1>2, <2>1 DEF Limiter!BlocksRespected
<1>7. QED
    BY <1>2, <1>4, <1>5, <1>6 DEF Posting, LastPosts, Remembers, Limiter!WindowBound

LEMMA PostsTick ==
    ASSUME Limiter!Assumptions, Posting, Limiter!Tick
    PROVE  Posting'
<1>1. /\ now \in Nat /\ MaxTime \in Nat /\ Minute \in Nat /\ now' = now + 1 /\ now < MaxTime
      /\ UNCHANGED <<timestamps, blockedUntil, sender, refusal, posts, blocks>>
      /\ Limiter!TypeOK /\ LastPosts
    BY DEF Limiter!Assumptions, Posting, Limiter!TypeOK, Limiter!Tick
<1>2. ASSUME NEW q \in Seq(0..now) PROVE q \in Seq(0..now')
    BY <1>1
<1>3. Limiter!TypeOK'
    BY <1>1, <1>2 DEF Limiter!TypeOK
<1>4. LastPosts'
  <2>1. PICK gap \in Nat : Remembers(gap)
      BY <1>1 DEF LastPosts
  <2>2. \A i \in 1..gap : posts[i] \in Nat /\ posts[i] <= now' - Minute
    <3>1. posts \in Seq(0..now) /\ Len(timestamps) \in Nat
        BY <1>1 DEF Limiter!TypeOK
    <3>2. \A i \in 1..gap : i \in 1..Len(posts) /\ posts[i] \in 0..now
      <4>1. Len(posts) = gap + Len(timestamps) /\ Len(posts) \in Nat
          BY <2>1, <3>1 DEF Remembers
      <4>2. \A i \in 1..gap : i \in 1..Len(posts)
          BY <3>1, <4>1
      <4>3. \A i \in 1..Len(posts) : posts[i] \in 0..now
        <5> DEFINE Moments == 0..now
        <5>1. posts \in Seq(Moments)
            BY <3>1
        <5> HIDE DEF Moments
        <5>2. \A i \in 1..Len(posts) : posts[i] \in Moments
            BY <5>1
        <5>3. QED
            BY <5>2 DEF Moments
      <4>4. QED
          BY <4>2, <4>3
    <3>3. QED
        BY <1>1, <2>1, <3>2 DEF Remembers
  <2>3. Remembers(gap)'
      BY <1>1, <2>1, <2>2 DEF Remembers
  <2>4. QED
      BY <1>1, <2>3 DEF LastPosts
<1>5. QED
    BY <1>1, <1>3, <1>4 DEF Posting, Blocked, Limiter!WindowBound, Limiter!BlocksRespected

LEMMA PostsNext ==
    ASSUME Limiter!Assumptions, Posting, [Limiter!Next]_(Limiter!vars)
    PROVE  Posting'
<1>1. CASE UNCHANGED Limiter!vars
    BY <1>1 DEF Limiter!vars, Posting, Limiter!TypeOK, LastPosts, Remembers, Blocked,
                Limiter!WindowBound, Limiter!BlocksRespected
<1>2. ASSUME NEW s \in Senders, Limiter!RespondQuiet(s) PROVE Posting'
  <2>1. /\ UNCHANGED <<now, timestamps, blockedUntil, refusal, posts, blocks>>
        /\ sender' = [sender EXCEPT ![s] = "idle"]
      BY <1>2 DEF Limiter!RespondQuiet, Limiter!Respond
  <2>2. sender' \in [Senders -> {"idle", "posting"}]
      BY <2>1 DEF Posting, Limiter!TypeOK
  <2>3. QED
      BY <2>1, <2>2 DEF Posting, Limiter!TypeOK, LastPosts, Remembers, Blocked,
                        Limiter!WindowBound, Limiter!BlocksRespected
<1>3. ASSUME NEW s \in Senders, Limiter!RespondLow(s) PROVE Posting'
    BY <1>3, PostsBlock DEF Limiter!RespondLow, Limiter!Assumptions
<1>4. ASSUME NEW s \in Senders, NEW header \in RetryAfter, Limiter!RespondRefused(s, header)
      PROVE  Posting'
  <2>1. PICK ticks \in Nat : ticks = IF header > 0 THEN header ELSE Ban
      BY DEF Limiter!Assumptions
  <2>2. Limiter!Respond(s) /\ Limiter!BlockFor(ticks)
      BY <1>4, <2>1 DEF Limiter!RespondRefused
  <2>3. QED
      BY <2>2, PostsBlock
<1>5. QED
    BY <1>1, <1>2, <1>3, <1>4, PostsRefused, PostsAcquire, PostsTick DEF Limiter!Next

\* A refused sender is told when the oldest post of a full minute leaves it.
LEMMA RetryExact ==
    ASSUME Limiter!Assumptions, Posting, [Limiter!Next]_(Limiter!vars)
    PROVE  Limiter!ExactRetry
<1> SUFFICES ASSUME refusal' # refusal, refusal'.why = "full"
             PROVE  now + refusal'.retry = posts[Len(posts) - Rpm + 1] + Minute
    BY DEF Limiter!ExactRetry
<1>1. PICK s \in Senders : Limiter!RefuseFull(s)
    BY DEF Limiter!Next, Limiter!vars, Limiter!RefuseBlocked, Limiter!Acquire, Limiter!None,
           Limiter!RespondQuiet, Limiter!RespondLow, Limiter!RespondRefused, Limiter!Respond,
           Limiter!Tick
<1>2. /\ now \in Nat /\ Minute \in Nat /\ Rpm \in Nat \ {0} /\ posts \in Seq(0..now)
      /\ Limiter!TypeOK /\ LastPosts /\ Len(timestamps) \in Nat /\ Len(timestamps) <= Rpm
    BY DEF Limiter!Assumptions, Posting, Limiter!TypeOK, LastPosts
<1>3. Len(Limiter!Kept) >= Rpm /\ refusal'.retry = Minute - (now - Limiter!Kept[1])
    BY <1>1 DEF Limiter!RefuseFull, Limiter!Retry
<1>4. Len(Limiter!Kept) \in 0..Len(timestamps)
    BY <1>2, Keeps
<1>5. Len(Limiter!Kept) = Rpm
    BY <1>2, <1>3, <1>4
<1>6. PICK gap \in Nat : /\ Len(posts) = gap + Rpm
                         /\ \A i \in 1..Rpm : Limiter!Kept[i] = posts[gap + i]
    BY <1>2, <1>5, Keeps
<1>7. gap + 1 = Len(posts) - Rpm + 1 /\ Limiter!Kept[1] = posts[gap + 1] /\ posts[gap + 1] \in Nat
  <2>1. 1 \in 1..Rpm /\ gap + 1 \in 1..Len(posts)
      BY <1>2, <1>6
  <2>2. QED
      BY <1>2, <1>6, <2>1
<1>8. QED
    BY <1>2, <1>3, <1>7

\* channels/hde.py, try_acquire and block_for: no minute, wherever it begins, holds more posts
\* to HDE than are configured, no post begins while a block is in force that any response has
\* asked for, and a sender that the window refuses is told the first moment at which one more
\* post keeps the bound, for any limit, any headers and any number of posts on their way.
THEOREM PostsBounded == ASSUME Limiter!Assumptions PROVE Limiter!Spec => Limiter!PostsLimited
<1>1. Limiter!Init => Posting
    BY PostsInit
<1>2. Posting /\ [Limiter!Next]_(Limiter!vars) => Posting'
    BY PostsNext
<1>3. Posting => Limiter!WindowBound /\ Limiter!BlocksRespected
    BY DEF Posting
<1>4. Posting /\ [Limiter!Next]_(Limiter!vars) => Limiter!ExactRetry
    BY RetryExact
<1>5. QED
    BY <1>1, <1>2, <1>3, <1>4, PTL DEF Limiter!Spec, Limiter!PostsLimited

\* The limiter's clock, its timestamps and its senders have their types.
THEOREM LimiterTyped == ASSUME Limiter!Assumptions PROVE Limiter!Spec => []Limiter!TypeOK
<1>1. Limiter!Init => Posting
    BY PostsInit
<1>2. Posting /\ [Limiter!Next]_(Limiter!vars) => Posting'
    BY PostsNext
<1>3. Posting => Limiter!TypeOK
    BY DEF Posting
<1>4. QED
    BY <1>1, <1>2, <1>3, PTL DEF Limiter!Spec

-----------------------------------------------------------------------------
(* Retention beside the queues and the dialog (Retention).                 *)

CONSTANTS
  Events, Never, MemoryTTL, TraceTTL, QueueTTL, Horizon, TurnsKept, MaxDays, MaxTurns, MaxRuns
VARIABLES day, inbox, outbox, trace, turns, remembered, job, first, answers

Purge == INSTANCE Retention WITH
  now <- day, memory <- remembered, Recent <- TurnsKept, MaxTime <- MaxDays

TurnRows   == [n : 1..MaxTurns, at : 0..MaxDays]
RowSets    == [turns : SUBSET TurnRows, memory : BOOLEAN, traces : SUBSET Events,
               outbox : SUBSET Events, inbox : SUBSET Events]
InboxRows  == [status : {"absent", "open", "processed", "dead_letter"}, at : Purge!Times]
OutboxRows == [status : {"absent", "open", "delivered", "dead_letter"}, at : Purge!Times]
Snapshots  == (0..MaxDays) \X [Events -> InboxRows] \X [Events -> OutboxRows]
               \X [Events -> Purge!Times] \X (SUBSET TurnRows)
               \X [last : Purge!Times, count : 0..MaxTurns]
Readings   == Snapshots \cup {<<>>}
Statements == {"turns", "memory", "traces", "outbox", "inbox", "commit"}

JobTyped ==
    job \in [pc : Statements \cup {"idle", "preview"}, runs : 0..MaxRuns, at : 0..MaxDays,
             eligible : RowSets, seen : Readings, deleted : RowSets]

\* What the rows of an event have to do with each other: a queued answer has its inbox row
\* and, until it is delivered, its trace.
RowsFit(e) ==
    /\ outbox[e].status # "absent" =>
         /\ inbox[e].status = "processed"
         /\ outbox[e].status # "delivered" => trace[e] # Never
    /\ inbox[e].status # "absent" => first[e] # Never
    /\ first[e] # Never => first[e] <= day
    /\ inbox[e].status = "processed" => first[e] <= inbox[e].at

\* An event whose inbox row is gone is too old to be delivered again, and an event that was
\* answered is not open again.
AnswersFit(e) ==
    /\ inbox[e].status = "absent" /\ first[e] # Never => day - first[e] > QueueTTL
    /\ answers[e] <= 1
    /\ answers[e] = 1 =>
         /\ first[e] # Never
         /\ inbox[e].status \in {"absent", "processed"}
         /\ outbox[e].status \in {"absent", "delivered"}

\* A stored turn is no later than the last interaction that the memory dates.
TurnsFit ==
    /\ turns # {} => remembered.last # Never
    /\ remembered.last # Never => remembered.last <= day
    /\ \A t \in turns : t.at <= remembered.last

\* What the transaction has deleted is what qualifies now as it did then: what changes a row
\* makes it younger than the transaction.  Only a trace may have begun to qualify since.
DeletedFit ==
    /\ job.at <= day
    /\ job.deleted.turns =
         IF job.pc \in Statements \ {"turns"} THEN Purge!OldTurns(job.at) ELSE {}
    /\ job.deleted.memory <=>
         job.pc \in Statements \ {"turns", "memory"} /\ Purge!OldMemory(job.at)
    /\ job.deleted.traces \subseteq
         IF job.pc \in {"outbox", "inbox", "commit"} THEN Purge!OldTraces(job.at) ELSE {}
    /\ job.deleted.outbox =
         IF job.pc \in {"inbox", "commit"} THEN Purge!OldOutbox(job.at) ELSE {}
    /\ job.deleted.inbox =
         IF job.pc = "commit"
         THEN {e \in Purge!OldInbox(job.at) :
                  outbox[e].status = "absent" \/ e \in Purge!OldOutbox(job.at)}
         ELSE {}

\* The rows that the dry run has shown, by the state that it has read.
ThenOutbox ==
    {e \in Events : job.seen[3][e].status = "delivered"
                      /\ Purge!Old(job.seen[3][e].at, job.seen[1], QueueTTL)}
ThenInbox ==
    {e \in Events : job.seen[2][e].status = "processed"
                      /\ Purge!Old(job.seen[2][e].at, job.seen[1], QueueTTL)}

ThenTraces ==
    {e \in Events : /\ Purge!Old(job.seen[4][e], job.seen[1], TraceTTL)
                    /\ job.seen[2][e].status \in {"absent", "processed"}
                    /\ job.seen[3][e].status \in {"absent", "delivered"}}

\* The dry run has shown what qualified in that state.
PreviewFit ==
    /\ job.seen[1] \in Nat /\ job.seen[1] <= day
    /\ job.pc \in Statements => job.seen[1] <= job.at
    /\ job.eligible.turns = {t \in job.seen[5] : Purge!Old(t.at, job.seen[1], MemoryTTL)}
    /\ job.eligible.memory = Purge!Old(job.seen[6].last, job.seen[1], MemoryTTL)
    /\ job.eligible.traces = ThenTraces
    /\ job.eligible.outbox = ThenOutbox
    /\ job.eligible.inbox =
         {e \in ThenInbox : job.seen[3][e].status = "absent" \/ e \in ThenOutbox}

\* A trace that the dry run has shown still qualifies, and so is deleted, unless a webhook
\* has opened its event.
ShownFit(e) ==
    e \in job.eligible.traces =>
      /\ job.seen[2][e].status \in {"absent", "processed"}
      /\ \/ /\ inbox[e] = job.seen[2][e]
            /\ ~Purge!Unresolved(e)
            /\ trace[e] # Never /\ trace[e] < job.seen[1] - TraceTTL
            /\ job.pc \in {"outbox", "inbox", "commit"} /\ job.at = job.seen[1] =>
                 e \in job.deleted.traces
         \/ job.seen[2][e].status = "absent" /\ inbox[e].status # "absent"

\* The inductive invariant.
Retained ==
    /\ Purge!TypeOK /\ JobTyped
    /\ \A e \in Events : RowsFit(e)
    /\ Horizon <= QueueTTL => \A e \in Events : AnswersFit(e)
    /\ TurnsFit
    /\ DeletedFit
    /\ job.pc # "idle" => PreviewFit /\ \A e \in Events : ShownFit(e)

-----------------------------------------------------------------------------

LEMMA RowTypes ==
    ASSUME Purge!TypeOK, NEW e \in Events
    PROVE  /\ inbox[e] = [status |-> inbox[e].status, at |-> inbox[e].at]
           /\ outbox[e] = [status |-> outbox[e].status, at |-> outbox[e].at]
           /\ inbox[e].status \in {"absent", "open", "processed", "dead_letter"}
           /\ outbox[e].status \in {"absent", "open", "delivered", "dead_letter"}
           /\ inbox[e].at \in Purge!Times /\ outbox[e].at \in Purge!Times
           /\ trace[e] \in Purge!Times /\ first[e] \in Purge!Times /\ answers[e] \in Nat
  BY DEF Purge!TypeOK

\* An action of one event.
EventStep(e) ==
    \/ Purge!Webhook(e) \/ Purge!Answer(e) \/ Purge!Process(e)
    \/ Purge!Deliver(e) \/ Purge!DeadLetter(e) \/ Purge!Requeue(e)

\* What the actions of an event leave alone.
LEMMA OneEvent ==
    ASSUME Retained, NEW e \in Events, EventStep(e)
    PROVE  /\ UNCHANGED <<day, turns, remembered>>
           /\ UNCHANGED <<job.pc, job.at, job.eligible, job.seen, job.runs>>
           /\ UNCHANGED <<job.deleted.turns, job.deleted.memory, job.deleted.outbox,
                          job.deleted.inbox>>
           /\ job'.deleted.traces \subseteq job.deleted.traces
           /\ \A x \in Events \ {e} :
                /\ UNCHANGED <<inbox[x], outbox[x], trace[x], first[x], answers[x]>>
                /\ x \in job.deleted.traces => x \in job'.deleted.traces
  <1>1. UNCHANGED <<day, turns, remembered>>
    BY DEF EventStep, Purge!Webhook, Purge!Answer, Purge!Process, Purge!Deliver,
       Purge!DeadLetter, Purge!Requeue, Purge!memoryVars
  <1>2. job' = job \/ job' = [job EXCEPT !.deleted.traces = @ \ {e}]
    BY DEF EventStep, Purge!Webhook, Purge!Answer, Purge!Process, Purge!Deliver,
       Purge!DeadLetter, Purge!Requeue, Purge!memoryVars
  <1>3. /\ UNCHANGED <<job.pc, job.at, job.eligible, job.seen, job.runs>>
        /\ UNCHANGED <<job.deleted.turns, job.deleted.memory, job.deleted.outbox,
                       job.deleted.inbox>>
        /\ job'.deleted.traces \in {job.deleted.traces, job.deleted.traces \ {e}}
    BY <1>2 DEF Retained, JobTyped, RowSets
  <1>4. ASSUME NEW x \in Events \ {e}
        PROVE  UNCHANGED <<inbox[x], outbox[x], trace[x], first[x], answers[x]>>
    <2> USE DEF Retained, Purge!TypeOK
    <2>1. UNCHANGED inbox[x]
      BY <1>4 DEF EventStep, Purge!Webhook, Purge!Answer, Purge!Process, Purge!Deliver,
         Purge!DeadLetter, Purge!Requeue
    <2>2. UNCHANGED outbox[x]
      BY <1>4 DEF EventStep, Purge!Webhook, Purge!Answer, Purge!Process, Purge!Deliver,
         Purge!DeadLetter, Purge!Requeue
    <2>3. UNCHANGED <<trace[x], first[x], answers[x]>>
      BY <1>4 DEF EventStep, Purge!Webhook, Purge!Answer, Purge!Process, Purge!Deliver,
         Purge!DeadLetter, Purge!Requeue
    <2> QED BY <2>1, <2>2, <2>3
  <1> QED BY <1>1, <1>3, <1>4

\* Its types.
LEMMA EventTyped ==
    ASSUME Purge!Assumptions, Retained, NEW e \in Events, EventStep(e)
    PROVE  Purge!TypeOK' /\ JobTyped'
  <1>0. Purge!TypeOK /\ JobTyped /\ day \in Purge!Times /\ day # Never /\ Never \in Purge!Times
    BY DEF Retained, Purge!TypeOK, Purge!Times, Purge!Assumptions
  <1>1. JobTyped'
    BY <1>0 DEF EventStep, Purge!Webhook, Purge!Answer, Purge!Process, Purge!Deliver,
       Purge!DeadLetter, Purge!Requeue, Purge!memoryVars, JobTyped, RowSets
  <1>2. day' \in 0..MaxDays /\ turns' \subseteq [n : 1..MaxTurns, at : 0..MaxDays]
        /\ remembered' \in [last : Purge!Times, count : 0..MaxTurns] /\ job'.runs \in 0..MaxRuns
    BY <1>0, OneEvent DEF Purge!TypeOK
  <1>3. inbox' \in [Events -> [status : {"absent", "open", "processed", "dead_letter"},
                               at : Purge!Times]]
    BY <1>0 DEF EventStep, Purge!Webhook, Purge!Answer, Purge!Process, Purge!Deliver,
       Purge!DeadLetter, Purge!Requeue, Purge!TypeOK
  <1>4. \A x \in Events : (inbox'[x].status = "processed") <=> (inbox'[x].at # Never)
    BY <1>0 DEF EventStep, Purge!Webhook, Purge!Answer, Purge!Process, Purge!Deliver,
       Purge!DeadLetter, Purge!Requeue, Purge!TypeOK
  <1>5. outbox' \in [Events -> [status : {"absent", "open", "delivered", "dead_letter"},
                               at : Purge!Times]]
    BY <1>0 DEF EventStep, Purge!Webhook, Purge!Answer, Purge!Process, Purge!Deliver,
       Purge!DeadLetter, Purge!Requeue, Purge!TypeOK
  <1>6. \A x \in Events : (outbox'[x].status = "delivered") <=> (outbox'[x].at # Never)
    BY <1>0 DEF EventStep, Purge!Webhook, Purge!Answer, Purge!Process, Purge!Deliver,
       Purge!DeadLetter, Purge!Requeue, Purge!TypeOK
  <1>7. /\ trace' \in [Events -> Purge!Times]
        /\ first' \in [Events -> Purge!Times]
        /\ answers' \in [Events -> Nat]
    BY <1>0 DEF EventStep, Purge!Webhook, Purge!Answer, Purge!Process, Purge!Deliver,
       Purge!DeadLetter, Purge!Requeue, Purge!TypeOK
  <1> QED BY <1>1, <1>2, <1>3, <1>4, <1>5, <1>6, <1>7 DEF Purge!TypeOK

\* How the rows of the event change.
LEMMA RowSteps ==
    ASSUME Purge!Assumptions, Retained, NEW e \in Events, EventStep(e)
    PROVE  \/ /\ inbox[e].status = "absent" /\ outbox[e].status = "absent"
              /\ inbox'[e].status = "open" /\ outbox'[e] = outbox[e] /\ answers'[e] = answers[e]
              /\ first[e] # Never => day - first[e] <= Horizon
              /\ first'[e] = IF first[e] = Never THEN day ELSE first[e]
              /\ e \notin job'.deleted.traces
           \/ /\ inbox[e].status = "open" /\ outbox[e].status = "absent"
              /\ inbox'[e].status \in {"open", "dead_letter"}
              /\ UNCHANGED <<outbox[e], answers[e], first[e], job>>
           \/ /\ inbox[e].status = "open" /\ outbox[e].status = "absent" /\ trace[e] # Never
              /\ inbox'[e].status = "processed" /\ inbox'[e].at = day
              /\ outbox'[e].status \in {"absent", "open"}
              /\ UNCHANGED <<trace[e], answers[e], first[e], job>>
           \/ /\ inbox[e].status = "dead_letter" /\ outbox[e].status = "absent"
              /\ inbox'[e].status = "open"
              /\ UNCHANGED <<outbox[e], trace[e], answers[e], first[e], job>>
           \/ /\ inbox[e].status = "processed" /\ outbox[e].status \in {"open", "dead_letter"}
              /\ trace[e] # Never
              /\ outbox'[e].status = "delivered" /\ outbox'[e].at = day
              /\ answers'[e] = answers[e] + 1
              /\ UNCHANGED <<inbox[e], trace[e], first[e], job>>
           \/ /\ inbox[e].status = "processed" /\ outbox[e].status \in {"open", "dead_letter"}
              /\ outbox'[e].status \in {"open", "dead_letter"}
              /\ UNCHANGED <<inbox[e], trace[e], answers[e], first[e], job>>
  <1>0. RowsFit(e) /\ inbox[e].status \in {"absent", "open", "processed", "dead_letter"}
                  /\ outbox[e].status \in {"absent", "open", "delivered", "dead_letter"}
    BY RowTypes DEF Retained
  <1> USE <1>0 DEF Purge!memoryVars, Retained, Purge!TypeOK, RowsFit
  <1>1. CASE Purge!Webhook(e)
    BY <1>1 DEF Purge!Webhook, JobTyped, RowSets
  <1>2. CASE Purge!Answer(e)
    BY <1>2 DEF Purge!Answer
  <1>3. CASE Purge!Process(e)
    BY <1>3 DEF Purge!Process
  <1>4. CASE Purge!Deliver(e)
    BY <1>4 DEF Purge!Deliver
  <1>5. CASE Purge!DeadLetter(e)
    BY <1>5 DEF Purge!DeadLetter
  <1>6. CASE Purge!Requeue(e)
    BY <1>6 DEF Purge!Requeue
  <1> QED BY <1>1, <1>2, <1>3, <1>4, <1>5, <1>6 DEF EventStep

\* Each part of the invariant after an action of one event.
LEMMA EventRows ==
    ASSUME Purge!Assumptions, Retained, NEW e \in Events, EventStep(e), NEW x \in Events
    PROVE  RowsFit(x)'
  <1>0. RowsFit(x) /\ day \in 0..MaxDays /\ day' = day
    BY OneEvent DEF Retained, Purge!TypeOK
  <1>1. CASE x # e
    BY <1>0, <1>1, OneEvent DEF RowsFit
  <1>2. CASE x = e
    BY <1>0, <1>2, RowSteps, RowTypes DEF Retained, RowsFit, Purge!Assumptions, Purge!Times
  <1> QED BY <1>1, <1>2

LEMMA EventAnswers ==
    ASSUME Purge!Assumptions, Retained, NEW e \in Events, EventStep(e), NEW x \in Events,
           Horizon <= QueueTTL
    PROVE  AnswersFit(x)'
  <1>0. AnswersFit(x) /\ day \in Nat /\ day' = day /\ answers[x] \in Nat
        /\ first[x] \in Nat \cup {Never} /\ Never \notin Nat /\ {Horizon, QueueTTL} \subseteq Nat
    BY OneEvent, RowTypes DEF Retained, Purge!TypeOK, Purge!Assumptions, Purge!Times
  <1>1. CASE x # e
    BY <1>0, <1>1, OneEvent DEF AnswersFit
  <1>2. CASE x = e
    <2> USE <1>0, <1>2
    <2>1. inbox'[e].status # "absent" /\ (inbox[e].status = "absent" => first[e] = Never)
      BY RowSteps DEF AnswersFit
    <2>2. answers[e] = 1 => UNCHANGED <<inbox[e].status, outbox[e].status, answers[e], first[e]>>
      BY <2>1, RowSteps DEF AnswersFit
    <2>3. answers[e] = 0 =>
            \/ answers'[e] = 0
            \/ /\ answers'[e] = 1 /\ first'[e] # Never
               /\ inbox'[e].status = "processed" /\ outbox'[e].status = "delivered"
      BY RowSteps DEF Retained, RowsFit
    <2> QED BY <2>1, <2>2, <2>3 DEF AnswersFit
  <1> QED BY <1>1, <1>2

LEMMA EventDeleted ==
    ASSUME Purge!Assumptions, Retained, NEW e \in Events, EventStep(e)
    PROVE  DeletedFit'
  <1>0. /\ DeletedFit /\ day \in Nat /\ job.at \in Nat /\ job.at <= day /\ Never \notin Nat
        /\ {MemoryTTL, TraceTTL, QueueTTL} \subseteq Nat
    BY DEF Retained, DeletedFit, Purge!TypeOK, JobTyped, Purge!Assumptions
  <1>1. /\ Purge!OldTurns(job.at)' = Purge!OldTurns(job.at)
        /\ Purge!OldMemory(job.at)' = Purge!OldMemory(job.at)
    BY OneEvent DEF Purge!OldTurns, Purge!OldMemory, Purge!Old
  <1>2. Purge!OldOutbox(job.at)' = Purge!OldOutbox(job.at)
    <2>1. ASSUME NEW x \in Events
          PROVE  x \in Purge!OldOutbox(job.at)' <=> x \in Purge!OldOutbox(job.at)
      <3>1. CASE x # e
        BY <3>1, OneEvent DEF Purge!OldOutbox, Purge!Old
      <3>2. CASE x = e
        BY <1>0, <3>2, OneEvent, RowSteps DEF Purge!OldOutbox, Purge!Old
      <3> QED BY <3>1, <3>2
    <2> QED BY <2>1 DEF Purge!OldOutbox
  <1>3. ASSUME NEW x \in Events
        PROVE  (x \in Purge!OldInbox(job.at)
                  /\ (outbox[x].status = "absent" \/ x \in Purge!OldOutbox(job.at)))'
                 <=> x \in Purge!OldInbox(job.at)
                       /\ (outbox[x].status = "absent" \/ x \in Purge!OldOutbox(job.at))
    <2>1. CASE x # e
      BY <1>2, <2>1, OneEvent DEF Purge!OldInbox, Purge!Old
    <2>2. CASE x = e
      BY <1>0, <1>2, <2>2, OneEvent, RowSteps DEF Purge!OldInbox, Purge!OldOutbox, Purge!Old
    <2> QED BY <2>1, <2>2
  <1>4. Purge!OldTraces(job.at) \cap job'.deleted.traces \subseteq Purge!OldTraces(job.at)'
    <2>1. ASSUME NEW x \in Events, x \in Purge!OldTraces(job.at), x \in job'.deleted.traces
          PROVE  x \in Purge!OldTraces(job.at)'
      <3>1. CASE x # e
        BY <2>1, <3>1, OneEvent DEF Purge!OldTraces, Purge!Old, Purge!Unresolved
      <3>2. CASE x = e
        BY <2>1, <3>2, OneEvent, RowSteps DEF Purge!OldTraces, Purge!Old, Purge!Unresolved
      <3> QED BY <3>1, <3>2
    <2> QED BY <2>1 DEF Purge!OldTraces
  <1>5. job'.deleted.traces \subseteq IF job'.pc \in {"outbox", "inbox", "commit"}
                                     THEN Purge!OldTraces(job.at)' ELSE {}
    BY <1>0, <1>4, OneEvent DEF DeletedFit
  <1>6. {x \in Purge!OldInbox(job.at) :
            outbox[x].status = "absent" \/ x \in Purge!OldOutbox(job.at)}' =
          {x \in Purge!OldInbox(job.at) :
              outbox[x].status = "absent" \/ x \in Purge!OldOutbox(job.at)}
    BY <1>3 DEF Purge!OldInbox
  <1> QED BY <1>0, <1>1, <1>2, <1>5, <1>6, OneEvent DEF DeletedFit

LEMMA EventShown ==
    ASSUME Purge!Assumptions, Retained,
           NEW e \in Events, EventStep(e), job.pc # "idle", NEW x \in Events
    PROVE  PreviewFit' /\ ShownFit(x)'
  <1>1. PreviewFit'
    BY OneEvent DEF Retained, PreviewFit, ThenTraces, ThenOutbox, ThenInbox
  <1>2. ShownFit(x)'
    <2>1. CASE x # e
      BY <2>1, OneEvent DEF Retained, ShownFit, Purge!Unresolved
    <2>2. CASE x = e
      BY <2>2, OneEvent, RowSteps DEF Retained, ShownFit, Purge!Unresolved
    <2> QED BY <2>1, <2>2
  <1> QED BY <1>1, <1>2

LEMMA EventSafe ==
    ASSUME Purge!Assumptions, Retained, NEW e \in Events, EventStep(e)
    PROVE  Retained'
  <1>1. TurnsFit'
    BY OneEvent DEF Retained, TurnsFit
  <1>2. job'.pc = job.pc
    BY OneEvent
  <1> QED BY <1>1, <1>2, EventTyped, EventRows, EventAnswers, EventDeleted, EventShown
          DEF Retained

\* A turn is younger than the transaction, and waits when the memory is deleted.
LEMMA TurnSafe ==
    ASSUME Purge!Assumptions, Retained, Purge!Turn
    PROVE  Retained'
  <1>0. /\ day \in Nat /\ day \in 0..MaxDays /\ day # Never /\ Never \notin Nat
        /\ MemoryTTL \in Nat \ {0} /\ MaxTurns \in Nat
        /\ remembered \in [last : Purge!Times, count : 0..MaxTurns]
        /\ turns \subseteq [n : 1..MaxTurns, at : 0..MaxDays]
    BY DEF Retained, Purge!TypeOK, Purge!Assumptions
  <1>1. /\ UNCHANGED <<day, inbox, outbox, trace, job, first, answers>> /\ ~job.deleted.memory
        /\ remembered'.last = day /\ remembered' \in [last : Purge!Times, count : 0..MaxTurns]
        /\ remembered'.count \in 1..MaxTurns
        /\ turns' = turns \cup {[n |-> remembered'.count, at |-> day]}
    BY <1>0 DEF Purge!Turn, Purge!queueVars, Purge!Times
  <1>2. Purge!TypeOK' /\ JobTyped'
    BY <1>0, <1>1 DEF Retained, Purge!TypeOK, JobTyped
  <1>3. TurnsFit'
    <2>1. remembered.last \in Nat \cup {Never} /\ \A t \in turns : t.at \in Nat
      BY <1>0 DEF Purge!Times, Purge!Assumptions
    <2>2. TurnsFit
      BY DEF Retained
    <2>3. \A t \in turns : t.at <= day
      BY <1>0, <2>1, <2>2 DEF TurnsFit
    <2> QED BY <1>0, <1>1, <2>3 DEF TurnsFit
  <1>4. DeletedFit'
    <2>1. job.at \in Nat /\ job.at <= day
      BY DEF Retained, DeletedFit, JobTyped
    <2>2. Purge!OldTurns(job.at)' = Purge!OldTurns(job.at) /\ ~Purge!OldMemory(job.at)'
      BY <1>0, <1>1, <2>1 DEF Purge!OldTurns, Purge!OldMemory, Purge!Old
    <2>3. /\ Purge!OldTraces(job.at)' = Purge!OldTraces(job.at)
          /\ Purge!OldOutbox(job.at)' = Purge!OldOutbox(job.at)
          /\ Purge!OldInbox(job.at)' = Purge!OldInbox(job.at)
      BY <1>1 DEF Purge!OldTraces, Purge!OldOutbox, Purge!OldInbox, Purge!Unresolved
    <2> QED BY <1>1, <2>2, <2>3 DEF Retained, DeletedFit
  <1>5. /\ \A e \in Events : RowsFit(e)' /\ (AnswersFit(e) => AnswersFit(e)')
        /\ job.pc # "idle" => PreviewFit' /\ \A e \in Events : ShownFit(e)'
    BY <1>1 DEF Retained, RowsFit, AnswersFit, PreviewFit, ThenTraces, ThenOutbox, ThenInbox,
       ShownFit, Purge!Unresolved
  <1> QED BY <1>1, <1>2, <1>3, <1>4, <1>5 DEF Retained

LEMMA TickSafe ==
    ASSUME Purge!Assumptions, Retained, Purge!Tick
    PROVE  Retained'
  <1>0. /\ day \in Nat /\ day' = day + 1 /\ day' \in 0..MaxDays /\ QueueTTL \in Nat
        /\ job.at \in Nat /\ Never \notin Nat
        /\ UNCHANGED <<inbox, outbox, trace, turns, remembered, job, first, answers>>
    BY DEF Purge!Tick, Retained, Purge!TypeOK, JobTyped, Purge!Assumptions, Purge!queueVars,
       Purge!memoryVars
  <1>1. Purge!TypeOK' /\ JobTyped'
    BY <1>0 DEF Retained, Purge!TypeOK, JobTyped
  <1>2. TurnsFit'
    BY <1>0 DEF Retained, Purge!TypeOK, TurnsFit, Purge!Times
  <1>3. DeletedFit'
    BY <1>0 DEF Retained, DeletedFit, Purge!OldTraces, Purge!OldOutbox, Purge!OldInbox,
       Purge!OldTurns, Purge!OldMemory, Purge!Unresolved
  <1>4. ASSUME NEW e \in Events
        PROVE  RowsFit(e)' /\ (AnswersFit(e) => AnswersFit(e)')
    <2>1. first[e] \in Nat \cup {Never}
      <3>1. first[e] \in Purge!Times
        BY <1>4, RowTypes DEF Retained
      <3> QED BY <3>1 DEF Purge!Times, Purge!Assumptions
    <2> QED BY <1>0, <1>4, <2>1 DEF Retained, RowsFit, AnswersFit
  <1>5. job.pc # "idle" => PreviewFit' /\ \A e \in Events : ShownFit(e)'
    BY <1>0 DEF Retained, PreviewFit, ThenTraces, ThenOutbox, ThenInbox, ShownFit,
       Purge!Unresolved
  <1> QED BY <1>0, <1>1, <1>2, <1>3, <1>4, <1>5 DEF Retained

\* The command changes nothing but its own state before the commit.
CommandStep ==
    \/ Purge!DryRun \/ Purge!Begin \/ Purge!DeleteTurns \/ Purge!DeleteMemory
    \/ Purge!DeleteTraces \/ Purge!DeleteOutbox \/ Purge!DeleteInbox \/ Purge!Rollback

LEMMA OnlyJob ==
    ASSUME CommandStep
    PROVE  UNCHANGED <<day, inbox, outbox, trace, turns, remembered, first, answers>>
  BY DEF CommandStep, Purge!DryRun, Purge!Begin, Purge!DeleteTurns, Purge!DeleteMemory,
     Purge!DeleteTraces, Purge!DeleteOutbox, Purge!DeleteInbox, Purge!Rollback, Purge!queueVars,
     Purge!memoryVars

\* It is enough to look at the job.
LEMMA JobSafe ==
    ASSUME Retained, UNCHANGED <<day, inbox, outbox, trace, turns, remembered, first, answers>>,
           JobTyped', DeletedFit',
           job'.pc # "idle" => PreviewFit' /\ \A e \in Events : ShownFit(e)'
    PROVE  Retained'
  <1>1. /\ Purge!TypeOK' /\ TurnsFit'
        /\ \A e \in Events : RowsFit(e)' /\ (AnswersFit(e) => AnswersFit(e)')
    BY DEF Retained, Purge!TypeOK, JobTyped, TurnsFit, RowsFit, AnswersFit
  <1> QED BY <1>1 DEF Retained

\* A command that has ended, or was rolled back, leaves nothing.
LEMMA IdleSafe ==
    ASSUME Purge!Assumptions, Retained,
           job' = [pc |-> "idle", runs |-> job.runs, at |-> 0,
                   eligible |-> Purge!Nothing, seen |-> <<>>,
                   deleted |-> Purge!Nothing],
           UNCHANGED <<day, inbox, outbox, trace, turns, remembered, first, answers>>
    PROVE  Retained'
  <1>1. JobTyped'
    <2>1. Purge!Nothing \in RowSets
      BY DEF Purge!Nothing, RowSets
    <2>2. job.runs \in 0..MaxRuns /\ 0 \in 0..MaxDays
      BY DEF Retained, Purge!TypeOK, Purge!Assumptions
    <2>3. PICK none \in Readings : none = <<>>
      BY DEF Readings
    <2>4. job' = [pc |-> "idle", runs |-> job.runs, at |-> 0,
                  eligible |-> Purge!Nothing, seen |-> none,
                  deleted |-> Purge!Nothing]
      BY <2>3
    <2> QED BY <2>1, <2>2, <2>4 DEF JobTyped
  <1>2. DeletedFit'
    <2>1. day \in Nat
      BY DEF Retained, Purge!TypeOK, Purge!Assumptions
    <2>2. job'.pc = "idle" /\ job'.at = 0 /\ job'.deleted = Purge!Nothing
      OBVIOUS
    <2> QED BY <2>1, <2>2 DEF DeletedFit, Purge!Nothing, Statements
  <1> QED BY <1>1, <1>2, JobSafe

LEMMA RowsTyped ==
    ASSUME Purge!TypeOK, NEW from
    PROVE  /\ Purge!OldTurns(from) \in SUBSET TurnRows /\ Purge!OldMemory(from) \in BOOLEAN
           /\ Purge!OldTraces(from) \in SUBSET Events
           /\ Purge!OldOutbox(from) \in SUBSET Events /\ Purge!OldInbox(from) \in SUBSET Events
  BY DEF Purge!TypeOK, Purge!OldTurns, Purge!OldMemory, Purge!OldTraces, Purge!OldOutbox,
     Purge!OldInbox, TurnRows, Purge!Old

\* The dry run shows what qualifies.
LEMMA DryRunSafe ==
    ASSUME Purge!Assumptions, Retained, Purge!DryRun
    PROVE  Retained'
  <1>0. UNCHANGED <<day, inbox, outbox, trace, turns, remembered, first, answers>>
    BY OnlyJob DEF CommandStep
  <1>1. /\ job'.pc = "preview" /\ job'.runs = job.runs + 1 /\ job'.at = 0
        /\ job'.eligible = Purge!Preview(day)
        /\ job'.seen = Purge!Seen
        /\ job'.deleted = Purge!Nothing
        /\ job.runs < MaxRuns
        /\ job' = [pc |-> "preview", runs |-> job.runs + 1, at |-> 0,
                   eligible |-> Purge!Preview(day),
                   seen |-> Purge!Seen, deleted |-> Purge!Nothing]
    BY DEF Purge!DryRun, Purge!IdleJob
  <1>2. JobTyped'
    <2>1. Purge!Preview(day) \in RowSets /\ Purge!Nothing \in RowSets
      BY RowsTyped DEF Retained, Purge!Preview, RowSets, Purge!Nothing
    <2>2. Purge!Seen \in Readings
      BY DEF Readings, Retained, Purge!TypeOK, Purge!Seen, Snapshots, TurnRows, InboxRows,
         OutboxRows
    <2>3. job.runs + 1 \in 0..MaxRuns /\ 0 \in 0..MaxDays
      BY <1>1 DEF Retained, Purge!TypeOK, Purge!Assumptions
    <2> QED BY <1>1, <2>1, <2>2, <2>3 DEF JobTyped
  <1>3. DeletedFit'
    <2>1. day \in Nat
      BY DEF Retained, Purge!TypeOK, Purge!Assumptions
    <2> QED BY <1>0, <1>1, <2>1 DEF DeletedFit, Purge!Nothing, Statements
  <1>4. /\ job'.seen[1] = day /\ job'.seen[2] = inbox /\ job'.seen[3] = outbox
        /\ job'.seen[4] = trace /\ job'.seen[5] = turns /\ job'.seen[6] = remembered
    BY <1>1 DEF Purge!Seen
  <1>5. PreviewFit'
    <2>1. day \in Nat
      BY DEF Retained, Purge!TypeOK, Purge!Assumptions
    <2>2. /\ job'.eligible.turns = Purge!OldTurns(day)
          /\ job'.eligible.memory = Purge!OldMemory(day)
          /\ job'.eligible.traces = Purge!OldTraces(day)
          /\ job'.eligible.outbox = Purge!OldOutbox(day)
          /\ job'.eligible.inbox = {e \in Purge!OldInbox(day) :
                                       outbox[e].status = "absent" \/ e \in Purge!OldOutbox(day)}
      BY <1>1 DEF Purge!Preview
    <2>3. ThenTraces' = Purge!OldTraces(day)
      BY <1>0, <1>4, RowTypes DEF Retained, ThenTraces, Purge!OldTraces, Purge!Unresolved
    <2>4. ThenOutbox' = Purge!OldOutbox(day) /\ ThenInbox' = Purge!OldInbox(day)
      BY <1>0, <1>4 DEF ThenOutbox, Purge!OldOutbox, ThenInbox, Purge!OldInbox
    <2> QED BY <1>0, <1>1, <1>4, <2>1, <2>2, <2>3, <2>4
          DEF PreviewFit, Purge!OldTurns, Purge!OldMemory, Statements
  <1>6. ASSUME NEW e \in Events
        PROVE  ShownFit(e)'
    <2>1. job'.eligible.traces = Purge!OldTraces(day)
      BY <1>1 DEF Purge!Preview
    <2> QED BY <1>0, <1>1, <1>4, <1>6, <2>1, RowTypes
          DEF Retained, ShownFit, Purge!OldTraces, Purge!Unresolved, Purge!Old
  <1> QED BY <1>0, <1>2, <1>3, <1>5, <1>6, JobSafe

LEMMA BeginSafe ==
    ASSUME Purge!Assumptions, Retained, Purge!Begin
    PROVE  Retained'
  <1>0. UNCHANGED <<day, inbox, outbox, trace, turns, remembered, first, answers>>
    BY OnlyJob DEF CommandStep
  <1>1. CASE job' = [Purge!IdleJob EXCEPT !.runs = job.runs]
    BY <1>0, <1>1, IdleSafe DEF Purge!IdleJob
  <1>2. CASE job' = [job EXCEPT !.pc = "turns", !.at = day]
    <2>1. /\ job.pc = "preview" /\ job'.pc = "turns" /\ job'.at = day /\ day \in 0..MaxDays
          /\ UNCHANGED <<job.eligible, job.seen, job.deleted>>
          /\ JobTyped'
      BY <1>2 DEF Purge!Begin, Purge!AtStep, Retained, Purge!TypeOK, JobTyped, Statements
    <2>2. DeletedFit'
      BY <1>0, <2>1 DEF Retained, DeletedFit, Statements, Purge!Assumptions
    <2>3. PreviewFit' /\ \A e \in Events : ShownFit(e)'
      BY <1>0, <2>1 DEF Retained, PreviewFit, ThenTraces, ThenOutbox, ThenInbox, ShownFit,
         Purge!Unresolved
    <2> QED BY <1>0, <2>1, <2>2, <2>3, JobSafe
  <1> QED BY <1>1, <1>2 DEF Purge!Begin

\* A statement of the transaction: of the job, pc and what is deleted change.
LEMMA StatementSafe ==
    ASSUME Purge!Assumptions, Retained, NEW pc \in Statements,
           NEW table \in DOMAIN Purge!Nothing, NEW gone,
           job.pc \in Statements, Purge!Going(pc, table, gone),
           UNCHANGED <<day, inbox, outbox, trace, turns, remembered, first, answers>>,
           [job.deleted EXCEPT ![table] = gone] \in RowSets,
           DeletedFit',
           pc \in {"outbox", "inbox", "commit"} => \A e \in Events : ShownFit(e)'
    PROVE  Retained'
  <1>1. /\ job'.pc = pc /\ job'.deleted = [job.deleted EXCEPT ![table] = gone]
        /\ UNCHANGED <<job.at, job.eligible, job.seen>> /\ JobTyped'
    <2>1. job' = [job EXCEPT !.pc = pc, !.deleted = [job.deleted EXCEPT ![table] = gone]]
      BY DEF Purge!Going
    <2> QED BY <2>1 DEF Retained, JobTyped
  <1>2. PreviewFit'
    BY <1>1 DEF Retained, PreviewFit, ThenTraces, ThenOutbox, ThenInbox, Statements
  <1>3. \A e \in Events : ShownFit(e)'
    BY <1>1 DEF Retained, ShownFit, Purge!Unresolved, Statements
  <1> QED BY <1>1, <1>2, <1>3, JobSafe

\* The statements, one by one.
LEMMA DeleteTurnsSafe ==
    ASSUME Purge!Assumptions, Retained, Purge!DeleteTurns
    PROVE  Retained'
  <1>0. UNCHANGED <<day, inbox, outbox, trace, turns, remembered, first, answers>>
    BY OnlyJob DEF CommandStep
  <1>1. /\ job.pc = "turns"
        /\ Purge!Going("memory", "turns", Purge!OldTurns(job.at))
        /\ "turns" \in DOMAIN Purge!Nothing
    BY DEF Purge!DeleteTurns, Purge!AtStep, Purge!Nothing
  <1>2. /\ job'.pc = "memory"
        /\ job'.deleted = [job.deleted EXCEPT !["turns"] = Purge!OldTurns(job.at)]
        /\ UNCHANGED <<job.at, job.eligible, job.seen>>
    BY <1>1 DEF Retained, JobTyped, Purge!Going
  <1>3. job.deleted \in RowSets
    BY DEF Retained, JobTyped
  <1>4. [job.deleted EXCEPT !["turns"] = Purge!OldTurns(job.at)] \in RowSets
    BY <1>3, RowsTyped DEF Retained, RowSets
  <1>5. DeletedFit'
    <2>1. /\ job'.deleted.turns = Purge!OldTurns(job.at)
          /\ UNCHANGED <<job.deleted.memory, job.deleted.traces, job.deleted.outbox,
                         job.deleted.inbox>>
      BY <1>2, <1>3 DEF RowSets
    <2>2. Purge!OldTurns(job.at)' = Purge!OldTurns(job.at)
      BY <1>0, <1>2 DEF Purge!OldTurns
    <2> QED BY <1>0, <1>1, <1>2, <2>1, <2>2 DEF Retained, DeletedFit, Statements
  <1> QED BY <1>0, <1>1, <1>4, <1>5, StatementSafe DEF Statements

LEMMA DeleteMemorySafe ==
    ASSUME Purge!Assumptions, Retained, Purge!DeleteMemory
    PROVE  Retained'
  <1>0. UNCHANGED <<day, inbox, outbox, trace, turns, remembered, first, answers>>
    BY OnlyJob DEF CommandStep
  <1>1. /\ job.pc = "memory"
        /\ Purge!Going("traces", "memory", Purge!OldMemory(job.at))
        /\ "memory" \in DOMAIN Purge!Nothing
    BY DEF Purge!DeleteMemory, Purge!AtStep, Purge!Nothing
  <1>2. /\ job'.pc = "traces"
        /\ job'.deleted = [job.deleted EXCEPT !["memory"] = Purge!OldMemory(job.at)]
        /\ UNCHANGED <<job.at, job.eligible, job.seen>>
    BY <1>1 DEF Retained, JobTyped, Purge!Going
  <1>3. job.deleted \in RowSets
    BY DEF Retained, JobTyped
  <1>4. [job.deleted EXCEPT !["memory"] = Purge!OldMemory(job.at)] \in RowSets
    BY <1>3, RowsTyped DEF Retained, RowSets
  <1>5. DeletedFit'
    <2>1. /\ job'.deleted.memory = Purge!OldMemory(job.at)
          /\ UNCHANGED <<job.deleted.turns, job.deleted.traces, job.deleted.outbox,
                         job.deleted.inbox>>
      BY <1>2, <1>3 DEF RowSets
    <2>2. /\ Purge!OldTurns(job.at)' = Purge!OldTurns(job.at)
          /\ Purge!OldMemory(job.at)' = Purge!OldMemory(job.at)
      BY <1>0, <1>2 DEF Purge!OldTurns, Purge!OldMemory
    <2> QED BY <1>0, <1>1, <1>2, <2>1, <2>2 DEF Retained, DeletedFit, Statements
  <1> QED BY <1>0, <1>1, <1>4, <1>5, StatementSafe DEF Statements

LEMMA DeleteTracesSafe ==
    ASSUME Purge!Assumptions, Retained, Purge!DeleteTraces
    PROVE  Retained'
  <1>0. UNCHANGED <<day, inbox, outbox, trace, turns, remembered, first, answers>>
    BY OnlyJob DEF CommandStep
  <1>1. /\ job.pc = "traces"
        /\ Purge!Going("outbox", "traces", Purge!OldTraces(job.at))
        /\ "traces" \in DOMAIN Purge!Nothing
    BY DEF Purge!DeleteTraces, Purge!AtStep, Purge!Nothing
  <1>2. /\ job'.pc = "outbox"
        /\ job'.deleted = [job.deleted EXCEPT !["traces"] = Purge!OldTraces(job.at)]
        /\ UNCHANGED <<job.at, job.eligible, job.seen>>
    BY <1>1 DEF Retained, JobTyped, Purge!Going
  <1>3. job.deleted \in RowSets
    BY DEF Retained, JobTyped
  <1>4. [job.deleted EXCEPT !["traces"] = Purge!OldTraces(job.at)] \in RowSets
    BY <1>3, RowsTyped DEF Retained, RowSets
  <1>5. /\ job'.deleted.traces = Purge!OldTraces(job.at)
        /\ UNCHANGED <<job.deleted.turns, job.deleted.memory, job.deleted.outbox,
                       job.deleted.inbox>>
    BY <1>2, <1>3 DEF RowSets
  <1>6. DeletedFit'
    <2>1. /\ Purge!OldTurns(job.at)' = Purge!OldTurns(job.at)
          /\ Purge!OldMemory(job.at)' = Purge!OldMemory(job.at)
          /\ Purge!OldTraces(job.at)' = Purge!OldTraces(job.at)
      BY <1>0, <1>2 DEF Purge!OldTurns, Purge!OldMemory, Purge!OldTraces, Purge!Unresolved
    <2> QED BY <1>0, <1>1, <1>2, <1>5, <2>1 DEF Retained, DeletedFit, Statements
  <1>7. ASSUME NEW e \in Events
        PROVE  ShownFit(e)'
    BY <1>0, <1>1, <1>2, <1>5, <1>7 DEF Retained, ShownFit, Purge!OldTraces, Purge!Old,
       Purge!Unresolved
  <1> QED BY <1>0, <1>1, <1>4, <1>6, <1>7, StatementSafe DEF Statements

LEMMA DeleteOutboxSafe ==
    ASSUME Purge!Assumptions, Retained, Purge!DeleteOutbox
    PROVE  Retained'
  <1>0. UNCHANGED <<day, inbox, outbox, trace, turns, remembered, first, answers>>
    BY OnlyJob DEF CommandStep
  <1>1. /\ job.pc = "outbox"
        /\ Purge!Going("inbox", "outbox", Purge!OldOutbox(job.at))
        /\ "outbox" \in DOMAIN Purge!Nothing
    BY DEF Purge!DeleteOutbox, Purge!AtStep, Purge!Nothing
  <1>2. /\ job'.pc = "inbox"
        /\ job'.deleted = [job.deleted EXCEPT !["outbox"] = Purge!OldOutbox(job.at)]
        /\ UNCHANGED <<job.at, job.eligible, job.seen>>
    BY <1>1 DEF Retained, JobTyped, Purge!Going
  <1>3. job.deleted \in RowSets
    BY DEF Retained, JobTyped
  <1>4. [job.deleted EXCEPT !["outbox"] = Purge!OldOutbox(job.at)] \in RowSets
    BY <1>3, RowsTyped DEF Retained, RowSets
  <1>5. /\ job'.deleted.outbox = Purge!OldOutbox(job.at)
        /\ UNCHANGED <<job.deleted.turns, job.deleted.memory, job.deleted.traces,
                       job.deleted.inbox>>
    BY <1>2, <1>3 DEF RowSets
  <1>6. DeletedFit'
    <2>1. /\ Purge!OldTurns(job.at)' = Purge!OldTurns(job.at)
          /\ Purge!OldMemory(job.at)' = Purge!OldMemory(job.at)
          /\ Purge!OldTraces(job.at)' = Purge!OldTraces(job.at)
          /\ Purge!OldOutbox(job.at)' = Purge!OldOutbox(job.at)
      BY <1>0, <1>2 DEF Purge!OldTurns, Purge!OldMemory, Purge!OldTraces, Purge!OldOutbox,
         Purge!Unresolved
    <2> QED BY <1>0, <1>1, <1>2, <1>5, <2>1 DEF Retained, DeletedFit, Statements
  <1>7. ASSUME NEW e \in Events
        PROVE  ShownFit(e)'
    BY <1>0, <1>1, <1>2, <1>5, <1>7 DEF Retained, ShownFit, Purge!Unresolved
  <1> QED BY <1>0, <1>1, <1>4, <1>6, <1>7, StatementSafe DEF Statements

LEMMA DeleteInboxSafe ==
    ASSUME Purge!Assumptions, Retained, Purge!DeleteInbox
    PROVE  Retained'
  <1> DEFINE gone == {e \in Purge!OldInbox(job.at) :
                         outbox[e].status = "absent" \/ e \in job.deleted.outbox}
  <1>0. UNCHANGED <<day, inbox, outbox, trace, turns, remembered, first, answers>>
    BY OnlyJob DEF CommandStep
  <1>1. /\ job.pc = "inbox"
        /\ Purge!Going("commit", "inbox", gone)
        /\ "inbox" \in DOMAIN Purge!Nothing
    BY DEF Purge!DeleteInbox, Purge!AtStep, Purge!Nothing
  <1>2. /\ job'.pc = "commit" /\ job'.deleted = [job.deleted EXCEPT !["inbox"] = gone]
        /\ UNCHANGED <<job.at, job.eligible, job.seen>>
    BY <1>1 DEF Retained, JobTyped, Purge!Going
  <1>3. job.deleted \in RowSets
    BY DEF Retained, JobTyped
  <1>4. gone \in SUBSET Events
    BY RowsTyped DEF Retained
  <1>5. gone = {e \in Purge!OldInbox(job.at) :
                   outbox[e].status = "absent" \/ e \in Purge!OldOutbox(job.at)}
    BY <1>1 DEF Retained, DeletedFit
  <1> HIDE DEF gone
  <1>6. [job.deleted EXCEPT !["inbox"] = gone] \in RowSets
    BY <1>3, <1>4 DEF RowSets
  <1>7. /\ job'.deleted.inbox = gone
        /\ UNCHANGED <<job.deleted.turns, job.deleted.memory, job.deleted.traces,
                       job.deleted.outbox>>
    BY <1>2, <1>3 DEF RowSets
  <1>8. DeletedFit'
    <2>1. /\ Purge!OldTurns(job.at)' = Purge!OldTurns(job.at)
          /\ Purge!OldMemory(job.at)' = Purge!OldMemory(job.at)
          /\ Purge!OldTraces(job.at)' = Purge!OldTraces(job.at)
          /\ Purge!OldOutbox(job.at)' = Purge!OldOutbox(job.at)
          /\ Purge!OldInbox(job.at)' = Purge!OldInbox(job.at)
      BY <1>0, <1>2 DEF Purge!OldTurns, Purge!OldMemory, Purge!OldTraces, Purge!OldOutbox,
         Purge!OldInbox, Purge!Unresolved
    <2> QED BY <1>0, <1>1, <1>2, <1>5, <1>7, <2>1 DEF Retained, DeletedFit, Statements
  <1>9. ASSUME NEW e \in Events
        PROVE  ShownFit(e)'
    BY <1>0, <1>1, <1>2, <1>7, <1>9 DEF Retained, ShownFit, Purge!Unresolved
  <1> QED BY <1>0, <1>1, <1>6, <1>8, <1>9, StatementSafe DEF Statements

LEMMA RollbackSafe ==
    ASSUME Purge!Assumptions, Retained, Purge!Rollback
    PROVE  Retained'
  <1>0. UNCHANGED <<day, inbox, outbox, trace, turns, remembered, first, answers>>
    BY OnlyJob DEF CommandStep
  <1> QED BY <1>0, IdleSafe DEF Purge!Rollback, Purge!IdleJob

\* What the commit makes of the rows of an event.
LEMMA CommitRows ==
    ASSUME Retained, Purge!Commit, NEW e \in Events
    PROVE  /\ \/ e \in Purge!OldInbox(job.at) /\ inbox'[e] = Purge!NoRow
                 /\ (outbox[e].status = "absent" \/ e \in Purge!OldOutbox(job.at))
              \/ inbox'[e] = inbox[e]
           /\ \/ e \in Purge!OldOutbox(job.at) /\ outbox'[e] = Purge!NoRow
              \/ e \notin Purge!OldOutbox(job.at) /\ outbox'[e] = outbox[e]
           /\ \/ e \in Purge!OldTraces(job.at) /\ trace'[e] = Never
              \/ trace'[e] = trace[e]
           /\ UNCHANGED <<first[e], answers[e]>>
  <1>1. /\ job.deleted.traces \subseteq Purge!OldTraces(job.at)
        /\ job.deleted.outbox = Purge!OldOutbox(job.at)
        /\ job.deleted.inbox =
             {x \in Purge!OldInbox(job.at) :
                 outbox[x].status = "absent" \/ x \in Purge!OldOutbox(job.at)}
    BY DEF Purge!Commit, Purge!AtStep, Retained, DeletedFit, Statements
  <1> QED BY <1>1 DEF Purge!Commit

\* What is kept fits without what is deleted.
LEMMA CommitSafe ==
    ASSUME Purge!Assumptions, Retained, Purge!Commit
    PROVE  Retained'
  <1>0. /\ day \in Nat
        /\ Never \notin Nat
        /\ {MemoryTTL, QueueTTL, TraceTTL} \subseteq Nat
        /\ job.at \in Nat
        /\ job.at <= day /\ day' = day
        /\ job' = [pc |-> "idle", runs |-> job.runs, at |-> 0, eligible |-> Purge!Nothing,
                   seen |-> <<>>, deleted |-> Purge!Nothing]
    <2>1. day \in Nat /\ Never \notin Nat /\ {MemoryTTL, QueueTTL, TraceTTL} \subseteq Nat
      BY DEF Retained, Purge!TypeOK, Purge!Assumptions
    <2>2. job.at \in Nat /\ job.at <= day
      BY DEF Retained, JobTyped, DeletedFit
    <2>3. /\ day' = day
          /\ job' = [pc |-> "idle", runs |-> job.runs, at |-> 0, eligible |-> Purge!Nothing,
                     seen |-> <<>>, deleted |-> Purge!Nothing]
      BY DEF Purge!Commit, Purge!IdleJob
    <2> QED BY <2>1, <2>2, <2>3
  <1>1. JobTyped' /\ DeletedFit' /\ job'.pc = "idle" /\ job'.runs = job.runs
    <2>1. Purge!Nothing \in RowSets
      BY DEF Purge!Nothing, RowSets
    <2>2. job.runs \in 0..MaxRuns /\ 0 \in 0..MaxDays
      BY DEF Retained, Purge!TypeOK, Purge!Assumptions
    <2>3. PICK none \in Readings : none = <<>>
      BY DEF Readings
    <2>4. job' = [pc |-> "idle", runs |-> job.runs, at |-> 0,
                  eligible |-> Purge!Nothing, seen |-> none,
                  deleted |-> Purge!Nothing]
      BY <1>0, <2>3
    <2>5. JobTyped'
      BY <2>1, <2>2, <2>4 DEF JobTyped
    <2>6. job'.pc = "idle" /\ job'.at = 0 /\ job'.deleted = Purge!Nothing /\ job'.runs = job.runs
      BY <1>0
    <2>7. DeletedFit'
      BY <1>0, <2>6 DEF DeletedFit, Purge!Nothing, Statements
    <2> QED BY <2>5, <2>6, <2>7
  <1>2. /\ turns' = turns \ Purge!OldTurns(job.at)
        /\ remembered' = IF Purge!OldMemory(job.at) THEN Purge!Forgotten ELSE remembered
    BY DEF Purge!Commit, Purge!AtStep, Retained, DeletedFit, Statements
  <1>3. Purge!TypeOK'
    <2>1. inbox' \in [Events -> [status : {"absent", "open", "processed", "dead_letter"},
                                 at : Purge!Times]]
      BY DEF Purge!Commit, Retained, Purge!TypeOK, Purge!NoRow, Purge!Times
    <2>2. outbox' \in [Events -> [status : {"absent", "open", "delivered", "dead_letter"},
                                  at : Purge!Times]]
      BY DEF Purge!Commit, Retained, Purge!TypeOK, Purge!NoRow, Purge!Times
    <2>3. trace' \in [Events -> Purge!Times]
      BY DEF Purge!Commit, Retained, Purge!TypeOK, Purge!Times
    <2>4. turns' \subseteq [n : 1..MaxTurns, at : 0..MaxDays]
          /\ remembered' \in [last : Purge!Times, count : 0..MaxTurns]
      BY <1>2 DEF Retained, Purge!TypeOK, Purge!Times, Purge!Forgotten, Purge!Assumptions
    <2>5. \A e \in Events : /\ (inbox'[e].status = "processed") <=> (inbox'[e].at # Never)
                            /\ (outbox'[e].status = "delivered") <=> (outbox'[e].at # Never)
      BY CommitRows DEF Retained, Purge!TypeOK, Purge!NoRow
    <2> QED BY <1>0, <1>1, <2>1, <2>2, <2>3, <2>4, <2>5 DEF Retained, Purge!TypeOK, Purge!Commit
  <1>4. ASSUME NEW e \in Events
        PROVE  RowsFit(e)'
    BY <1>0, <1>4, CommitRows DEF Retained, RowsFit, Purge!NoRow, Purge!OldOutbox,
       Purge!OldTraces, Purge!Unresolved
  <1>5. ASSUME NEW e \in Events, AnswersFit(e)
        PROVE  AnswersFit(e)'
    <2>1. first[e] \in Nat \cup {Never} /\ inbox[e].at \in Nat \cup {Never}
      <3>1. first[e] \in Purge!Times /\ inbox[e].at \in Purge!Times
        BY <1>5, RowTypes DEF Retained
      <3> QED BY <3>1 DEF Purge!Times, Purge!Assumptions
    <2>2. RowsFit(e)
      BY <1>5 DEF Retained
    <2>3. e \in Purge!OldInbox(job.at) => first[e] # Never /\ day - first[e] > QueueTTL
      BY <1>0, <2>1, <2>2 DEF RowsFit, Purge!OldInbox, Purge!Old
    <2>4. e \in Purge!OldInbox(job.at) => inbox[e].status = "processed"
      BY DEF Purge!OldInbox
    <2> QED BY <1>0, <1>5, <2>3, <2>4, CommitRows DEF AnswersFit, Purge!NoRow
  <1>6. TurnsFit'
    <2>1. remembered.last \in Nat \cup {Never} /\ \A t \in turns : t.at \in Nat
      BY DEF Retained, Purge!TypeOK, Purge!Times, Purge!Assumptions
    <2>2. Purge!OldMemory(job.at) => turns' = {}
      BY <1>0, <1>2, <2>1 DEF Retained, TurnsFit, Purge!OldMemory, Purge!OldTurns, Purge!Old
    <2> QED BY <1>0, <1>2, <2>1, <2>2 DEF Retained, TurnsFit, Purge!Forgotten
  <1> QED BY <1>1, <1>3, <1>4, <1>5, <1>6 DEF Retained

LEMMA SameRows ==
    ASSUME NEW a \in RowSets, NEW b \in RowSets,
           a.turns = b.turns, a.memory <=> b.memory, a.traces = b.traces, a.outbox = b.outbox,
           a.inbox = b.inbox
    PROVE  a = b
  <1>1. a.memory \in BOOLEAN /\ b.memory \in BOOLEAN
    BY DEF RowSets
  <1>2. a.memory = b.memory
    BY <1>1
  <1> QED BY <1>2 DEF RowSets

\* When nothing has changed since the dry run, what it has shown is what goes.
LEMMA CommitExact ==
    ASSUME Purge!Assumptions, Retained, Purge!Commit, job.seen = Purge!Seen
    PROVE  job.deleted = job.eligible
  <1>1. /\ job.seen[1] = day /\ job.seen[2] = inbox /\ job.seen[3] = outbox
        /\ job.seen[4] = trace /\ job.seen[5] = turns /\ job.seen[6] = remembered
    BY DEF Purge!Seen
  <1>2. job.pc = "commit" /\ PreviewFit /\ DeletedFit /\ \A e \in Events : ShownFit(e)
    BY DEF Purge!Commit, Purge!AtStep, Retained
  <1>3. job.at = day
    <2>1. job.at \in Nat /\ day \in Nat
      BY DEF Retained, Purge!TypeOK, JobTyped, Purge!Assumptions
    <2>2. job.at <= day
      BY <1>2 DEF DeletedFit
    <2>3. job.seen[1] <= job.at
      BY <1>2 DEF PreviewFit, Statements
    <2> QED BY <1>1, <2>1, <2>2, <2>3
  <1>4. /\ job.deleted.turns = job.eligible.turns
        /\ job.deleted.memory <=> job.eligible.memory
    <2>1. job.deleted.turns = Purge!OldTurns(day) /\ (job.deleted.memory <=> Purge!OldMemory(day))
      BY <1>2, <1>3 DEF DeletedFit, Statements
    <2>2. /\ job.eligible.turns = Purge!OldTurns(day)
          /\ (job.eligible.memory <=> Purge!OldMemory(day))
      BY <1>1, <1>2 DEF PreviewFit, Purge!OldTurns, Purge!OldMemory
    <2> QED BY <2>1, <2>2
  <1>5. job.deleted.traces = job.eligible.traces
    <2>1. job.eligible.traces = Purge!OldTraces(day)
      BY <1>1, <1>2, RowTypes DEF Retained, PreviewFit, ThenTraces, Purge!OldTraces,
         Purge!Unresolved
    <2>2. job.deleted.traces \subseteq Purge!OldTraces(day)
      BY <1>2, <1>3 DEF DeletedFit
    <2>3. \A e \in Events : e \in job.eligible.traces => e \in job.deleted.traces
      BY <1>1, <1>2, <1>3 DEF ShownFit
    <2> QED BY <2>1, <2>2, <2>3 DEF Purge!OldTraces
  <1>6. job.deleted.outbox = Purge!OldOutbox(day) /\ job.eligible.outbox = Purge!OldOutbox(day)
    BY <1>1, <1>2, <1>3 DEF PreviewFit, ThenOutbox, DeletedFit, Purge!OldOutbox
  <1>7. job.deleted.inbox = job.eligible.inbox
    BY <1>1, <1>2, <1>3 DEF PreviewFit, ThenInbox, ThenOutbox, DeletedFit, Purge!OldOutbox,
       Purge!OldInbox
  <1>8. job.deleted \in RowSets /\ job.eligible \in RowSets
    BY DEF Retained, JobTyped
  <1> QED BY <1>4, <1>5, <1>6, <1>7, <1>8, SameRows

LEMMA InitSafe ==
    ASSUME Purge!Assumptions, Purge!Init
    PROVE  Retained
  <1>0. /\ job = [pc |-> "idle", runs |-> 0, at |-> 0, eligible |-> Purge!Nothing, seen |-> <<>>,
                  deleted |-> Purge!Nothing]
        /\ 0 \in 0..MaxDays /\ 0 \in 0..MaxRuns /\ 0 \in 0..MaxTurns
    BY DEF Purge!Init, Purge!IdleJob, Purge!Assumptions
  <1>1. JobTyped
    <2>1. Purge!Nothing \in RowSets
      BY DEF Purge!Nothing, RowSets
    <2>2. PICK none \in Readings : none = <<>>
      BY DEF Readings
    <2>3. job = [pc |-> "idle", runs |-> 0, at |-> 0, eligible |-> Purge!Nothing, seen |-> none,
                 deleted |-> Purge!Nothing]
      BY <1>0, <2>2
    <2> QED BY <1>0, <2>1, <2>3 DEF JobTyped
  <1>2. job.pc = "idle" /\ job.at = 0 /\ job.deleted = Purge!Nothing /\ job.runs = 0
    BY <1>0
  <1>3. Purge!TypeOK
    BY <1>0, <1>2 DEF Purge!Init, Purge!TypeOK, Purge!NoRow, Purge!Forgotten, Purge!Times
  <1>4. DeletedFit
    BY <1>2 DEF Purge!Init, DeletedFit, Purge!Nothing, Statements
  <1>5. TurnsFit /\ \A e \in Events : RowsFit(e) /\ AnswersFit(e)
    BY DEF Purge!Init, TurnsFit, RowsFit, AnswersFit, Purge!NoRow, Purge!Forgotten
  <1> QED BY <1>1, <1>2, <1>3, <1>4, <1>5 DEF Retained

LEMMA SafeStep ==
    ASSUME Purge!Assumptions, Retained, [Purge!Next]_(Purge!vars)
    PROVE  Retained'
  <1>1. ASSUME NEW e \in Events, EventStep(e)
        PROVE  Retained'
    BY <1>1, EventSafe
  <1>2. CASE Purge!Commit
    BY <1>2, CommitSafe
  <1>3. CASE UNCHANGED Purge!vars
    <2>1. /\ UNCHANGED <<day, inbox, outbox, trace, turns, remembered, first, answers>>
          /\ job' = job
      BY <1>3 DEF Purge!vars, Purge!queueVars, Purge!memoryVars
    <2>2. JobTyped' /\ DeletedFit'
      BY <2>1 DEF Retained, JobTyped, DeletedFit, Purge!OldTurns, Purge!OldMemory,
         Purge!OldTraces, Purge!OldOutbox, Purge!OldInbox, Purge!Unresolved
    <2>3. job'.pc # "idle" => PreviewFit' /\ \A e \in Events : ShownFit(e)'
      BY <2>1 DEF Retained, PreviewFit, ThenTraces, ThenOutbox, ThenInbox, ShownFit,
         Purge!Unresolved
    <2> QED BY <2>1, <2>2, <2>3, JobSafe
  <1> QED BY <1>1, <1>2, <1>3, TurnSafe, TickSafe, DryRunSafe, BeginSafe, DeleteTurnsSafe,
             DeleteMemorySafe, DeleteTracesSafe, DeleteOutboxSafe, DeleteInboxSafe, RollbackSafe
          DEF Purge!Next, Purge!Command, EventStep

\* Whatever is deleted, when and however often, and however the queues and the dialog go on
\* beside it: every open job keeps its inbox row and its trace, stored turns keep the memory
\* that they are restored with, an event that HDE repeats within the TTL of the queues is
\* answered once, and what the dry run has shown is what is deleted when nothing changes in
\* between (scripts/purge_old_memory.py).
THEOREM RetentionSafe ==
    ASSUME Purge!Assumptions
    PROVE  Purge!Spec => Purge!RetentionIsSafe
  <1>1. Purge!Init => Retained
    BY InitSafe
  <1>2. Retained /\ [Purge!Next]_(Purge!vars) => Retained'
    BY SafeStep
  <1>3. Retained => /\ Purge!OpenJobsKeepTheirRows /\ Purge!TurnsHaveMemory
                    /\ Horizon <= QueueTTL => Purge!AnsweredOnce
    BY DEF Retained, RowsFit, AnswersFit, TurnsFit, Purge!OpenJobsKeepTheirRows,
       Purge!TurnsHaveMemory, Purge!AnsweredOnce
  <1>4. Retained /\ [Purge!Next]_(Purge!vars) => [Purge!ExactDryRun]_(Purge!vars)
    BY CommitExact DEF Purge!ExactDryRun
  <1> QED BY <1>1, <1>2, <1>3, <1>4, PTL DEF Purge!Spec, Purge!RetentionIsSafe

\* The rows of queues, traces and turns, and the command, have their types.
THEOREM RetentionTyped == ASSUME Purge!Assumptions PROVE Purge!Spec => []Purge!TypeOK
  <1>1. Purge!Init => Retained
    BY InitSafe
  <1>2. Retained /\ [Purge!Next]_(Purge!vars) => Retained'
    BY SafeStep
  <1>3. Retained => Purge!TypeOK
    BY DEF Retained
  <1> QED BY <1>1, <1>2, <1>3, PTL DEF Purge!Spec
=============================================================================
