--------------------------- MODULE ProviderProofs ----------------------------
(***************************************************************************)
(* Proofs about the REST adapters: a provider is asked no more and no      *)
(* sooner than was agreed, for any spacing, quota, backoff, Retry-After,   *)
(* timeout and number of attempts, however often the process restarts and  *)
(* whatever day it is; and an answer it calls OK lacks nothing, whatever   *)
(* rows the provider answered with.                                        *)
(***************************************************************************)
EXTENDS ProviderClient, BasicLemmas, SequenceTheorems

SentRequest == [at : Nat, life : Nat]

ClockOK ==
    /\ client \in Clients /\ now \in Nat /\ patience \in Nat
    /\ restarts \in Seq(Nat)

SentOK ==
    /\ sent \in Seq(SentRequest)
    /\ \A n \in DOMAIN sent : sent[n].at <= now /\ sent[n].life <= Len(restarts)

\* The process remembers the last request of its own, if it sent one.
LastOK ==
    IF sent # <<>> /\ Last(sent).life = Len(restarts)
    THEN lastRequestAt = <<Last(sent).at>>
    ELSE lastRequestAt = <<>>

\* A pause ends when enough time has passed since that request.
PauseOK ==
    stage = "spacing" => lastRequestAt # <<>> /\ wakeAt = lastRequestAt[1] + client.spacing

\* What was promised is over before another attempt begins.
PatienceOK ==
    /\ stage = "backoff" => patience \in {0, wakeAt}
    /\ stage \notin {"backoff", "flight"} => patience <= now
    /\ RetryAfterIsWaitedFor

PaceOK ==
    /\ ClockOK /\ SentOK /\ LastOK /\ PauseOK /\ PatienceOK
    /\ RequestsAreSpaced

-----------------------------------------------------------------------------
(* Helpers *)

LEMMA MaxOfZeroAnd ==
    ASSUME NEW a \in Int
    PROVE  Max({0, a}) \in {0, a} /\ Max({0, a}) >= 0 /\ Max({0, a}) >= a
<1>1. \E x \in {0, a} : \A y \in {0, a} : x >= y
    <2>1. CASE a >= 0
        BY <2>1
    <2>2. CASE a < 0
        BY <2>2
    <2> QED
        BY <2>1, <2>2
<1> QED
    BY <1>1 DEF Max

LEMMA DivIsMonotone ==
    ASSUME NEW a \in Nat, NEW b \in Nat, NEW d \in Nat \ {0}, a <= b
    PROVE  a \div d <= b \div d /\ a \div d \in Nat /\ b \div d \in Nat
OBVIOUS

LEMMA DaysAre ==
    ASSUME now \in Nat
    PROVE  Today \in Nat
BY ClientAssumption DEF Today

LEMMA OneMoreTime ==
    ASSUME NEW a \in Nat, NEW b \in Nat
    PROVE  a * (b + 1) = a * b + a
OBVIOUS

LEMMA ClientsAre ==
    ASSUME client \in Clients
    PROVE  client.spacing \in Nat /\ client.quota \in Nat
BY ClientAssumption DEF IsClient

\* A sequence that grows by one: nothing before changes and the last is the new one.
LEMMA Appended ==
    ASSUME NEW S, NEW s \in Seq(S), NEW e \in S, NEW t, t = Append(s, e)
    PROVE  /\ t \in Seq(S) /\ t # <<>> /\ Len(s) \in Nat /\ Len(t) = Len(s) + 1
           /\ DOMAIN s = 1 .. Len(s) /\ DOMAIN t = 1 .. (Len(s) + 1)
           /\ \A n \in 1 .. Len(s) : t[n] = s[n]
           /\ t[Len(s) + 1] = e
<1>1. Len(s) \in Nat /\ DOMAIN s = 1 .. Len(s)
    BY LenProperties
<1>2. /\ t \in Seq(S) /\ t # <<>> /\ Len(t) = Len(s) + 1
      /\ \A n \in 1 .. Len(s) : t[n] = s[n]
      /\ t[Len(s) + 1] = e
    BY AppendProperties
<1>3. DOMAIN t = 1 .. (Len(s) + 1)
    BY <1>2, LenProperties
<1> QED
    BY <1>1, <1>2, <1>3

LEMMA RequestsSent ==
    ASSUME PaceOK
    PROVE  /\ Len(sent) \in Nat /\ DOMAIN sent = 1 .. Len(sent)
           /\ \A n \in DOMAIN sent : sent[n].at \in Nat /\ sent[n].life \in Nat
           /\ sent # <<>> => Len(sent) \in DOMAIN sent
<1>1. sent \in Seq(SentRequest)
    BY DEF PaceOK, SentOK
<1>2. Len(sent) \in Nat /\ DOMAIN sent = 1 .. Len(sent)
    BY <1>1, LenProperties
<1>3. \A n \in DOMAIN sent : sent[n] \in SentRequest
    BY <1>1, <1>2, ElementOfSeq
<1>4. \A n \in DOMAIN sent : sent[n].at \in Nat /\ sent[n].life \in Nat
    BY <1>3 DEF SentRequest
<1>5. sent # <<>> => Len(sent) \in DOMAIN sent
    BY <1>1, <1>2, EmptySeq
<1> QED
    BY <1>2, <1>4, <1>5

-----------------------------------------------------------------------------
(* Pace *)

LEMMA StartsPaced == Init => PaceOK
<1> SUFFICES ASSUME Init PROVE PaceOK
    OBVIOUS
<1>1. ClockOK
    BY ClientAssumption, EmptySeq DEF Init, ClockOK
<1>2. SentOK
    BY EmptySeq DEF Init, SentOK
<1>3. LastOK /\ PauseOK /\ PatienceOK
    BY ClientAssumption DEF Init, LastOK, PauseOK, PatienceOK, RetryAfterIsWaitedFor
<1>4. RequestsAreSpaced
    BY DEF Init, RequestsAreSpaced
<1> QED
    BY <1>1, <1>2, <1>3, <1>4 DEF PaceOK

\* A request is sent when the pause since the last one is over, and what was
\* promised.
LEMMA SendIsPaced ==
    ASSUME PaceOK, Send, UNCHANGED <<client, now, patience, restarts>>,
           patience <= now,
           lastRequestAt # <<>> => now - lastRequestAt[1] >= client.spacing
    PROVE  PaceOK'
<1> DEFINE request0 == [at |-> now, life |-> Len(restarts)]
<1>1. /\ ClockOK' /\ client.spacing \in Nat /\ now \in Nat /\ Len(restarts) \in Nat
      /\ request0 \in SentRequest
    BY ClientsAre, LenProperties DEF PaceOK, ClockOK, SentRequest
<1>2. /\ stage' = "flight" /\ lastRequestAt' = <<now>> /\ sent' = Append(sent, request0)
    BY DEF Send
<1>3. /\ sent' \in Seq(SentRequest) /\ sent' # <<>> /\ Len(sent) \in Nat
      /\ Len(sent') = Len(sent) + 1
      /\ DOMAIN sent = 1 .. Len(sent) /\ DOMAIN sent' = 1 .. (Len(sent) + 1)
      /\ \A n \in 1 .. Len(sent) : sent'[n] = sent[n]
      /\ sent'[Len(sent) + 1] = request0
    <2>1. sent \in Seq(SentRequest)
        BY DEF PaceOK, SentOK
    <2> HIDE DEF request0
    <2> QED
        BY <1>1, <1>2, <2>1, Appended
<1>4. Last(sent)' = request0
    BY <1>3 DEF Last
<1>5. SentOK'
    <2> SUFFICES ASSUME NEW n \in 1 .. (Len(sent) + 1)
                 PROVE  sent'[n].at <= now /\ sent'[n].life <= Len(restarts)
        BY <1>3 DEF SentOK
    <2>1. CASE n = Len(sent) + 1
        BY <1>1, <1>3, <2>1
    <2>2. CASE n # Len(sent) + 1
        BY <1>3, <2>2 DEF PaceOK, SentOK
    <2> QED
        BY <2>1, <2>2
<1>6. LastOK' /\ PauseOK' /\ PatienceOK'
    BY <1>1, <1>2, <1>3, <1>4 DEF LastOK, PauseOK, PatienceOK, RetryAfterIsWaitedFor
<1>7. RequestsAreSpaced'
    <2> SUFFICES ASSUME NEW n \in 1 .. Len(sent), sent'[n].life = sent'[n + 1].life
                 PROVE  sent'[n + 1].at - sent'[n].at >= client.spacing
        BY <1>3 DEF RequestsAreSpaced
    <2>1. CASE n = Len(sent)
        <3>1. sent # <<>> /\ Last(sent) = sent[n] /\ sent[n].life = Len(restarts)
            BY <1>3, <2>1, EmptySeq DEF Last
        <3>2. lastRequestAt = <<sent[n].at>>
            BY <3>1 DEF PaceOK, LastOK
        <3> QED
            BY <1>3, <2>1, <3>2
    <2>2. CASE n # Len(sent)
        <3> DEFINE l == Len(sent)
        <3>0. l \in Nat /\ n \in 1 .. l /\ n # l
            BY <1>3, <2>2
        <3> HIDE DEF l
        <3>1. n \in 1 .. (l - 1) /\ n + 1 \in 1 .. l
            BY <3>0
        <3> USE DEF l
        <3>2. sent'[n] = sent[n] /\ sent'[n + 1] = sent[n + 1]
            BY <1>3, <3>1
        <3>3. sent[n].life = sent[n + 1].life => sent[n + 1].at - sent[n].at >= client.spacing
            BY <3>1 DEF PaceOK, RequestsAreSpaced
        <3> QED
            BY <3>2, <3>3, Zenon
    <2> QED
        BY <2>1, <2>2
<1> QED
    BY <1>1, <1>5, <1>6, <1>7 DEF PaceOK

\* A step that sends nothing.
LEMMA QuietIsPaced ==
    ASSUME PaceOK, UNCHANGED <<client, sent, lastRequestAt, restarts>>,
           now' \in Nat, now' >= now, patience' \in Nat, PauseOK', PatienceOK'
    PROVE  PaceOK'
<1>1. ClockOK' /\ LastOK' /\ RequestsAreSpaced'
    BY DEF PaceOK, ClockOK, LastOK, RequestsAreSpaced
<1>2. SentOK'
    <2>1. /\ sent \in Seq(SentRequest) /\ now \in Nat
          /\ \A n \in DOMAIN sent : sent[n].at <= now /\ sent[n].life <= Len(restarts)
        BY DEF PaceOK, SentOK, ClockOK
    <2>2. \A n \in DOMAIN sent : sent[n].at \in Nat
        BY RequestsSent
    <2>3. \A n \in DOMAIN sent : sent[n].at <= now'
        BY <2>1, <2>2
    <2> QED
        BY <2>1, <2>3 DEF SentOK
<1> QED
    BY <1>1, <1>2 DEF PaceOK

\* A call returns, or gives an attempt up for another one after a sleep.
LEMMA ReturnIsPaced ==
    ASSUME PaceOK, NEW outcome, Return(outcome)
    PROVE  PaceOK'
<1>1. UNCHANGED <<client, sent, lastRequestAt, restarts, now>> /\ now \in Nat
    BY DEF Return, PaceOK, ClockOK
<1>2. stage' = "idle" /\ patience' = 0
    BY DEF Return
<1>3. PauseOK' /\ PatienceOK'
    BY <1>1, <1>2 DEF PauseOK, PatienceOK, RetryAfterIsWaitedFor
<1> QED
    BY <1>1, <1>2, <1>3, QuietIsPaced

LEMMA RetryIsPaced ==
    ASSUME PaceOK, NEW code, NEW delay, NEW promised \in Nat, promised \in {0, now + delay},
           RetryAfter(code, delay, promised)
    PROVE  PaceOK'
<1>1. CASE attempt < MaxAttempts
    <2>1. UNCHANGED <<client, sent, lastRequestAt, restarts, now>> /\ now \in Nat
        BY <1>1 DEF RetryAfter, PaceOK, ClockOK
    <2>2. stage' = "backoff" /\ patience' = promised /\ wakeAt' = now + delay
        BY <1>1 DEF RetryAfter
    <2>3. PauseOK' /\ PatienceOK'
        BY <2>1, <2>2 DEF PauseOK, PatienceOK, RetryAfterIsWaitedFor
    <2> QED
        BY <2>1, <2>2, <2>3, QuietIsPaced
<1>2. CASE ~(attempt < MaxAttempts)
    BY <1>2, ReturnIsPaced DEF RetryAfter
<1> QED
    BY <1>1, <1>2

\* How long is left of a pause.
LEMMA PauseLeftIs ==
    ASSUME PaceOK
    PROVE  /\ lastRequestAt = <<>> => PauseLeft = 0
           /\ lastRequestAt # <<>> =>
                 /\ lastRequestAt[1] \in Nat
                 /\ PauseLeft \in {0, lastRequestAt[1] + client.spacing - now}
                 /\ PauseLeft >= lastRequestAt[1] + client.spacing - now
<1>1. CASE lastRequestAt = <<>>
    BY <1>1 DEF PauseLeft
<1>2. CASE lastRequestAt # <<>>
    <2>1. sent # <<>> /\ lastRequestAt = <<Last(sent).at>>
        BY <1>2 DEF PaceOK, LastOK
    <2>2. Last(sent).at \in Nat
        BY <2>1, RequestsSent DEF Last
    <2>3. client.spacing \in Nat /\ now \in Nat
        BY ClientsAre DEF PaceOK, ClockOK
    <2> DEFINE left == lastRequestAt[1] + client.spacing - now
    <2>4. left \in Int /\ lastRequestAt[1] \in Nat
        BY <2>1, <2>2, <2>3
    <2>5. PauseLeft = Max({0, left})
        BY <1>2 DEF PauseLeft
    <2> HIDE DEF left
    <2>6. PauseLeft \in {0, left} /\ PauseLeft >= left
        BY <2>4, <2>5, MaxOfZeroAnd
    <2> QED
        BY <1>2, <2>4, <2>6 DEF left
<1> QED
    BY <1>1, <1>2

LEMMA StaysPaced ==
    ASSUME PaceOK, [Next]_vars
    PROVE  PaceOK'
<1>0. now \in Nat /\ patience \in Nat
    BY DEF PaceOK, ClockOK
<1>1. CASE Call
    <2>1. /\ stage = "idle" /\ stage' = "attempt"
          /\ UNCHANGED <<client, now, lastRequestAt, sent, patience, restarts>>
        BY <1>1 DEF Call
    <2>2. PauseOK' /\ PatienceOK'
        BY <2>1 DEF PaceOK, PauseOK, PatienceOK, RetryAfterIsWaitedFor
    <2> QED
        BY <1>0, <2>1, <2>2, QuietIsPaced
<1>2. CASE BeginAttempt
    <2>1. /\ stage = "attempt" /\ AwaitSpacing
          /\ UNCHANGED <<client, now, patience, restarts>>
        BY <1>2 DEF BeginAttempt
    <2>2. patience <= now
        BY <2>1 DEF PaceOK, PatienceOK
    <2>3. client.spacing \in Nat
        BY ClientsAre DEF PaceOK, ClockOK
    <2>4. CASE PauseLeft > 0
        <3>1. /\ stage' = "spacing" /\ wakeAt' = now + PauseLeft
              /\ UNCHANGED <<lastRequestAt, sent>>
            BY <2>1, <2>4 DEF AwaitSpacing
        <3>2. /\ lastRequestAt # <<>> /\ lastRequestAt[1] \in Nat
              /\ PauseLeft = lastRequestAt[1] + client.spacing - now
            BY <2>4, PauseLeftIs
        <3>3. PauseOK'
            BY <1>0, <2>1, <2>3, <3>1, <3>2 DEF PauseOK
        <3>4. PatienceOK'
            BY <2>1, <2>2, <3>1 DEF PatienceOK, RetryAfterIsWaitedFor
        <3> QED
            BY <1>0, <2>1, <3>1, <3>3, <3>4, QuietIsPaced
    <2>5. CASE ~(PauseLeft > 0)
        <3>1. Send
            BY <2>1, <2>5 DEF AwaitSpacing
        <3>2. lastRequestAt # <<>> => now - lastRequestAt[1] >= client.spacing
            BY <1>0, <2>3, <2>5, PauseLeftIs
        <3> QED
            BY <2>1, <2>2, <3>1, <3>2, SendIsPaced
    <2> QED
        BY <2>4, <2>5
<1>3. CASE EndPause
    <2>1. /\ stage = "spacing" /\ now >= wakeAt /\ Send
          /\ UNCHANGED <<client, now, patience, restarts>>
        BY <1>3 DEF EndPause
    <2>2. lastRequestAt # <<>> => now - lastRequestAt[1] >= client.spacing
        <3>1. wakeAt = lastRequestAt[1] + client.spacing
            BY <2>1 DEF PaceOK, PauseOK
        <3>2. client.spacing \in Nat /\ (lastRequestAt # <<>> => lastRequestAt[1] \in Nat)
            BY ClientsAre, PauseLeftIs DEF PaceOK, ClockOK
        <3> QED
            BY <1>0, <2>1, <3>1, <3>2
    <2>3. patience <= now
        BY <2>1 DEF PaceOK, PatienceOK
    <2> QED
        BY <2>1, <2>2, <2>3, SendIsPaced
<1>4. CASE RefuseOverQuota
    BY <1>4, ReturnIsPaced DEF RefuseOverQuota
<1>5. CASE ReceiveCandles
    BY <1>5, ReturnIsPaced DEF ReceiveCandles
<1>6. CASE ReceiveMetadata
    BY <1>6, ReturnIsPaced DEF ReceiveMetadata
<1>7. CASE FailAttempt
    BY <1>7, ReturnIsPaced, RetryIsPaced DEF FailAttempt
<1>8. CASE BeRateLimited
    <2>1. PICK seconds \in RetryAfters :
             IF seconds > MaxRetryAfter THEN Return(Unavailable("RATE_LIMITED"))
             ELSE RetryAfter("RATE_LIMITED", seconds, now + seconds)
        BY <1>8 DEF BeRateLimited
    <2>2. now + seconds \in Nat
        BY <1>0, ClientAssumption
    <2> QED
        BY <2>1, <2>2, ReturnIsPaced, RetryIsPaced
<1>9. CASE EndBackoff
    <2>1. /\ stage = "backoff" /\ now >= wakeAt /\ stage' = "attempt"
          /\ UNCHANGED <<client, now, lastRequestAt, sent, patience, restarts>>
        BY <1>9 DEF EndBackoff
    <2>2. patience <= now
        BY <1>0, <2>1 DEF PaceOK, PatienceOK
    <2>3. PauseOK' /\ PatienceOK'
        BY <2>1, <2>2 DEF PauseOK, PatienceOK, RetryAfterIsWaitedFor
    <2> QED
        BY <1>0, <2>1, <2>3, QuietIsPaced
<1>10. CASE Tick
    <2>1. now' = now + 1 /\ UNCHANGED <<client, call, lastRequestAt, sent, patience, restarts>>
        BY <1>10 DEF Tick
    <2>2. PauseOK' /\ PatienceOK'
        BY <1>0, <2>1 DEF call, PaceOK, PauseOK, PatienceOK, RetryAfterIsWaitedFor
    <2> QED
        BY <1>0, <2>1, <2>2, QuietIsPaced
<1>11. CASE Restart
    <2>1. /\ restarts' = Append(restarts, Today) /\ stage' = "idle"
          /\ lastRequestAt' = <<>> /\ patience' = 0 /\ UNCHANGED <<client, now, sent>>
        BY <1>11 DEF Restart
    <2>2. restarts \in Seq(Nat) /\ Today \in Nat
        BY <1>0, DaysAre DEF PaceOK, ClockOK
    <2>3. restarts' \in Seq(Nat) /\ Len(restarts) \in Nat /\ Len(restarts') = Len(restarts) + 1
        BY <2>1, <2>2, AppendProperties, LenProperties
    <2>4. ClockOK' /\ PauseOK' /\ PatienceOK' /\ RequestsAreSpaced'
        BY <1>0, <2>1, <2>3
        DEF PaceOK, ClockOK, PauseOK, PatienceOK, RetryAfterIsWaitedFor, RequestsAreSpaced
    <2>5. \A n \in DOMAIN sent : sent[n].life < Len(restarts')
        BY <2>3, RequestsSent DEF PaceOK, SentOK
    <2>6. SentOK'
        BY <2>1, <2>3, <2>5, RequestsSent DEF PaceOK, SentOK
    <2>7. LastOK'
        BY <2>1, <2>5, RequestsSent DEF LastOK, Last
    <2> QED
        BY <2>4, <2>6, <2>7 DEF PaceOK
<1>12. CASE Compute \/ UNCHANGED vars
    <2>1. UNCHANGED <<client, now, call, lastRequestAt, sent, patience, restarts>>
        BY <1>12 DEF Compute, vars
    <2>2. PauseOK' /\ PatienceOK'
        BY <2>1 DEF call, PaceOK, PauseOK, PatienceOK, RetryAfterIsWaitedFor
    <2> QED
        BY <1>0, <2>1, <2>2, QuietIsPaced
<1> QED
    BY <1>1, <1>2, <1>3, <1>4, <1>5, <1>6, <1>7, <1>8, <1>9, <1>10, <1>11, <1>12 DEF Next

-----------------------------------------------------------------------------
(* Quota *)

\* Requests sent on a day, and restarts.
SentOn(day) == Cardinality({n \in DOMAIN sent : sent[n].at \div Day = day})
RestartsOn(day) == Cardinality({n \in DOMAIN restarts : restarts[n] = day})

\* What the process has counted today, and the request that was counted and waits
\* for its pause to end: that may be on another day.
CountedToday == IF quota.on = Today THEN quota.used ELSE 0
Waiting == IF stage = "spacing" THEN 1 ELSE 0

CountOK == quota \in [on : Int, used : Nat] /\ (client.quota > 0 => quota.used <= client.quota)

DaysOK ==
    client.quota > 0 =>
       \A day \in Nat :
          SentOn(day) + (IF day = Today THEN Waiting ELSE 0)
             <= client.quota * RestartsOn(day)
                  + (IF day = Today THEN CountedToday ELSE client.quota) + 1

QuotaOK == CountOK /\ DaysOK

\* A set of the indices of a sequence, once the sequence grew by one.
LEMMA OneMore ==
    ASSUME NEW m \in Nat, NEW A \in SUBSET (1 .. m), NEW B, B \in {A, A \cup {m + 1}}
    PROVE  /\ Cardinality(A) \in Nat
           /\ Cardinality(B) = Cardinality(A) + IF m + 1 \in B THEN 1 ELSE 0
<1>1. IsFiniteSet(A) /\ Cardinality(A) \in Nat
    <2>1. IsFiniteSet(1 .. m)
        BY FS_Interval
    <2>2. IsFiniteSet(A)
        BY <2>1, FS_Subset
    <2> QED
        BY <2>2, FS_CardinalityType
<1>2. m + 1 \notin A
    OBVIOUS
<1>3. Cardinality(A \cup {m + 1}) = Cardinality(A) + 1
    BY <1>1, <1>2, FS_AddElement
<1> QED
    BY <1>1, <1>2, <1>3

LEMMA CountsAre ==
    ASSUME PaceOK
    PROVE  \A day \in Nat : SentOn(day) \in Nat /\ RestartsOn(day) \in Nat
<1> SUFFICES ASSUME NEW day \in Nat PROVE SentOn(day) \in Nat /\ RestartsOn(day) \in Nat
    OBVIOUS
<1>1. SentOn(day) \in Nat
    BY RequestsSent, OneMore DEF SentOn
<1>2. restarts \in Seq(Nat)
    BY DEF PaceOK, ClockOK
<1>3. Len(restarts) \in Nat /\ DOMAIN restarts = 1 .. Len(restarts)
    BY <1>2, LenProperties
<1>4. RestartsOn(day) \in Nat
    BY <1>3, OneMore DEF RestartsOn
<1> QED
    BY <1>1, <1>4

\* One more request, or one more restart, is one more on the day it is.
LEMMA SendCounts ==
    ASSUME PaceOK, Send
    PROVE  \A day \in Nat : SentOn(day)' = SentOn(day) + IF day = Today THEN 1 ELSE 0
<1> SUFFICES ASSUME NEW day \in Nat
             PROVE  SentOn(day)' = SentOn(day) + IF day = Today THEN 1 ELSE 0
    OBVIOUS
<1> DEFINE e == [at |-> now, life |-> Len(restarts)]
           A == {n \in DOMAIN sent : sent[n].at \div Day = day}
           B == {n \in DOMAIN sent' : sent'[n].at \div Day = day}
           m == Len(sent)
<1>1. sent \in Seq(SentRequest) /\ e \in SentRequest /\ sent' = Append(sent, e) /\ e.at = now
    BY LenProperties DEF PaceOK, SentOK, ClockOK, SentRequest, Send
<1> HIDE DEF e
<1>2. /\ m \in Nat /\ DOMAIN sent = 1 .. m /\ DOMAIN sent' = 1 .. (m + 1)
      /\ \A n \in 1 .. m : sent'[n] = sent[n]
      /\ sent'[m + 1] = e
    BY <1>1, Appended
<1>3. A \in SUBSET (1 .. m) /\ B \in {A, A \cup {m + 1}}
    BY <1>2
<1>4. m + 1 \in B <=> day = Today
    BY <1>1, <1>2 DEF Today
<1> HIDE DEF A, B, m
<1>5. Cardinality(B) = Cardinality(A) + IF m + 1 \in B THEN 1 ELSE 0
    BY <1>2, <1>3, OneMore
<1> QED
    BY <1>4, <1>5 DEF SentOn, A, B

LEMMA RestartCounts ==
    ASSUME PaceOK, Restart
    PROVE  \A day \in Nat : RestartsOn(day)' = RestartsOn(day) + IF day = Today THEN 1 ELSE 0
<1> SUFFICES ASSUME NEW day \in Nat
             PROVE  RestartsOn(day)' = RestartsOn(day) + IF day = Today THEN 1 ELSE 0
    OBVIOUS
<1> DEFINE A == {n \in DOMAIN restarts : restarts[n] = day}
           B == {n \in DOMAIN restarts' : restarts'[n] = day}
           m == Len(restarts)
<1>1. restarts \in Seq(Nat) /\ Today \in Nat /\ restarts' = Append(restarts, Today)
    BY DaysAre DEF PaceOK, ClockOK, Restart
<1>2. /\ m \in Nat /\ DOMAIN restarts = 1 .. m /\ DOMAIN restarts' = 1 .. (m + 1)
      /\ \A n \in 1 .. m : restarts'[n] = restarts[n]
      /\ restarts'[m + 1] = Today
    BY <1>1, Appended
<1>3. A \in SUBSET (1 .. m) /\ B \in {A, A \cup {m + 1}}
    BY <1>2
<1>4. m + 1 \in B <=> day = Today
    BY <1>2
<1> HIDE DEF A, B, m
<1>5. Cardinality(B) = Cardinality(A) + IF m + 1 \in B THEN 1 ELSE 0
    BY <1>2, <1>3, OneMore
<1> QED
    BY <1>4, <1>5 DEF RestartsOn, A, B

LEMMA StartsInQuota == Init => QuotaOK
<1> SUFFICES ASSUME Init PROVE QuotaOK
    OBVIOUS
<1>1. CountOK
    BY ClientsAre DEF Init, CountOK
<1>2. \A day \in Nat : SentOn(day) = 0 /\ RestartsOn(day) = 0
    <2>1. DOMAIN sent = {} /\ DOMAIN restarts = {}
        BY DEF Init
    <2> QED
        BY <2>1, FS_EmptySet DEF SentOn, RestartsOn
<1>3. client.quota \in Nat /\ Waiting = 0 /\ CountedToday \in Nat
    BY ClientsAre DEF Init, Waiting, CountedToday
<1>4. DaysOK
    BY <1>2, <1>3 DEF DaysOK
<1> QED
    BY <1>1, <1>4 DEF QuotaOK

LEMMA QuotaTypes ==
    ASSUME PaceOK, QuotaOK
    PROVE  /\ client.quota \in Nat /\ now \in Nat /\ Today \in Nat
           /\ quota.on \in Int /\ quota.used \in Nat /\ CountedToday \in Nat
           /\ client.quota > 0 => quota.used <= client.quota /\ CountedToday <= client.quota
           /\ \A day \in Nat : client.quota * RestartsOn(day) \in Nat
<1>1. client.quota \in Nat /\ now \in Nat /\ Today \in Nat
    BY ClientsAre, DaysAre DEF PaceOK, ClockOK
<1>2. /\ quota.on \in Int /\ quota.used \in Nat /\ CountedToday \in Nat
      /\ client.quota > 0 => quota.used <= client.quota /\ CountedToday <= client.quota
    BY <1>1 DEF QuotaOK, CountOK, CountedToday
<1> QED
    BY <1>1, <1>2, CountsAre

\* A step that sends nothing, counts nothing and begins no pause.
LEMMA QuietKeepsQuota ==
    ASSUME PaceOK, QuotaOK, UNCHANGED <<client, now, sent, restarts, quota>>,
           stage' # "spacing" \/ UNCHANGED stage
    PROVE  QuotaOK'
<1>1. CountOK'
    BY DEF QuotaOK, CountOK
<1>2. /\ \A day \in Nat : SentOn(day)' = SentOn(day) /\ RestartsOn(day)' = RestartsOn(day)
      /\ Today' = Today /\ CountedToday' = CountedToday
    BY DEF SentOn, RestartsOn, Today, CountedToday
<1>3. Waiting' <= Waiting /\ Waiting \in Nat /\ Waiting' \in Nat
    BY DEF Waiting
<1>4. DaysOK'
    <2> SUFFICES ASSUME client.quota > 0, NEW day \in Nat
                 PROVE  SentOn(day) + (IF day = Today THEN Waiting' ELSE 0)
                           <= client.quota * RestartsOn(day)
                                + (IF day = Today THEN CountedToday ELSE client.quota) + 1
        BY <1>2 DEF DaysOK
    <2>1. SentOn(day) + (IF day = Today THEN Waiting ELSE 0)
             <= client.quota * RestartsOn(day)
                  + (IF day = Today THEN CountedToday ELSE client.quota) + 1
        BY DEF QuotaOK, DaysOK
    <2> QED
        BY <1>3, <2>1, QuotaTypes, CountsAre
<1> QED
    BY <1>1, <1>4 DEF QuotaOK

\* A request is counted before its pause: it is on its way, or waits to be.
LEMMA BeginAttemptKeepsQuota ==
    ASSUME PaceOK, QuotaOK, BeginAttempt
    PROVE  QuotaOK'
<1>1. /\ stage = "attempt" /\ QuotaIsLeft /\ AwaitSpacing
      /\ UNCHANGED <<client, now, restarts>>
      /\ quota' = IF client.quota = 0 THEN quota ELSE [QuotaToday EXCEPT !.used = @ + 1]
    BY DEF BeginAttempt
<1>2. /\ \A day \in Nat : RestartsOn(day)' = RestartsOn(day)
      /\ Today' = Today
    BY <1>1 DEF RestartsOn, Today
<1>3. CASE client.quota = 0
    BY <1>1, <1>3 DEF QuotaOK, CountOK, DaysOK
<1>4. CASE client.quota # 0
    <2>1. client.quota \in Nat /\ client.quota > 0 /\ quota \in [on : Int, used : Nat]
        BY <1>4, QuotaTypes DEF QuotaOK, CountOK
    <2>2. /\ QuotaToday = [on |-> Today, used |-> CountedToday]
        BY <2>1 DEF QuotaToday, CountedToday
    <2>3. quota' = [on |-> Today, used |-> CountedToday + 1]
        BY <1>1, <1>4, <2>2
    <2>4. CountedToday < client.quota
        BY <1>1, <1>4, <2>2 DEF QuotaIsLeft
    <2>5. CountOK'
        BY <1>1, <2>1, <2>3, <2>4, QuotaTypes DEF CountOK
    <2>6. CountedToday' = CountedToday + 1
        BY <1>2, <2>3 DEF CountedToday
    <2>7. \A day \in Nat :
             SentOn(day)' + (IF day = Today THEN Waiting' ELSE 0)
                = SentOn(day) + (IF day = Today THEN 1 ELSE 0)
        <3>1. CASE PauseLeft > 0
            <4>1. stage' = "spacing" /\ UNCHANGED sent
                BY <1>1, <3>1 DEF AwaitSpacing
            <4>2. Waiting' = 1 /\ \A day \in Nat : SentOn(day)' = SentOn(day)
                BY <4>1 DEF Waiting, SentOn
            <4> QED
                BY <4>2
        <3>2. CASE ~(PauseLeft > 0)
            <4>1. Send /\ Waiting' = 0
                BY <1>1, <3>2 DEF AwaitSpacing, Send, Waiting
            <4> QED
                BY <4>1, SendCounts, CountsAre
        <3> QED
            BY <3>1, <3>2
    <2>8. DaysOK'
        <3> SUFFICES ASSUME NEW day \in Nat
                     PROVE  SentOn(day)' + (IF day = Today THEN Waiting' ELSE 0)
                               <= client.quota * RestartsOn(day)
                                  + (IF day = Today THEN CountedToday + 1 ELSE client.quota) + 1
            BY <1>1, <1>2, <2>6 DEF DaysOK
        <3>1. SentOn(day) + (IF day = Today THEN Waiting ELSE 0)
                 <= client.quota * RestartsOn(day)
                      + (IF day = Today THEN CountedToday ELSE client.quota) + 1
            BY <2>1 DEF QuotaOK, DaysOK
        <3>2. Waiting = 0
            BY <1>1 DEF Waiting
        <3>3. /\ SentOn(day) \in Nat /\ CountedToday \in Nat /\ client.quota \in Nat
              /\ client.quota * RestartsOn(day) \in Nat
            BY QuotaTypes, CountsAre
        <3>4. SentOn(day)' + (IF day = Today THEN Waiting' ELSE 0)
                 = SentOn(day) + (IF day = Today THEN 1 ELSE 0)
            BY <2>7
        <3>5. CASE day = Today
            BY <3>1, <3>2, <3>3, <3>4, <3>5
        <3>6. CASE day # Today
            BY <3>1, <3>2, <3>3, <3>4, <3>6
        <3> QED
            BY <3>5, <3>6
    <2> QED
        BY <2>5, <2>8 DEF QuotaOK
<1> QED
    BY <1>3, <1>4

LEMMA EndPauseKeepsQuota ==
    ASSUME PaceOK, QuotaOK, EndPause
    PROVE  QuotaOK'
<1>1. stage = "spacing" /\ Send /\ UNCHANGED <<client, now, restarts, quota>>
    BY DEF EndPause
<1>2. CountOK'
    BY <1>1 DEF QuotaOK, CountOK
<1>3. /\ \A day \in Nat : RestartsOn(day)' = RestartsOn(day)
      /\ Today' = Today /\ CountedToday' = CountedToday
    BY <1>1 DEF RestartsOn, Today, CountedToday
<1>4. Waiting = 1 /\ Waiting' = 0
    BY <1>1 DEF Waiting, Send
<1>5. DaysOK'
    <2> SUFFICES ASSUME client.quota > 0, NEW day \in Nat
                 PROVE  SentOn(day)' + (IF day = Today THEN Waiting' ELSE 0)
                           <= client.quota * RestartsOn(day)
                                + (IF day = Today THEN CountedToday ELSE client.quota) + 1
        BY <1>1, <1>3 DEF DaysOK
    <2>1. SentOn(day) + (IF day = Today THEN Waiting ELSE 0)
             <= client.quota * RestartsOn(day)
                  + (IF day = Today THEN CountedToday ELSE client.quota) + 1
        BY DEF QuotaOK, DaysOK
    <2>2. SentOn(day)' = SentOn(day) + IF day = Today THEN 1 ELSE 0
        BY <1>1, SendCounts
    <2> QED
        BY <1>4, <2>1, <2>2, QuotaTypes, CountsAre
<1> QED
    BY <1>2, <1>5 DEF QuotaOK

\* A day that begins has no requests yet, and the one before is over.
LEMMA TickKeepsQuota ==
    ASSUME PaceOK, QuotaOK, Tick
    PROVE  QuotaOK'
<1>1. now' = now + 1 /\ UNCHANGED <<client, stage, sent, restarts, quota>>
    BY DEF Tick, call
<1>2. CountOK'
    BY <1>1 DEF QuotaOK, CountOK
<1>3. /\ \A day \in Nat : SentOn(day)' = SentOn(day) /\ RestartsOn(day)' = RestartsOn(day)
      /\ Waiting' = Waiting /\ Waiting \in {0, 1}
    BY <1>1 DEF SentOn, RestartsOn, Waiting
<1>4. Today' \in Nat /\ Today' >= Today
    <2>1. now \in Nat /\ now' \in Nat /\ now <= now' /\ Day \in Nat \ {0}
        BY <1>1, QuotaTypes, ClientAssumption
    <2>2. now \div Day <= now' \div Day /\ now' \div Day \in Nat
        BY <2>1, DivIsMonotone, Zenon
    <2> QED
        BY <2>2, QuotaTypes DEF Today
<1>5. \A day \in Nat : day > Today => SentOn(day) = 0
    <2> SUFFICES ASSUME NEW day \in Nat, day > Today PROVE SentOn(day) = 0
        OBVIOUS
    <2>1. ASSUME NEW n \in DOMAIN sent PROVE sent[n].at \div Day # day
        <3>1. sent[n].at \in Nat /\ sent[n].at <= now /\ now \in Nat
            BY RequestsSent, QuotaTypes DEF PaceOK, SentOK
        <3>2. sent[n].at \div Day <= Today /\ sent[n].at \div Day \in Nat
            BY <3>1, ClientAssumption, DivIsMonotone DEF Today
        <3> QED
            BY <3>2, QuotaTypes
    <2>2. {n \in DOMAIN sent : sent[n].at \div Day = day} = {}
        BY <2>1
    <2> QED
        BY <2>2, FS_EmptySet DEF SentOn
<1>6. CountedToday' \in Nat /\ (Today' = Today => CountedToday' = CountedToday)
    BY <1>1, QuotaTypes DEF CountedToday
<1>7. DaysOK'
    <2> SUFFICES ASSUME client.quota > 0, NEW day \in Nat
                 PROVE  SentOn(day) + (IF day = Today' THEN Waiting ELSE 0)
                           <= client.quota * RestartsOn(day)
                                + (IF day = Today' THEN CountedToday' ELSE client.quota) + 1
        BY <1>1, <1>3 DEF DaysOK
    <2>1. SentOn(day) + (IF day = Today THEN Waiting ELSE 0)
             <= client.quota * RestartsOn(day)
                  + (IF day = Today THEN CountedToday ELSE client.quota) + 1
        BY DEF QuotaOK, DaysOK
    <2>2. CASE Today' = Today
        BY <1>6, <2>1, <2>2
    <2>3. CASE Today' # Today
        <3>1. Today' > Today
            BY <1>4, <2>3, QuotaTypes
        <3>2. CASE day = Today'
            BY <1>3, <1>5, <1>6, <3>1, <3>2, QuotaTypes
        <3>3. CASE day # Today'
            BY <1>3, <2>1, <3>3, QuotaTypes, CountsAre
        <3> QED
            BY <3>2, <3>3
    <2> QED
        BY <2>2, <2>3
<1> QED
    BY <1>2, <1>7 DEF QuotaOK

\* A new process counts from zero, which is what a restart more on that day allows.
LEMMA RestartKeepsQuota ==
    ASSUME PaceOK, QuotaOK, Restart
    PROVE  QuotaOK'
<1>1. /\ stage' = "idle" /\ quota' = [on |-> -1, used |-> 0]
      /\ UNCHANGED <<client, now, sent>>
    BY DEF Restart
<1>2. CountOK'
    BY <1>1, QuotaTypes DEF CountOK
<1>3. /\ \A day \in Nat : SentOn(day)' = SentOn(day)
      /\ Today' = Today /\ Waiting' = 0
    BY <1>1 DEF SentOn, Today, Waiting
<1>4. CountedToday' = 0
    BY <1>1 DEF CountedToday
<1>5. DaysOK'
    <2> SUFFICES ASSUME client.quota > 0, NEW day \in Nat
                 PROVE  SentOn(day)
                           <= client.quota * RestartsOn(day)'
                                + (IF day = Today THEN 0 ELSE client.quota) + 1
        BY <1>1, <1>3, <1>4, CountsAre DEF DaysOK
    <2>1. SentOn(day) + (IF day = Today THEN Waiting ELSE 0)
             <= client.quota * RestartsOn(day)
                  + (IF day = Today THEN CountedToday ELSE client.quota) + 1
        BY DEF QuotaOK, DaysOK
    <2>2. Waiting \in {0, 1}
        BY DEF Waiting
    <2>3. CASE day = Today
        <3>1. RestartsOn(day)' = RestartsOn(day) + 1
            BY <2>3, RestartCounts
        <3>2. client.quota * RestartsOn(day)' = client.quota * RestartsOn(day) + client.quota
            BY <3>1, OneMoreTime, QuotaTypes, CountsAre
        <3> QED
            BY <2>1, <2>2, <2>3, <3>2, QuotaTypes, CountsAre
    <2>4. CASE day # Today
        BY <2>1, <2>4, RestartCounts, CountsAre, QuotaTypes
    <2> QED
        BY <2>3, <2>4
<1> QED
    BY <1>2, <1>5 DEF QuotaOK

LEMMA StaysInQuota ==
    ASSUME PaceOK, QuotaOK, [Next]_vars
    PROVE  QuotaOK'
<1>1. CASE BeginAttempt
    BY <1>1, BeginAttemptKeepsQuota
<1>2. CASE EndPause
    BY <1>2, EndPauseKeepsQuota
<1>3. CASE Tick
    BY <1>3, TickKeepsQuota
<1>4. CASE Restart
    BY <1>4, RestartKeepsQuota
<1>5. CASE Call \/ EndBackoff
    BY <1>5, QuietKeepsQuota DEF Call, EndBackoff
<1>6. CASE Compute \/ UNCHANGED vars
    <2>1. UNCHANGED <<client, now, sent, restarts, quota, stage>>
        BY <1>6 DEF Compute, vars, call
    <2> QED
        BY <2>1, QuietKeepsQuota
<1>7. CASE RefuseOverQuota \/ ReceiveCandles \/ ReceiveMetadata \/ FailAttempt \/ BeRateLimited
    <2>1. UNCHANGED <<client, now, sent, restarts, quota>> /\ stage' # "spacing"
        BY <1>7 DEF RefuseOverQuota, ReceiveCandles, ReceiveMetadata, FailAttempt,
                    BeRateLimited, Return, RetryAfter
    <2> QED
        BY <2>1, QuietKeepsQuota
<1> QED
    BY <1>1, <1>2, <1>3, <1>4, <1>5, <1>6, <1>7 DEF Next

-----------------------------------------------------------------------------

\* _respect_request_spacing, _get_json and _check_daily_quota: requests of one
\* process are never closer than the spacing, a Retry-After is waited for, and the
\* quota of a day is exceeded by restarts and by one request at most, for every
\* schedule, number of attempts, backoff and timeout.
THEOREM ProvidersAreAskedAtTheAgreedPace == Spec => []RequestsArePaced
<1>1. Init => PaceOK /\ QuotaOK
    BY StartsPaced, StartsInQuota
<1>2. PaceOK /\ QuotaOK /\ [Next]_vars => PaceOK' /\ QuotaOK'
    BY StaysPaced, StaysInQuota
<1>3. PaceOK /\ QuotaOK => RequestsArePaced
    <2> SUFFICES ASSUME PaceOK, QuotaOK PROVE QuotaIsKept
        BY DEF PaceOK, PatienceOK, RequestsArePaced
    <2> SUFFICES ASSUME client.quota > 0, NEW day \in 0 .. (MaxTime \div Day)
                 PROVE  SentOn(day)
                           <= client.quota * (1 + RestartsOn(day)) + 1
        BY DEF QuotaIsKept, SentOn, RestartsOn
    <2>1. day \in Nat
        OBVIOUS
    <2>2. SentOn(day) + (IF day = Today THEN Waiting ELSE 0)
             <= client.quota * RestartsOn(day)
                  + (IF day = Today THEN CountedToday ELSE client.quota) + 1
        BY <2>1 DEF QuotaOK, DaysOK
    <2>3. Waiting \in {0, 1}
        BY DEF Waiting
    <2>4. client.quota * (1 + RestartsOn(day)) = client.quota * RestartsOn(day) + client.quota
        <3>1. RestartsOn(day) \in Nat /\ client.quota \in Nat
            BY <2>1, QuotaTypes, CountsAre
        <3>2. client.quota * (RestartsOn(day) + 1) = client.quota * RestartsOn(day) + client.quota
            BY <3>1, OneMoreTime
        <3>3. 1 + RestartsOn(day) = RestartsOn(day) + 1
            BY <3>1
        <3> QED
            BY <3>2, <3>3
    <2> QED
        BY <2>1, <2>2, <2>3, <2>4, QuotaTypes, CountsAre
<1> QED
    BY <1>1, <1>2, <1>3, PTL DEF Spec

-----------------------------------------------------------------------------
(* Rows *)

ReportedRow ==
    [at : Nat, value : {"final", "unfinished", "revised"}, readable : BOOLEAN,
     aligned : BOOLEAN]

LEMMA RowsAre ==
    ASSUME NEW rows \in Seq(ReportedRow)
    PROVE  /\ Len(rows) \in Nat /\ DOMAIN rows = 1 .. Len(rows)
           /\ \A n \in DOMAIN rows : rows[n] \in ReportedRow
<1>1. Len(rows) \in Nat /\ DOMAIN rows = 1 .. Len(rows)
    BY LenProperties
<1>2. \A n \in DOMAIN rows : rows[n] \in ReportedRow
    BY <1>1, ElementOfSeq
<1> QED
    BY <1>1, <1>2

LEMMA KeptAreRows ==
    ASSUME NEW rows \in Seq(ReportedRow), NEW chosen
    PROVE  Kept(rows, chosen) \in Seq(ReportedRow)
<1> DEFINE seqs == [n \in DOMAIN rows |-> IF rows[n] \in chosen THEN <<rows[n]>> ELSE <<>>]
<1>1. /\ Len(rows) \in Nat /\ DOMAIN rows = 1 .. Len(rows)
      /\ \A n \in DOMAIN rows : rows[n] \in ReportedRow
    BY RowsAre
<1>2. \A n \in 1 .. Len(rows) : seqs[n] \in Seq(ReportedRow)
    BY <1>1
<1>3. DOMAIN seqs = 1 .. Len(rows) /\ seqs = [n \in 1 .. Len(rows) |-> seqs[n]]
    BY <1>1
<1>4. Kept(rows, chosen) = FlattenSeq(seqs)
    BY DEF Kept
<1> HIDE DEF seqs
<1> QED
    BY <1>1, <1>2, <1>3, <1>4, Flattened

LEMMA SubsequencesAreRows ==
    ASSUME NEW rows \in Seq(ReportedRow), NEW m \in Int, NEW n \in Int,
           1 <= m, n <= Len(rows)
    PROVE  SubSeq(rows, m, n) \in Seq(ReportedRow)
<1>1. Len(rows) \in Nat
    BY RowsAre
<1> QED
    BY <1>1

\* What is selected of an answer are rows, too.
LEMMA SelectedAreRows ==
    ASSUME NEW c, NEW rows \in Seq(ReportedRow), NEW q, q.limit \in Nat, NEW t
    PROVE  Selected(c, rows, q, t) \in Seq(ReportedRow)
<1> DEFINE inWindow == Kept(rows, {row \in ToSet(rows) : InWindow(q, OpenTime(row.at))})
           closed == ClosedBy(inWindow, t)
           open == Kept(inWindow, {row \in ToSet(inWindow) : CloseTime(row.at) > t})
           kept == Min({q.limit, Len(closed)})
<1>1. /\ inWindow \in Seq(ReportedRow) /\ closed \in Seq(ReportedRow)
      /\ open \in Seq(ReportedRow)
    BY KeptAreRows DEF ClosedBy
<1>2. SelectWindow(rows, q, t) =
         IF q.start = <<>> THEN SubSeq(closed, Len(closed) - kept + 1, Len(closed)) \o open
         ELSE IF Len(closed) > kept THEN SubSeq(closed, 1, kept)
         ELSE closed \o open
    BY DEF SelectWindow
<1> HIDE DEF inWindow, open, closed
<1>3. Len(closed) \in Nat
    BY <1>1, RowsAre
<1>4. kept \in Int /\ kept <= Len(closed)
    <2>1. q.limit \in Int /\ Len(closed) \in Int
        BY <1>3
    <2>2. kept \in {q.limit, Len(closed)} /\ kept <= Len(closed)
        BY <2>1, LeastOfTwo
    <2> QED
        BY <2>1, <2>2
<1> HIDE DEF kept
<1>5. /\ SubSeq(closed, Len(closed) - kept + 1, Len(closed)) \in Seq(ReportedRow)
      /\ SubSeq(closed, 1, kept) \in Seq(ReportedRow)
    BY <1>1, <1>3, <1>4, SubsequencesAreRows
<1>6. SelectWindow(rows, q, t) \in Seq(ReportedRow)
    BY <1>1, <1>2, <1>5
<1> QED
    BY <1>6 DEF Selected

LEMMA IndicesAreFinite ==
    ASSUME NEW rows \in Seq(ReportedRow)
    PROVE  IndicesOf(rows) \in SUBSET Nat /\ IsFiniteSet(IndicesOf(rows))
<1>1. ToSet(rows) = {rows[n] : n \in DOMAIN rows}
    BY DEF ToSet
<1>2. \A row \in ToSet(rows) : row \in ReportedRow
    BY <1>1, RowsAre
<1>3. IsFiniteSet(ToSet(rows))
    <2>1. IsFiniteSet(DOMAIN rows)
        <3>1. DOMAIN rows = 1 .. Len(rows) /\ 1 \in Int /\ Len(rows) \in Int
            BY RowsAre
        <3> QED
            BY <3>1, FS_Interval
    <2>2. rows = [n \in DOMAIN rows |-> rows[n]]
        BY RowsAre
    <2> QED
        BY <1>1, <2>1, <2>2, FiniteElements
<1> DEFINE f == [row \in ToSet(rows) |-> row.at]
<1>4. /\ DOMAIN f = ToSet(rows) /\ f = [row \in DOMAIN f |-> f[row]]
      /\ IndicesOf(rows) = {f[row] : row \in DOMAIN f}
    BY DEF IndicesOf
<1>5. IsFiniteSet(IndicesOf(rows))
    <2> HIDE DEF f
    <2> QED
        BY <1>3, <1>4, FiniteElements
<1>6. \A i \in IndicesOf(rows) : i \in Nat
    BY <1>2 DEF IndicesOf, ReportedRow
<1> QED
    BY <1>5, <1>6

-----------------------------------------------------------------------------
(* What a window owes *)

LEMMA IntervalEnds ==
    ASSUME NEW a \in Int, NEW b \in Int, a <= b
    PROVE  Min(a .. b) = a /\ Max(a .. b) = b
<1>1. a \in a .. b /\ b \in a .. b
    OBVIOUS
<1>2. Max(a .. b) = b
    <2>1. \A x \in a .. b : x \in Int /\ x <= b
        OBVIOUS
    <2> QED
        BY <1>1, <2>1, GreatestIs
<1>3. \E x \in a .. b : \A y \in a .. b : x <= y
    BY <1>1
<1>4. Min(a .. b) \in a .. b /\ \A y \in a .. b : Min(a .. b) <= y
    BY <1>3 DEF Min
<1> QED
    BY <1>1, <1>2, <1>4

LEMMA TimesKeepsOrder ==
    ASSUME NEW a \in Int, NEW b \in Int, NEW d \in Nat, a <= b
    PROVE  a * d <= b * d
<1>1. b - a \in Nat
    OBVIOUS
<1>2. (b - a) * d >= 0
    BY <1>1
<1>3. b * d = (b - a) * d + a * d
    OBVIOUS
<1> QED
    BY <1>2, <1>3

LEMMA Quotient ==
    ASSUME NEW x \in Int, NEW d \in Nat \ {0}
    PROVE  x \div d \in Int /\ (x \div d) * d <= x /\ x < (x \div d) * d + d
OBVIOUS

\* The first candle of a window is the first that opens in it, and the last the
\* last that opens before its end.
LEMMA WindowBounds ==
    ASSUME NEW i \in Int, NEW u \in Int
    PROVE  /\ OpenTime(i) >= u => (u + Duration - 1) \div Duration <= i
           /\ OpenTime(i) < u => i <= Floor(u - 1)
<1>0. Duration \in Nat /\ Duration > 0
    BY PeriodAssumption
<1>1. ASSUME OpenTime(i) >= u
      PROVE  (u + Duration - 1) \div Duration <= i
    <2> DEFINE k == (u + Duration - 1) \div Duration
    <2>1. k \in Int /\ k * Duration <= u + Duration - 1
        BY <1>0, Quotient
    <2> HIDE DEF k
    <2>2. SUFFICES ASSUME i + 1 <= k PROVE FALSE
        BY <2>1 DEF k
    <2>3. (i + 1) * Duration <= k * Duration
        BY <1>0, <2>1, <2>2, TimesKeepsOrder
    <2>4. (i + 1) * Duration = i * Duration + Duration
        BY <1>0
    <2>5. i * Duration >= u
        BY <1>1 DEF OpenTime
    <2> QED
        BY <1>0, <2>1, <2>3, <2>4, <2>5
<1>2. ASSUME OpenTime(i) < u
      PROVE  i <= Floor(u - 1)
    <2> DEFINE k == (u - 1) \div Duration
    <2>1. k \in Int /\ u - 1 < k * Duration + Duration
        BY <1>0, Quotient
    <2> HIDE DEF k
    <2>2. SUFFICES ASSUME k + 1 <= i PROVE FALSE
        BY <2>1 DEF k, Floor
    <2>3. (k + 1) * Duration <= i * Duration
        BY <1>0, <2>1, <2>2, TimesKeepsOrder
    <2>4. (k + 1) * Duration = k * Duration + Duration
        BY <1>0, <2>1
    <2>5. i * Duration < u
        BY <1>2 DEF OpenTime
    <2> QED
        BY <1>0, <2>1, <2>3, <2>4, <2>5
<1> QED
    BY <1>1, <1>2

\* start and end are an instant or none.
LEMMA InstantIs ==
    ASSUME NEW s \in Seq(Int), Len(s) <= 1, s # <<>>
    PROVE  Head(s) \in Int /\ Head(s) \in ToSet(s)
<1>1. Len(s) \in Nat /\ DOMAIN s = 1 .. Len(s) /\ Len(s) # 0
    BY LenProperties, EmptySeq
<1>2. 1 \in DOMAIN s /\ s[1] \in Int
    BY <1>1, ElementOfSeq
<1>3. Head(s) = s[1]
    BY <1>1
<1> QED
    BY <1>2, <1>3 DEF ToSet

LEMMA ExpectedIs ==
    ASSUME NEW q, q.start \in Seq(Int), Len(q.start) <= 1, q.start # <<>>,
           q.end \in Seq(Int), Len(q.end) <= 1, NEW t \in Int
    PROVE  \E a \in Int, b \in Int :
              /\ Expected(q, t) = a .. b
              /\ \A i \in 0 .. NewestExpectedOpen(t) :
                    InWindow(q, OpenTime(i)) => i \in a .. b
<1> DEFINE first == (Head(q.start) + Duration - 1) \div Duration
           last == NewestExpectedOpen(t)
           end == Floor(Head(q.end) - 1)
<1>0. Duration \in Nat /\ Duration > 0 /\ Grace \in Nat
    BY PeriodAssumption
<1>1. Head(q.start) \in Int /\ Head(q.start) \in ToSet(q.start)
    BY InstantIs
<1>2. first \in Int /\ last \in Int
    BY <1>0, <1>1, Quotient DEF NewestExpectedOpen, Floor
<1>3. Expected(q, t) = IF q.end = <<>> THEN first .. last ELSE first .. Min({last, end})
    BY DEF Expected
<1>4. ASSUME NEW i \in 0 .. last, InWindow(q, OpenTime(i))
      PROVE  first <= i
    <2>1. OpenTime(i) >= Head(q.start)
        BY <1>1, <1>4 DEF InWindow
    <2>2. i \in Int
        BY <1>2
    <2> QED
        BY <1>1, <2>1, <2>2, WindowBounds
<1>5. CASE q.end = <<>>
    <2>1. \A i \in 0 .. last : InWindow(q, OpenTime(i)) => i \in first .. last
        <3> HIDE DEF first, last
        <3> QED
            BY <1>2, <1>4
    <2> QED
        BY <1>2, <1>3, <1>5, <2>1
<1>6. CASE q.end # <<>>
    <2>1. Head(q.end) \in Int /\ Head(q.end) \in ToSet(q.end)
        BY <1>6, InstantIs
    <2>2. end \in Int
        BY <1>0, <2>1, Quotient DEF Floor
    <2>3. Min({last, end}) \in {last, end}
        <3> HIDE DEF last, end
        <3> QED
            BY <1>2, <2>2, LeastOfTwo
    <2>4. ASSUME NEW i \in 0 .. last, InWindow(q, OpenTime(i))
          PROVE  i \in first .. Min({last, end})
        <3>1. OpenTime(i) < Head(q.end)
            BY <2>1, <2>4 DEF InWindow
        <3>2. i \in Int
            BY <1>2
        <3>3. i <= end
            BY <2>1, <3>1, <3>2, WindowBounds
        <3>4. first <= i
            BY <1>4, <2>4
        <3> HIDE DEF first, last, end
        <3> QED
            BY <1>2, <2>2, <2>3, <3>2, <3>3, <3>4
    <2>5. Min({last, end}) \in Int
        <3> HIDE DEF last, end
        <3> QED
            BY <1>2, <2>2, <2>3
    <2> QED
        BY <1>2, <1>3, <1>6, <2>4, <2>5
<1> QED
    BY <1>5, <1>6

\* Without a gap, what lies between two candles is there.
LEMMA NothingIsMissing ==
    ASSUME NEW indices, GapsIn(indices) = {}, NEW a \in indices, NEW b \in indices,
           NEW i \in a .. b
    PROVE  i \in indices
<1> DEFINE spans == {x .. y : x, y \in indices}
<1>1. a .. b \in spans
    OBVIOUS
<1>2. i \in UNION spans
    <2> HIDE DEF spans
    <2> QED
        BY <1>1
<1> QED
    BY <1>2 DEF GapsIn

-----------------------------------------------------------------------------
(* Answers *)

IsCandleRequest(q) ==
    /\ q.limit \in Nat
    /\ q.start \in Seq(Int) /\ Len(q.start) <= 1
    /\ q.end \in Seq(Int) /\ Len(q.end) <= 1

\* What OkMeansComplete says of one answer.
IsComplete(indices, q, t) ==
    /\ GapsIn(indices) = {}
    /\ IsLatestRequest(q) => \E i \in indices : i >= NewestExpectedOpen(t)
    /\ q.start # <<>> =>
          {i \in 0 .. NewestExpectedOpen(t) : InWindow(q, OpenTime(i))} \subseteq indices

LEMMA NoIssueMeansComplete ==
    ASSUME NEW rows \in Seq(ReportedRow), NEW q, IsCandleRequest(q), NEW t \in Int,
           AssessedIssues(rows, q, t) \ InformationalIssues = {}
    PROVE  IsComplete(IndicesOf(ClosedBy(rows, t)), q, t)
<1> DEFINE indices == IndicesOf(ClosedBy(rows, t))
<1>1. ClosedBy(rows, t) \in Seq(ReportedRow)
    BY KeptAreRows DEF ClosedBy
<1>2. indices \in SUBSET Nat /\ IsFiniteSet(indices)
    BY <1>1, IndicesAreFinite
<1>3. /\ GapsIn(indices) = {}
      /\ IsLatestRequest(q) => ~IsStale(indices, t)
      /\ ~LacksEnds(indices, q, t)
    <2>1. \A issue \in {"GAP", "STALE", "INCOMPLETE_RANGE"} : issue \in QualityIssueCode
        BY DEF QualityIssueCode, DegradingIssues
    <2>2. \A issue \in {"GAP", "STALE", "INCOMPLETE_RANGE"} :
             issue \notin AssessedIssues(rows, q, t)
        BY DEF InformationalIssues
    <2> QED
        BY <2>1, <2>2 DEF AssessedIssues
<1> HIDE DEF indices
<1>4. indices # {} => Max(indices) \in indices /\ \A i \in indices : i <= Max(indices)
    <2>1. indices \in SUBSET Int
        BY <1>2
    <2> QED
        BY <1>2, <2>1, FiniteIsBounded
<1>5. \A i \in indices : i \in Int
    BY <1>2
<1>6. indices # {} => Min(indices) \in indices /\ \A i \in indices : Min(indices) <= i
    BY <1>2, LeastNatural
<1>7. NewestExpectedOpen(t) \in Int
    BY PeriodAssumption, Quotient DEF NewestExpectedOpen, Floor
<1>8. ASSUME IsLatestRequest(q)
      PROVE  \E i \in indices : i >= NewestExpectedOpen(t)
    <2>1. indices # {} /\ ~(Max(indices) < NewestExpectedOpen(t))
        BY <1>3, <1>8 DEF IsStale
    <2>2. Max(indices) \in indices
        BY <1>4, <2>1
    <2>3. Max(indices) \in Int
        BY <1>5, <2>2
    <2> QED
        BY <1>7, <2>1, <2>2, <2>3
<1>9. ASSUME q.start # <<>>, NEW i \in 0 .. NewestExpectedOpen(t), InWindow(q, OpenTime(i))
      PROVE  i \in indices
    <2>1. PICK a \in Int, b \in Int :
             /\ Expected(q, t) = a .. b
             /\ \A j \in 0 .. NewestExpectedOpen(t) :
                   InWindow(q, OpenTime(j)) => j \in a .. b
        BY <1>9, ExpectedIs DEF IsCandleRequest
    <2>2. i \in a .. b
        BY <1>9, <2>1
    <2>3. a <= b /\ a <= i /\ i <= b /\ i \in Int
        BY <2>2
    <2>4. Min(Expected(q, t)) = a /\ Max(Expected(q, t)) = b
        BY <2>1, <2>3, IntervalEnds
    <2>5. indices # {} /\ ~(Min(indices) > a) /\ ~(Max(indices) < b)
        BY <1>3, <1>9, <2>1, <2>2, <2>4 DEF LacksEnds
    <2>6. Min(indices) \in indices /\ Max(indices) \in indices
        BY <1>4, <1>6, <2>5
    <2>7. Min(indices) \in Int /\ Max(indices) \in Int
        BY <1>5, <2>6
    <2>8. i \in Min(indices) .. Max(indices)
        BY <2>3, <2>5, <2>7
    <2> QED
        BY <1>3, <2>6, <2>8, NothingIsMissing
<1>10. IsComplete(indices, q, t)
    BY <1>3, <1>8, <1>9 DEF IsComplete
<1> QED
    BY <1>10 DEF indices

LEMMA OkBatchIsComplete ==
    ASSUME NEW c, NEW rows \in Seq(ReportedRow), NEW q, IsCandleRequest(q), NEW t \in Int,
           CandleBatch(c, rows, q, t).quality = "OK"
    PROVE  IsComplete(DOMAIN CandleBatch(c, rows, q, t).candles, q, t)
<1> DEFINE selected == Selected(c, rows, q, t)
           issues == AssessedIssues(selected, q, t)
           refused == \/ \E row \in ToSet(rows) : ~row.readable
                      \/ TooManyRows(c, rows, q)
                      \/ IsContradictory(selected, t)
           price(i) == (CHOOSE row \in ToSet(ClosedBy(selected, t)) : row.at = i).value
           delivered == [quality |-> QualityFromIssues(issues), issues |-> issues,
                         candles |-> [i \in IndicesOf(ClosedBy(selected, t)) |-> price(i)]]
<1>1. CandleBatch(c, rows, q, t) = IF refused THEN Unavailable("INVALID_RESPONSE")
                                   ELSE delivered
    BY DEF CandleBatch
<1>2. Unavailable("INVALID_RESPONSE").quality # "OK"
    BY DEF Unavailable
<1>3. CandleBatch(c, rows, q, t) = delivered
    BY <1>1, <1>2
<1>4. issues \ InformationalIssues = {}
    <2>1. QualityFromIssues(issues) = "OK"
        BY <1>3
    <2> HIDE DEF issues
    <2> QED
        BY <2>1 DEF QualityFromIssues
<1>5. DOMAIN CandleBatch(c, rows, q, t).candles = IndicesOf(ClosedBy(selected, t))
    BY <1>3
<1>6. selected \in Seq(ReportedRow)
    BY SelectedAreRows DEF IsCandleRequest
<1> HIDE DEF selected
<1> QED
    BY <1>4, <1>5, <1>6, NoIssueMeansComplete

\* What is on its way are rows, of a request for candles; and what was returned
\* keeps its promise.
AnswerOK ==
    /\ client \in Clients /\ now \in Nat /\ now >= StartTime
    /\ request.kind = "candles" => request \in client.requests
    /\ reply # <<>> =>
          /\ stage = "flight" /\ request.kind = "candles"
          /\ reply[1] \in Seq(ReportedRow)
    /\ OkMeansComplete

LEMMA RequestsAreCandleRequests ==
    ASSUME AnswerOK, request.kind = "candles"
    PROVE  IsCandleRequest(request)
<1>1. client \in Clients /\ request \in client.requests
    BY DEF AnswerOK
<1>2. IsClient(client)
    BY <1>1, ClientAssumption
<1> QED
    BY <1>1, <1>2 DEF IsClient, IsCandleRequest

LEMMA StartsWithoutAnswer == Init => AnswerOK
<1> SUFFICES ASSUME Init PROVE AnswerOK
    OBVIOUS
<1>1. /\ client \in Clients /\ now \in Nat /\ now >= StartTime
      /\ request.kind # "candles" /\ reply = <<>>
    BY ClientAssumption DEF Init, NoRequest
<1>2. Delivered = {}
    BY DEF Init, Delivered, ToSet
<1> QED
    BY <1>1, <1>2 DEF AnswerOK, OkMeansComplete

\* A call returns a failure, or what keeps the promise.
LEMMA ReturnKeepsPromise ==
    ASSUME AnswerOK, NEW outcome, Return(outcome),
           request.kind = "candles" /\ outcome.quality = "OK" =>
              IsComplete(DOMAIN outcome.candles, request, now)
    PROVE  AnswerOK'
<1> DEFINE r0 == [outcome |-> outcome, request |-> request, at |-> now]
<1>1. /\ reply' = <<>> /\ request' = NoRequest /\ result' = <<r0>>
      /\ UNCHANGED <<client, now>>
    BY DEF Return
<1>2. ToSet(result') = {r0}
    BY <1>1 DEF ToSet
<1>3. ASSUME NEW r \in Delivered', r.outcome.quality = "OK"
      PROVE  IsComplete(DOMAIN r.outcome.candles, r.request, r.at)
    <2>1. r = r0 /\ r.request.kind = "candles"
        BY <1>2, <1>3 DEF Delivered
    <2>2. r.outcome = outcome /\ r.request = request /\ r.at = now
        BY <2>1
    <2> QED
        BY <1>3, <2>1, <2>2
<1>4. OkMeansComplete'
    BY <1>3 DEF OkMeansComplete, IsComplete
<1> QED
    BY <1>1, <1>4 DEF AnswerOK, NoRequest

LEMMA FailureKeepsPromise ==
    ASSUME AnswerOK, NEW code, Return(Unavailable(code))
    PROVE  AnswerOK'
<1>1. Unavailable(code).quality # "OK"
    BY DEF Unavailable
<1> QED
    BY <1>1, ReturnKeepsPromise

LEMMA RetryKeepsPromise ==
    ASSUME AnswerOK, NEW code, NEW delay, NEW promised, RetryAfter(code, delay, promised)
    PROVE  AnswerOK'
<1>1. CASE attempt < MaxAttempts
    <2>1. reply' = <<>> /\ UNCHANGED <<client, now, request, result>>
        BY <1>1 DEF RetryAfter
    <2> QED
        BY <2>1 DEF AnswerOK, OkMeansComplete, Delivered
<1>2. CASE ~(attempt < MaxAttempts)
    BY <1>2, FailureKeepsPromise DEF RetryAfter
<1> QED
    BY <1>1, <1>2

\* Defects do not take the rows of an answer for something else.
LEMMA DefectiveAreRows ==
    ASSUME NEW rows \in Seq(ReportedRow), NEW r \in Defective(rows)
    PROVE  r \in Seq(ReportedRow)
<1>1. PICK n \in DOMAIN rows :
         r \in {SubSeq(rows, 1, n - 1) \o SubSeq(rows, n + 1, Len(rows)),
                Append(rows, rows[n]),
                Append(rows, [rows[n] EXCEPT !.value = "revised"]),
                [rows EXCEPT ![n].readable = FALSE],
                [rows EXCEPT ![n].aligned = FALSE]}
    BY DEF Defective
<1>2. /\ Len(rows) \in Nat /\ DOMAIN rows = 1 .. Len(rows)
      /\ \A k \in DOMAIN rows : rows[k] \in ReportedRow
    BY RowsAre
<1>3. /\ [rows[n] EXCEPT !.value = "revised"] \in ReportedRow
      /\ [rows[n] EXCEPT !.readable = FALSE] \in ReportedRow
      /\ [rows[n] EXCEPT !.aligned = FALSE] \in ReportedRow
    BY <1>2 DEF ReportedRow
<1>4. SubSeq(rows, 1, n - 1) \o SubSeq(rows, n + 1, Len(rows)) \in Seq(ReportedRow)
    <2>1. /\ 1 \in Int /\ n - 1 \in Int /\ n + 1 \in Int /\ Len(rows) \in Int
          /\ 1 <= n + 1 /\ n - 1 <= Len(rows) /\ 1 <= 1 /\ Len(rows) <= Len(rows)
        BY <1>2
    <2>2. /\ SubSeq(rows, 1, n - 1) \in Seq(ReportedRow)
          /\ SubSeq(rows, n + 1, Len(rows)) \in Seq(ReportedRow)
        BY <2>1, SubsequencesAreRows
    <2> QED
        BY <2>2
<1>5. /\ Append(rows, rows[n]) \in Seq(ReportedRow)
      /\ Append(rows, [rows[n] EXCEPT !.value = "revised"]) \in Seq(ReportedRow)
    BY <1>2, <1>3
<1>6. ASSUME NEW e \in ReportedRow
      PROVE  [rows EXCEPT ![n] = e] \in Seq(ReportedRow)
    <2>1. [rows EXCEPT ![n] = e] \in [1 .. Len(rows) -> ReportedRow]
        BY <1>2
    <2> QED
        BY <1>2, <2>1
<1>7. /\ [rows EXCEPT ![n].readable = FALSE] = [rows EXCEPT ![n] = [rows[n] EXCEPT !.readable = FALSE]]
      /\ [rows EXCEPT ![n].aligned = FALSE] = [rows EXCEPT ![n] = [rows[n] EXCEPT !.aligned = FALSE]]
    OBVIOUS
<1> QED
    BY <1>1, <1>3, <1>4, <1>5, <1>6, <1>7

LEMMA ServedAreRows ==
    ASSUME NEW served, NEW newest \in Nat
    PROVE  ServedRows(served, newest) \in Seq(ReportedRow)
<1> DEFINE rows == [n \in 1 .. (newest + 2) |->
                       Row(n - 1, IF n - 1 > newest THEN "unfinished" ELSE "final")]
<1>1. \A n \in 1 .. (newest + 2) : rows[n] \in ReportedRow
    BY DEF Row, ReportedRow
<1>2. rows \in Seq(ReportedRow)
    <2>1. rows \in [1 .. (newest + 2) -> ReportedRow] /\ newest + 2 \in Nat
        BY <1>1
    <2> QED
        BY <2>1
<1>3. ServedRows(served, newest) = Kept(rows, {row \in ToSet(rows) : row.at \in served})
    BY DEF ServedRows
<1> HIDE DEF rows
<1> QED
    BY <1>2, <1>3, KeptAreRows

LEMMA ComputesRows ==
    ASSUME AnswerOK, Compute
    PROVE  AnswerOK'
<1>1. /\ stage = "flight" /\ request.kind = "candles"
      /\ UNCHANGED <<client, now, stage, request, result>>
    BY DEF Compute, call
<1>2. PICK newest \in NewestExpectedOpen(now) .. NewestClosed(now), withOpen \in BOOLEAN :
         \E served \in ServedIndices(newest, withOpen) :
            \/ reply' = <<ServedRows(served, newest)>>
            \/ reply' \in {<<r>> : r \in Defective(ServedRows(served, newest))}
    BY DEF Compute
<1>3. newest \in Nat
    <2>1. now - Grace >= Duration /\ now \in Nat /\ Duration \in Nat \ {0} /\ Grace \in Nat
        BY ClientAssumption, PeriodAssumption DEF AnswerOK
    <2> DEFINE k == (now - Grace) \div Duration
    <2>2. k \in Int /\ now - Grace < k * Duration + Duration
        BY <2>1, Quotient
    <2> HIDE DEF k
    <2>3. k >= 1
        <3>1. SUFFICES ASSUME k <= 0 PROVE FALSE
            BY <2>2
        <3>2. k * Duration <= 0 * Duration
            BY <2>1, <2>2, <3>1, TimesKeepsOrder
        <3> QED
            BY <2>1, <2>2, <3>2
    <2>4. NewestExpectedOpen(now) \in Nat
        BY <2>2, <2>3 DEF k, NewestExpectedOpen, Floor
    <2> QED
        BY <2>4
<1>4. PICK rows \in Seq(ReportedRow) : reply' = <<rows>>
    <2>1. PICK served \in ServedIndices(newest, withOpen) :
             \/ reply' = <<ServedRows(served, newest)>>
             \/ reply' \in {<<r>> : r \in Defective(ServedRows(served, newest))}
        BY <1>2
    <2>2. ServedRows(served, newest) \in Seq(ReportedRow)
        BY <1>3, ServedAreRows
    <2> QED
        BY <2>1, <2>2, DefectiveAreRows
<1>5. OkMeansComplete'
    BY <1>1 DEF AnswerOK, OkMeansComplete, Delivered
<1> QED
    BY <1>1, <1>4, <1>5 DEF AnswerOK

LEMMA KeepsPromises ==
    ASSUME AnswerOK, [Next]_vars
    PROVE  AnswerOK'
<1>1. CASE Call
    <2>1. /\ stage = "idle" /\ result' = <<>> /\ request' \in client.requests
          /\ UNCHANGED <<client, now, reply>>
        BY <1>1 DEF Call
    <2>2. Delivered' = {}
        BY <2>1 DEF Delivered, ToSet
    <2> QED
        BY <2>1, <2>2 DEF AnswerOK, OkMeansComplete
<1>2. CASE BeginAttempt
    <2>1. stage = "attempt" /\ UNCHANGED <<client, now, request, reply, result>>
        BY <1>2 DEF BeginAttempt
    <2> QED
        BY <2>1 DEF AnswerOK, OkMeansComplete, Delivered
<1>3. CASE EndPause
    <2>1. stage = "spacing" /\ UNCHANGED <<client, now, request, reply, result>>
        BY <1>3 DEF EndPause
    <2> QED
        BY <2>1 DEF AnswerOK, OkMeansComplete, Delivered
<1>4. CASE EndBackoff
    <2>1. stage = "backoff" /\ UNCHANGED <<client, now, request, reply, result>>
        BY <1>4 DEF EndBackoff
    <2> QED
        BY <2>1 DEF AnswerOK, OkMeansComplete, Delivered
<1>5. CASE RefuseOverQuota
    BY <1>5, FailureKeepsPromise DEF RefuseOverQuota
<1>6. CASE FailAttempt
    BY <1>6, FailureKeepsPromise, RetryKeepsPromise DEF FailAttempt
<1>7. CASE BeRateLimited
    BY <1>7, FailureKeepsPromise, RetryKeepsPromise DEF BeRateLimited
<1>8. CASE Compute
    BY <1>8, ComputesRows
<1>9. CASE ReceiveCandles
    <2>1. /\ reply # <<>> /\ now \in Int
          /\ Return(CandleBatch(client, reply[1], request, now))
        BY <1>9 DEF ReceiveCandles, AnswerOK
    <2>2. request.kind = "candles" /\ reply[1] \in Seq(ReportedRow)
        BY <2>1 DEF AnswerOK
    <2>3. IsCandleRequest(request)
        BY <2>2, RequestsAreCandleRequests
    <2>4. CandleBatch(client, reply[1], request, now).quality = "OK" =>
             IsComplete(DOMAIN CandleBatch(client, reply[1], request, now).candles,
                        request, now)
        BY <2>1, <2>2, <2>3, OkBatchIsComplete
    <2> QED
        BY <2>1, <2>4, ReturnKeepsPromise
<1>10. CASE ReceiveMetadata
    <2>1. request.kind # "candles"
        BY <1>10 DEF ReceiveMetadata
    <2>2. PICK pair : Return(MetadataResult(client, pair))
        BY <1>10 DEF ReceiveMetadata
    <2> QED
        BY <2>1, <2>2, ReturnKeepsPromise
<1>11. CASE Tick
    <2>1. /\ now' = now + 1 /\ result' = <<>>
          /\ UNCHANGED <<client, stage, request, reply>>
        BY <1>11 DEF Tick, call
    <2>2. Delivered' = {}
        BY <2>1 DEF Delivered, ToSet
    <2>3. now' \in Nat /\ now' >= StartTime
        BY <2>1, ClientAssumption DEF AnswerOK
    <2> QED
        BY <2>1, <2>2, <2>3 DEF AnswerOK, OkMeansComplete
<1>12. CASE Restart
    <2>1. /\ reply' = <<>> /\ result' = <<>> /\ request' = NoRequest
          /\ UNCHANGED <<client, now>>
        BY <1>12 DEF Restart
    <2>2. Delivered' = {}
        BY <2>1 DEF Delivered, ToSet
    <2> QED
        BY <2>1, <2>2 DEF AnswerOK, OkMeansComplete, NoRequest
<1>13. CASE UNCHANGED vars
    BY <1>13 DEF vars, call, AnswerOK, OkMeansComplete, Delivered
<1> QED
    BY <1>1, <1>2, <1>3, <1>4, <1>5, <1>6, <1>7, <1>8, <1>9, <1>10, <1>11, <1>12,
       <1>13
    DEF Next

\* get_closed_candles and assess_candles: an answer that is called OK lacks nothing
\* the provider must have published of what was asked for, whatever rows came, in
\* whatever order and with whatever wrong in them, for any window, limit and delay.
THEOREM OkAnswersAreComplete == Spec => []OkMeansComplete
<1>1. Init => AnswerOK
    BY StartsWithoutAnswer
<1>2. AnswerOK /\ [Next]_vars => AnswerOK'
    BY KeepsPromises
<1>3. AnswerOK => OkMeansComplete
    BY DEF AnswerOK
<1> QED
    BY <1>1, <1>2, <1>3, PTL DEF Spec

=============================================================================
