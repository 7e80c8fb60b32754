-------------------------- MODULE RateWindowProofs --------------------------
(***************************************************************************)
(* The rate limit is a sliding window up to what receive times go back,    *)
(* proved for every window, limit and set of times.                        *)
(***************************************************************************)
EXTENDS RateWindow, TLAPS, FiniteSetTheorems, SequenceTheorems, WellFoundedInduction

-----------------------------------------------------------------------------
(* What dropping old messages leaves. *)

(* A non-empty set of positions has a first. *)
LEMMA FirstExists ==
  ASSUME NEW S \in SUBSET Nat, S # {}
  PROVE  \E k \in S : \A j \in S : k <= j
  <1> DEFINE R == OpToRel(<, Nat)
  <1>1. IsWellFoundedOn(R, Nat)
    BY NatLessThanWellFounded
  <1>2. \E k \in S : \A j \in S : ~ (<<j, k>> \in R)
    BY <1>1, WFMin, Zenon
  <1>3. ASSUME NEW k \in S, NEW j \in S, ~ (<<j, k>> \in R)
        PROVE  k <= j
    <2>1. ~ (j < k)
      BY <1>3 DEF OpToRel
    <2> QED
      BY <2>1
  <1> QED
    BY <1>2, <1>3

(* n messages are gone and the rest, beginning with a recent one, is left. *)
Dropped(msgs, left, n, now) ==
  /\ left \in Seq(Nat)
  /\ n \in 0 .. Len(msgs)
  /\ Len(left) = Len(msgs) - n
  /\ \A k \in 1 .. Len(left) : left[k] = msgs[n + k]
  /\ \A k \in 1 .. n : now - msgs[k] > rate_window_ns
  /\ Len(left) > 0 => now - left[1] <= rate_window_ns

LEMMA StillRecentDrops ==
  ASSUME NEW msgs \in Seq(Nat), NEW now \in Nat
  PROVE  \E n \in Nat : Dropped(msgs, StillRecent(msgs, now), n, now)
  <1> DEFINE recent(t) == now < t \/ now - t <= rate_window_ns
  <1> DEFINE kept == {k \in DOMAIN msgs : recent(msgs[k])}
  <1> DEFINE left == StillRecent(msgs, now)
  <1>1. rate_window_ns \in Nat /\ Len(msgs) \in Nat /\ DOMAIN msgs = 1 .. Len(msgs)
    BY LimitAssumption
  <1>2. \A k \in 1 .. Len(msgs) : msgs[k] \in Nat
    BY <1>1
  <1>3. \A k \in 1 .. Len(msgs) : k \notin kept => now - msgs[k] > rate_window_ns
    BY <1>1, <1>2
  <1>4. CASE kept = {}
    <2>1. left = <<>>
      BY <1>4 DEF StillRecent
    <2>2. Dropped(msgs, left, Len(msgs), now)
      BY <2>1, <1>1, <1>3, <1>4 DEF Dropped
    <2> QED
      BY <2>2, <1>1
  <1>5. CASE kept # {}
    <2> DEFINE first == CHOOSE k \in kept : \A j \in kept : k <= j
    <2>1. \E k \in kept : \A j \in kept : k <= j
      <3>1. kept \in SUBSET Nat
        BY <1>1
      <3> HIDE DEF kept
      <3> QED
        BY <1>5, <3>1, FirstExists
    <2>2. first \in kept /\ \A j \in kept : first <= j
      <3> HIDE DEF kept
      <3> QED
        BY <2>1
    <2>3. first \in 1 .. Len(msgs) /\ recent(msgs[first])
      BY <2>2, <1>1
    <2>4. left = SubSeq(msgs, first, Len(msgs))
      BY <1>5 DEF StillRecent
    <2>5. \A k \in 1 .. first - 1 : now - msgs[k] > rate_window_ns
      <3>1. SUFFICES ASSUME NEW k \in 1 .. first - 1
                     PROVE  now - msgs[k] > rate_window_ns
        OBVIOUS
      <3>2. k \notin kept
        <4> HIDE DEF kept
        <4> QED
          BY <2>2, <2>3, <1>1
      <3> QED
        BY <3>2, <2>3, <1>3, <1>1
    <2> HIDE DEF first, left, kept
    <2>6. left \in Seq(Nat) /\ Len(left) = Len(msgs) - first + 1
      BY <2>3, <2>4, <1>1
    <2>7. \A k \in 1 .. Len(left) : left[k] = msgs[first - 1 + k]
      BY <2>3, <2>4, <2>6, <1>1
    <2>8. now - left[1] <= rate_window_ns
      <3>1. left[1] = msgs[first]
        BY <2>7, <2>6, <2>3, <1>1
      <3> QED
        BY <3>1, <2>3, <1>2, <1>1
    <2>9. Dropped(msgs, left, first - 1, now)
      BY <2>3, <2>5, <2>6, <2>7, <2>8, <1>1 DEF Dropped
    <2> QED
      BY <2>9, <2>3 DEF left
  <1> QED
    BY <1>4, <1>5

(* The answer of check to a message of an account. *)
LEMMA CheckAnswers ==
  ASSUME NEW a \in Accounts, NEW now
  PROVE  LET recent == StillRecent(accounts[a].recent_msgs, now)
             limited == Len(recent) >= max_msgs_per_window
             call == Check(accounts, CancelOf(a), TRUE, now)
         IN  /\ call.reason = "RiskRateLimit" <=> limited
             /\ call.accounts = [accounts EXCEPT ![a].recent_msgs =
                                   IF limited THEN recent ELSE Append(recent, now)]
  BY DEF Check, CancelOf, OrderRefusal

-----------------------------------------------------------------------------
(* The invariant. *)

RateTypeOK ==
  /\ accounts \in [Accounts -> [open_orders : Nat, open_notional : Nat,
                                recent_msgs : Seq(Nat)]]
  /\ passed \in [Accounts -> Seq(Nat)]
  /\ latest \in Nat

(* No message let through is behind an earlier one, or ahead of the latest  *)
(* time, by more than it may be.                                            *)
TimesFollow ==
  \A a \in Accounts :
    /\ \A k \in 1 .. Len(passed[a]) : passed[a][k] <= latest
    /\ \A j, k \in 1 .. Len(passed[a]) :
         j < k => passed[a][j] <= passed[a][k] + Slack

IInv == RateTypeOK /\ QueueIsTail /\ TimesFollow

LEMMA InitEstablishesInv == RateInit => IInv
  BY DEF RateInit, IInv, RateTypeOK, QueueIsTail, TimesFollow, NewAccount

(***************************************************************************)
(* A message of account a finds n of the messages let through gone, those  *)
(* left being recent_msgs; nothing else tells whether it is refused.       *)
(***************************************************************************)
Found(a, now, recent, n) ==
  /\ recent \in Seq(Nat)
  /\ n \in 0 .. Len(passed[a])
  /\ Len(recent) = Len(passed[a]) - n
  /\ \A k \in 1 .. Len(recent) : recent[k] = passed[a][n + k]
  /\ \A k \in 1 .. n : latest' - passed[a][k] > rate_window_ns
  /\ Len(recent) > 0 => now - recent[1] <= rate_window_ns

LEMMA MessageFinds ==
  ASSUME IInv, NEW a \in Accounts, NEW now \in Nat, Message(a, now)
  PROVE  \E n \in Nat : Found(a, now, StillRecent(accounts[a].recent_msgs, now), n)
  <1> DEFINE msgs == accounts[a].recent_msgs
  <1> DEFINE left == StillRecent(msgs, now)
  <1> DEFINE gone == Len(passed[a]) - Len(msgs)
  <1>1. /\ msgs \in Seq(Nat) /\ passed[a] \in Seq(Nat) /\ latest \in Nat
        /\ rate_window_ns \in Nat
    BY LimitAssumption DEF IInv, RateTypeOK
  <1>2. /\ latest' \in Nat /\ latest <= latest' /\ now <= latest'
    BY <1>1 DEF Message
  <1>3. /\ gone \in Nat /\ Len(passed[a]) = gone + Len(msgs)
        /\ \A k \in 1 .. Len(msgs) : msgs[k] = passed[a][gone + k]
        /\ \A k \in 1 .. gone : latest - passed[a][k] > rate_window_ns
    <2>1. /\ gone >= 0
          /\ \A k \in DOMAIN msgs : msgs[k] = passed[a][gone + k]
          /\ \A k \in 1 .. gone : latest - passed[a][k] > rate_window_ns
      BY DEF IInv, QueueIsTail
    <2>2. DOMAIN msgs = 1 .. Len(msgs) /\ Len(msgs) \in Nat /\ Len(passed[a]) \in Nat
      BY <1>1
    <2>3. gone \in Nat /\ Len(passed[a]) = gone + Len(msgs)
      BY <2>1, <2>2
    <2> QED
      BY <2>1, <2>2, <2>3
  <1>4. PICK d \in Nat : Dropped(msgs, left, d, now)
    BY <1>1, StillRecentDrops
  <1>41. /\ left \in Seq(Nat) /\ d \in 0 .. Len(msgs) /\ Len(left) = Len(msgs) - d
         /\ \A k \in 1 .. Len(left) : left[k] = msgs[d + k]
         /\ \A k \in 1 .. d : now - msgs[k] > rate_window_ns
         /\ Len(left) > 0 => now - left[1] <= rate_window_ns
    BY <1>4 DEF Dropped
  <1>42. \A k \in 1 .. Len(passed[a]) : passed[a][k] \in Nat
    BY <1>1
  <1>43. Len(msgs) \in Nat /\ Len(passed[a]) \in Nat
    BY <1>1
  <1> HIDE DEF left, msgs, gone
  <1>5. \A k \in 1 .. gone + d : latest' - passed[a][k] > rate_window_ns
    <2>1. SUFFICES ASSUME NEW k \in 1 .. gone + d
                   PROVE  latest' - passed[a][k] > rate_window_ns
      OBVIOUS
    <2>2. gone + d <= Len(passed[a])
      BY <1>3, <1>41, <1>43
    <2>3. passed[a][k] \in Nat
      BY <1>42, <1>43, <1>3, <1>41, <2>2
    <2>4. CASE k <= gone
      BY SMTT(30), <1>1, <1>2, <1>3, <2>3, <2>4
    <2>5. CASE k > gone
      <3>1. k - gone \in 1 .. d /\ k - gone \in 1 .. Len(msgs)
        BY <1>3, <1>41, <1>43, <2>5
      <3>2. now - msgs[k - gone] > rate_window_ns
        BY <3>1, <1>41
      <3>3. msgs[k - gone] = passed[a][gone + (k - gone)] /\ gone + (k - gone) = k
        BY <3>1, <1>3
      <3> QED
        BY SMTT(30), <3>2, <3>3, <2>3, <1>1, <1>2
    <2> QED
      BY <2>4, <2>5, <1>3
  <1>6. \A k \in 1 .. Len(left) : left[k] = passed[a][gone + d + k]
    <2>1. SUFFICES ASSUME NEW k \in 1 .. Len(left)
                   PROVE  left[k] = passed[a][gone + d + k]
      OBVIOUS
    <2>2. d + k \in 1 .. Len(msgs) /\ left[k] = msgs[d + k]
      BY <1>41, <1>43
    <2>3. gone + (d + k) = gone + d + k
      BY <1>3, <1>41
    <2> QED
      BY <2>2, <2>3, <1>3
  <1>7. Found(a, now, left, gone + d)
    BY <1>3, <1>41, <1>43, <1>5, <1>6 DEF Found
  <1> QED
    BY <1>7, <1>3, <1>41 DEF left, msgs

(* What the message changes, by whether it is refused. *)
LEMMA MessageChanges ==
  ASSUME NEW a \in Accounts, NEW now, Message(a, now)
  PROVE  LET recent == StillRecent(accounts[a].recent_msgs, now)
             limited == Len(recent) >= max_msgs_per_window
         IN  /\ answer'.account = a /\ answer'.now = now
             /\ answer'.refused <=> limited
             /\ accounts' = [accounts EXCEPT ![a].recent_msgs =
                               IF limited THEN recent ELSE Append(recent, now)]
             /\ limited => passed' = passed
             /\ ~ limited => passed' = [passed EXCEPT ![a] = Append(@, now)]
  <1> DEFINE call == Check(accounts, CancelOf(a), TRUE, now)
  <1> DEFINE recent == StillRecent(accounts[a].recent_msgs, now)
  <1> DEFINE limited == Len(recent) >= max_msgs_per_window
  <1>1. /\ answer' = [account |-> a, now |-> now, refused |-> call.reason = "RiskRateLimit"]
        /\ accounts' = call.accounts
        /\ passed' = IF call.reason = "RiskRateLimit" THEN passed
                     ELSE [passed EXCEPT ![a] = Append(@, now)]
    BY DEF Message
  <1>2. call.reason = "RiskRateLimit" <=> limited
    BY CheckAnswers
  <1>3. call.accounts = [accounts EXCEPT ![a].recent_msgs =
                           IF limited THEN recent ELSE Append(recent, now)]
    BY CheckAnswers
  <1> HIDE DEF call, limited, recent
  <1>4. answer'.account = a /\ answer'.now = now
    BY <1>1
  <1>5. answer'.refused <=> limited
    BY <1>1, <1>2
  <1>6. limited => passed' = passed
    BY <1>1, <1>2
  <1>7. ~ limited => passed' = [passed EXCEPT ![a] = Append(@, now)]
    BY <1>1, <1>2
  <1> QED
    BY <1>1, <1>3, <1>4, <1>5, <1>6, <1>7 DEF limited, recent

LEMMA MessageKeepsInv ==
  ASSUME IInv, NEW a \in Accounts, NEW now \in Nat, Message(a, now)
  PROVE  IInv'
  <1> DEFINE recent == StillRecent(accounts[a].recent_msgs, now)
  <1> DEFINE limited == Len(recent) >= max_msgs_per_window
  <1> DEFINE left == IF limited THEN recent ELSE Append(recent, now)
  <1> DEFINE sent == IF limited THEN passed[a] ELSE Append(passed[a], now)
  <1>1. /\ accounts \in [Accounts -> [open_orders : Nat, open_notional : Nat,
                                      recent_msgs : Seq(Nat)]]
        /\ passed \in [Accounts -> Seq(Nat)] /\ latest \in Nat
        /\ rate_window_ns \in Nat /\ Slack \in Nat
    BY LimitAssumption, RateAssumption DEF IInv, RateTypeOK
  <1>2. /\ latest' \in Nat /\ latest <= latest' /\ now <= latest'
        /\ latest <= now + Slack
    BY <1>1 DEF Message
  <1>3. PICK n \in Nat : Found(a, now, recent, n)
    BY MessageFinds
  <1>4. /\ accounts' = [accounts EXCEPT ![a].recent_msgs = left]
        /\ passed' = [passed EXCEPT ![a] = sent]
    <2>1. /\ accounts' = [accounts EXCEPT ![a].recent_msgs = left]
          /\ limited => passed' = passed
          /\ ~ limited => passed' = [passed EXCEPT ![a] = Append(@, now)]
      BY MessageChanges
    <2> HIDE DEF limited
    <2> QED
      BY <2>1, <1>1
  <1>5. recent \in Seq(Nat)
    BY <1>3 DEF Found
  <1> HIDE DEF recent
  <1>6. /\ n \in 0 .. Len(passed[a]) /\ Len(recent) = Len(passed[a]) - n
        /\ \A k \in 1 .. Len(recent) : recent[k] = passed[a][n + k]
        /\ \A k \in 1 .. n : latest' - passed[a][k] > rate_window_ns
    BY <1>3 DEF Found
  <1>7. passed[a] \in Seq(Nat) /\ Len(passed[a]) \in Nat /\ Len(recent) \in Nat
    BY <1>1, <1>5
  <1>8. /\ left \in Seq(Nat) /\ sent \in Seq(Nat) /\ Len(sent) - Len(left) = n
        /\ DOMAIN left = 1 .. Len(left)
    <2>1. CASE limited
      <3>1. left = recent /\ sent = passed[a]
        BY <2>1
      <3>2. DOMAIN recent = 1 .. Len(recent)
        BY <1>5
      <3>3. Len(passed[a]) - Len(recent) = n
        BY <1>6, <1>7
      <3> QED
        BY <3>1, <3>2, <3>3, <1>5, <1>7
    <2>2. CASE ~ limited
      <3>1. left = Append(recent, now) /\ sent = Append(passed[a], now)
        BY <2>2
      <3>2. left \in Seq(Nat) /\ Len(left) = Len(recent) + 1 /\ DOMAIN left = 1 .. Len(left)
        BY <3>1, <1>5, AppendProperties
      <3>3. sent \in Seq(Nat) /\ Len(sent) = Len(passed[a]) + 1
        BY <3>1, <1>7, AppendProperties
      <3> QED
        BY <3>2, <3>3, <1>6, <1>7
    <2> QED
      BY <2>1, <2>2
  <1>9. /\ \A k \in 1 .. Len(sent) :
             sent[k] = (IF k <= Len(passed[a]) THEN passed[a][k] ELSE now) /\ sent[k] \in Nat
        /\ Len(passed[a]) <= Len(sent) /\ Len(sent) <= Len(passed[a]) + 1
        /\ Len(sent) \in Nat
    <2>1. CASE limited
      BY <2>1, <1>7
    <2>2. CASE ~ limited
      BY SMTT(30), <2>2, <1>7
    <2> QED
      BY <2>1, <2>2
  <1>10. \A k \in 1 .. Len(left) : left[k] = sent[n + k]
    <2>1. SUFFICES ASSUME NEW k \in 1 .. Len(left)
                   PROVE  left[k] = sent[n + k]
      OBVIOUS
    <2>2. n + k \in 1 .. Len(sent)
      BY <1>6, <1>8
    <2>3. CASE limited
      BY <2>3, <1>6, <1>7, <1>5
    <2>4. CASE ~ limited
      <3>1. CASE k <= Len(recent)
        BY <2>4, <3>1, <1>6, <1>7, <1>5, <2>2, <1>9
      <3>2. CASE k = Len(recent) + 1
        BY <2>4, <3>2, <1>6, <1>7, <1>5, <2>2, <1>9
      <3>3. Len(left) = Len(recent) + 1
        BY <2>4, <1>5, AppendProperties
      <3> HIDE DEF left
      <3>4. k <= Len(recent) \/ k = Len(recent) + 1
        BY <3>3, <1>7
      <3> QED
        BY <3>1, <3>2, <3>4
    <2> QED
      BY <2>3, <2>4
  <1> HIDE DEF left, sent, limited
  <1>11. RateTypeOK'
    BY <1>1, <1>2, <1>4, <1>8 DEF RateTypeOK
  <1>12. QueueIsTail'
    <2>1. SUFFICES ASSUME NEW b \in Accounts
                   PROVE  LET now_left == accounts'[b].recent_msgs
                              gone == Len(passed'[b]) - Len(now_left)
                          IN  /\ gone >= 0
                              /\ \A k \in DOMAIN now_left : now_left[k] = passed'[b][gone + k]
                              /\ \A k \in 1 .. gone :
                                   latest' - passed'[b][k] > rate_window_ns
      BY DEF QueueIsTail
    <2>2. CASE b = a
      <3>1. accounts'[b].recent_msgs = left /\ passed'[b] = sent
        BY <1>1, <1>4, <2>2
      <3>2. ASSUME NEW k \in 1 .. n
            PROVE  latest' - sent[k] > rate_window_ns
        <4>1. k \in 1 .. Len(passed[a]) /\ k \in 1 .. Len(sent)
          BY <1>6, <1>7, <1>9
        <4>2. sent[k] = passed[a][k] /\ latest' - passed[a][k] > rate_window_ns
          BY <4>1, <1>6, <1>7, <1>9
        <4> QED
          BY <4>2
      <3>3. Len(sent) - Len(left) = n /\ n >= 0
        BY <1>6, <1>8
      <3>4. \A k \in DOMAIN left : left[k] = sent[n + k]
        BY <1>8, <1>10
      <3> QED
        BY <3>1, <3>2, <3>3, <3>4
    <2>3. CASE b # a
      <3>1. accounts'[b] = accounts[b] /\ passed'[b] = passed[b]
        BY <1>1, <1>4, <2>3
      <3>2. /\ accounts[b].recent_msgs \in Seq(Nat)
            /\ passed[b] \in Seq(Nat)
        BY <1>1
      <3>3. \A k \in 1 .. Len(passed[b]) : passed[b][k] \in Nat
        BY <3>2
      <3> DEFINE gone == Len(passed[b]) - Len(accounts[b].recent_msgs)
      <3>4. /\ gone >= 0
            /\ \A k \in DOMAIN accounts[b].recent_msgs :
                 accounts[b].recent_msgs[k] = passed[b][gone + k]
            /\ \A k \in 1 .. gone : latest - passed[b][k] > rate_window_ns
        BY DEF IInv, QueueIsTail
      <3>5. Len(passed[b]) \in Nat /\ gone \in Nat /\ gone <= Len(passed[b])
        <4>1. Len(passed[b]) \in Nat /\ Len(accounts[b].recent_msgs) \in Nat
          BY <3>2
        <4>2. gone >= 0
          BY <3>4
        <4>3. \A x, y \in Nat : x - y >= 0 => x - y \in Nat /\ x - y <= x
          OBVIOUS
        <4> QED
          BY <4>1, <4>2, <4>3
      <3> HIDE DEF gone
      <3>6. ASSUME NEW k \in 1 .. gone
            PROVE  latest' - passed[b][k] > rate_window_ns
        <4>1. passed[b][k] \in Nat /\ latest - passed[b][k] > rate_window_ns
          BY <3>3, <3>4, <3>5
        <4> QED
          BY SMTT(30), <4>1, <1>1, <1>2
      <3> USE DEF gone
      <3> QED
        BY <3>1, <3>4, <3>6
    <2> QED
      BY <2>2, <2>3
  <1>13. TimesFollow'
    <2>1. SUFFICES ASSUME NEW b \in Accounts
                   PROVE  /\ \A k \in 1 .. Len(passed'[b]) : passed'[b][k] <= latest'
                          /\ \A j, k \in 1 .. Len(passed'[b]) :
                               j < k => passed'[b][j] <= passed'[b][k] + Slack
      BY DEF TimesFollow
    <2>2. /\ passed[b] \in Seq(Nat)
          /\ \A k \in 1 .. Len(passed[b]) : passed[b][k] \in Nat /\ passed[b][k] <= latest
          /\ \A j, k \in 1 .. Len(passed[b]) :
               j < k => passed[b][j] <= passed[b][k] + Slack
      BY SMTT(30), <1>1 DEF IInv, TimesFollow
    <2>3. CASE b = a
      <3>1. passed'[b] = sent
        BY <1>1, <1>4, <2>3
      <3>2. \A k \in 1 .. Len(sent) : sent[k] <= latest'
        BY <2>2, <2>3, <1>1, <1>2, <1>9
      <3>3. ASSUME NEW j \in 1 .. Len(sent), NEW k \in 1 .. Len(sent), j < k
            PROVE  sent[j] <= sent[k] + Slack
        <4>1. j \in 1 .. Len(passed[a]) /\ sent[j] = passed[a][j]
          <5>1. j < Len(sent) /\ j \in Nat
            BY <3>3, <1>9
          <5>2. j \in 1 .. Len(passed[a])
            BY <5>1, <3>3, <1>7, <1>9
          <5> QED
            BY <5>2, <3>3, <1>7, <1>9
        <4>2. CASE k <= Len(passed[a])
          <5>1. k \in 1 .. Len(passed[a]) /\ sent[k] = passed[a][k]
            BY <4>2, <3>3, <1>7, <1>9
          <5> QED
            BY <5>1, <4>1, <3>3, <2>2, <2>3
        <4>3. CASE k > Len(passed[a])
          <5>1. sent[k] = now
            BY <4>3, <3>3, <1>7, <1>9
          <5>2. passed[a][j] \in Nat /\ passed[a][j] <= latest
            BY <4>1, <2>2, <2>3
          <5> QED
            BY SMTT(30), <5>1, <5>2, <4>1, <1>1, <1>2
        <4> QED
          BY <4>2, <4>3, <3>3, <1>7
      <3> QED
        BY <3>1, <3>2, <3>3
    <2>4. CASE b # a
      <3>1. passed'[b] = passed[b]
        BY <1>1, <1>4, <2>4
      <3>2. Len(passed[b]) \in Nat
        BY <2>2
      <3>3. \A k \in 1 .. Len(passed[b]) : passed[b][k] <= latest'
        BY SMTT(30), <2>2, <1>1, <1>2
      <3> QED
        BY <3>1, <3>3, <2>2
    <2> QED
      BY <2>3, <2>4
  <1> QED
    BY <1>11, <1>12, <1>13 DEF IInv

LEMMA Invariance == RateSpec => []IInv
  <1>1. ASSUME IInv, [RateNext]_rateVars
        PROVE  IInv'
    <2>1. CASE UNCHANGED rateVars
      BY <1>1, <2>1 DEF IInv, RateTypeOK, QueueIsTail, TimesFollow, rateVars
    <2>2. CASE RateNext
      BY <1>1, <2>2, MessageKeepsInv, RateAssumption DEF RateNext
    <2> QED
      BY <1>1, <2>1, <2>2
  <1> QED
    BY <1>1, InitEstablishesInv, PTL DEF RateSpec

(***************************************************************************)
(* recent_msgs is the end of what was let through, and what was dropped    *)
(* was older than the window at some time (RiskEngine::check).             *)
(***************************************************************************)
THEOREM QueueCorrect == RateSpec => []QueueIsTail
  <1>1. IInv => QueueIsTail
    BY DEF IInv
  <1> QED
    BY <1>1, Invariance, PTL

-----------------------------------------------------------------------------
(* What a message finds bounds how many were let through lately. *)

(* Messages from position n + 1 on. *)
LEMMA CountAfter ==
  ASSUME NEW m \in Nat, NEW n \in 0 .. m
  PROVE  IsFiniteSet(n + 1 .. m) /\ Cardinality(n + 1 .. m) = m - n
  <1>1. n + 1 \in Int /\ m \in Int
    OBVIOUS
  <1>2. /\ IsFiniteSet(n + 1 .. m)
        /\ Cardinality(n + 1 .. m) = IF n + 1 > m THEN 0 ELSE m - (n + 1) + 1
    BY <1>1, FS_Interval
  <1> QED
    BY <1>2

LEMMA MessageCounts ==
  ASSUME IInv, NEW a \in Accounts, NEW now \in Nat, Message(a, now)
  PROVE  /\ answer'.refused =>
              Cardinality(PassedSince(a, now - rate_window_ns - Slack)) >= max_msgs_per_window
         /\ ~ answer'.refused =>
              Cardinality(PassedSince(a, now - rate_window_ns + Slack)) < max_msgs_per_window
  <1> DEFINE recent == StillRecent(accounts[a].recent_msgs, now)
  <1> DEFINE total == Len(passed[a])
  <1>1. /\ passed[a] \in Seq(Nat) /\ total \in Nat /\ latest \in Nat
        /\ rate_window_ns \in Nat /\ max_msgs_per_window \in Nat /\ Slack \in Nat
    BY LimitAssumption, RateAssumption DEF IInv, RateTypeOK
  <1>2. DOMAIN passed[a] = 1 .. total /\ \A k \in 1 .. total : passed[a][k] \in Nat
    BY <1>1
  <1>3. latest' \in Nat /\ latest' <= now + Slack
    BY <1>1 DEF Message
  <1>4. PICK n \in Nat : Found(a, now, recent, n)
    BY MessageFinds
  <1>5. answer'.refused <=> Len(recent) >= max_msgs_per_window
    BY MessageChanges
  <1> HIDE DEF recent
  <1>6. /\ n \in 0 .. total /\ Len(recent) = total - n
        /\ \A k \in 1 .. n : latest' - passed[a][k] > rate_window_ns
        /\ Len(recent) > 0 => recent[1] = passed[a][n + 1] /\ now - recent[1] <= rate_window_ns
    <2>1. Len(recent) \in Nat
      BY <1>4 DEF Found
    <2> QED
      BY <2>1, <1>4 DEF Found
  <1>7. \A j, k \in 1 .. total : j < k => passed[a][j] <= passed[a][k] + Slack
    BY DEF IInv, TimesFollow
  <1> HIDE DEF total
  <1>8. IsFiniteSet(n + 1 .. total) /\ Cardinality(n + 1 .. total) = total - n
    BY <1>1, <1>6, CountAfter
  <1>9. ASSUME answer'.refused
        PROVE  Cardinality(PassedSince(a, now - rate_window_ns - Slack)) >= max_msgs_per_window
    <2> DEFINE since == PassedSince(a, now - rate_window_ns - Slack)
    <2>1. ASSUME NEW k \in n + 1 .. total
          PROVE  passed[a][k] >= now - rate_window_ns - Slack
      <3>1. n + 1 \in 1 .. total /\ k \in 1 .. total /\ Len(recent) > 0
        BY <1>1, <1>6
      <3>2. /\ passed[a][n + 1] \in Nat /\ passed[a][k] \in Nat
            /\ now - passed[a][n + 1] <= rate_window_ns
        BY <3>1, <1>2, <1>6
      <3>3. passed[a][n + 1] <= passed[a][k] + Slack
        <4>1. CASE k = n + 1
          BY <4>1, <3>2, <1>1
        <4>2. CASE n + 1 < k
          BY <4>2, <3>1, <1>7
        <4> QED
          BY <4>1, <4>2, <1>6
      <3>4. \A p, q, w, s \in Nat : now - p <= w /\ p <= q + s => q >= now - w - s
        OBVIOUS
      <3> QED
        BY <3>2, <3>3, <3>4, <1>1
    <2>2. n + 1 .. total \subseteq since
      BY SMTT(30), <2>1, <1>1, <1>2, <1>6 DEF PassedSince
    <2>3. IsFiniteSet(since)
      <3>1. since \subseteq 1 .. total
        BY <1>2 DEF PassedSince
      <3>2. IsFiniteSet(1 .. total)
        BY <1>1, FS_Interval
      <3> QED
        BY <3>1, <3>2, FS_Subset
    <2>4. Cardinality(n + 1 .. total) <= Cardinality(since) /\ Cardinality(since) \in Nat
      BY <2>2, <2>3, FS_Subset, FS_CardinalityType
    <2> QED
      BY <2>4, <1>5, <1>6, <1>8, <1>9, <1>1
  <1>10. ASSUME ~ answer'.refused
         PROVE  Cardinality(PassedSince(a, now - rate_window_ns + Slack)) < max_msgs_per_window
    <2> DEFINE since == PassedSince(a, now - rate_window_ns + Slack)
    <2>1. ASSUME NEW k \in since
          PROVE  k \in n + 1 .. total
      <3>1. k \in 1 .. total /\ passed[a][k] \in Nat
        BY <1>2 DEF PassedSince
      <3>2. passed[a][k] >= now - rate_window_ns + Slack
        BY DEF PassedSince
      <3>3. ~ latest' - passed[a][k] > rate_window_ns
        BY SMTT(30), <3>1, <3>2, <1>1, <1>3
      <3>4. k \notin 1 .. n
        BY <3>3, <1>6
      <3> QED
        BY <3>1, <3>4, <1>1, <1>6
    <2>2. since \subseteq n + 1 .. total
      BY <2>1
    <2>3. Cardinality(since) <= total - n /\ Cardinality(since) \in Nat
      BY <2>2, <1>8, FS_Subset, FS_CardinalityType
    <2> QED
      BY <2>3, <1>5, <1>6, <1>10, <1>1
  <1> QED
    BY <1>9, <1>10

(***************************************************************************)
(* Whatever times go back, a message is refused only if as many as the     *)
(* limit allows were let through in the window before it, longer by Slack, *)
(* and let through only if fewer were in the window shorter by Slack.      *)
(***************************************************************************)
THEOREM LimitCorrect == RateSpec => RefusedOnlyOverLimit /\ PassedOnlyUnderLimit
  <1> DEFINE Over == answer'.refused =>
        Cardinality(PassedSince(answer'.account, answer'.now - rate_window_ns - Slack))
          >= max_msgs_per_window
  <1> DEFINE Under == ~ answer'.refused =>
        Cardinality(PassedSince(answer'.account, answer'.now - rate_window_ns + Slack))
          < max_msgs_per_window
  <1>1. ASSUME IInv, RateNext
        PROVE  Over /\ Under
    <2>1. PICK a \in Accounts, now \in Times : Message(a, now)
      BY <1>1 DEF RateNext
    <2>2. now \in Nat
      BY RateAssumption
    <2>3. answer'.account = a /\ answer'.now = now
      BY <2>1, MessageChanges
    <2> QED
      BY <1>1, <2>1, <2>2, <2>3, MessageCounts
  <1>2. ASSUME IInv, [RateNext]_rateVars
        PROVE  [Over]_rateVars /\ [Under]_rateVars
    BY <1>1, <1>2
  <1>3. RateSpec => [][RateNext]_rateVars
    BY DEF RateSpec
  <1> QED
    BY <1>2, <1>3, Invariance, PTL DEF RefusedOnlyOverLimit, PassedOnlyUnderLimit
=============================================================================
