----------------------------- MODULE RateWindow -----------------------------
(***************************************************************************)
(* The rate limit of RiskEngine::check by itself, at receive times that    *)
(* may go back: whoever calls the exchange gives it the time, and two      *)
(* threads or a stepped clock do not give it in order.  The loop that      *)
(* drops old messages stops at the first recent one, and an old one may be *)
(* behind it.                                                              *)
(***************************************************************************)
EXTENDS RiskEngine, FiniteSets

CONSTANTS
  Accounts,
  Times,      \* the receive times
  Slack,      \* how far a receive time may be behind an earlier one
  MaxPassed   \* bound: the messages of an account that are let through

ASSUME RateAssumption == Times \subseteq Nat /\ Slack \in Nat /\ MaxPassed \in Nat

VARIABLES
  accounts,   \* RiskEngine::accounts_
  passed,     \* the times of the messages let through, by account (history)
  latest,     \* the latest receive time so far
  answer      \* the last message: its account, its time, and whether it was refused

rateVars == <<accounts, passed, latest, answer>>

RateInit ==
  /\ accounts = [a \in Accounts |-> NewAccount]
  /\ passed = [a \in Accounts |-> <<>>]
  /\ latest = 0
  /\ answer \in [account : Accounts, now : {0}, refused : {FALSE}]

(* The rate limit comes before all that depends on the command. *)
CancelOf(a) == [account_id |-> a, type |-> "Cancel", price |-> 0, qty |-> 0]

Message(a, now) ==
  LET call == Check(accounts, CancelOf(a), TRUE, now)
      refused == call.reason = "RiskRateLimit"
  IN  /\ now + Slack >= latest
      /\ Len(passed[a]) < MaxPassed
      /\ accounts' = call.accounts
      /\ passed' = IF refused THEN passed ELSE [passed EXCEPT ![a] = Append(@, now)]
      /\ latest' = IF now > latest THEN now ELSE latest
      /\ answer' = [account |-> a, now |-> now, refused |-> refused]

RateNext == \E a \in Accounts, now \in Times : Message(a, now)

RateSpec == RateInit /\ [][RateNext]_rateVars

-----------------------------------------------------------------------------
(* The messages of account a that were let through with time t or later. *)
PassedSince(a, t) == {k \in DOMAIN passed[a] : passed[a][k] >= t}

(***************************************************************************)
(* A message is refused only if as many messages as the limit allows were  *)
(* let through in the rate window before it, made longer by what times go  *)
(* back: a clock that was ahead does not shut an account out for ever.     *)
(***************************************************************************)
RefusedOnlyOverLimit ==
  [][answer'.refused =>
       Cardinality(PassedSince(answer'.account, answer'.now - rate_window_ns - Slack))
         >= max_msgs_per_window]_rateVars

(***************************************************************************)
(* A message is let through only if fewer were in the rate window before   *)
(* it, made shorter by what times go back: messages dropped too early, at  *)
(* a time that was ahead, are all older than that.                         *)
(***************************************************************************)
PassedOnlyUnderLimit ==
  [][~ answer'.refused =>
       Cardinality(PassedSince(answer'.account, answer'.now - rate_window_ns + Slack))
         < max_msgs_per_window]_rateVars

(***************************************************************************)
(* recent_msgs is the end of what was let through, and what was dropped    *)
(* was older than the window at some time so far.                          *)
(***************************************************************************)
QueueIsTail ==
  \A a \in Accounts :
    LET recent == accounts[a].recent_msgs
        dropped == Len(passed[a]) - Len(recent)
    IN  /\ dropped >= 0
        /\ \A k \in DOMAIN recent : recent[k] = passed[a][dropped + k]
        /\ \A k \in 1 .. dropped : latest - passed[a][k] > rate_window_ns
=============================================================================
