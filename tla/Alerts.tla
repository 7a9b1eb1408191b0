------------------------------- MODULE Alerts -------------------------------
(***************************************************************************)
(* evaluate_and_emit of src/emitter/pipeline.py with what it calls: the    *)
(* borrow count and score of src/engine/baseline.py, the level and payload *)
(* of src/emitter/payload.py, and the parallel delivery with retries of    *)
(* src/emitter/webhook.py over its aiohttp session.                        *)
(***************************************************************************)
EXTENDS Integers, Sequences, FiniteSets

CONSTANTS Low, High,    \* B0_SCORE_LOW, B0_SCORE_HIGH
          Subscriber,   \* the URLs the registry may hold
          Retries       \* emit's retries: the attempts after the first

(* fragility_score raises ValueError otherwise.                              *)
ASSUME ScoreAssumption == Low \in Int /\ High \in Int /\ Low < High
ASSUME RetriesAssumption == Retries \in Nat

VARIABLES phase,     \* of the call: "idle", "sending", "returned", "cancelled"
          alert,     \* the score, the level and the payload it carries
          post,      \* the request of each subscriber's task, or its outcome
          tries,     \* attempts of each subscriber's task that failed
          received   \* the subscribers whose server took the payload

alertVars == <<phase, alert, post, tries, received>>

-----------------------------------------------------------------------------
BorrowActivity(events) ==
    Cardinality({i \in DOMAIN events : events[i].type = "borrow"})

(* A score is a fraction num / den of hundredths of a point: 10000 is 100.   *)
(* Mutant: the ramp is not cut off at the calibrated maximum.                *)
ScoreUnclamped(rate) ==
    [num |-> IF rate < Low THEN 0 ELSE 10000 * (rate - Low), den |-> High - Low]

FragilityScore(rate) ==
    LET up == IF rate < Low THEN 0 ELSE rate - Low
    IN  [num |-> 10000 * (IF up > High - Low THEN High - Low ELSE up),
         den |-> High - Low]

AlertLevel(score) == IF score.num >= 9000 * score.den THEN "RED"
                     ELSE IF score.num >= 7000 * score.den THEN "YELLOW"
                     ELSE "NONE"

(* round(score, 2): to the nearest hundredth, a tie to the even one.         *)
Rounded(score) ==
    LET q == score.num \div score.den
        twice == 2 * (score.num % score.den)
        up == twice > score.den \/ (twice = score.den /\ q % 2 = 1)
    IN  [num |-> IF up THEN q + 1 ELSE q, den |-> 1]

(* The payload holds the rounded score and is classified by it; the level    *)
(* the caller is told is that of the score as it was.                        *)
FormatAlert(score) ==
    [score |-> score, level |-> AlertLevel(score),
     payload |-> [fragility_score |-> Rounded(score),
                  alert_level |-> AlertLevel(Rounded(score))]]

(* contracts/fragility_alert.schema.json: the band of each level.            *)
ValidAlert(payload) ==
    payload.fragility_score.num \in
        CASE payload.alert_level = "RED" -> 9000 .. 10000
          [] payload.alert_level = "YELLOW" -> 7000 .. 8999
          [] OTHER -> {}

-----------------------------------------------------------------------------
AlertsInit == /\ phase = "idle"
              /\ alert = FormatAlert([num |-> 0, den |-> 1])
              /\ post = << >>
              /\ tries = << >>
              /\ received = {}

(* Below YELLOW the call returns (score, None, None); otherwise one task per *)
(* subscriber posts the payload.  With no subscriber there is none.          *)
Evaluate(events, subscribers) ==
    LET new == FormatAlert(FragilityScore(BorrowActivity(events)))
    IN  /\ phase # "sending"
        /\ alert' = new
        /\ phase' = IF new.level = "NONE" THEN "returned" ELSE "sending"
        /\ post' = [u \in IF new.level = "NONE" THEN {} ELSE subscribers |-> "sent"]
        /\ tries' = [u \in DOMAIN post' |-> 0]
        /\ received' = {}

(* The subscriber's server takes the request; its answer is on the way.      *)
Take(u) == /\ phase = "sending" /\ u \in DOMAIN post /\ post[u] = "sent"
           /\ post' = [post EXCEPT ![u] = "taken"]
           /\ received' = received \cup {u}
           /\ UNCHANGED <<phase, alert, tries>>

Answered(u) == /\ phase = "sending" /\ u \in DOMAIN post /\ post[u] = "taken"
               /\ post' = [post EXCEPT ![u] = "ok"]
               /\ UNCHANGED <<phase, alert, tries, received>>

(* Mutant: a failed attempt is not counted.                                  *)
AttemptFailsUncounted(u) ==
    /\ phase = "sending" /\ u \in DOMAIN post /\ post[u] \in {"sent", "taken"}
    /\ post' = [post EXCEPT ![u] = "sent"]
    /\ UNCHANGED <<phase, alert, tries, received>>

(* A status that is not 2xx, a lost connection, or the timeout of the        *)
(* request, which may fall between the server's taking it and its answer.    *)
AttemptFails(u) ==
    /\ phase = "sending" /\ u \in DOMAIN post /\ post[u] \in {"sent", "taken"}
    /\ tries' = [tries EXCEPT ![u] = @ + 1]
    /\ post' = [post EXCEPT ![u] = IF tries[u] < Retries THEN "sent" ELSE "failed"]
    /\ UNCHANGED <<phase, alert, received>>

(* gather() has every outcome: the session is closed, the results returned.  *)
Finish == /\ phase = "sending"
          /\ \A u \in DOMAIN post : post[u] \in {"ok", "failed"}
          /\ phase' = "returned"
          /\ UNCHANGED <<alert, post, tries, received>>

(* The caller's task is cancelled: gather cancels the deliveries and the     *)
(* finally closes the session.                                               *)
Cancel == /\ phase = "sending"
          /\ phase' = "cancelled"
          /\ UNCHANGED <<alert, post, tries, received>>

Deliver == \/ \E u \in Subscriber : Take(u) \/ Answered(u) \/ AttemptFails(u)
           \/ Finish
           \/ Cancel

(* Every request ends, by its timeout if by nothing else.                    *)
AlertsFairness ==
    /\ \A u \in Subscriber : WF_alertVars(Answered(u) \/ AttemptFails(u))
    /\ WF_alertVars(Finish)

-----------------------------------------------------------------------------
(* What a call returns is true: the payload passes the schema it is checked  *)
(* against (format_alert never raises in the hot path) and carries the level *)
(* the caller is told; a delivery reported done was taken by the subscriber, *)
(* and one reported failed used every attempt (payload.py, webhook.py:25-34).*)
AlertsSettled ==
    /\ alert.level # "NONE" => /\ ValidAlert(alert.payload)
                               /\ alert.payload.alert_level = alert.level
    /\ phase = "returned" =>
          \A u \in DOMAIN post :
              \/ post[u] = "ok" /\ u \in received /\ tries[u] <= Retries
              \/ post[u] = "failed" /\ tries[u] = Retries + 1

(* emit ends whatever the subscribers do (webhook.py:58-82).                 *)
EmissionEnds == phase = "sending" ~> phase # "sending"
=============================================================================
