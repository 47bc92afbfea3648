--------------------------- MODULE ExploitScores ---------------------------
(***************************************************************************)
(* The exploit scorer of vuln-intel (llm.py): callers that share one       *)
(* scorer, its budget of tokens per tenant and in all, the retries of a    *)
(* model that does not answer, and the score that a caller gets.           *)
(*                                                                         *)
(* Between two steps of a call another may take the lock of the budget.    *)
(* Scores are hundredths.                                                  *)
(***************************************************************************)
EXTENDS Integers, FiniteSetsExt

CONSTANTS
  Callers,
  TenantOf,
  Estimates,      \* est_tokens of a prompt
  Usages,         \* total_tokens that the model reports
  TenantBudget,   \* per_tenant_budget_tokens
  GlobalBudget,   \* global_budget_tokens
  MaxRetries,
  Likelihoods,    \* exploit_likelihood of a response
  Epss,           \* scores that a caller may know, NoEpss for none
  NoEpss,
  BaseScore,      \* the CVSS base score, in tenths
  MaxCalls        \* bound on the calls

VARIABLES
  perTenant, globalUsed,   \* the budget
  pc,         \* what a caller is at: "idle", "chatting" or "waiting"
  attempt,
  estimate,   \* tokens of its prompt
  epss,
  answer,     \* the score it got last, and from where
  audit,      \* the status of its last call
  review,     \* was that call routed to a human
  calls,
  spent       \* history: what the calls that are over have cost, per tenant

vars == <<perTenant, globalUsed, pc, attempt, estimate, epss, answer, audit,
          review, calls, spent>>
budget == <<perTenant, globalUsed>>

Tenants == {TenantOf[c] : c \in Callers}

Init ==
  /\ perTenant = [t \in Tenants |-> 0] /\ globalUsed = 0
  /\ pc = [c \in Callers |-> "idle"] /\ attempt = [c \in Callers |-> 0]
  /\ estimate = [c \in Callers |-> 0] /\ epss = [c \in Callers |-> NoEpss]
  /\ answer = [c \in Callers |-> [score |-> 0, source |-> "none"]]
  /\ audit = [c \in Callers |-> "none"] /\ review = [c \in Callers |-> FALSE]
  /\ calls = 0 /\ spent = [t \in Tenants |-> 0]

-----------------------------------------------------------------------------
(***************************************************************************)
(* _BudgetTracker.                                                         *)
(***************************************************************************)
Fits(t, tokens) ==
  /\ globalUsed + tokens <= GlobalBudget
  /\ perTenant[t] + tokens <= TenantBudget

\* try_consume() succeeds.
Consume(t, tokens) ==
  /\ Fits(t, tokens)
  /\ perTenant' = [perTenant EXCEPT ![t] = @ + tokens]
  /\ globalUsed' = globalUsed + tokens

Rest(used, tokens) == IF used > tokens THEN used - tokens ELSE 0

Refund(t, tokens) ==
  /\ perTenant' = [perTenant EXCEPT ![t] = Rest(@, tokens)]
  /\ globalUsed' = Rest(globalUsed, tokens)

-----------------------------------------------------------------------------
(***************************************************************************)
(* score().                                                                *)
(***************************************************************************)

\* fallback_score(): that of EPSS, or none.
Fallback(c, known) == [score |-> IF known = NoEpss THEN 0 ELSE known, source |-> "epss_fallback"]

\* _clamp_band(): as far from EPSS as 0.3 times the base score allows.
Width == (3 * BaseScore) \div 10
OutOfBand(known, score) ==
  known # NoEpss /\ (score < known - Width \/ score > known + Width)

Answers(c, result, status, outside, cost) ==
  /\ answer' = [answer EXCEPT ![c] = result]
  /\ audit' = [audit EXCEPT ![c] = status]
  /\ review' = [review EXCEPT ![c] = outside]
  /\ spent' = [spent EXCEPT ![TenantOf[c]] = @ + cost]
  /\ pc' = [pc EXCEPT ![c] = "idle"]
  /\ attempt' = [attempt EXCEPT ![c] = 0] /\ estimate' = [estimate EXCEPT ![c] = 0]

Unchanged(c) == UNCHANGED <<answer, audit, review, spent>>

\* The call begins: the tokens of the prompt are reserved, or it falls back.
Call(c, tokens, known) ==
  /\ pc[c] = "idle" /\ calls < MaxCalls /\ calls' = calls + 1
  /\ epss' = [epss EXCEPT ![c] = known]
  /\ \/ /\ Consume(TenantOf[c], tokens)
        /\ pc' = [pc EXCEPT ![c] = "chatting"]
        /\ attempt' = [attempt EXCEPT ![c] = 0]
        /\ estimate' = [estimate EXCEPT ![c] = tokens]
        /\ Unchanged(c)
     \/ /\ ~Fits(TenantOf[c], tokens)
        /\ Answers(c, Fallback(c, known), "budget_exceeded", FALSE, 0)
        /\ UNCHANGED budget

\* chat() raises: the reservation is given back, and another attempt waits.
Unreachable(c) ==
  /\ pc[c] = "chatting"
  /\ Refund(TenantOf[c], estimate[c])
  /\ IF attempt[c] < MaxRetries
     THEN /\ pc' = [pc EXCEPT ![c] = "waiting"]
          /\ UNCHANGED <<attempt, estimate>> /\ Unchanged(c)
     ELSE Answers(c, Fallback(c, epss[c]), "transport_error", FALSE, 0)
  /\ UNCHANGED <<epss, calls>>

\* It reserves again, or gives up: others may have used the budget.
Retry(c) ==
  /\ pc[c] = "waiting"
  /\ \/ /\ Consume(TenantOf[c], estimate[c])
        /\ pc' = [pc EXCEPT ![c] = "chatting"]
        /\ attempt' = [attempt EXCEPT ![c] = @ + 1]
        /\ UNCHANGED estimate /\ Unchanged(c)
     \/ /\ ~Fits(TenantOf[c], estimate[c])
        /\ Answers(c, Fallback(c, epss[c]), "transport_error", FALSE, 0)
        /\ UNCHANGED budget
  /\ UNCHANGED <<epss, calls>>

\* The response is not what the schema asks for, or names another CVE: the
\* whole reservation is kept.
Malformed(c) ==
  /\ pc[c] = "chatting"
  /\ Answers(c, Fallback(c, epss[c]), "schema_violation", FALSE, estimate[c])
  /\ UNCHANGED <<budget, epss, calls>>

\* The model answers: what was reserved beyond its usage is given back.  A
\* score outside the band is routed to a human, and returned as it is.
Scored(c, usage, score) ==
  LET actual == IF usage > 0 THEN usage ELSE 1
      over   == estimate[c] - actual
  IN  /\ pc[c] = "chatting"
      /\ IF over > 0 THEN Refund(TenantOf[c], over) ELSE UNCHANGED budget
      /\ Answers(c, [score |-> score, source |-> "llm"], "ok", OutOfBand(epss[c], score),
                 IF over > 0 THEN actual ELSE estimate[c])
      /\ UNCHANGED <<epss, calls>>

Next ==
  \E c \in Callers :
    \/ \E tokens \in Estimates, known \in Epss : Call(c, tokens, known)
    \/ Unreachable(c) \/ Retry(c) \/ Malformed(c)
    \/ \E usage \in Usages, score \in Likelihoods : Scored(c, usage, score)

Spec == Init /\ [][Next]_vars

-----------------------------------------------------------------------------
TypeOK ==
  /\ perTenant \in [Tenants -> Nat] /\ globalUsed \in Nat
  /\ pc \in [Callers -> {"idle", "chatting", "waiting"}]
  /\ attempt \in [Callers -> 0..MaxRetries]
  /\ estimate \in [Callers -> Estimates \union {0}] /\ epss \in [Callers -> Epss]
  /\ \A c \in Callers : answer[c].source \in {"none", "llm", "epss_fallback"}
  /\ audit \in [Callers -> {"none", "ok", "budget_exceeded", "transport_error", "schema_violation"}]
  /\ review \in [Callers -> BOOLEAN] /\ calls \in 0..MaxCalls
  /\ spent \in [Tenants -> Nat]

Reserved(t) ==
  MapThenSumSet(LAMBDA c : estimate[c],
                {c \in Callers : TenantOf[c] = t /\ pc[c] = "chatting"})

\* The budget of a tenant is what its finished calls have cost and what the
\* calls under way have reserved, whatever was refunded and reserved again;
\* the global one is the sum; neither is ever exceeded (llm.py:175-203,
\* 494-611).
BudgetExact ==
  /\ \A t \in Tenants :
       perTenant[t] = spent[t] + Reserved(t) /\ perTenant[t] <= TenantBudget
  /\ globalUsed = MapThenSumSet(LAMBDA t : perTenant[t], Tenants)
  /\ globalUsed <= GlobalBudget

\* A caller that did not get a score of the model got that of EPSS, and a
\* score of the model that strays from EPSS is marked for review (llm.py:456-
\* 466, 612-628).
ScoresHonest ==
  \A c \in Callers : pc[c] = "idle" /\ audit[c] # "none" =>
    IF audit[c] = "ok"
    THEN /\ answer[c].source = "llm"
         /\ epss[c] # NoEpss /\ ~review[c] => answer[c].score \in (epss[c] - Width)..(epss[c] + Width)
    ELSE answer[c] = Fallback(c, epss[c]) /\ ~review[c]

ScoringSound == BudgetExact /\ ScoresHonest
=============================================================================
