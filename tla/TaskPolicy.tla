----------------------------- MODULE TaskPolicy -----------------------------
(***************************************************************************)
(* The pure policies of domain/tasks.py and                                *)
(* application/services/retry_policy.py: when a task may be leased, what   *)
(* becomes of an attempt that failed or whose lease expired, how a file    *)
(* effect is recovered, what a capability may do, and how often an error   *)
(* is retried.  No executor in the repository calls them yet, so the       *)
(* module has no behaviour to check: it proves what every executor that    *)
(* follows the decisions can rely on.                                      *)
(*                                                                         *)
(* Times are milliseconds, the jitter fraction of a backoff is in          *)
(* thousandths, and an absent time, delay or hash is None.                 *)
(***************************************************************************)
EXTENDS Integers, Sequences, TLAPS

None == CHOOSE none : none \notin Int

\* An absent time is not a time.
LEMMA NoneIsNoTime == None \notin Int
  BY NoSetContainsEverything DEF None

-----------------------------------------------------------------------------
(* Attempts and leases *)

\* _attempt_counts_valid, with least = 0 where a task may not have started.
AttemptCountsValid(attempt, max, least) == max \in 1..10 /\ attempt \in least..max

EligibleForLease(status, nextAttemptAt, attempt, max, now) ==
    /\ AttemptCountsValid(attempt, max, 0)
    /\ status = "pending"
    /\ nextAttemptAt = None \/ nextAttemptAt <= now
    /\ attempt < max

RetryAt(time) == [task |-> "pending", attempt |-> "retry_scheduled", retryAt |-> time]
GiveUp == [task |-> "failed", attempt |-> "failed", retryAt |-> None]

ExpiredLeaseDecision(attempt, max, now) == IF attempt < max THEN RetryAt(now) ELSE GiveUp

BaseSeconds(attempt) == CASE attempt = 1 -> 5 [] attempt = 2 -> 30 [] OTHER -> 300

\* The base delay and up to a fifth of it.
Wait(attempt, jitter) == BaseSeconds(attempt) * (1000 + jitter)

AttemptOutcome(attempt, max, retryable, now, jitter) ==
    IF retryable /\ attempt < max THEN RetryAt(now + Wait(attempt, jitter)) ELSE GiveUp

Decisions(attempt, max, now) ==
    {ExpiredLeaseDecision(attempt, max, now)}
        \cup {AttemptOutcome(attempt, max, retryable, now, jitter) :
                  retryable \in BOOLEAN, jitter \in 0..200}

(* A decision and the next lease agree: after an attempt that ended at now, the
   task can be leased again exactly when the decision scheduled a retry and
   its time has come, and never at an earlier time than now.  A task is not
   left pending with its attempts used, and a failed one is not leased again. *)
THEOREM DecisionsMeetLeases ==
    ASSUME NEW max, NEW attempt, AttemptCountsValid(attempt, max, 1),
           NEW now \in Int, NEW d \in Decisions(attempt, max, now), NEW later \in Int
    PROVE  EligibleForLease(d.task, d.retryAt, attempt, max, later)
               <=> d.attempt = "retry_scheduled" /\ d.retryAt <= later
<1>1. CASE d = GiveUp
  BY <1>1 DEF GiveUp, EligibleForLease
<1>2. CASE d # GiveUp
  <2>1. PICK time \in Int : d = RetryAt(time) /\ attempt < max
    <3>1. CASE d = ExpiredLeaseDecision(attempt, max, now)
      BY <1>2, <3>1 DEF ExpiredLeaseDecision
    <3>2. ASSUME NEW retryable \in BOOLEAN, NEW jitter \in 0..200,
                 d = AttemptOutcome(attempt, max, retryable, now, jitter)
          PROVE  \E time \in Int : d = RetryAt(time) /\ attempt < max
      <4>1. BaseSeconds(attempt) \in Int
        BY DEF BaseSeconds
      <4>2. now + Wait(attempt, jitter) \in Int
        BY <4>1 DEF Wait
      <4> QED
        BY <1>2, <3>2, <4>2 DEF AttemptOutcome
    <3> QED
      BY <3>1, <3>2 DEF Decisions
  <2>2. AttemptCountsValid(attempt, max, 0)
    BY DEF AttemptCountsValid
  <2>3. d.task = "pending" /\ d.attempt = "retry_scheduled" /\ d.retryAt = time
    BY <2>1 DEF RetryAt
  <2>4. time # None
    BY <2>1, NoneIsNoTime
  <2> QED
    BY <2>1, <2>2, <2>3, <2>4 DEF EligibleForLease
<1> QED
  BY <1>1, <1>2

(* Retries end: the last attempt that max_attempts allows is never followed by
   another one, whatever failed. *)
THEOREM LastAttemptIsFinal ==
    ASSUME NEW max \in 1..10, NEW now \in Int, NEW d \in Decisions(max, max, now)
    PROVE  d = GiveUp
  BY DEF Decisions, ExpiredLeaseDecision, AttemptOutcome

\* The wait of a retry, with the base of its attempt worked out.
LEMMA WaitOf ==
    ASSUME NEW a \in 1..10, NEW j \in 0..200
    PROVE  /\ Wait(a, j) \in Int
           /\ a = 1 => Wait(a, j) = 5 * (1000 + j)
           /\ a = 2 => Wait(a, j) = 30 * (1000 + j)
           /\ a >= 3 => Wait(a, j) = 300 * (1000 + j)
<1>1. CASE a = 1
  <2>1. BaseSeconds(a) = 5
    BY <1>1 DEF BaseSeconds
  <2> QED
    BY <1>1, <2>1 DEF Wait
<1>2. CASE a = 2
  <2>1. BaseSeconds(a) = 30
    BY <1>2 DEF BaseSeconds
  <2> QED
    BY <1>2, <2>1 DEF Wait
<1>3. CASE a >= 3
  <2>1. BaseSeconds(a) = 300
    BY <1>3 DEF BaseSeconds
  <2> QED
    BY <1>3, <2>1 DEF Wait
<1> QED
  BY <1>1, <1>2, <1>3

(* Backoff: every failed attempt that is retried (one before the last of at most
   ten) waits.  After the first and the second attempt the wait is shorter than
   after any later one, whatever the jitter; from the third attempt on the base
   no longer grows, so the jitter alone decides: a later attempt may be followed
   by up to a minute less than an earlier one (360 s, then 300 s), never more. *)
THEOREM BackoffGrowsUpToTheThird ==
    ASSUME NEW a \in 1..9, NEW b \in 1..9, a < b, NEW j \in 0..200, NEW k \in 0..200
    PROVE  /\ 0 < Wait(a, j)
           /\ a <= 2 => Wait(a, j) < Wait(b, k)
           /\ a >= 3 => /\ Wait(b, k) < Wait(a, j) <=> k < j
                        /\ Wait(a, j) - Wait(b, k) <= 60000
<1>1. /\ Wait(a, j) \in Int
      /\ a = 1 => Wait(a, j) = 5 * (1000 + j)
      /\ a = 2 => Wait(a, j) = 30 * (1000 + j)
      /\ a >= 3 => Wait(a, j) = 300 * (1000 + j)
  BY WaitOf
<1>2. /\ Wait(b, k) \in Int
      /\ b = 2 => Wait(b, k) = 30 * (1000 + k)
      /\ b >= 3 => Wait(b, k) = 300 * (1000 + k)
  BY WaitOf
<1> QED
  BY <1>1, <1>2

-----------------------------------------------------------------------------
(* The effect of a task on a file, recovered after a crash *)

(* What is observed: whether the effect is recorded as committed, and the
   hashes of the staging and the final file, None when the file is missing. *)
FileEffectRecovery(e, expected) ==
    CASE e.committed -> "RETURN_COMMITTED"
      [] ~e.committed /\ e.final = expected -> "COMMIT_FINAL"
      [] ~e.committed /\ e.final # expected /\ e.staging = expected -> "PROMOTE_STAGING"
      [] OTHER -> "RETRYABLE_ERROR"

\* What an executor makes of the decision; the repository has none yet.
Follow(e, expected) ==
    LET action == FileEffectRecovery(e, expected)
    IN  [committed |-> e.committed \/ action = "COMMIT_FINAL",
         final |-> IF action = "PROMOTE_STAGING" THEN e.staging ELSE e.final,
         staging |-> IF action = "PROMOTE_STAGING" THEN None ELSE e.staging]

Effects(Hash) == [committed : BOOLEAN, final : Hash \cup {None}, staging : Hash \cup {None}]

(* Recovery is complete after two steps and may be interrupted after each: an
   effect that is not answered by a retryable error is committed, and what is
   committed has the expected content if it had it when recovery began. *)
THEOREM FileEffectRecovers ==
    ASSUME NEW Hash, None \notin Hash, NEW expected \in Hash, NEW e \in Effects(Hash),
           e.committed => e.final = expected
    PROVE  LET twice == Follow(Follow(e, expected), expected)
           IN  IF FileEffectRecovery(e, expected) = "RETRYABLE_ERROR"
               THEN ~e.committed /\ Follow(e, expected) = e
               ELSE twice.committed /\ twice.final = expected
<1>1. e = [committed |-> e.committed, final |-> e.final, staging |-> e.staging]
  BY DEF Effects
<1>2. CASE FileEffectRecovery(e, expected) = "RETRYABLE_ERROR"
  <2>1. ~e.committed
    BY <1>2 DEF FileEffectRecovery
  <2>2. e.committed \in BOOLEAN
    BY DEF Effects
  <2>3. Follow(e, expected) =
            [committed |-> e.committed, final |-> e.final, staging |-> e.staging]
    BY <1>2, <2>1, <2>2 DEF Follow
  <2> QED
    BY <1>1, <1>2, <2>1, <2>3
<1>3. CASE FileEffectRecovery(e, expected) = "RETURN_COMMITTED"
  BY <1>1, <1>3 DEF FileEffectRecovery, Follow
<1>4. CASE FileEffectRecovery(e, expected) = "COMMIT_FINAL"
  BY <1>1, <1>4 DEF FileEffectRecovery, Follow
<1>5. CASE FileEffectRecovery(e, expected) = "PROMOTE_STAGING"
  <2>1. Follow(e, expected) = [committed |-> FALSE, final |-> expected, staging |-> None]
    BY <1>1, <1>5 DEF FileEffectRecovery, Follow, Effects
  <2> QED
    BY <1>5, <2>1 DEF FileEffectRecovery, Follow
<1> QED
  BY <1>2, <1>3, <1>4, <1>5 DEF FileEffectRecovery

-----------------------------------------------------------------------------
(* Permissions *)

AllowedActions ==
    [document_parser |-> {"source.read_declared", "derived.write_selected_data_directory"},
     knowledge |-> {"idea_candidate.create", "relation_candidate.create"},
     context_recovery |-> {"aggregate.read_approved", "candidate_snapshot.write",
                           "evidence.write"},
     submission |-> {"status_transition.propose", "status_transition.apply"},
     export |-> {"entities.read_selected", "export.write_user_approved_target"},
     grant |-> {"recommendation.create"}]

WriteActions ==
    {"derived.write_selected_data_directory", "idea_candidate.create",
     "relation_candidate.create", "candidate_snapshot.write", "evidence.write",
     "status_transition.apply", "export.write_user_approved_target"}

\* The flag of the approved scope an action needs, for those that need one.
ScopeOf(action) ==
    CASE action = "source.read_declared" -> {"source_declared"}
      [] action = "derived.write_selected_data_directory" -> {"selected_data_directory"}
      [] action \in {"aggregate.read_approved", "candidate_snapshot.write", "evidence.write"} ->
             {"aggregate_approved"}
      [] action = "entities.read_selected" -> {"entities_selected"}
      [] action = "export.write_user_approved_target" -> {"export_target_approved"}
      [] OTHER -> {}

NetworkConsents == {"provider_selected", "user_consented", "data_range_disclosed"}

\* permission_for; given is the set of the flags that are set.
Allowed(capability, action, given, dryRun, localOnly) ==
    IF action = "network.access"
    THEN ~localOnly /\ NetworkConsents \subseteq given
    ELSE /\ ~(dryRun /\ action \in WriteActions)
         /\ action \in AllowedActions[capability]
         /\ ScopeOf(action) \subseteq given
         /\ capability = "submission" => {"user_requested", "audited"} \subseteq given
         /\ ~localOnly => NetworkConsents \subseteq given

(* Withdrawing consent never opens anything: what is allowed with fewer flags
   is allowed with more, and what a dry run may do a real run may do. *)
THEOREM ConsentIsMonotone ==
    ASSUME NEW capability, NEW action, NEW given, NEW more, given \subseteq more,
           NEW dryRun \in BOOLEAN, NEW localOnly \in BOOLEAN,
           Allowed(capability, action, given, dryRun, localOnly)
    PROVE  Allowed(capability, action, more, FALSE, localOnly)
  BY DEF Allowed

(* Nothing leaves the machine without every network consent, whatever the
   capability: this covers the explicit request and the remote capability. *)
THEOREM NetworkNeedsConsent ==
    ASSUME NEW capability, NEW action, NEW given, NEW dryRun \in BOOLEAN,
           Allowed(capability, action, given, dryRun, FALSE)
    PROVE  NetworkConsents \subseteq given
  BY DEF Allowed

(* Every write an allowed action makes has its own approval: outside a dry run
   and inside the scope the user named, except the candidates a user reviews. *)
THEOREM WritesAreApproved ==
    ASSUME NEW capability \in DOMAIN AllowedActions, NEW action \in WriteActions, NEW given,
           NEW dryRun \in BOOLEAN, NEW localOnly \in BOOLEAN,
           Allowed(capability, action, given, dryRun, localOnly)
    PROVE  /\ ~dryRun
           /\ \/ capability = "knowledge"
              \/ capability = "submission" /\ {"user_requested", "audited"} \subseteq given
              \/ ScopeOf(action) # {} /\ ScopeOf(action) \subseteq given
<1>1. action # "network.access"
  BY DEF WriteActions
<1>2. ~dryRun /\ action \in AllowedActions[capability] /\ ScopeOf(action) \subseteq given
  BY <1>1 DEF Allowed
<1>3. capability = "submission" => {"user_requested", "audited"} \subseteq given
  BY <1>1 DEF Allowed
<1>4. capability \in {"document_parser", "knowledge", "context_recovery", "submission",
                      "export", "grant"}
  BY DEF AllowedActions
<1>5. CASE capability \in {"knowledge", "submission"}
  BY <1>2, <1>3, <1>5
<1>6. CASE capability = "document_parser"
  <2>1. action = "derived.write_selected_data_directory"
    BY <1>2, <1>6 DEF AllowedActions, WriteActions
  <2> QED
    BY <1>2, <2>1 DEF ScopeOf
<1>7. CASE capability = "context_recovery"
  <2>1. action \in {"candidate_snapshot.write", "evidence.write"}
    BY <1>2, <1>7 DEF AllowedActions, WriteActions
  <2> QED
    BY <1>2, <2>1 DEF ScopeOf
<1>8. CASE capability = "export"
  <2>1. action = "export.write_user_approved_target"
    BY <1>2, <1>8 DEF AllowedActions, WriteActions
  <2> QED
    BY <1>2, <2>1 DEF ScopeOf
<1>9. CASE capability = "grant"
  BY <1>2, <1>9 DEF AllowedActions, WriteActions
<1> QED
  BY <1>4, <1>5, <1>6, <1>7, <1>8, <1>9

-----------------------------------------------------------------------------
(* Retry policies of error codes *)

\* The retryable policies are those of more than one attempt: no flag is kept.
Policy(max, backoff) == [maximumAttempts |-> max, backoff |-> backoff]

Final == Policy(1, << >>)

RetriedCodes == {"SOURCE_BUSY", "SOURCE_UNSTABLE", "MONITOR_ROOT_DISCONNECTED", "SQLITE_BUSY"}

FinalCodes ==
    {"PDF_PASSWORD_REQUIRED", "COMMAND_PERMISSION_DENIED", "UNSUPPORTED_CONFIGURATION",
     "SOURCE_PATH_UNSAFE", "SOURCE_HASH_MISMATCH", "PDF_CORRUPT", "PDF_TRUNCATED",
     "COMMAND_IDEMPOTENCY_CONFLICT", "COMMAND_VALIDATION_FAILED", "CONCURRENT_MODIFICATION",
     "RECOVERY_POINT_FAILED", "UNDO_NOT_AVAILABLE", "UNDO_ALREADY_APPLIED", "UNDO_CONFLICT",
     "UNDO_DEPENDENCY_CONFLICT", "UNDO_CONSTRAINT_VIOLATION", "DELETE_DEPENDENCY_CONFLICT",
     "INVALID_WORKFLOW_TRANSITION", "INVALID_VERSION_ASSIGNMENT",
     "VERSION_RETRACTION_DEPENDENCY_CONFLICT", "RELATION_DUPLICATE", "RELATION_CYCLE",
     "RELATION_ENDPOINT_INVALID", "CANDIDATE_STATE_CHANGED"}

\* RETRY_POLICY_REGISTRY.
RetryPolicy ==
    [code \in RetriedCodes \cup FinalCodes |->
        CASE code = "SOURCE_BUSY" -> Policy(3, <<250, 1000>>)
          [] code \in {"SOURCE_UNSTABLE", "MONITOR_ROOT_DISCONNECTED"} ->
                 Policy(5, <<2000, 5000, 15000, 30000>>)
          [] code = "SQLITE_BUSY" -> Policy(3, <<50, 200>>)
          [] code \in FinalCodes -> Final]

Raises(error) == [raises |-> error]

RetryDecision(code, attempt) ==
    IF code \notin DOMAIN RetryPolicy THEN Raises("UnknownErrorCode")
    ELSE IF attempt < 1 THEN Raises("ValueError")
    ELSE LET policy == RetryPolicy[code]
             last == Len(policy.backoff)
             again == attempt < policy.maximumAttempts
         IN  [retryable |-> again,
              delay |-> IF again THEN policy.backoff[IF attempt < last THEN attempt ELSE last]
                                 ELSE None]

(* Every retry of a registered code has a delay of its own in the registry: the
   index never runs past the list, the clamp to its last element is never used,
   and an error is retried as often as its list is long: the final codes never.
   A code that is not registered is answered by an exception, at any attempt. *)
THEOREM RetriesUseTheirDelay ==
    ASSUME NEW code, NEW attempt \in Nat \ {0}
    PROVE  LET backoff == RetryPolicy[code].backoff
               d == RetryDecision(code, attempt)
           IN  IF code \in RetriedCodes \cup FinalCodes
               THEN /\ d.retryable <=> attempt \in 1..Len(backoff)
                    /\ code \in FinalCodes => ~d.retryable
                    /\ d.delay = IF d.retryable THEN backoff[attempt] ELSE None
               ELSE d = Raises("UnknownErrorCode")
<1>1. CASE code \notin RetriedCodes \cup FinalCodes
  BY <1>1 DEF RetryDecision, RetryPolicy
<1>2. CASE code \in RetriedCodes \cup FinalCodes
  <2> DEFINE policy == RetryPolicy[code]
             backoff == policy.backoff
  <2>1. /\ policy \in {Policy(3, <<250, 1000>>), Policy(5, <<2000, 5000, 15000, 30000>>),
                       Policy(3, <<50, 200>>), Final}
        /\ code \in FinalCodes => policy = Final
    BY <1>2 DEF RetryPolicy, RetriedCodes, FinalCodes
  <2>2. policy.maximumAttempts = Len(backoff) + 1 /\ Len(backoff) \in Nat
    <3>1. CASE policy = Policy(3, <<250, 1000>>)
      <4>1. policy.maximumAttempts = 3 /\ backoff = <<250, 1000>>
        BY <3>1 DEF Policy
      <4>2. Len(<<250, 1000>>) = 2
        OBVIOUS
      <4> QED
        BY <4>1, <4>2
    <3>2. CASE policy = Policy(3, <<50, 200>>)
      <4>1. policy.maximumAttempts = 3 /\ backoff = <<50, 200>>
        BY <3>2 DEF Policy
      <4>2. Len(<<50, 200>>) = 2
        OBVIOUS
      <4> QED
        BY <4>1, <4>2
    <3>3. CASE policy = Policy(5, <<2000, 5000, 15000, 30000>>)
      <4>1. policy.maximumAttempts = 5 /\ backoff = <<2000, 5000, 15000, 30000>>
        BY <3>3 DEF Policy
      <4>2. Len(<<2000, 5000, 15000, 30000>>) = 4
        OBVIOUS
      <4> QED
        BY <4>1, <4>2
    <3>4. CASE policy = Final
      <4>1. policy.maximumAttempts = 1 /\ backoff = << >>
        BY <3>4 DEF Policy, Final
      <4>2. Len(<< >>) = 0
        OBVIOUS
      <4> QED
        BY <4>1, <4>2
    <3> QED
      BY <2>1, <3>1, <3>2, <3>3, <3>4
  <2>3. RetryDecision(code, attempt) =
            [retryable |-> attempt < policy.maximumAttempts,
             delay |-> IF attempt < policy.maximumAttempts
                       THEN backoff[IF attempt < Len(backoff) THEN attempt ELSE Len(backoff)]
                       ELSE None]
    <3>1. code \in DOMAIN RetryPolicy /\ ~(attempt < 1)
      BY <1>2 DEF RetryPolicy
    <3> QED
      BY <3>1 DEF RetryDecision
  <2> DEFINE d == RetryDecision(code, attempt)
  <2>4. /\ d.retryable <=> attempt < policy.maximumAttempts
        /\ d.delay = IF d.retryable
                     THEN backoff[IF attempt < Len(backoff) THEN attempt ELSE Len(backoff)]
                     ELSE None
    <3> DEFINE again == attempt < policy.maximumAttempts
               delay == backoff[IF attempt < Len(backoff) THEN attempt ELSE Len(backoff)]
    <3>1. d = [retryable |-> again, delay |-> IF again THEN delay ELSE None]
      BY <2>3
    <3>2. again \in BOOLEAN
      OBVIOUS
    <3> HIDE DEF d, again, delay
    <3>3. d.retryable = again /\ d.delay = IF again THEN delay ELSE None
      BY <3>1
    <3>4. d.delay = IF d.retryable THEN delay ELSE None
      BY <3>2, <3>3
    <3>5. d.retryable <=> again
      BY <3>3
    <3> QED
      BY <3>4, <3>5 DEF delay, again
  <2>5. d.retryable <=> attempt \in 1..Len(backoff)
    BY <2>2, <2>4
  <2>6. code \in FinalCodes => ~d.retryable
    BY <2>1, <2>4 DEF Final, Policy
  <2>7. d.retryable => (IF attempt < Len(backoff) THEN attempt ELSE Len(backoff)) = attempt
    BY <2>2, <2>5
  <2> HIDE DEF d, backoff, policy
  <2>8. d.delay = IF d.retryable THEN backoff[attempt] ELSE None
    BY <2>4, <2>7
  <2> QED
    BY <1>2, <2>5, <2>6, <2>8 DEF d, backoff, policy
<1> QED
  BY <1>1, <1>2
=============================================================================
