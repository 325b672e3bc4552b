------------------------------ MODULE DecisionCache ------------------------------
(***************************************************************************)
(* The decision cache (cache.py) over a policy engine whose rules grow,    *)
(* whose trusted issuers change and whose clock runs, used by several      *)
(* threads; neither the cache nor the engine has a lock.  A call reads the *)
(* policy's digest and looks the key up, asks the engine if it is not      *)
(* there, which reads the clock and the digest again and then its rules,   *)
(* and keeps the decision under the key it computed first.                 *)
(***************************************************************************)
EXTENDS PolicyAnalysis, Sequences

CONSTANTS
    Callers,       \* threads
    RulePool,      \* rules that may be added
    TrustChoices,  \* values of trusted_policy_issuers
    Requests,      \* requests that are asked about
    Capacity,      \* of the cache
    Dated,         \* pairs of a request and the `now` a caller may give with it
    FirstRules,    \* the rules an engine may start with
    MaxChanges,    \* bound on the changes of the policy
    EndOfTime      \* bound on the clock

ASSUME CacheAssumption ==
    /\ Capacity \in Nat \ {0} /\ MaxChanges \in Nat /\ EndOfTime \in Nat
    /\ Dated \subseteq Requests \X (0 .. EndOfTime)
    /\ \A rule \in RulePool :
          {rule.target} \cup rule.actions \cup rule.subjects \cup rule.purposes \subseteq Texts
    /\ FirstRules \subseteq SUBSET RulePool
    /\ \A first \in FirstRules :
          \A rule \in first : ValidRule(rule) /\ \A r \in first : r.id = rule.id => r = rule

VARIABLES
    rules,     \* PolicyEngine._rules
    trusted,   \* PolicyEngine.trusted_policy_issuers
    time,      \* utc_now()
    lru,       \* _cache, the least recently used entry first
    seen,      \* the cache's _policy_digest
    call,      \* each thread's evaluate
    changes,   \* the number of changes of the policy
    raced,     \* history: the policy changed during a call
    mixed      \* history: ... and between evaluate's digest and its rules

cacheVars == <<rules, trusted, time, lru, seen, call, changes, raced, mixed>>

NoCall == [stage |-> "none"]
Undecided == [allowed |-> FALSE]
Present == -1  \* no time is given: the clock's

Policies == [rules : SUBSET RulePool, trusted : TrustChoices]

Key == [policy : Policies, request : {r.id : r \in Requests}]

Call == [stage : {"hit", "ask", "decide", "keep"}, key : Key, request : Requests,
         at : 0 .. EndOfTime \cup {Present}, named : Policies, kept : BOOLEAN,
         answer : {Undecided}]

(* Every variable keeps its shape, the cache never holds more than its     *)
(* capacity, and no key twice.                                             *)
CacheTypeOK ==
    /\ rules \subseteq RulePool /\ trusted \in TrustChoices
    /\ time \in 0 .. EndOfTime
    /\ seen \in Policies
    /\ Len(lru) <= Capacity
    /\ \A i, j \in DOMAIN lru : lru[i].key = lru[j].key => i = j
    /\ \A i \in DOMAIN lru : lru[i].key \in Key /\ lru[i].answer.reason # "future_request"
    /\ DOMAIN call = Callers
    /\ \A c \in Callers : call[c] = NoCall \/ [call[c] EXCEPT !.answer = Undecided] \in Call
    /\ changes \in 0 .. MaxChanges
    /\ raced \in BOOLEAN /\ mixed \in BOOLEAN /\ (mixed => raced)

CacheInit ==
    /\ rules \in FirstRules
    /\ trusted \in TrustChoices
    /\ time = 0
    /\ lru = <<>>
    /\ seen = Snapshot(rules, trusted)
    /\ call = [c \in Callers |-> NoCall]
    /\ changes = 0
    /\ raced = FALSE /\ mixed = FALSE

DigestOfRulesAlone == Snapshot(rules, CHOOSE choice \in TrustChoices : TRUE)

(* engine._policy_digest() *)
PolicyDigest == Snapshot(rules, trusted)

(* What a change of the policy may come between. *)
NoteChange ==
    /\ changes' = changes + 1
    /\ raced' = (raced \/ \E c \in Callers : call[c] # NoCall)
    /\ mixed' = (mixed \/ \E c \in Callers : call[c].stage = "decide")

-----------------------------------------------------------------------------
(* The engine's policy. *)

(* add: a rule with a new id that is valid. *)
AddRule ==
    /\ changes < MaxChanges
    /\ \E rule \in RulePool :
          /\ ValidRule(rule)
          /\ \A r \in rules : r.id # rule.id
          /\ rules' = rules \cup {rule}
    /\ NoteChange
    /\ UNCHANGED <<trusted, time, lru, seen, call>>

ChangeTrust ==
    /\ changes < MaxChanges
    /\ trusted' \in TrustChoices \ {trusted}
    /\ NoteChange
    /\ UNCHANGED <<rules, time, lru, seen, call>>

-----------------------------------------------------------------------------
(* CachedPolicyEngine *)

Find(entries, key) == {i \in DOMAIN entries : entries[i].key = key}

(* A dictionary: a key has at most one entry. *)
Without(entries, key) ==
    IF Find(entries, key) = {} THEN entries
    ELSE LET i == CHOOSE i \in Find(entries, key) : TRUE IN
         [j \in 1 .. Len(entries) - 1 |-> IF j < i THEN entries[j] ELSE entries[j + 1]]

(* A call begins: a new policy empties the cache, and then the key is      *)
(* looked up unless the caller gives the time.                             *)
BeginCall(c) ==
    /\ call[c] = NoCall
    /\ LET kept == IF PolicyDigest = seen THEN lru ELSE <<>> IN
       /\ lru' = kept
       /\ seen' = PolicyDigest
       /\ \E r \in Requests : \E at \in {Present} \cup {t \in 0 .. EndOfTime : <<r, t>> \in Dated} :
             LET key == [policy |-> PolicyDigest, request |-> r.id]
                 hit == at = Present /\ Find(kept, key) # {} IN
             call' = [call EXCEPT ![c] =
                         [stage |-> IF hit THEN "hit" ELSE "ask", key |-> key,
                          request |-> r, at |-> at, named |-> PolicyDigest,
                          kept |-> at = Present, answer |-> Undecided]]
    /\ UNCHANGED <<rules, trusted, time, changes, raced, mixed>>

(* The entry found is moved to the end and returned; if another thread has *)
(* dropped it meanwhile, move_to_end raises.                               *)
ServeHit(c) ==
    /\ call[c].stage = "hit"
    /\ \/ \E i \in Find(lru, call[c].key) :
             lru' = Append(Without(lru, call[c].key), lru[i])
       \/ Find(lru, call[c].key) = {} /\ UNCHANGED lru
    /\ call' = [call EXCEPT ![c] = NoCall]
    /\ UNCHANGED <<rules, trusted, time, seen, changes, raced, mixed>>

(* evaluate: the clock is read, unless a time was given, and the digest of *)
(* the policy that the decision will name ...                              *)
AskEngine(c) ==
    /\ call[c].stage = "ask"
    /\ call' = [call EXCEPT ![c].stage = "decide", ![c].named = PolicyDigest,
                            ![c].at = IF @ = Present THEN time ELSE @]
    /\ UNCHANGED <<rules, trusted, time, lru, seen, changes, raced, mixed>>

(* ... and then the rules are gone through, as they are by now. *)
Decide(c) ==
    /\ call[c].stage = "decide"
    /\ LET answer == EvaluateAt(rules, trusted, call[c].request, call[c].at) IN
       call' = [call EXCEPT ![c].stage = "keep",
                            ![c].answer = [answer EXCEPT !.policy = call[c].named]]
    /\ UNCHANGED <<rules, trusted, time, lru, seen, changes, raced, mixed>>

KeepAnswerAboveCapacity(c) ==
    /\ call[c].stage = "keep"
    /\ LET entry == [key |-> call[c].key, answer |-> call[c].answer]
           longer == Append(Without(lru, entry.key), entry) IN
       lru' = IF ~call[c].kept \/ call[c].answer.reason = "future_request" THEN lru
              ELSE IF Len(longer) > Capacity + 1 THEN Tail(longer) ELSE longer
    /\ call' = [call EXCEPT ![c] = NoCall]
    /\ UNCHANGED <<rules, trusted, time, seen, changes, raced, mixed>>

(* The decision is kept, unless it was for a given time or may change by   *)
(* waiting, and the oldest entries go.                                     *)
KeepAnswer(c) ==
    /\ call[c].stage = "keep"
    /\ LET entry == [key |-> call[c].key, answer |-> call[c].answer]
           longer == Append(Without(lru, entry.key), entry) IN
       lru' = IF ~call[c].kept \/ call[c].answer.reason = "future_request" THEN lru
              ELSE IF Len(longer) > Capacity THEN Tail(longer) ELSE longer
    /\ call' = [call EXCEPT ![c] = NoCall]
    /\ UNCHANGED <<rules, trusted, time, seen, changes, raced, mixed>>

(* clear *)
ClearCache ==
    /\ lru' = <<>>
    /\ seen' = PolicyDigest
    /\ UNCHANGED <<rules, trusted, time, call, changes, raced, mixed>>

CacheTick ==
    /\ time < EndOfTime
    /\ time' = time + 1
    /\ UNCHANGED <<rules, trusted, lru, seen, call, changes, raced, mixed>>

CacheNext ==
    \/ AddRule \/ ChangeTrust \/ ClearCache \/ CacheTick
    \/ \E c \in Callers : BeginCall(c) \/ ServeHit(c) \/ AskEngine(c) \/ Decide(c)
                          \/ KeepAnswer(c)

CacheSpec == CacheInit /\ [][CacheNext]_cacheVars

-----------------------------------------------------------------------------
(* Properties *)

(* Every decision that is about to be returned, and every one that waits   *)
(* in the cache, after whatever changes of rules, of trust and of the      *)
(* clock, is what the engine says at some moment up to now, or at the      *)
(* moment given, under the policy the decision names, unless the policy    *)
(* ever changed between evaluate's digest and its rules; and that is the   *)
(* policy of its key, the one at which the call began, unless it ever      *)
(* changed during a call.                                                  *)
AnswersFollowPolicy ==
    LET Fine(key, request, answer, times) ==
            /\ ~mixed => \E t \in times : answer = EvaluateAt(answer.policy.rules,
                                                   answer.policy.trusted, request, t)
            /\ ~raced => answer.policy = key.policy IN
    /\ \A c \in Callers : call[c].stage = "keep" =>
          Fine(call[c].key, call[c].request, call[c].answer,
               IF call[c].kept THEN 0 .. time ELSE {call[c].at})
    /\ \A i \in DOMAIN lru : \E r \in Requests :
          /\ r.id = lru[i].key.request
          /\ Fine(lru[i].key, r, lru[i].answer, 0 .. time)
          /\ lru[i].key.policy = PolicyDigest /\ ~raced =>
                \E t \in 0 .. time : lru[i].answer = EvaluateAt(rules, trusted, r, t)

Unconstrained(rule) == DOMAIN rule.constraints = {}

Plain(patterns) == \A p \in patterns : p = Star \/ Literal(p)

(* The static checks and the engine agree, for every policy that is built: *)
(* an allow rule said to be shadowed by a deny rule without constraints,   *)
(* or untrusted, never gets a request allowed; an audit that passes leaves *)
(* no request to which an allow and a deny rule both apply, if actions and *)
(* purposes are literals or "*", of two targets one is, and the other has  *)
(* a star if it is a pattern; and a decision on a fresh request is made by *)
(* the rules the explanation names.                                        *)
StaticAnalysisSound ==
    /\ \A allow \in rules, r \in Requests :
          (\/ [check |-> "untrusted_allow", id |-> allow.id] \in StaticFindings(rules, trusted)
           \/ \E deny \in rules : Unconstrained(deny) /\ Shadows(deny, allow)) =>
              LET answer == EvaluateAt(rules, trusted, r, time) IN
              ~(answer.allowed /\ allow.id \in answer.matched)
    /\ \A signer \in {rule.issuer : rule \in rules} :
          AuditPasses(rules, signer, Requests, time) =>
              \A pair \in Conflicting(rules) : \A r \in Requests :
                  \/ \E rule \in {pair[1], pair[2]} : ~Plain(rule.actions \cup rule.purposes)
                  \/ \A rule \in {pair[1], pair[2]} : ~Plain({rule.target})
                  \/ \E rule \in {pair[1], pair[2]} : rule.target \notin Starred
                                                       /\ ~Plain({rule.target})
                  \/ \E rule \in {pair[1], pair[2]} : ~Applies(rule, {signer}, r, time)
    /\ \A r \in Requests :
          Freshness(r, time) = "fresh" =>
              EvaluateAt(rules, trusted, r, time).matched
                  = ExplainedApplicable(rules, trusted, r, time)
=============================================================================
