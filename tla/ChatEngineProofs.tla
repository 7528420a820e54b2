---------------------------- MODULE ChatEngineProofs ----------------------------
(***************************************************************************)
(* What holds of the chat engine for any callers, arguments, responses,    *)
(* tools, budgets and number of attempts and iterations: types, the bound  *)
(* on requests, billing, valid answers, and that it implements the gate.   *)
(***************************************************************************)
EXTENDS ChatEngine, SequenceTheorems, TLAPS

-----------------------------------------------------------------------------
(* Constants and prices *)

LEMMA ConstantFacts ==
    /\ MaxAttempts \in Nat \ {0} /\ MaxIterations \in Nat \ {0}
    /\ TokensPerCallCap \in Nat /\ UsdDailyCap \in Nat /\ MaxTokens \in Nat /\ MaxU32 \in Nat
    /\ LastDay \in Nat \ {0} /\ Args # {}
<1>1. ResolvedMaxIterations(ChatSpec) = MaxIterations
  BY DEF ResolvedMaxIterations, ChatSpec, ChatDefaults
<1>2. ChatSpec.max_attempts = MaxAttempts
  BY DEF ChatSpec, ChatDefaults
<1> QED
  BY <1>1, <1>2, SpecValid DEF ValidChat

LEMMA ResponseFacts ==
    ASSUME NEW r \in Responses
    PROVE  r.content \in Contents /\ r.tokens \in 0..MaxTokens
BY ResponseShape

(* A call costs at most a dollar a token.                                  *)
LEMMA CostBounded ==
    ASSUME NEW state, state.total_tokens \in Nat
    PROVE  Cost(state) \in 0..state.total_tokens
<1> DEFINE listed == Find(Card, Provider, Model)
           totals == [input |-> state.total_tokens, cached |-> 0, output |-> 0]
           usage == Aggregate(totals, MaxU32)
<1>1. CASE listed = {}
  BY <1>1 DEF Cost
<1>2. CASE listed # {}
  <2> DEFINE entry == CHOOSE e \in listed : TRUE
             cached == IF entry.cached = {} THEN entry.input ELSE CHOOSE p \in entry.cached : TRUE
  <2>1. PICK i \in DOMAIN Card : entry = Card[i]
    BY <1>2 DEF Find, Entries
  <2>2. entry.input \in 0..1 /\ entry.output \in Nat /\ cached \in Nat
    <3>1. entry.input \in 0..1 /\ entry.output \in Nat /\ entry.cached \subseteq Nat
      BY <2>1, SpecValid
    <3> HIDE DEF entry
    <3> QED
      BY <3>1
  <2>3. /\ usage.cached = 0 /\ usage.output = 0
        /\ Uncached(usage) \in 0..state.total_tokens
    <3>1. CutOff(0, MaxU32) = 0 /\ CutOff(state.total_tokens, MaxU32) \in 0..state.total_tokens
      BY ConstantFacts DEF CutOff
    <3>2. usage = [input |-> CutOff(state.total_tokens, MaxU32), cached |-> 0, output |-> 0]
      BY <3>1 DEF Aggregate
    <3> HIDE DEF usage
    <3> QED
      BY <3>1, <3>2 DEF Uncached
  <2>4. ChatCost(entry, usage)
          = Uncached(usage) * entry.input + usage.cached * cached + usage.output * entry.output
    BY DEF ChatCost
  <2> HIDE DEF entry, cached, usage
  <2>5. ChatCost(entry, usage) = Uncached(usage) * entry.input
    BY <2>2, <2>3, <2>4
  <2>6. Uncached(usage) * entry.input \in {0, Uncached(usage)}
    BY <2>2, <2>3
  <2>7. Cost(state) = ChatCost(entry, usage)
    BY <1>2 DEF Cost, entry, usage
  <2> QED
    BY <2>3, <2>5, <2>6, <2>7
<1> QED
  BY <1>1, <1>2

-----------------------------------------------------------------------------
(* The state of a call *)

Shaped(s) ==
    s \in [pc : {"idle", "gate", "lookup", "prefetch", "request", "backoff", "dispatch",
                 "conclude", "record", "store"},
           args : Args, stamp : 0..LastDay, messages : {s.messages}, iter : 0..MaxIterations,
           attempt : 0..MaxAttempts, corrective : BOOLEAN, pending : {s.pending},
           last_response : Responses \cup {NoResponse}, total_tokens : Nat,
           validated : Values \cup {NoValue},
           reply : [status : {s.reply.status}, value : Values \cup {NoValue}], sent : Nat, charged : Nat]

(* What a call that has not asked for anything has in its locals.          *)
Fresh(s) ==
    /\ s.corrective = FALSE /\ s.iter = 0 /\ s.attempt = 0
    /\ s.sent = 0 /\ s.total_tokens = 0 /\ s.charged = 0 /\ s.reply.status = "none"

(* The rounds of the loop that were begun and are not being retried.       *)
Rounds(s) ==
    IF s.corrective \/ s.pc \in {"conclude", "record", "store"} THEN MaxIterations
    ELSE IF s.pc = "dispatch" THEN s.iter + 1 ELSE s.iter

Retried(s) ==
    IF s.pc \in {"request", "backoff"} THEN s.attempt
    ELSE IF s.corrective THEN MaxAttempts ELSE 0

(* What a number of rounds may send and may use; opaque in the proofs.     *)
Sends(n) == MaxAttempts * n
Uses(n) == MaxTokens * n

(* Requests and tokens, round by round.                                    *)
Counted(s) ==
    /\ s.pc \in {"request", "backoff", "dispatch"} /\ ~s.corrective => s.iter < MaxIterations
    /\ s.pc \in {"request", "backoff"} => s.attempt \in 1..MaxAttempts
    /\ s.pc = "backoff" => s.attempt < MaxAttempts
    /\ s.corrective => s.pc \in {"request", "backoff", "record", "store"}
    /\ s.pc \in {"gate", "lookup", "prefetch"} => Fresh(s)
    /\ s.sent <= Sends(Rounds(s)) + Retried(s)
    /\ s.total_tokens <= Uses(Rounds(s))

Billed(s) ==
    /\ s.total_tokens <= s.charged
    /\ ~s.corrective => s.total_tokens = s.charged
    /\ TokensPerCallCap > 0 => s.total_tokens < TokensPerCallCap

(* A value may be delivered as the answer to what has a key.               *)
Fits(value, key) ==
    /\ value \in Values /\ CacheKey(value.answers) = key
    /\ Mode = "json_schema" => value.content = "valid"

Replied(s) == s.reply.status = "ok" => Fits(s.reply.value, CacheKey(s.args))

Truthful(s) ==
    /\ s.pc \in {"record", "store"} => Fits(s.validated, CacheKey(s.args))
    /\ Replied(s)

Good(s) == Shaped(s) /\ Counted(s) /\ Billed(s) /\ Truthful(s)

CacheFits ==
    /\ cache \in [Keys -> Values \cup {NoValue}]
    /\ \A k \in Keys : cache[k] = NoValue \/ Fits(cache[k], k)

ChatInv ==
    /\ LedgerTypeOK /\ CacheFits
    /\ call \in [Callers -> {call[c] : c \in Callers}]
    /\ \A c \in Callers : Good(call[c])

-----------------------------------------------------------------------------
(* Calls that begin and end *)

LEMMA Rising ==
    ASSUME NEW n \in Nat
    PROVE  /\ Sends(n) \in Nat /\ Sends(n + 1) = Sends(n) + MaxAttempts
           /\ Uses(n) \in Nat /\ Uses(n + 1) = Uses(n) + MaxTokens
           /\ \A m \in 0..n : Sends(m) <= Sends(n) /\ Uses(m) <= Uses(n)
<1>1. MaxAttempts \in Nat /\ MaxTokens \in Nat
  BY ConstantFacts
<1>2. /\ MaxAttempts * n \in Nat /\ MaxAttempts * (n + 1) = MaxAttempts * n + MaxAttempts
      /\ MaxTokens * n \in Nat /\ MaxTokens * (n + 1) = MaxTokens * n + MaxTokens
  BY <1>1
<1>3. ASSUME NEW m \in 0..n
      PROVE  MaxAttempts * m <= MaxAttempts * n /\ MaxTokens * m <= MaxTokens * n
  BY <1>1
<1> QED
  BY <1>2, <1>3 DEF Sends, Uses

LEMMA NothingYet == Sends(0) = 0 /\ Uses(0) = 0
BY ConstantFacts DEF Sends, Uses

LEMMA NewCallFresh ==
    ASSUME NEW args \in Args, NEW day \in 0..LastDay
    PROVE  /\ Shaped(NewCall(args, day)) /\ Fresh(NewCall(args, day))
           /\ NewCall(args, day).pc = "gate"
           /\ NewCall(args, day).args = args /\ NewCall(args, day).stamp = day
<1> DEFINE m == <<SystemMessage, UserMessage>>
           p == <<>>
<1>1. NewCall(args, day) =
        [pc |-> "gate", args |-> args, stamp |-> day, messages |-> m,
         iter |-> 0, attempt |-> 0, corrective |-> FALSE,
         pending |-> p, last_response |-> NoResponse,
         total_tokens |-> 0, validated |-> NoValue, reply |-> NoReply,
         sent |-> 0, charged |-> 0]
  BY DEF NewCall
<1> HIDE DEF m, p
<1>2. NoReply \in [status : {NoReply.status}, value : Values \cup {NoValue}]
      /\ NoReply.status = "none"
  BY DEF NoReply
<1> QED
  BY <1>1, <1>2, ConstantFacts DEF Shaped, Fresh

LEMMA FreshGood ==
    ASSUME NEW s, Shaped(s), Fresh(s), s.pc \in {"idle", "gate", "lookup", "prefetch"}
    PROVE  Good(s)
<1>1. Rounds(s) = 0 /\ Retried(s) = 0
  BY DEF Fresh, Rounds, Retried
<1>2. Counted(s)
  BY <1>1, NothingYet DEF Fresh, Counted
<1>3. Billed(s) /\ Truthful(s)
  BY ConstantFacts DEF Fresh, Billed, Truthful, Replied
<1> QED
  BY <1>2, <1>3 DEF Good

LEMMA BegunGood ==
    ASSUME NEW args \in Args, NEW day \in 0..LastDay,
           NEW pc \in {"idle", "gate", "lookup", "prefetch"}
    PROVE  Good([NewCall(args, day) EXCEPT !.pc = pc])
<1> DEFINE new == NewCall(args, day)
<1>1. Shaped(new) /\ Fresh(new)
  BY NewCallFresh
<1> HIDE DEF new
<1>2. LET s == [new EXCEPT !.pc = pc]
      IN  Shaped(s) /\ Fresh(s) /\ s.pc = pc
  BY <1>1 DEF Shaped, Fresh
<1> QED
  BY <1>2, FreshGood DEF new

LEMMA IdleFresh == Shaped(Idle) /\ Fresh(Idle) /\ Idle.pc = "idle"
<1> DEFINE new == NewCall(CHOOSE a \in Args : TRUE, 0)
<1>1. (CHOOSE a \in Args : TRUE) \in Args /\ 0 \in 0..LastDay
  BY ConstantFacts
<1>2. Shaped(new) /\ Fresh(new)
  BY <1>1, NewCallFresh
<1>3. Idle = [new EXCEPT !.pc = "idle"]
  BY DEF Idle
<1> HIDE DEF new
<1> QED
  BY <1>2, <1>3 DEF Shaped, Fresh

LEMMA EndedGood ==
    ASSUME NEW s, Shaped(s), NEW status, NEW value \in Values \cup {NoValue},
           status = "ok" => Fits(value, CacheKey(s.args))
    PROVE  Good(Ended(s, [status |-> status, value |-> value]))
<1> DEFINE reply == [status |-> status, value |-> value]
           e == Ended(s, reply)
<1>1. /\ s.args \in Args /\ s.stamp \in 0..LastDay /\ s.iter \in 0..MaxIterations
      /\ reply \in [status : {reply.status}, value : Values \cup {NoValue}]
  BY DEF Shaped
<1>2. e = [Idle EXCEPT !.args = s.args, !.stamp = s.stamp, !.iter = s.iter, !.reply = reply]
  BY DEF Ended
<1> HIDE DEF reply, e
<1>3. /\ e.pc = "idle" /\ e.args = s.args /\ e.iter = s.iter /\ e.reply = reply
      /\ e.corrective = FALSE /\ e.sent = 0 /\ e.total_tokens = 0 /\ e.charged = 0
  BY <1>2, IdleFresh DEF Fresh, Shaped
<1>4. Shaped(e)
  BY <1>1, <1>2, IdleFresh DEF Shaped
<1>5. Sends(s.iter) \in Nat /\ Uses(s.iter) \in Nat
  BY <1>1, ConstantFacts, Rising
<1>6. Counted(e)
  BY <1>3, <1>5 DEF Counted, Rounds, Retried
<1>7. Billed(e) /\ Truthful(e)
  BY <1>3, ConstantFacts DEF Billed, Truthful, Replied, reply
<1> QED
  BY <1>4, <1>6, <1>7 DEF Good, e, reply

LEMMA FailedGood ==
    ASSUME NEW s, Shaped(s), NEW why, why # "ok"
    PROVE  Good(Ended(s, Failed(why)))
BY EndedGood DEF Failed

LEMMA DeliveredGood ==
    ASSUME NEW s, Shaped(s), NEW value, Fits(value, CacheKey(s.args))
    PROVE  Good(Ended(s, Delivered(value)))
BY EndedGood DEF Delivered, Fits

-----------------------------------------------------------------------------
(* Calls that go on *)

LEMMA PrefetchNext ==
    ASSUME NEW s, Good(s), s.pc \in {"gate", "lookup"}, NEW pc \in {"lookup", "prefetch"}
    PROVE  Good([s EXCEPT !.pc = pc])
<1> DEFINE t == [s EXCEPT !.pc = pc]
<1>1. Shaped(t) /\ Fresh(t) /\ t.pc = pc
  BY DEF Good, Counted, Shaped, Fresh
<1> QED
  BY <1>1, FreshGood

LEMMA BackoffNext ==
    ASSUME NEW s, Good(s), s.pc = "request", s.attempt < MaxAttempts
    PROVE  Good([s EXCEPT !.pc = "backoff"])
BY DEF Good, Shaped, Counted, Rounds, Retried, Billed, Truthful, Replied

(* A state that asks the provider.                                         *)
LEMMA RequestingGood ==
    ASSUME NEW s, Shaped(s), Billed(s), Replied(s),
           NEW rounds \in 0..MaxIterations,
           rounds = IF s.corrective THEN MaxIterations ELSE s.iter,
           ~s.corrective => s.iter < MaxIterations,
           s.sent <= Sends(rounds), s.total_tokens <= Uses(rounds)
    PROVE  Good(Requesting(s))
<1> DEFINE n == s.sent + 1
           t == [s EXCEPT !.pc = "request", !.attempt = 1, !.sent = n]
<1>1. Requesting(s) = t
  BY DEF Requesting
<1>2. n \in Nat /\ n = s.sent + 1 /\ s.sent \in Nat
  BY DEF Shaped
<1> HIDE DEF n
<1>3. Shaped(t)
  <2>1. 1 \in 0..MaxAttempts
    BY ConstantFacts
  <2> QED
    BY <1>2, <2>1 DEF Shaped
<1>4. /\ t.pc = "request" /\ t.attempt = 1 /\ t.sent = n /\ t.iter = s.iter
      /\ t.corrective = s.corrective /\ t.total_tokens = s.total_tokens
      /\ t.charged = s.charged /\ t.reply = s.reply /\ t.args = s.args
  BY DEF Shaped
<1> HIDE DEF t
<1>5. Rounds(t) = rounds /\ Retried(t) = 1
  BY <1>4 DEF Rounds, Retried
<1>6. Sends(rounds) \in Nat
  <2>1. rounds \in Nat
    BY ConstantFacts
  <2> QED
    BY <2>1, Rising
<1>7. Counted(t)
  <2>1. t.sent <= Sends(Rounds(t)) + Retried(t) /\ t.total_tokens <= Uses(Rounds(t))
    BY <1>2, <1>4, <1>5, <1>6
  <2> QED
    BY <1>4, <2>1, ConstantFacts DEF Counted
<1>8. Billed(t) /\ Truthful(t)
  BY <1>4 DEF Billed, Truthful, Replied
<1> QED
  BY <1>1, <1>3, <1>7, <1>8 DEF Good

LEMMA FirstRequest ==
    ASSUME NEW s, Good(s), s.pc = "prefetch"
    PROVE  Good(Requesting(s))
<1>1. Shaped(s) /\ Fresh(s) /\ Billed(s)
  BY DEF Good, Counted
<1>2. s.sent <= Sends(0) /\ s.total_tokens <= Uses(0) /\ s.iter = 0 /\ ~s.corrective
      /\ Replied(s) /\ 0 \in 0..MaxIterations /\ s.iter < MaxIterations
  BY <1>1, NothingYet, ConstantFacts DEF Fresh, Replied
<1> QED
  BY <1>1, <1>2, RequestingGood

LEMMA WakeGood ==
    ASSUME NEW s, Good(s), s.pc = "backoff"
    PROVE  Good([s EXCEPT !.pc = "request", !.attempt = s.attempt + 1, !.sent = s.sent + 1])
<1> DEFINE m == s.attempt + 1
           n == s.sent + 1
           t == [s EXCEPT !.pc = "request", !.attempt = m, !.sent = n]
<1>1. /\ m \in 1..MaxAttempts /\ n \in Nat /\ m = s.attempt + 1 /\ n = s.sent + 1
      /\ s.attempt \in Nat /\ s.sent \in Nat
  BY ConstantFacts DEF Good, Shaped, Counted
<1> HIDE DEF m, n
<1>2. Shaped(t)
  <2>1. Shaped(s)
    BY DEF Good
  <2>2. m \in 0..MaxAttempts
    BY <1>1, ConstantFacts
  <2> QED
    BY <1>1, <2>1, <2>2 DEF Shaped
<1>3. /\ t.pc = "request" /\ t.attempt = m /\ t.sent = n /\ t.iter = s.iter
      /\ t.corrective = s.corrective /\ t.total_tokens = s.total_tokens
      /\ t.charged = s.charged /\ t.reply = s.reply /\ t.args = s.args
  BY DEF Good, Shaped
<1> HIDE DEF t
<1>4. Rounds(t) = Rounds(s) /\ Retried(t) = m /\ Retried(s) = s.attempt
  BY <1>3 DEF Rounds, Retried
<1>5. Sends(Rounds(s)) \in Nat
  <2>1. Rounds(s) \in Nat
    BY ConstantFacts DEF Good, Shaped, Rounds
  <2> QED
    BY <2>1, Rising
<1>6. Counted(t)
  BY <1>1, <1>3, <1>4, <1>5 DEF Good, Counted
<1>7. Billed(t) /\ Truthful(t)
  BY <1>3 DEF Good, Billed, Truthful, Replied
<1> QED
  BY <1>2, <1>6, <1>7 DEF Good, t, m, n

-----------------------------------------------------------------------------
(* The loop *)

(* In the loop, with the round that is under way counted.                  *)
InTheLoop(s) ==
    /\ Shaped(s) /\ Replied(s) /\ ~s.corrective
    /\ s.total_tokens = s.charged
    /\ s.iter < MaxIterations
    /\ s.sent <= Sends(s.iter + 1) /\ s.total_tokens <= Uses(s.iter + 1)

LEMMA HeardFacts ==
    ASSUME NEW s, Good(s), s.pc = "request", ~s.corrective, NEW r \in Responses
    PROVE  LET h == Heard(s, r)
           IN  /\ InTheLoop(h) /\ h.last_response = r
               /\ h.total_tokens = s.total_tokens + r.tokens
<1> DEFINE m == s.total_tokens + r.tokens
           n == s.charged + r.tokens
           h == [s EXCEPT !.last_response = r, !.total_tokens = m, !.charged = n]
<1>1. Heard(s, r) = h
  BY DEF Heard
<1>2. /\ m = s.total_tokens + r.tokens /\ m = n /\ m \in Nat /\ s.total_tokens \in Nat
      /\ r.tokens \in 0..MaxTokens
  BY ResponseFacts, ConstantFacts DEF Good, Shaped, Billed
<1> HIDE DEF m, n
<1>3. Shaped(s)
  BY DEF Good
<1>4. Shaped(h)
  BY <1>2, <1>3 DEF Shaped
<1>5. /\ h.last_response = r /\ h.total_tokens = m /\ h.charged = n /\ h.iter = s.iter
      /\ h.corrective = s.corrective /\ h.sent = s.sent /\ h.reply = s.reply /\ h.args = s.args
  BY <1>3 DEF Shaped
<1> HIDE DEF h
<1>6. Rounds(s) = s.iter /\ Retried(s) = s.attempt /\ s.iter < MaxIterations
      /\ s.iter \in Nat /\ s.attempt \in 0..MaxAttempts /\ s.sent \in Nat
  BY <1>3, ConstantFacts DEF Good, Counted, Rounds, Retried, Shaped
<1>7. s.sent <= Sends(s.iter) + s.attempt /\ s.total_tokens <= Uses(s.iter)
  BY <1>6 DEF Good, Counted
<1>8. /\ Sends(s.iter + 1) = Sends(s.iter) + MaxAttempts /\ Sends(s.iter) \in Nat
      /\ Uses(s.iter + 1) = Uses(s.iter) + MaxTokens /\ Uses(s.iter) \in Nat
  BY <1>6, Rising
<1>9. h.sent <= Sends(h.iter + 1) /\ h.total_tokens <= Uses(h.iter + 1)
  BY <1>2, <1>5, <1>6, <1>7, <1>8, ConstantFacts
<1>10. Replied(h)
  BY <1>5 DEF Good, Truthful, Replied
<1> QED
  BY <1>1, <1>2, <1>4, <1>5, <1>6, <1>9, <1>10 DEF InTheLoop

(* The cap lets the loop go on: what BilledForTheLoop needs.               *)
BelowTheCap(s) == TokensPerCallCap > 0 => s.total_tokens < TokensPerCallCap

LEMMA CapFacts ==
    ASSUME NEW s, s.total_tokens \in Nat, ~OverTokenCap(s)
    PROVE  BelowTheCap(s)
BY ConstantFacts DEF OverTokenCap, BelowTheCap

LEMMA DispatchingGood ==
    ASSUME NEW s, InTheLoop(s), BelowTheCap(s), NEW messages, NEW pending
    PROVE  Good([s EXCEPT !.pc = "dispatch", !.pending = pending, !.messages = messages])
<1> DEFINE t == [s EXCEPT !.pc = "dispatch", !.pending = pending, !.messages = messages]
<1>1. Shaped(t)
  BY DEF InTheLoop, Shaped
<1>2. /\ t.pc = "dispatch" /\ t.iter = s.iter /\ t.corrective = s.corrective /\ t.sent = s.sent
      /\ t.total_tokens = s.total_tokens /\ t.charged = s.charged
      /\ t.reply = s.reply /\ t.args = s.args /\ s.sent \in Nat /\ s.total_tokens \in Nat
  BY DEF InTheLoop, Shaped
<1> HIDE DEF t
<1>3. Rounds(t) = s.iter + 1 /\ Retried(t) = 0
  BY <1>2 DEF InTheLoop, Rounds, Retried
<1>4. Sends(s.iter + 1) \in Nat
  <2>1. s.iter + 1 \in Nat
    BY ConstantFacts DEF InTheLoop, Shaped
  <2> QED
    BY <2>1, Rising
<1>5. Counted(t)
  BY <1>2, <1>3, <1>4 DEF InTheLoop, Counted
<1>6. Billed(t) /\ Truthful(t)
  BY <1>2 DEF InTheLoop, BelowTheCap, Billed, Truthful, Replied
<1> QED
  BY <1>1, <1>5, <1>6 DEF Good, t

(* The loop is left after some round, with what that many rounds may cost. *)
LEMMA ConcludingGood ==
    ASSUME NEW s, Shaped(s), Replied(s), ~s.corrective, BelowTheCap(s),
           s.total_tokens = s.charged, NEW n \in 0..MaxIterations,
           s.sent <= Sends(n), s.total_tokens <= Uses(n)
    PROVE  Good([s EXCEPT !.pc = "conclude"])
<1> DEFINE t == [s EXCEPT !.pc = "conclude"]
<1>1. Shaped(t)
  BY DEF Shaped
<1>2. /\ t.pc = "conclude" /\ t.corrective = s.corrective /\ t.sent = s.sent
      /\ t.total_tokens = s.total_tokens /\ t.charged = s.charged
      /\ t.reply = s.reply /\ t.args = s.args /\ s.sent \in Nat /\ s.total_tokens \in Nat
  BY DEF Shaped
<1> HIDE DEF t
<1>3. Rounds(t) = MaxIterations /\ Retried(t) = 0
  BY <1>2 DEF Rounds, Retried
<1>4. /\ Sends(n) <= Sends(MaxIterations) /\ Uses(n) <= Uses(MaxIterations)
      /\ Sends(MaxIterations) \in Nat /\ Uses(MaxIterations) \in Nat
      /\ Sends(n) \in Nat /\ Uses(n) \in Nat
  <2>1. MaxIterations \in Nat /\ n \in Nat
    BY ConstantFacts
  <2> QED
    BY <2>1, Rising
<1>5. Counted(t)
  <2>1. t.sent <= Sends(Rounds(t)) + Retried(t) /\ t.total_tokens <= Uses(Rounds(t))
    BY <1>2, <1>3, <1>4
  <2> QED
    BY <1>2, <2>1 DEF Counted
<1>6. Billed(t) /\ Truthful(t)
  BY <1>2 DEF BelowTheCap, Billed, Truthful, Replied
<1> QED
  BY <1>1, <1>5, <1>6 DEF Good, t

LEMMA AfterTheRound ==
    ASSUME NEW s, InTheLoop(s), BelowTheCap(s)
    PROVE  Good([s EXCEPT !.pc = "conclude"])
<1>1. s.iter + 1 \in 0..MaxIterations
  BY ConstantFacts DEF InTheLoop, Shaped
<1> QED
  BY <1>1, ConcludingGood DEF InTheLoop

(* A tool result is added and the call that asked for it taken off.        *)
LEMMA AnsweredFacts ==
    ASSUME NEW s, Good(s), s.pc = "dispatch"
    PROVE  LET a == Answered(s)
           IN  Good(a) /\ InTheLoop(a) /\ BelowTheCap(a) /\ a.iter = s.iter
<1> DEFINE m == Append(s.messages, ToolResult(Head(s.pending)))
           p == Tail(s.pending)
           a == [s EXCEPT !.messages = m, !.pending = p]
<1>1. Answered(s) = a
  BY DEF Answered
<1> HIDE DEF m, p
<1>2. Shaped(a)
  BY DEF Good, Shaped
<1>3. /\ a.pc = s.pc /\ a.iter = s.iter /\ a.corrective = s.corrective /\ a.sent = s.sent
      /\ a.total_tokens = s.total_tokens /\ a.charged = s.charged
      /\ a.reply = s.reply /\ a.args = s.args /\ s.sent \in Nat /\ s.iter \in Nat
  BY ConstantFacts DEF Good, Shaped
<1> HIDE DEF a
<1>4. ~s.corrective /\ Rounds(s) = s.iter + 1 /\ Retried(s) = 0
  BY DEF Good, Counted, Rounds, Retried
<1>5. Sends(s.iter + 1) \in Nat
  <2>1. s.iter + 1 \in Nat
    BY <1>3
  <2> QED
    BY <2>1, Rising
<1>6. InTheLoop(a)
  BY <1>2, <1>3, <1>4, <1>5 DEF InTheLoop, Good, Counted, Billed, Truthful, Replied
<1>7. BelowTheCap(a)
  BY <1>3 DEF BelowTheCap, Good, Billed
<1>8. Rounds(a) = Rounds(s) /\ Retried(a) = Retried(s)
  BY <1>3, <1>4 DEF Rounds, Retried
<1>9. Counted(a) /\ Billed(a) /\ Truthful(a)
  BY <1>3, <1>8 DEF Good, Counted, Billed, Truthful, Replied
<1> QED
  BY <1>1, <1>2, <1>3, <1>6, <1>7, <1>9 DEF Good

(* The turn is over: the next round, or the end of the loop.               *)
LEMMA TurnDoneGood ==
    ASSUME NEW s, InTheLoop(s), BelowTheCap(s)
    PROVE  LET t == [s EXCEPT !.iter = s.iter + 1]
           IN  /\ t.iter < MaxIterations => Good(Requesting(t))
               /\ t.iter >= MaxIterations => Good([t EXCEPT !.pc = "conclude"])
<1> DEFINE n == s.iter + 1
           t == [s EXCEPT !.iter = n]
<1>1. n \in 0..MaxIterations /\ n = s.iter + 1
  BY ConstantFacts DEF InTheLoop, Shaped
<1> HIDE DEF n
<1>2. Shaped(t)
  BY <1>1 DEF InTheLoop, Shaped
<1>3. /\ t.iter = n /\ t.corrective = s.corrective /\ t.sent = s.sent
      /\ t.total_tokens = s.total_tokens /\ t.charged = s.charged
      /\ t.reply = s.reply /\ t.args = s.args
  BY DEF InTheLoop, Shaped
<1> HIDE DEF t
<1>4. /\ Replied(t) /\ ~t.corrective /\ BelowTheCap(t) /\ t.total_tokens = t.charged
      /\ t.sent <= Sends(n) /\ t.total_tokens <= Uses(n)
  BY <1>1, <1>3 DEF InTheLoop, Replied, BelowTheCap
<1>5. Billed(t)
  <2>1. t.total_tokens \in Nat
    BY <1>2 DEF Shaped
  <2> QED
    BY <1>4, <2>1 DEF BelowTheCap, Billed
<1>6. t.iter < MaxIterations => Good(Requesting(t))
  BY <1>1, <1>2, <1>3, <1>4, <1>5, RequestingGood
<1>7. Good([t EXCEPT !.pc = "conclude"])
  BY <1>1, <1>2, <1>4, ConcludingGood
<1> QED
  BY <1>6, <1>7 DEF t, n

-----------------------------------------------------------------------------
(* After the loop *)

LEMMA SettledGood ==
    ASSUME NEW s, Shaped(s), Replied(s), Billed(s), today \in Days,
           NEW content \in Contents, Mode = "json_schema" => content = "valid",
           s.sent <= Sends(MaxIterations) + (IF s.corrective THEN MaxAttempts ELSE 0),
           s.total_tokens <= Uses(MaxIterations)
    PROVE  LET t == Settled(s, content)
           IN  Good(t) /\ t.pc = "record" /\ t.stamp = today
<1> DEFINE v == Value(content, s.args)
           t == [s EXCEPT !.pc = "record", !.stamp = today, !.validated = v]
<1>1. Settled(s, content) = t
  BY DEF Settled
<1>2. Fits(v, CacheKey(s.args)) /\ v \in Values
  <2>1. s.args \in Args
    BY DEF Shaped
  <2>2. v \in Values /\ v.answers = s.args /\ v.content = content
    BY <2>1 DEF Value, Values
  <2> HIDE DEF v
  <2> QED
    BY <2>2 DEF Fits
<1>3. today \in 0..LastDay
  BY ConstantFacts DEF Days
<1> HIDE DEF v
<1>4. Shaped(t)
  BY <1>2, <1>3 DEF Shaped
<1>5. /\ t.pc = "record" /\ t.stamp = today /\ t.corrective = s.corrective /\ t.sent = s.sent
      /\ t.total_tokens = s.total_tokens /\ t.charged = s.charged
      /\ t.reply = s.reply /\ t.args = s.args /\ t.validated = v
  BY DEF Shaped
<1> HIDE DEF t
<1>6. Rounds(t) = MaxIterations /\ Retried(t) = IF s.corrective THEN MaxAttempts ELSE 0
  BY <1>5 DEF Rounds, Retried
<1>7. Counted(t)
  BY <1>5, <1>6 DEF Counted
<1>8. Billed(t) /\ Truthful(t)
  BY <1>2, <1>5 DEF Billed, Truthful, Replied
<1> QED
  BY <1>1, <1>4, <1>5, <1>7, <1>8 DEF Good

LEMMA ConcludedFacts ==
    ASSUME NEW s, Good(s), s.pc = "conclude"
    PROVE  /\ Shaped(s) /\ Replied(s) /\ Billed(s) /\ ~s.corrective
           /\ s.sent <= Sends(MaxIterations) /\ s.total_tokens <= Uses(MaxIterations)
           /\ s.last_response.content \in Contents /\ s.sent \in Nat
<1>1. ~s.corrective /\ Rounds(s) = MaxIterations /\ Retried(s) = 0
  BY DEF Good, Counted, Rounds, Retried
<1>2. Sends(MaxIterations) \in Nat
  <2>1. MaxIterations \in Nat
    BY ConstantFacts
  <2> QED
    BY <2>1, Rising
<1>3. s.sent \in Nat /\ s.last_response \in Responses \cup {NoResponse}
  BY DEF Good, Shaped
<1>4. s.last_response.content \in Contents
  BY <1>3, ResponseFacts DEF NoResponse, Contents
<1> QED
  BY <1>1, <1>2, <1>3, <1>4 DEF Good, Counted, Truthful

LEMMA AcceptGood ==
    ASSUME NEW s, Good(s), s.pc = "conclude", today \in Days,
           Acceptable(s.last_response.content)
    PROVE  LET t == Settled(s, s.last_response.content)
           IN  Good(t) /\ t.pc = "record" /\ t.stamp = today
<1> DEFINE content == s.last_response.content
<1>1. Mode = "json_schema" => content = "valid"
  BY DEF Acceptable
<1>2. content \in Contents
  BY ConcludedFacts
<1>3. s.sent <= Sends(MaxIterations) + (IF s.corrective THEN MaxAttempts ELSE 0)
  <2>1. Sends(MaxIterations) \in Nat
    BY Rising, ConstantFacts
  <2> QED
    BY <2>1, ConcludedFacts
<1> HIDE DEF content
<1>4. LET t == Settled(s, content) IN Good(t) /\ t.pc = "record" /\ t.stamp = today
  BY <1>1, <1>2, <1>3, ConcludedFacts, SettledGood
<1> QED
  BY <1>4 DEF content

LEMMA CorrectGood ==
    ASSUME NEW s, Good(s), s.pc = "conclude", NEW messages
    PROVE  Good(Requesting([s EXCEPT !.corrective = TRUE, !.messages = messages]))
<1> DEFINE t == [s EXCEPT !.corrective = TRUE, !.messages = messages]
<1>1. /\ Shaped(s) /\ Replied(s) /\ Billed(s)
      /\ s.sent <= Sends(MaxIterations) /\ s.total_tokens <= Uses(MaxIterations)
      /\ ~s.corrective
  BY ConcludedFacts
<1>2. Shaped(t)
  BY <1>1 DEF Shaped
<1>3. /\ t.corrective = TRUE /\ t.sent = s.sent /\ t.total_tokens = s.total_tokens
      /\ t.charged = s.charged /\ t.reply = s.reply /\ t.args = s.args
      /\ s.charged \in Nat /\ s.total_tokens \in Nat
  BY <1>1 DEF Shaped
<1> HIDE DEF t
<1>4. Replied(t) /\ Billed(t)
  BY <1>1, <1>3 DEF Replied, Billed
<1>5. MaxIterations \in 0..MaxIterations
  BY ConstantFacts
<1>6. Good(Requesting(t))
  BY <1>1, <1>2, <1>3, <1>4, <1>5, RequestingGood
<1> QED
  BY <1>6 DEF t

(* What the answer to the correction adds to what was charged.             *)
LEMMA CorrectedFacts ==
    ASSUME NEW s, Good(s), s.pc = "request", s.corrective, NEW r \in Responses
    PROVE  LET h == [s EXCEPT !.charged = s.charged + r.tokens]
           IN  /\ Shaped(h) /\ Replied(h) /\ Billed(h)
               /\ h.sent <= Sends(MaxIterations) + (IF h.corrective THEN MaxAttempts ELSE 0)
               /\ h.total_tokens <= Uses(MaxIterations)
<1> DEFINE n == s.charged + r.tokens
           h == [s EXCEPT !.charged = n]
<1>1. /\ n \in Nat /\ n >= s.charged /\ s.charged \in Nat /\ s.total_tokens \in Nat
      /\ s.sent \in Nat /\ s.attempt \in 0..MaxAttempts /\ MaxAttempts \in Nat
  BY ResponseFacts, ConstantFacts DEF Good, Shaped
<1> HIDE DEF n
<1>2. Shaped(h)
  BY <1>1 DEF Good, Shaped
<1>3. /\ h.corrective = s.corrective /\ h.sent = s.sent /\ h.total_tokens = s.total_tokens
      /\ h.charged = n /\ h.reply = s.reply /\ h.args = s.args
  BY DEF Good, Shaped
<1> HIDE DEF h
<1>4. Replied(h) /\ Billed(h)
  BY <1>1, <1>3 DEF Good, Truthful, Replied, Billed
<1>5. Rounds(s) = MaxIterations /\ Retried(s) = s.attempt
  BY DEF Rounds, Retried
<1>6. Sends(MaxIterations) \in Nat
  BY Rising, ConstantFacts
<1>7. s.sent <= Sends(MaxIterations) + s.attempt /\ s.total_tokens <= Uses(MaxIterations)
  BY <1>5 DEF Good, Counted
<1>8. h.sent <= Sends(MaxIterations) + (IF h.corrective THEN MaxAttempts ELSE 0)
  BY <1>1, <1>3, <1>6, <1>7
<1> QED
  BY <1>2, <1>3, <1>4, <1>7, <1>8 DEF h, n

LEMMA StoringGood ==
    ASSUME NEW s, Good(s), s.pc = "record"
    PROVE  Good([s EXCEPT !.pc = "store"])
<1> DEFINE t == [s EXCEPT !.pc = "store"]
<1>1. Shaped(t)
  BY DEF Good, Shaped
<1>2. /\ t.pc = "store" /\ t.corrective = s.corrective /\ t.sent = s.sent
      /\ t.total_tokens = s.total_tokens /\ t.charged = s.charged
      /\ t.reply = s.reply /\ t.args = s.args /\ t.validated = s.validated
  BY DEF Good, Shaped
<1> HIDE DEF t
<1>3. Rounds(t) = Rounds(s) /\ Retried(t) = Retried(s)
  BY <1>2 DEF Rounds, Retried
<1>4. Counted(t) /\ Billed(t) /\ Truthful(t)
  BY <1>2, <1>3 DEF Good, Counted, Billed, Truthful, Replied
<1> QED
  BY <1>1, <1>4 DEF Good, t

-----------------------------------------------------------------------------
(* The invariant *)

LEMMA InitInv == Init => ChatInv
<1> SUFFICES ASSUME Init PROVE ChatInv
  OBVIOUS
<1>1. LedgerTypeOK
  BY ConstantFacts DEF Init, LedgerInit, LedgerTypeOK, AbsentRow, Days
<1>2. CacheFits
  BY DEF Init, CacheFits
<1>3. Good(Idle)
  BY IdleFresh, FreshGood
<1>4. \A c \in Callers : call[c] = Idle
  BY DEF Init
<1>5. call \in [Callers -> {call[c] : c \in Callers}]
  BY DEF Init
<1> QED
  BY <1>1, <1>2, <1>3, <1>4, <1>5 DEF ChatInv

LEMMA CallFacts ==
    ASSUME ChatInv, NEW c \in Callers
    PROVE  /\ Good(call[c]) /\ Shaped(call[c]) /\ call[c].args \in Args
           /\ today \in Days /\ today \in 0..LastDay
<1>1. Good(call[c]) /\ today \in Days
  BY DEF ChatInv, LedgerTypeOK
<1>2. Shaped(call[c])
  BY <1>1 DEF Good
<1> QED
  BY <1>1, <1>2, ConstantFacts DEF Shaped, Days

(* One call moves to a state that is good.                                 *)
LEMMA CallMoves ==
    ASSUME ChatInv, NEW c \in Callers, NEW t, Good(t), call' = [call EXCEPT ![c] = t]
    PROVE  /\ call' \in [Callers -> {call'[d] : d \in Callers}]
           /\ \A d \in Callers : Good(call'[d])
<1>1. \A d \in Callers : call'[d] = IF d = c THEN t ELSE call[d]
  BY DEF ChatInv
<1>2. call' \in [Callers -> {call'[d] : d \in Callers}]
  BY DEF ChatInv
<1>3. ASSUME NEW d \in Callers PROVE Good(call'[d])
  <2>1. CASE d = c
    BY <1>1, <2>1
  <2>2. CASE d # c
    BY <1>1, <2>2 DEF ChatInv
  <2> QED
    BY <2>1, <2>2
<1> QED
  BY <1>2, <1>3

LEMMA BecomeInv ==
    ASSUME ChatInv, NEW c \in Callers, NEW t, Good(t), Become(c, t)
    PROVE  ChatInv'
<1>1. call' = [call EXCEPT ![c] = t] /\ UNCHANGED <<ledgerVars, cache>>
  BY DEF Become
<1>2. LedgerTypeOK' /\ CacheFits'
  BY <1>1 DEF ChatInv, LedgerTypeOK, CacheFits, ledgerVars
<1> QED
  BY <1>1, <1>2, CallMoves DEF ChatInv

LEMMA FailInv ==
    ASSUME ChatInv, NEW c \in Callers, NEW s, Shaped(s), NEW why, why # "ok", Fail(c, s, why)
    PROVE  ChatInv'
<1>1. Good(Ended(s, Failed(why)))
  BY FailedGood
<1> QED
  BY <1>1, BecomeInv DEF Fail

(* Before the first request.                                               *)
LEMMA BeforeInv ==
    ASSUME ChatInv, NEW c \in Callers,
           \/ Begin(c) \/ RenderFails(c) \/ BudgetRefuses(c) \/ BudgetAdmits(c)
           \/ CacheHit(c) \/ CacheUndecodable(c) \/ CacheMiss(c)
           \/ Prefetch(c) \/ PrefetchFails(c)
    PROVE  ChatInv'
<1> USE CallFacts
<1>1. CASE Begin(c)
  <2>1. PICK args \in Args :
          Become(c, [NewCall(args, today) EXCEPT
                       !.pc = IF UsdDailyCap > 0 THEN "gate" ELSE AfterGate])
    BY <1>1 DEF Begin
  <2>2. (IF UsdDailyCap > 0 THEN "gate" ELSE AfterGate) \in {"idle", "gate", "lookup", "prefetch"}
    BY DEF AfterGate
  <2> QED
    BY <2>1, <2>2, BegunGood, BecomeInv
<1>2. CASE RenderFails(c)
  <2>1. PICK args \in Args : Fail(c, NewCall(args, call[c].stamp), "template")
    BY <1>2 DEF RenderFails
  <2>2. call[c].stamp \in 0..LastDay
    BY DEF Shaped
  <2> QED
    BY <2>1, <2>2, NewCallFresh, FailInv
<1>3. CASE BudgetRefuses(c)
  BY <1>3, FailInv DEF BudgetRefuses
<1>4. CASE BudgetAdmits(c)
  <2>1. call[c].pc = "gate" /\ AfterGate \in {"lookup", "prefetch"}
    BY <1>4 DEF BudgetAdmits, At, AfterGate
  <2> QED
    BY <1>4, <2>1, PrefetchNext, BecomeInv DEF BudgetAdmits, GoTo
<1>5. CASE CacheHit(c)
  <2> DEFINE hit == cache[CacheKey(call[c].args)]
  <2>1. CacheKey(call[c].args) \in Keys
    BY CallFacts DEF Keys
  <2>2. Fits(hit, CacheKey(call[c].args))
    BY <1>5, <2>1 DEF CacheHit, ChatInv, CacheFits
  <2>3. Become(c, Ended(call[c], Delivered(hit)))
    BY <1>5 DEF CacheHit
  <2> HIDE DEF hit
  <2> QED
    BY <2>2, <2>3, DeliveredGood, BecomeInv
<1>6. CASE CacheUndecodable(c)
  BY <1>6, FailInv DEF CacheUndecodable
<1>7. CASE CacheMiss(c)
  <2>1. call[c].pc = "lookup"
    BY <1>7 DEF CacheMiss, At
  <2> QED
    BY <1>7, <2>1, PrefetchNext, BecomeInv DEF CacheMiss, GoTo
<1>8. CASE Prefetch(c)
  BY <1>8, FirstRequest, BecomeInv DEF Prefetch, At
<1>9. CASE PrefetchFails(c)
  BY <1>9, FailInv DEF PrefetchFails
<1> QED
  BY <1>1, <1>2, <1>3, <1>4, <1>5, <1>6, <1>7, <1>8, <1>9

(* Retries and the loop.                                                   *)
LEMMA LoopInv ==
    ASSUME ChatInv, NEW c \in Callers,
           \/ RetryLater(c) \/ GiveUp(c) \/ Wake(c) \/ Dispatch(c)
           \/ \E r \in Responses : LoopReply(c, r)
    PROVE  ChatInv'
<1> USE CallFacts
<1>1. CASE RetryLater(c)
  BY <1>1, BackoffNext, BecomeInv DEF RetryLater, GoTo, At
<1>2. CASE GiveUp(c)
  BY <1>2, FailInv DEF GiveUp
<1>3. CASE Wake(c)
  <2> DEFINE t == [call[c] EXCEPT !.pc = "request", !.attempt = call[c].attempt + 1,
                                  !.sent = call[c].sent + 1]
  <2>1. Become(c, t) /\ call[c].pc = "backoff"
    BY <1>3 DEF Wake, At
  <2>2. Good(t)
    BY <2>1, WakeGood
  <2> QED
    BY <2>1, <2>2, BecomeInv
<1>4. CASE Dispatch(c)
  <2> DEFINE a == Answered(call[c])
             t == [a EXCEPT !.iter = a.iter + 1]
  <2>1. /\ call[c].pc = "dispatch"
        /\ \/ Become(c, a)
           \/ t.iter < MaxIterations /\ Become(c, Requesting(t))
           \/ t.iter >= MaxIterations /\ Become(c, [t EXCEPT !.pc = "conclude"])
    BY <1>4 DEF Dispatch, At
  <2>2. Good(a) /\ InTheLoop(a) /\ BelowTheCap(a)
    BY <2>1, AnsweredFacts
  <2> HIDE DEF a
  <2>3. /\ t.iter < MaxIterations => Good(Requesting(t))
        /\ t.iter >= MaxIterations => Good([t EXCEPT !.pc = "conclude"])
    BY <2>2, TurnDoneGood
  <2> HIDE DEF t
  <2> QED
    BY <2>1, <2>2, <2>3, BecomeInv
<1>5. ASSUME NEW r \in Responses, LoopReply(c, r) PROVE ChatInv'
  <2> DEFINE h == Heard(call[c], r)
  <2>1. call[c].pc = "request" /\ ~call[c].corrective
    BY <1>5 DEF LoopReply, At
  <2>2. InTheLoop(h)
    BY <2>1, HeardFacts
  <2>3. Shaped(h) /\ (~OverTokenCap(h) => BelowTheCap(h))
    BY <2>2, CapFacts DEF InTheLoop, Shaped
  <2>4. \/ Fail(c, h, "token_cap") \/ Fail(c, h, "no_child_tools")
        \/ ~OverTokenCap(h) /\ Become(c, [h EXCEPT !.pc = "conclude"])
        \/ ~OverTokenCap(h) /\ \E m : Become(c, [h EXCEPT !.pc = "dispatch", !.pending = r.calls,
                                                          !.messages = m])
    BY <1>5 DEF LoopReply
  <2> HIDE DEF h
  <2> QED
    BY <2>2, <2>3, <2>4, FailInv, AfterTheRound, DispatchingGood, BecomeInv
<1> QED
  BY <1>1, <1>2, <1>3, <1>4, <1>5

(* After the loop, up to the record.                                       *)
LEMMA ConcludeInv ==
    ASSUME ChatInv, NEW c \in Callers,
           \/ Exhausted(c) \/ Accept(c) \/ Reject(c) \/ Correct(c)
           \/ \E r \in Responses : CorrectiveReply(c, r)
           \/ Abandon(c)
    PROVE  ChatInv'
<1> USE CallFacts
<1>1. CASE Exhausted(c)
  BY <1>1, FailInv DEF Exhausted
<1>2. CASE Reject(c)
  BY <1>2, FailInv DEF Reject
<1>3. CASE Abandon(c)
  BY <1>3, FailInv DEF Abandon
<1>4. CASE Accept(c)
  <2> DEFINE t == Settled(call[c], call[c].last_response.content)
  <2>1. call[c].pc = "conclude" /\ Acceptable(call[c].last_response.content) /\ Become(c, t)
    BY <1>4 DEF Accept, Concludes, At
  <2>2. Good(t)
    BY <2>1, AcceptGood
  <2> HIDE DEF t
  <2> QED
    BY <2>1, <2>2, BecomeInv
<1>5. CASE Correct(c)
  <2>1. PICK m : Become(c, Requesting([call[c] EXCEPT !.corrective = TRUE, !.messages = m]))
    BY <1>5 DEF Correct
  <2>2. call[c].pc = "conclude"
    BY <1>5 DEF Correct, Concludes, At
  <2> QED
    BY <2>1, <2>2, CorrectGood, BecomeInv
<1>6. ASSUME NEW r \in Responses, CorrectiveReply(c, r) PROVE ChatInv'
  <2> DEFINE h == [call[c] EXCEPT !.charged = call[c].charged + r.tokens]
  <2>1. call[c].pc = "request" /\ call[c].corrective
    BY <1>6 DEF CorrectiveReply, At
  <2>2. \/ r.content = "valid" /\ Become(c, Settled(h, r.content))
        \/ Fail(c, h, "schema")
    BY <1>6 DEF CorrectiveReply
  <2>3. /\ Shaped(h) /\ Replied(h) /\ Billed(h) /\ h.total_tokens <= Uses(MaxIterations)
        /\ h.sent <= Sends(MaxIterations) + (IF h.corrective THEN MaxAttempts ELSE 0)
    BY <2>1, CorrectedFacts
  <2> HIDE DEF h
  <2>4. r.content \in Contents
    BY ResponseFacts
  <2>5. r.content = "valid" => Good(Settled(h, r.content))
    BY <2>3, <2>4, SettledGood
  <2> QED
    BY <2>2, <2>3, <2>5, FailInv, BecomeInv
<1> QED
  BY <1>1, <1>2, <1>3, <1>4, <1>5, <1>6

(* What record_cost_at does to the ledger.                                 *)
LEMMA RecordedCost ==
    ASSUME LedgerTypeOK, NEW cost \in Nat, NEW day \in 0..LastDay, RecordCost(cost, day)
    PROVE  LedgerTypeOK'
<1>1. Recorded(row, cost, day) \in [day : 0..LastDay, usd : Nat]
  BY ConstantFacts DEF LedgerTypeOK, Recorded, CurrentDailyUsd
<1>2. [billed EXCEPT ![day] = @ + cost] \in [Days -> Nat]
  <2>1. CASE day \in Days
    BY <2>1 DEF LedgerTypeOK
  <2>2. CASE day \notin Days
    <3>1. [billed EXCEPT ![day] = @ + cost] = billed
      BY <2>2, Zenon DEF LedgerTypeOK
    <3> QED
      BY <3>1 DEF LedgerTypeOK
  <2> QED
    BY <2>1, <2>2
<1> QED
  BY <1>1, <1>2 DEF LedgerTypeOK, RecordCost

LEMMA RecordInv ==
    ASSUME ChatInv, NEW c \in Callers, Record(c)
    PROVE  ChatInv'
<1> DEFINE t == IF CacheEnabled THEN [call[c] EXCEPT !.pc = "store"]
                ELSE Ended(call[c], Delivered(call[c].validated))
<1>1. /\ call[c].pc = "record" /\ RecordCost(Cost(call[c]), call[c].stamp)
      /\ call' = [call EXCEPT ![c] = t] /\ UNCHANGED cache
  BY DEF Record, At
<1>2. Good(t)
  <2>1. Good([call[c] EXCEPT !.pc = "store"])
    BY <1>1, CallFacts, StoringGood
  <2>2. Fits(call[c].validated, CacheKey(call[c].args))
    BY <1>1, CallFacts DEF Good, Truthful
  <2>3. Good(Ended(call[c], Delivered(call[c].validated)))
    BY <2>2, CallFacts, DeliveredGood
  <2> QED
    BY <2>1, <2>3
<1> HIDE DEF t
<1>3. call[c].total_tokens \in Nat /\ call[c].stamp \in 0..LastDay
  BY CallFacts DEF Shaped
<1>4. Cost(call[c]) \in Nat
  BY <1>3, CostBounded
<1>5. LedgerTypeOK'
  BY <1>1, <1>3, <1>4, RecordedCost DEF ChatInv
<1>6. CacheFits'
  BY <1>1 DEF ChatInv, CacheFits
<1> QED
  BY <1>1, <1>2, <1>5, <1>6, CallMoves DEF ChatInv

LEMMA StoreInv ==
    ASSUME ChatInv, NEW c \in Callers, Store(c)
    PROVE  ChatInv'
<1> DEFINE v == call[c].validated
           key == CacheKey(call[c].args)
           t == Ended(call[c], Delivered(v))
<1>1. /\ call[c].pc = "store" /\ call' = [call EXCEPT ![c] = t] /\ UNCHANGED ledgerVars
      /\ cache' = [cache EXCEPT ![key] = v] \/ UNCHANGED cache
  BY DEF Store, At
<1>2. Fits(v, CacheKey(call[c].args))
  BY <1>1, CallFacts DEF Good, Truthful
<1>3. key \in Keys
  BY CallFacts DEF Keys
<1>4. Good(t)
  BY <1>2, CallFacts, DeliveredGood
<1>5. Fits(v, key) /\ v \in Values
  BY <1>2 DEF Fits
<1> HIDE DEF v, key, t
<1>6. CacheFits'
  <2>1. CASE UNCHANGED cache
    BY <2>1 DEF ChatInv, CacheFits
  <2>2. CASE cache' = [cache EXCEPT ![key] = v]
    <3>1. cache \in [Keys -> Values \cup {NoValue}]
      BY DEF ChatInv, CacheFits
    <3>2. cache' \in [Keys -> Values \cup {NoValue}]
      BY <1>5, <2>2, <3>1
    <3>3. \A k \in Keys : cache'[k] = IF k = key THEN v ELSE cache[k]
      BY <2>2, <3>1
    <3>4. \A k \in Keys : cache'[k] = NoValue \/ Fits(cache'[k], k)
      BY <1>5, <3>3 DEF ChatInv, CacheFits
    <3> QED
      BY <3>2, <3>4 DEF CacheFits
  <2> QED
    BY <1>1, <2>1, <2>2
<1>7. LedgerTypeOK'
  BY <1>1 DEF ChatInv, LedgerTypeOK, ledgerVars
<1> QED
  BY <1>1, <1>4, <1>6, <1>7, CallMoves DEF ChatInv

LEMMA EnvironmentInv ==
    ASSUME ChatInv,
           \/ \E k \in Keys : Forget(k)
           \/ Midnight /\ UNCHANGED engineVars
           \/ UNCHANGED vars
    PROVE  ChatInv'
<1>1. ASSUME NEW k \in Keys, Forget(k) PROVE ChatInv'
  <2>1. cache' = [cache EXCEPT ![k] = NoValue] /\ UNCHANGED <<ledgerVars, call>>
    BY <1>1 DEF Forget
  <2>2. CacheFits'
    <3>1. cache \in [Keys -> Values \cup {NoValue}]
      BY DEF ChatInv, CacheFits
    <3>2. cache' \in [Keys -> Values \cup {NoValue}]
      BY <2>1, <3>1
    <3>3. \A l \in Keys : cache'[l] = IF l = k THEN NoValue ELSE cache[l]
      BY <2>1, <3>1
    <3> QED
      BY <3>2, <3>3 DEF ChatInv, CacheFits
  <2>3. LedgerTypeOK'
    BY <2>1 DEF ChatInv, LedgerTypeOK, ledgerVars
  <2>4. call' \in [Callers -> {call'[c] : c \in Callers}] /\ \A c \in Callers : Good(call'[c])
    BY <2>1 DEF ChatInv
  <2> QED
    BY <2>2, <2>3, <2>4 DEF ChatInv
<1>2. CASE Midnight /\ UNCHANGED engineVars
  <2>1. LedgerTypeOK'
    BY <1>2, ConstantFacts DEF Midnight, ChatInv, LedgerTypeOK, Days
  <2>2. CacheFits' /\ call' = call
    BY <1>2 DEF engineVars, ChatInv, CacheFits
  <2>3. call' \in [Callers -> {call'[c] : c \in Callers}] /\ \A c \in Callers : Good(call'[c])
    BY <2>2 DEF ChatInv
  <2> QED
    BY <2>1, <2>2, <2>3 DEF ChatInv
<1>3. CASE UNCHANGED vars
  <2>1. UNCHANGED <<today, row, billed, call, cache>>
    BY <1>3 DEF vars, engineVars, ledgerVars
  <2>2. LedgerTypeOK' /\ CacheFits'
    BY <2>1 DEF ChatInv, LedgerTypeOK, CacheFits
  <2>3. call' \in [Callers -> {call'[c] : c \in Callers}] /\ \A c \in Callers : Good(call'[c])
    BY <2>1 DEF ChatInv
  <2> QED
    BY <2>2, <2>3 DEF ChatInv
<1> QED
  BY <1>1, <1>2, <1>3

LEMMA NextInv == ChatInv /\ [Next]_vars => ChatInv'
<1> SUFFICES ASSUME ChatInv, [Next]_vars PROVE ChatInv'
  OBVIOUS
<1>1. ASSUME NEW c \in Callers, Begin(c) \/ RenderFails(c) \/ Progress(c) \/ Abandon(c)
      PROVE  ChatInv'
  BY <1>1, BeforeInv, LoopInv, ConcludeInv, RecordInv, StoreInv DEF Progress, ProviderStep
<1> QED
  BY <1>1, EnvironmentInv DEF Next

THEOREM EngineInvariant == Spec => []ChatInv
<1>1. Init => ChatInv
  BY InitInv
<1>2. ChatInv /\ [Next]_vars => ChatInv'
  BY NextInv
<1> QED
  BY <1>1, <1>2, PTL DEF Spec

-----------------------------------------------------------------------------
(* What follows *)

(* The locals of execute_with_usage keep their types (engine.rs:110-453).  *)
THEOREM EngineTypeCorrect == Spec => []TypeOK
<1>1. ChatInv => TypeOK
  <2> SUFFICES ASSUME ChatInv PROVE TypeOK
    OBVIOUS
  <2>1. ASSUME NEW c \in Callers
        PROVE  /\ call[c].pc \in {"idle", "gate", "lookup", "prefetch", "request", "backoff",
                                  "dispatch", "conclude", "record", "store"}
               /\ call[c].args \in Args
               /\ call[c].stamp \in 0..LastDay
               /\ call[c].iter \in 0..MaxIterations
               /\ At(c, "request") /\ ~call[c].corrective => call[c].iter < MaxIterations
               /\ call[c].attempt \in 0..MaxAttempts
               /\ call[c].validated \in Values \cup {NoValue}
               /\ call[c].reply.value \in Values \cup {NoValue}
    <3>1. Good(call[c]) /\ Shaped(call[c])
      BY CallFacts
    <3>2. At(c, "request") /\ ~call[c].corrective => call[c].iter < MaxIterations
      BY <3>1 DEF Good, Counted, At
    <3> QED
      BY <3>1, <3>2 DEF Shaped
  <2>2. LedgerTypeOK /\ cache \in [Keys -> Values \cup {NoValue}]
    BY DEF ChatInv, CacheFits
  <2> QED
    BY <2>1, <2>2 DEF TypeOK
<1> QED
  BY <1>1, EngineInvariant, PTL

LEMMA RequestsBounded ==
    ASSUME NEW s, Good(s)
    PROVE  s.sent <= MaxAttempts * (MaxIterations + IF s.corrective THEN 1 ELSE 0)
<1>1. /\ s.iter \in 0..MaxIterations /\ s.attempt \in 0..MaxAttempts /\ s.sent \in Nat
      /\ MaxIterations \in Nat /\ MaxAttempts \in Nat /\ s.iter \in Nat
  BY ConstantFacts DEF Good, Shaped
<1>2. /\ Sends(MaxIterations) \in Nat
      /\ Sends(MaxIterations + 1) = Sends(MaxIterations) + MaxAttempts
      /\ Sends(s.iter) \in Nat /\ Sends(s.iter) <= Sends(MaxIterations)
      /\ Sends(s.iter + 1) = Sends(s.iter) + MaxAttempts
      /\ s.iter < MaxIterations => Sends(s.iter + 1) <= Sends(MaxIterations)
  <2>1. s.iter < MaxIterations => s.iter + 1 \in 0..MaxIterations
    BY <1>1
  <2> QED
    BY <1>1, <2>1, Rising
<1>3. s.sent <= Sends(Rounds(s)) + Retried(s)
  BY DEF Good, Counted
<1>4. CASE s.corrective
  <2>1. Rounds(s) = MaxIterations /\ Retried(s) \in 0..MaxAttempts
    BY <1>1, <1>4 DEF Rounds, Retried
  <2>2. s.sent <= Sends(MaxIterations + 1)
    BY <1>1, <1>2, <1>3, <2>1
  <2> QED
    BY <1>4, <2>2 DEF Sends
<1>5. CASE ~s.corrective
  <2>1. s.sent <= Sends(MaxIterations)
    <3>1. CASE s.pc \in {"request", "backoff"}
      <4>1. Rounds(s) = s.iter /\ Retried(s) = s.attempt /\ s.iter < MaxIterations
        BY <1>5, <3>1 DEF Good, Counted, Rounds, Retried
      <4> QED
        BY <1>1, <1>2, <1>3, <4>1
    <3>2. CASE s.pc = "dispatch"
      <4>1. Rounds(s) = s.iter + 1 /\ Retried(s) = 0 /\ s.iter < MaxIterations
        BY <1>5, <3>2 DEF Good, Counted, Rounds, Retried
      <4> QED
        BY <1>1, <1>2, <1>3, <4>1
    <3>3. CASE s.pc \notin {"request", "backoff", "dispatch"}
      <4>1. Rounds(s) \in {s.iter, MaxIterations} /\ Retried(s) = 0
        BY <1>5, <3>3 DEF Rounds, Retried
      <4> QED
        BY <1>1, <1>2, <1>3, <4>1
    <3> QED
      BY <3>1, <3>2, <3>3
  <2>2. MaxIterations + (IF s.corrective THEN 1 ELSE 0) = MaxIterations
    BY <1>1, <1>5
  <2> QED
    BY <2>1, <2>2 DEF Sends
<1> QED
  BY <1>4, <1>5

(* Retries, tool turns and the correction add up, for any number of each   *)
(* (engine.rs:225, 303-331, 636-639, 683-740).                             *)
THEOREM RequestsAddUp == Spec => []SentBounded
<1>1. ChatInv => SentBounded
  BY RequestsBounded, CallFacts DEF SentBounded
<1> QED
  BY <1>1, EngineInvariant, PTL

(* A call bills the loop's tokens and no others, below the per-call cap    *)
(* (engine.rs:234-263, 419).                                               *)
THEOREM BillingIsOfTheLoop == Spec => []BilledForTheLoop
<1>1. ChatInv => BilledForTheLoop
  BY CallFacts DEF BilledForTheLoop, Good, Billed
<1> QED
  BY <1>1, EngineInvariant, PTL

(* Nothing that failed the schema is delivered or cached, whatever the     *)
(* policies, the provider and the cache do (engine.rs:390-440, 683-740).   *)
THEOREM OnlyValidIsDelivered == Spec => []OnlyValidAnswers
<1>1. ChatInv => OnlyValidAnswers
  BY CallFacts DEF OnlyValidAnswers, Good, Truthful, Replied, Fits, ChatInv, CacheFits
<1> QED
  BY <1>1, EngineInvariant, PTL

LEMMA Joined ==
    ASSUME NEW S, NEW s \in Seq(S), NEW u \in Seq(S), NEW e \in S
    PROVE  /\ Len(s \o <<e>> \o u) = Len(s) + 1 + Len(u)
           /\ (s \o <<e>> \o u)[Len(s) + 1] = e
           /\ \A i \in 1..Len(s) : (s \o <<e>> \o u)[i] = s[i]
           /\ \A i \in 1..Len(u) : (s \o <<e>> \o u)[Len(s) + 1 + i] = u[i]
<1> DEFINE t == s \o <<e>>
<1>1. /\ t \in Seq(S) /\ Len(t) = Len(s) + 1 /\ t[Len(s) + 1] = e
      /\ \A i \in 1..Len(s) : t[i] = s[i]
  OBVIOUS
<1>2. Len(s) \in Nat /\ Len(u) \in Nat
  OBVIOUS
<1> HIDE DEF t
<1>3. /\ Len(t \o u) = Len(s) + 1 + Len(u)
      /\ (t \o u)[Len(s) + 1] = e
      /\ \A i \in 1..Len(s) : (t \o u)[i] = s[i]
      /\ \A i \in 1..Len(u) : (t \o u)[Len(s) + 1 + i] = u[i]
  BY <1>1, <1>2
<1> QED
  BY <1>3 DEF t

(* Where a joined sequence has the one mark of its first form, it was cut. *)
LEMMA CutOnce ==
    ASSUME NEW s \in Seq(Characters), NEW u \in Seq(Characters),
           NEW t \in Seq(Characters), NEW v \in Seq(Characters),
           \A i \in 1..Len(s) : s[i] # Nul, \A i \in 1..Len(u) : u[i] # Nul,
           s \o <<Nul>> \o u = t \o <<Nul>> \o v
    PROVE  s = t /\ u = v
<1> DEFINE key == s \o <<Nul>> \o u
           m == Len(s)
           n == Len(t)
<1>0. Nul \in Characters
  BY DEF Characters
<1>1. m \in Nat /\ n \in Nat /\ Len(u) \in Nat /\ Len(v) \in Nat
  OBVIOUS
<1>2. /\ Len(key) = m + 1 + Len(u) /\ key[m + 1] = Nul
      /\ \A i \in 1..m : key[i] = s[i]
      /\ \A i \in 1..Len(u) : key[m + 1 + i] = u[i]
  BY <1>0, Joined
<1>3. key = t \o <<Nul>> \o v
  OBVIOUS
<1>4. /\ Len(key) = n + 1 + Len(v) /\ key[n + 1] = Nul
      /\ \A i \in 1..n : key[i] = t[i]
      /\ \A i \in 1..Len(v) : key[n + 1 + i] = v[i]
  <2> HIDE DEF key
  <2> QED
    BY <1>0, <1>3, Joined
<1>5. ASSUME NEW i \in 1..Len(key), i # m + 1
      PROVE  key[i] # Nul
  <2> HIDE DEF key
  <2>1. CASE i <= m
    <3>1. i \in 1..m /\ i \in 1..Len(s)
      BY <1>1, <1>2, <2>1
    <3> QED
      BY <1>2, <3>1
  <2>2. CASE i > m
    <3> DEFINE j == i - (m + 1)
    <3>1. j \in 1..Len(u) /\ m + 1 + j = i
      BY <1>1, <1>2, <1>5, <2>2
    <3>2. key[m + 1 + j] = u[j] /\ u[j] # Nul
      BY <1>2, <3>1
    <3> QED
      BY <3>1, <3>2
  <2> QED
    BY <1>1, <1>2, <2>1, <2>2
<1> HIDE DEF key
<1>6. m = n /\ Len(u) = Len(v)
  <2> HIDE DEF m, n
  <2>1. n + 1 \in 1..Len(key)
    BY <1>1, <1>4
  <2>2. n + 1 = m + 1
    BY <1>4, <1>5, <2>1
  <2> QED
    BY <1>1, <1>2, <1>4, <2>2
<1>7. s = t
  <2>1. Len(s) = Len(t) /\ \A i \in 1..Len(s) : s[i] = t[i]
    BY <1>2, <1>4, <1>6
  <2> QED
    BY <2>1, SeqEqual
<1>8. u = v
  <2>1. \A i \in 1..Len(u) : u[i] = v[i]
    BY <1>2, <1>4, <1>6
  <2> QED
    BY <1>6, <2>1, SeqEqual
<1> QED
  BY <1>7, <1>8

(* Texts without a NUL can be read back from their key: its first NUL is   *)
(* where the system text ends, whatever the texts are that it came from.   *)
LEMMA KeyTellsTexts ==
    ASSUME NEW a \in Args, NEW b \in Args, NulFree(a), CacheKey(a) = CacheKey(b)
    PROVE  a.system = b.system /\ a.user = b.user
<1>1. /\ a.system \in Seq(Characters) /\ a.user \in Seq(Characters)
      /\ b.system \in Seq(Characters) /\ b.user \in Seq(Characters)
  BY ArgsShape
<1>2. /\ \A i \in 1..Len(a.system) : a.system[i] # Nul
      /\ \A i \in 1..Len(a.user) : a.user[i] # Nul
  <2>1. DOMAIN a.system = 1..Len(a.system) /\ DOMAIN a.user = 1..Len(a.user)
    BY <1>1
  <2> QED
    BY <2>1 DEF NulFree
<1>3. a.system \o <<Nul>> \o a.user = b.system \o <<Nul>> \o b.user
  BY Zenon DEF CacheKey
<1> QED
  BY <1>1, <1>2, <1>3, CutOnce

(* Texts with a NUL cannot: two pairs that differ in both texts have one   *)
(* key, and a call with either is served the other's answer                *)
(* (cache.rs:49-51 says that any change gives a different key).            *)
THEOREM NulsCollide ==
    ASSUME NEW a, NEW b, a.system = <<Nul>>, a.user = <<>>,
           b.system = <<>>, b.user = <<Nul>>
    PROVE  CacheKey(a) = CacheKey(b) /\ a.system # b.system /\ a.user # b.user
<1>1. CacheKey(a) = <<Nul>> \o <<Nul>> \o <<>> /\ CacheKey(b) = <<>> \o <<Nul>> \o <<Nul>>
  BY DEF CacheKey
<1>2. <<Nul>> \in Seq({Nul}) /\ <<>> \in Seq({Nul}) /\ <<Nul>> \o <<Nul>> \in Seq({Nul})
  OBVIOUS
<1>3. <<Nul>> \o <<Nul>> \o <<>> = <<Nul>> \o <<Nul>> /\ <<>> \o <<Nul>> = <<Nul>>
  BY <1>2, ConcatEmptySeq
<1>4. Len(<<Nul>>) = 1 /\ Len(<<>>) = 0
  OBVIOUS
<1> QED
  BY <1>1, <1>3, <1>4

(* With any number of calls sharing a cache, the answer to texts without a *)
(* NUL is to those very texts (cache.rs:70-75, engine.rs:174-191).         *)
THEOREM AnswersAreToTheText == Spec => []AnswersTheText
<1>1. ChatInv => AnswersTheText
  <2> SUFFICES ASSUME ChatInv, NEW c \in Callers, call[c].reply.status = "ok",
                      NulFree(call[c].args)
               PROVE  LET answered == call[c].reply.value.answers
                      IN  /\ answered.system = call[c].args.system
                          /\ answered.user = call[c].args.user
    BY DEF AnswersTheText
  <2> DEFINE answered == call[c].reply.value.answers
  <2>1. call[c].args \in Args /\ Fits(call[c].reply.value, CacheKey(call[c].args))
    BY CallFacts DEF Good, Truthful, Replied
  <2>2. answered \in Args /\ CacheKey(answered) = CacheKey(call[c].args)
    BY <2>1 DEF Fits, Values
  <2> HIDE DEF answered
  <2> QED
    BY <2>1, <2>2, KeyTellsTexts DEF answered
<1> QED
  BY <1>1, EngineInvariant, PTL

-----------------------------------------------------------------------------
(* The engine implements the gate *)

(* What the gate sees of the calls.                                        *)
GatePhases == [c \in Callers |-> GatePhase(call[c].pc)]
GateStamps == [c \in Callers |-> call[c].stamp]
CostOf(s) == IF s.pc = "record" THEN Cost(s) ELSE 0
GateCosts == [c \in Callers |-> CostOf(call[c])]

LEMMA SameValue ==
    ASSUME NEW S, NEW f, f = [d \in S |-> f[d]], NEW c \in S
    PROVE  [f EXCEPT ![c] = f[c]] = f
<1>1. [f EXCEPT ![c] = f[c]] = [d \in S |-> IF d = c THEN f[c] ELSE f[d]]
  OBVIOUS
<1>2. \A d \in S : (IF d = c THEN f[c] ELSE f[d]) = f[d]
  OBVIOUS
<1> QED
  BY <1>1, <1>2

LEMMA GateFunctions ==
    /\ GatePhases = [d \in Callers |-> GatePhases[d]]
    /\ GateStamps = [d \in Callers |-> GateStamps[d]]
    /\ GateCosts = [d \in Callers |-> GateCosts[d]]
BY DEF GatePhases, GateStamps, GateCosts

LEMMA GateSees ==
    ASSUME ChatInv, NEW c \in Callers, NEW t, call' = [call EXCEPT ![c] = t]
    PROVE  /\ GatePhases' = [GatePhases EXCEPT ![c] = GatePhase(t.pc)]
           /\ GateStamps' = [GateStamps EXCEPT ![c] = t.stamp]
           /\ GateCosts' = [GateCosts EXCEPT ![c] = CostOf(t)]
           /\ GatePhases[c] = GatePhase(call[c].pc)
           /\ GateStamps[c] = call[c].stamp
           /\ GateCosts[c] = CostOf(call[c])
<1>1. \A d \in Callers : call'[d] = IF d = c THEN t ELSE call[d]
  BY DEF ChatInv
<1>2. /\ GatePhases' = [d \in Callers |-> GatePhase(call'[d].pc)]
      /\ GateStamps' = [d \in Callers |-> call'[d].stamp]
      /\ GateCosts' = [d \in Callers |-> CostOf(call'[d])]
  BY DEF GatePhases, GateStamps, GateCosts
<1>3. ASSUME NEW d \in Callers
      PROVE  /\ GatePhase(call'[d].pc) = IF d = c THEN GatePhase(t.pc) ELSE GatePhases[d]
             /\ call'[d].stamp = IF d = c THEN t.stamp ELSE GateStamps[d]
             /\ CostOf(call'[d]) = IF d = c THEN CostOf(t) ELSE GateCosts[d]
  <2>1. CASE d = c
    BY <1>1, <2>1
  <2>2. CASE d # c
    BY <1>1, <2>2 DEF GatePhases, GateStamps, GateCosts
  <2> QED
    BY <2>1, <2>2
<1>4. GatePhases' = [GatePhases EXCEPT ![c] = GatePhase(t.pc)]
  BY <1>2, <1>3, GateFunctions
<1>5. GateStamps' = [GateStamps EXCEPT ![c] = t.stamp]
  BY <1>2, <1>3, GateFunctions
<1>6. GateCosts' = [GateCosts EXCEPT ![c] = CostOf(t)]
  BY <1>2, <1>3, GateFunctions
<1> QED
  BY <1>4, <1>5, <1>6 DEF GatePhases, GateStamps, GateCosts

(* A call that goes on: the gate sees nothing.                             *)
LEMMA UnseenMove ==
    ASSUME ChatInv, NEW c \in Callers, NEW t, call' = [call EXCEPT ![c] = t],
           UNCHANGED ledgerVars,
           GatePhase(t.pc) = GatePhase(call[c].pc), t.stamp = call[c].stamp,
           t.pc # "record", call[c].pc # "record"
    PROVE  UNCHANGED Gate!vars
<1>1. GatePhases' = GatePhases /\ GateStamps' = GateStamps /\ GateCosts' = GateCosts
  <2>1. CostOf(t) = 0 /\ CostOf(call[c]) = 0
    BY DEF CostOf
  <2>2. /\ GatePhases' = [GatePhases EXCEPT ![c] = GatePhase(t.pc)]
        /\ GateStamps' = [GateStamps EXCEPT ![c] = t.stamp]
        /\ GateCosts' = [GateCosts EXCEPT ![c] = CostOf(t)]
        /\ GatePhases[c] = GatePhase(call[c].pc)
        /\ GateStamps[c] = call[c].stamp
        /\ GateCosts[c] = CostOf(call[c])
    BY GateSees
  <2>3. /\ [GatePhases EXCEPT ![c] = GatePhases[c]] = GatePhases
        /\ [GateStamps EXCEPT ![c] = GateStamps[c]] = GateStamps
        /\ [GateCosts EXCEPT ![c] = GateCosts[c]] = GateCosts
    BY SameValue, GateFunctions
  <2> QED
    BY <2>1, <2>2, <2>3
<1> QED
  BY <1>1 DEF Gate!vars, Gate!ledgerVars, Gate!gateVars, ledgerVars,
              GatePhases, GateStamps, GateCosts, CostOf, At

(* A call that ends before its record leaves the gate.                     *)
LEMMA LeavingMove ==
    ASSUME ChatInv, NEW c \in Callers, NEW t, call' = [call EXCEPT ![c] = t],
           UNCHANGED ledgerVars,
           GatePhase(call[c].pc) = "calling", t.pc = "idle", t.stamp = call[c].stamp
    PROVE  Gate!Leave(c)
<1>1. call[c].pc # "record"
  BY DEF GatePhase
<1>2. CostOf(t) = 0 /\ CostOf(call[c]) = 0 /\ GatePhase(t.pc) = "idle"
  BY <1>1 DEF CostOf, GatePhase
<1>3. /\ GatePhases' = [GatePhases EXCEPT ![c] = GatePhase(t.pc)]
      /\ GateStamps' = [GateStamps EXCEPT ![c] = t.stamp]
      /\ GateCosts' = [GateCosts EXCEPT ![c] = CostOf(t)]
      /\ GatePhases[c] = GatePhase(call[c].pc)
      /\ GateStamps[c] = call[c].stamp
      /\ GateCosts[c] = CostOf(call[c])
  BY GateSees
<1>4. /\ [GateStamps EXCEPT ![c] = GateStamps[c]] = GateStamps
      /\ [GateCosts EXCEPT ![c] = GateCosts[c]] = GateCosts
  BY SameValue, GateFunctions
<1>5. GateStamps' = GateStamps /\ GateCosts' = GateCosts
  BY <1>2, <1>3, <1>4
<1>6. GatePhases' = [GatePhases EXCEPT ![c] = "idle"] /\ GatePhases[c] = "calling"
  BY <1>2, <1>3
<1> QED
  BY <1>5, <1>6 DEF Gate!Leave, Gate!ledgerVars, ledgerVars,
                    GatePhases, GateStamps, GateCosts, CostOf, At

LEMMA EndedFacts ==
    ASSUME NEW s, Shaped(s), NEW reply
    PROVE  Ended(s, reply).pc = "idle" /\ Ended(s, reply).stamp = s.stamp
BY IdleFresh DEF Ended, Shaped

LEMMA RequestingFacts ==
    ASSUME NEW s, Shaped(s)
    PROVE  Requesting(s).pc = "request" /\ Requesting(s).stamp = s.stamp
BY DEF Requesting, Shaped

LEMMA FailLeaves ==
    ASSUME ChatInv, NEW c \in Callers, GatePhase(call[c].pc) = "calling",
           NEW s, Shaped(s), s.stamp = call[c].stamp, NEW why, Fail(c, s, why)
    PROVE  Gate!Leave(c)
<1>1. LET t == Ended(s, Failed(why))
      IN  t.pc = "idle" /\ t.stamp = call[c].stamp
  BY EndedFacts
<1> QED
  BY <1>1, LeavingMove DEF Fail, Become

(* A call that goes on between the gate and its record.                    *)
LEMMA CallingMove ==
    ASSUME ChatInv, NEW c \in Callers, GatePhase(call[c].pc) = "calling",
           NEW t, GatePhase(t.pc) = "calling", t.stamp = call[c].stamp, Become(c, t)
    PROVE  UNCHANGED Gate!vars
<1>1. t.pc # "record" /\ call[c].pc # "record"
  BY DEF GatePhase
<1> QED
  BY <1>1, UnseenMove DEF Become

CallingPcs == {"lookup", "prefetch", "request", "backoff", "dispatch", "conclude"}

LEMMA CallingPhase == \A pc \in CallingPcs : GatePhase(pc) = "calling"
BY DEF CallingPcs, GatePhase

(* The gate itself.                                                        *)
LEMMA BeginArrives ==
    ASSUME ChatInv, NEW c \in Callers, Begin(c)
    PROVE  Gate!Arrive(c)
<1> DEFINE pc == IF UsdDailyCap > 0 THEN "gate" ELSE AfterGate
<1>1. PICK args \in Args : Become(c, [NewCall(args, today) EXCEPT !.pc = pc])
  BY DEF Begin
<1> DEFINE t == [NewCall(args, today) EXCEPT !.pc = pc]
<1>2. /\ GatePhase(pc) = IF UsdDailyCap > 0 THEN "checking" ELSE "calling"
      /\ pc # "record"
  BY DEF GatePhase, AfterGate
<1> HIDE DEF pc
<1>3. t.pc = pc /\ t.stamp = today
  <2>1. Shaped(NewCall(args, today)) /\ NewCall(args, today).stamp = today
    BY CallFacts, NewCallFresh
  <2> QED
    BY <2>1 DEF Shaped
<1>4. call' = [call EXCEPT ![c] = t] /\ UNCHANGED ledgerVars /\ call[c].pc = "idle"
  BY <1>1 DEF Begin, Become, At
<1> HIDE DEF t
<1>5. CostOf(t) = 0 /\ CostOf(call[c]) = 0 /\ GatePhase(call[c].pc) = "idle"
  BY <1>2, <1>3, <1>4 DEF CostOf, GatePhase
<1>6. /\ GatePhases' = [GatePhases EXCEPT ![c] = GatePhase(t.pc)]
      /\ GateStamps' = [GateStamps EXCEPT ![c] = t.stamp]
      /\ GateCosts' = [GateCosts EXCEPT ![c] = CostOf(t)]
      /\ GatePhases[c] = GatePhase(call[c].pc)
      /\ GateCosts[c] = CostOf(call[c])
  BY <1>4, GateSees
<1>7. GateCosts' = GateCosts
  <2>1. [GateCosts EXCEPT ![c] = GateCosts[c]] = GateCosts
    BY SameValue, GateFunctions
  <2> QED
    BY <1>5, <1>6, <2>1
<1>8. /\ GatePhases[c] = "idle"
      /\ GatePhases' = [GatePhases EXCEPT ![c] = IF UsdDailyCap > 0 THEN "checking" ELSE "calling"]
      /\ GateStamps' = [GateStamps EXCEPT ![c] = today]
  BY <1>2, <1>3, <1>5, <1>6
<1> QED
  BY <1>4, <1>7, <1>8 DEF Gate!Arrive, Gate!ledgerVars, ledgerVars,
                          GatePhases, GateStamps, GateCosts, CostOf, At

LEMMA GateChecks ==
    ASSUME ChatInv, NEW c \in Callers, BudgetRefuses(c) \/ BudgetAdmits(c)
    PROVE  Gate!Refuse(c) \/ Gate!Admit(c)
<1> DEFINE refused == Ended(call[c], Failed("budget"))
           admitted == [call[c] EXCEPT !.pc = AfterGate]
<1>1. call[c].pc = "gate" /\ UNCHANGED ledgerVars
  BY DEF BudgetRefuses, BudgetAdmits, Fail, GoTo, Become, At
<1>2. PICK t :
        /\ t = refused \/ t = admitted
        /\ call' = [call EXCEPT ![c] = t]
        /\ t = refused => CurrentDailyUsd(row, call[c].stamp) >= UsdDailyCap
        /\ t = admitted => CurrentDailyUsd(row, call[c].stamp) < UsdDailyCap
  <2>1. refused.pc = "idle" /\ admitted.pc = AfterGate /\ AfterGate # "idle"
    BY CallFacts, EndedFacts DEF Shaped, AfterGate
  <2>2. refused # admitted
    BY <2>1
  <2> QED
    BY <2>2 DEF BudgetRefuses, BudgetAdmits, Fail, GoTo, Become
<1>3. /\ t.stamp = call[c].stamp
      /\ \/ t = refused /\ t.pc = "idle"
         \/ t = admitted /\ t.pc \in {"lookup", "prefetch"}
  <2>1. refused.pc = "idle" /\ refused.stamp = call[c].stamp
    BY CallFacts, EndedFacts
  <2>2. admitted.pc \in {"lookup", "prefetch"} /\ admitted.stamp = call[c].stamp
    BY CallFacts DEF Shaped, AfterGate
  <2> HIDE DEF refused, admitted
  <2> QED
    BY <1>2, <2>1, <2>2
<1> HIDE DEF refused, admitted
<1>4. CostOf(t) = 0 /\ CostOf(call[c]) = 0 /\ GatePhase(call[c].pc) = "checking"
  BY <1>1, <1>3 DEF CostOf, GatePhase
<1>5. /\ GatePhases' = [GatePhases EXCEPT ![c] = GatePhase(t.pc)]
      /\ GateStamps' = [GateStamps EXCEPT ![c] = t.stamp]
      /\ GateCosts' = [GateCosts EXCEPT ![c] = CostOf(t)]
      /\ GatePhases[c] = GatePhase(call[c].pc)
      /\ GateStamps[c] = call[c].stamp
      /\ GateCosts[c] = CostOf(call[c])
  BY <1>2, GateSees
<1>6. GateStamps' = GateStamps /\ GateCosts' = GateCosts
  <2>1. /\ [GateStamps EXCEPT ![c] = GateStamps[c]] = GateStamps
        /\ [GateCosts EXCEPT ![c] = GateCosts[c]] = GateCosts
    BY SameValue, GateFunctions
  <2> QED
    BY <1>3, <1>4, <1>5, <2>1
<1>7. CASE t = refused /\ t.pc = "idle"
  <2>1. GatePhases[c] = "checking" /\ GatePhases' = [GatePhases EXCEPT ![c] = "idle"]
    BY <1>4, <1>5, <1>7 DEF GatePhase
  <2>2. CurrentDailyUsd(row, GateStamps[c]) >= UsdDailyCap
    BY <1>2, <1>5, <1>7
  <2> QED
    BY <1>1, <1>6, <2>1, <2>2
    DEF Gate!Refuse, Gate!ledgerVars, ledgerVars, Gate!CurrentDailyUsd, CurrentDailyUsd,
        GatePhases, GateStamps, GateCosts, CostOf, At
<1>8. CASE t = admitted /\ t.pc \in {"lookup", "prefetch"}
  <2>1. GatePhases[c] = "checking" /\ GatePhases' = [GatePhases EXCEPT ![c] = "calling"]
    BY <1>4, <1>5, <1>8 DEF GatePhase
  <2>2. CurrentDailyUsd(row, GateStamps[c]) < UsdDailyCap
    BY <1>2, <1>5, <1>8
  <2> QED
    BY <1>1, <1>6, <2>1, <2>2
    DEF Gate!Admit, Gate!ledgerVars, ledgerVars, Gate!CurrentDailyUsd, CurrentDailyUsd,
        GatePhases, GateStamps, GateCosts, CostOf, At
<1> QED
  BY <1>3, <1>7, <1>8

(* The answer stands: the date is read, and the cost is within the gate's  *)
(* bound.                                                                  *)
LEMMA SettlingSucceeds ==
    ASSUME ChatInv, NEW c \in Callers, GatePhase(call[c].pc) = "calling",
           NEW t, Good(t), t.pc = "record", t.stamp = today, Become(c, t)
    PROVE  Gate!Succeed(c)
<1>1. Cost(t) \in 0..(MaxTokens * MaxIterations)
  <2>1. t.total_tokens \in Nat
    BY DEF Good, Shaped
  <2>2. t.total_tokens <= Uses(MaxIterations)
    <3>1. Rounds(t) = MaxIterations
      BY DEF Rounds
    <3> QED
      BY <3>1 DEF Good, Counted
  <2>3. Uses(MaxIterations) \in Nat
    BY Rising, ConstantFacts
  <2>4. Cost(t) \in 0..Uses(MaxIterations)
    BY <2>1, <2>2, <2>3, CostBounded
  <2> QED
    BY <2>4 DEF Uses
<1>2. GatePhase(t.pc) = "recording" /\ CostOf(t) = Cost(t)
  BY DEF GatePhase, CostOf
<1>3. call' = [call EXCEPT ![c] = t] /\ UNCHANGED ledgerVars
  BY DEF Become
<1>4. /\ GatePhases' = [GatePhases EXCEPT ![c] = "recording"]
      /\ GateStamps' = [GateStamps EXCEPT ![c] = today]
      /\ GateCosts' = [GateCosts EXCEPT ![c] = Cost(t)]
      /\ GatePhases[c] = "calling"
  <2>1. /\ GatePhases' = [GatePhases EXCEPT ![c] = GatePhase(t.pc)]
        /\ GateStamps' = [GateStamps EXCEPT ![c] = t.stamp]
        /\ GateCosts' = [GateCosts EXCEPT ![c] = CostOf(t)]
        /\ GatePhases[c] = GatePhase(call[c].pc)
    BY <1>3, GateSees
  <2> QED
    BY <1>2, <2>1
<1> DEFINE usd == Cost(t)
<1> HIDE DEF usd
<1>5. usd \in 0..(MaxTokens * MaxIterations) /\ GateCosts' = [GateCosts EXCEPT ![c] = usd]
  BY <1>1, <1>4 DEF usd
<1> QED
  BY <1>3, <1>4, <1>5
  DEF Gate!Succeed, Gate!ledgerVars, ledgerVars, GatePhases, GateStamps, GateCosts, CostOf, At

LEMMA RecordRecords ==
    ASSUME ChatInv, NEW c \in Callers, Record(c)
    PROVE  Gate!Record(c)
<1> DEFINE t == IF CacheEnabled THEN [call[c] EXCEPT !.pc = "store"]
                ELSE Ended(call[c], Delivered(call[c].validated))
<1>1. /\ call[c].pc = "record" /\ RecordCost(Cost(call[c]), call[c].stamp)
      /\ call' = [call EXCEPT ![c] = t]
  BY DEF Record, At
<1>2. t.pc \in {"store", "idle"} /\ t.stamp = call[c].stamp
  BY CallFacts, EndedFacts DEF Shaped
<1> HIDE DEF t
<1>3. /\ CostOf(t) = 0 /\ CostOf(call[c]) = Cost(call[c])
      /\ GatePhase(t.pc) = "idle" /\ GatePhase(call[c].pc) = "recording"
  BY <1>1, <1>2 DEF CostOf, GatePhase
<1>4. /\ GatePhases' = [GatePhases EXCEPT ![c] = GatePhase(t.pc)]
      /\ GateStamps' = [GateStamps EXCEPT ![c] = t.stamp]
      /\ GateCosts' = [GateCosts EXCEPT ![c] = CostOf(t)]
      /\ GatePhases[c] = GatePhase(call[c].pc)
      /\ GateStamps[c] = call[c].stamp
      /\ GateCosts[c] = CostOf(call[c])
  BY <1>1, GateSees
<1>5. GateStamps' = GateStamps
  <2>1. [GateStamps EXCEPT ![c] = GateStamps[c]] = GateStamps
    BY SameValue, GateFunctions
  <2> QED
    BY <1>2, <1>4, <2>1
<1>6. /\ GatePhases[c] = "recording" /\ GatePhases' = [GatePhases EXCEPT ![c] = "idle"]
      /\ GateCosts' = [GateCosts EXCEPT ![c] = 0]
  BY <1>3, <1>4
<1>7. RecordCost(GateCosts[c], GateStamps[c])
  BY <1>1, <1>3, <1>4
<1> QED
  BY <1>5, <1>6, <1>7
  DEF Gate!Record, Gate!RecordCost, RecordCost, Gate!Recorded, Recorded,
      Gate!CurrentDailyUsd, CurrentDailyUsd, GatePhases, GateStamps, GateCosts, CostOf, At

(* Every step of a call is one of the gate, or unseen.                     *)
LEMMA EngineStep ==
    ASSUME ChatInv, NEW c \in Callers,
           Begin(c) \/ RenderFails(c) \/ Progress(c) \/ Abandon(c)
    PROVE  Gate!Step(c) \/ UNCHANGED Gate!vars
<1> USE CallFacts, CallingPhase DEF CallingPcs
<1>1. CASE Begin(c)
  BY <1>1, BeginArrives DEF Gate!Step
<1>2. CASE RenderFails(c)
  <2>1. PICK args \in Args : Fail(c, NewCall(args, call[c].stamp), "template")
    BY <1>2 DEF RenderFails
  <2> DEFINE new == NewCall(args, call[c].stamp)
             t == Ended(new, Failed("template"))
  <2>2. Shaped(new) /\ new.stamp = call[c].stamp
    <3>1. call[c].stamp \in 0..LastDay
      BY DEF Shaped
    <3> QED
      BY <3>1, NewCallFresh
  <2> HIDE DEF new
  <2>3. t.pc = "idle" /\ t.stamp = call[c].stamp
    BY <2>2, EndedFacts
  <2>4. Become(c, t) /\ call[c].pc = "idle"
    BY <1>2, <2>1 DEF RenderFails, At, Fail, new
  <2> HIDE DEF t
  <2> QED
    BY <2>3, <2>4, UnseenMove DEF Become
<1>3. CASE BudgetRefuses(c) \/ BudgetAdmits(c)
  BY <1>3, GateChecks DEF Gate!Step
<1>4. CASE CacheHit(c)
  <2> DEFINE t == Ended(call[c], Delivered(cache[CacheKey(call[c].args)]))
  <2>1. Become(c, t) /\ call[c].pc = "lookup"
    BY <1>4 DEF CacheHit, At
  <2>2. t.pc = "idle" /\ t.stamp = call[c].stamp
    BY EndedFacts
  <2> HIDE DEF t
  <2> QED
    BY <2>1, <2>2, LeavingMove DEF Become, Gate!Step
<1>5. CASE CacheUndecodable(c) \/ PrefetchFails(c) \/ GiveUp(c) \/ Exhausted(c) \/ Reject(c)
  <2>1. \E why : Fail(c, call[c], why)
    BY <1>5 DEF CacheUndecodable, PrefetchFails, GiveUp, Exhausted, Reject
  <2>2. call[c].pc \in CallingPcs
    BY <1>5 DEF CacheUndecodable, PrefetchFails, GiveUp, Exhausted, Reject, Concludes, At
  <2> QED
    BY <2>1, <2>2, FailLeaves DEF Gate!Step
<1>6. CASE Abandon(c)
  <2>1. CASE call[c].pc = "store"
    <3> DEFINE t == Ended(call[c], Failed("abandoned"))
    <3>1. Become(c, t)
      BY <1>6 DEF Abandon, Fail
    <3>2. t.pc = "idle" /\ t.stamp = call[c].stamp
      BY EndedFacts
    <3>3. GatePhase(t.pc) = GatePhase(call[c].pc)
      BY <2>1, <3>2 DEF GatePhase
    <3> HIDE DEF t
    <3> QED
      BY <2>1, <3>1, <3>2, <3>3, UnseenMove DEF Become
  <2>2. CASE call[c].pc # "store"
    BY <1>6, <2>2, FailLeaves DEF Abandon, Gate!Step
  <2> QED
    BY <2>1, <2>2
<1>7. CASE CacheMiss(c) \/ RetryLater(c)
  <2>1. PICK pc \in CallingPcs : Become(c, [call[c] EXCEPT !.pc = pc])
    BY <1>7 DEF CacheMiss, RetryLater, GoTo
  <2>2. call[c].pc \in CallingPcs
    BY <1>7 DEF CacheMiss, RetryLater, At
  <2>3. LET t == [call[c] EXCEPT !.pc = pc] IN t.pc = pc /\ t.stamp = call[c].stamp
    BY DEF Shaped
  <2> QED
    BY <2>1, <2>2, <2>3, CallingMove
<1>8. CASE Prefetch(c)
  BY <1>8, RequestingFacts, CallingMove DEF Prefetch, At
<1>9. CASE Wake(c)
  <2> DEFINE t == [call[c] EXCEPT !.pc = "request", !.attempt = call[c].attempt + 1,
                                  !.sent = call[c].sent + 1]
  <2>1. Become(c, t) /\ call[c].pc = "backoff"
    BY <1>9 DEF Wake, At
  <2>2. t.pc = "request" /\ t.stamp = call[c].stamp
    BY DEF Shaped
  <2> HIDE DEF t
  <2> QED
    BY <2>1, <2>2, CallingMove
<1>10. ASSUME NEW r \in Responses, LoopReply(c, r)
       PROVE  Gate!Step(c) \/ UNCHANGED Gate!vars
  <2> DEFINE h == Heard(call[c], r)
  <2>1. call[c].pc = "request" /\ ~call[c].corrective
    BY <1>10 DEF LoopReply, At
  <2>2. Shaped(h) /\ h.stamp = call[c].stamp
    <3>1. InTheLoop(h)
      BY <2>1, HeardFacts
    <3>2. h.stamp = call[c].stamp
      BY DEF Heard, Shaped
    <3> QED
      BY <3>1, <3>2 DEF InTheLoop
  <2>3. \/ \E why : Fail(c, h, why)
        \/ Become(c, [h EXCEPT !.pc = "conclude"])
        \/ \E m : Become(c, [h EXCEPT !.pc = "dispatch", !.pending = r.calls, !.messages = m])
    BY <1>10 DEF LoopReply
  <2> HIDE DEF h
  <2>4. CASE \E why : Fail(c, h, why)
    BY <2>1, <2>2, <2>4, FailLeaves DEF Gate!Step
  <2>5. CASE Become(c, [h EXCEPT !.pc = "conclude"])
    <3>1. LET t == [h EXCEPT !.pc = "conclude"] IN t.pc = "conclude" /\ t.stamp = call[c].stamp
      BY <2>2 DEF Shaped
    <3> QED
      BY <2>1, <2>5, <3>1, CallingMove
  <2>6. CASE \E m : Become(c, [h EXCEPT !.pc = "dispatch", !.pending = r.calls, !.messages = m])
    <3>1. PICK m : Become(c, [h EXCEPT !.pc = "dispatch", !.pending = r.calls, !.messages = m])
      BY <2>6
    <3>2. LET t == [h EXCEPT !.pc = "dispatch", !.pending = r.calls, !.messages = m]
          IN  t.pc = "dispatch" /\ t.stamp = call[c].stamp
      BY <2>2 DEF Shaped
    <3> QED
      BY <2>1, <3>1, <3>2, CallingMove
  <2> QED
    BY <2>3, <2>4, <2>5, <2>6
<1>11. ASSUME NEW r \in Responses, CorrectiveReply(c, r)
       PROVE  Gate!Step(c) \/ UNCHANGED Gate!vars
  <2> DEFINE h == [call[c] EXCEPT !.charged = call[c].charged + r.tokens]
  <2>1. call[c].pc = "request" /\ call[c].corrective
    BY <1>11 DEF CorrectiveReply, At
  <2>2. \/ r.content = "valid" /\ Become(c, Settled(h, r.content))
        \/ Fail(c, h, "schema")
    BY <1>11 DEF CorrectiveReply
  <2>3. /\ Shaped(h) /\ Replied(h) /\ Billed(h) /\ h.total_tokens <= Uses(MaxIterations)
        /\ h.sent <= Sends(MaxIterations) + (IF h.corrective THEN MaxAttempts ELSE 0)
    BY <2>1, CorrectedFacts
  <2>4. h.stamp = call[c].stamp
    BY DEF Shaped
  <2> HIDE DEF h
  <2>5. CASE r.content = "valid" /\ Become(c, Settled(h, r.content))
    <3> DEFINE t == Settled(h, r.content)
    <3>1. r.content \in Contents /\ r.content = "valid"
      BY <2>5, ResponseFacts
    <3>2. Good(t) /\ t.pc = "record" /\ t.stamp = today
      BY <2>3, <3>1, SettledGood
    <3>3. Become(c, t)
      BY <2>5
    <3> HIDE DEF t
    <3> QED
      BY <2>1, <3>2, <3>3, SettlingSucceeds DEF Gate!Step
  <2>6. CASE Fail(c, h, "schema")
    BY <2>1, <2>3, <2>4, <2>6, FailLeaves DEF Gate!Step
  <2> QED
    BY <2>2, <2>5, <2>6
<1>12. CASE Dispatch(c)
  <2> DEFINE a == Answered(call[c])
             t == [a EXCEPT !.iter = a.iter + 1]
  <2>1. /\ call[c].pc = "dispatch"
        /\ \/ Become(c, a)
           \/ Become(c, Requesting(t))
           \/ Become(c, [t EXCEPT !.pc = "conclude"])
    BY <1>12 DEF Dispatch, At
  <2>2. Shaped(a) /\ a.iter + 1 \in 0..MaxIterations
    BY <2>1, AnsweredFacts, ConstantFacts DEF Good, InTheLoop, Shaped
  <2>3. a.pc = "dispatch" /\ a.stamp = call[c].stamp
    BY <2>1 DEF Answered, Shaped
  <2> HIDE DEF a
  <2> DEFINE n == a.iter + 1
  <2>4. n \in 0..MaxIterations
    BY <2>2
  <2> HIDE DEF n
  <2>5. Shaped([a EXCEPT !.iter = n]) /\ [a EXCEPT !.iter = n].stamp = call[c].stamp
    BY <2>2, <2>3, <2>4 DEF Shaped
  <2>6. Shaped(t) /\ t.stamp = call[c].stamp
    BY <2>5 DEF n
  <2> HIDE DEF t
  <2>7. Requesting(t).pc = "request" /\ Requesting(t).stamp = call[c].stamp
    BY <2>6, RequestingFacts
  <2>8. LET u == [t EXCEPT !.pc = "conclude"] IN u.pc = "conclude" /\ u.stamp = call[c].stamp
    BY <2>6 DEF Shaped
  <2> QED
    BY <2>1, <2>3, <2>7, <2>8, CallingMove
<1>13. CASE Accept(c)
  <2> DEFINE t == Settled(call[c], call[c].last_response.content)
  <2>1. call[c].pc = "conclude" /\ Acceptable(call[c].last_response.content) /\ Become(c, t)
    BY <1>13 DEF Accept, Concludes, At
  <2>2. Good(t) /\ t.pc = "record" /\ t.stamp = today
    BY <2>1, AcceptGood
  <2> HIDE DEF t
  <2> QED
    BY <2>1, <2>2, SettlingSucceeds DEF Gate!Step
<1>14. CASE Correct(c)
  <2>1. PICK m : Become(c, Requesting([call[c] EXCEPT !.corrective = TRUE, !.messages = m]))
    BY <1>14 DEF Correct
  <2> DEFINE h == [call[c] EXCEPT !.corrective = TRUE, !.messages = m]
  <2>2. call[c].pc = "conclude"
    BY <1>14 DEF Correct, Concludes, At
  <2>3. Shaped(h) /\ h.stamp = call[c].stamp
    BY DEF Shaped
  <2>4. Become(c, Requesting(h))
    BY <2>1
  <2> HIDE DEF h
  <2> QED
    BY <2>2, <2>3, <2>4, RequestingFacts, CallingMove
<1>15. CASE Record(c)
  BY <1>15, RecordRecords DEF Gate!Step
<1>16. CASE Store(c)
  <2> DEFINE t == Ended(call[c], Delivered(call[c].validated))
  <2>1. call[c].pc = "store" /\ call' = [call EXCEPT ![c] = t] /\ UNCHANGED ledgerVars
    BY <1>16 DEF Store, At
  <2>2. t.pc = "idle" /\ t.stamp = call[c].stamp
    BY EndedFacts
  <2> HIDE DEF t
  <2>3. GatePhase(t.pc) = GatePhase(call[c].pc)
    BY <2>1, <2>2 DEF GatePhase
  <2> QED
    BY <2>1, <2>2, <2>3, UnseenMove
<1> QED
  BY <1>1, <1>2, <1>3, <1>4, <1>5, <1>6, <1>7, <1>8, <1>9, <1>10, <1>11, <1>12, <1>13, <1>14,
     <1>15, <1>16 DEF Progress, ProviderStep

LEMMA GateInit == Init => Gate!Init
<1> SUFFICES ASSUME Init PROVE Gate!Init
  OBVIOUS
<1>1. Idle.pc = "idle" /\ Idle.stamp = 0
  <2>1. NewCall(CHOOSE a \in Args : TRUE, 0).stamp = 0
        /\ Shaped(NewCall(CHOOSE a \in Args : TRUE, 0))
    BY NewCallFresh, ConstantFacts
  <2> DEFINE new == NewCall(CHOOSE a \in Args : TRUE, 0)
  <2>2. Idle = [new EXCEPT !.pc = "idle"]
    BY DEF Idle
  <2>3. Shaped(new) /\ new.stamp = 0
    BY <2>1
  <2> HIDE DEF new
  <2> QED
    BY <2>2, <2>3 DEF Shaped
<1>2. \A c \in Callers : call[c] = Idle
  BY DEF Init
<1>3. /\ GatePhases = [c \in Callers |-> "idle"]
      /\ GateStamps = [c \in Callers |-> 0]
      /\ GateCosts = [c \in Callers |-> 0]
  BY <1>1, <1>2 DEF GatePhases, GateStamps, GateCosts, CostOf, GatePhase
<1>4. Gate!LedgerInit
  BY DEF Init, LedgerInit, Gate!LedgerInit, AbsentRow, Gate!AbsentRow, Days, Gate!Days
<1> QED
  BY <1>3, <1>4 DEF Gate!Init, GatePhases, GateStamps, GateCosts, CostOf, At

LEMMA GateNext == ChatInv /\ [Next]_vars => [Gate!Next]_(Gate!vars)
<1> SUFFICES ASSUME ChatInv, [Next]_vars PROVE Gate!Next \/ UNCHANGED Gate!vars
  OBVIOUS
<1>1. ASSUME NEW c \in Callers, Begin(c) \/ RenderFails(c) \/ Progress(c) \/ Abandon(c)
      PROVE  Gate!Next \/ UNCHANGED Gate!vars
  BY <1>1, EngineStep DEF Gate!Next
<1>2. ASSUME UNCHANGED call PROVE UNCHANGED Gate!gateVars
  BY <1>2 DEF Gate!gateVars, At
<1>3. ASSUME NEW k \in Keys, Forget(k) PROVE UNCHANGED Gate!vars
  BY <1>2, <1>3 DEF Forget, Gate!vars, Gate!ledgerVars, ledgerVars
<1>4. CASE Midnight /\ UNCHANGED engineVars
  BY <1>2, <1>4 DEF Gate!Next, Gate!Midnight, Midnight, engineVars
<1>5. CASE UNCHANGED vars
  BY <1>2, <1>5 DEF vars, engineVars, Gate!vars, Gate!ledgerVars, ledgerVars
<1> QED
  BY <1>1, <1>3, <1>4, <1>5 DEF Next

(* To the ledger the engine is the budget gate, for any number of calls in *)
(* flight: what is proved of the gate holds of the engine (engine.rs:132-  *)
(* 148, 405-423; budget.rs).                                               *)
THEOREM EngineImplementsGate == Spec => ImplementsGate
<1>1. Init => Gate!Init
  BY GateInit
<1>2. ChatInv /\ [Next]_vars => [Gate!Next]_(Gate!vars)
  BY GateNext
<1> QED
  BY <1>1, <1>2, EngineInvariant, PTL DEF Spec, Gate!Spec, ImplementsGate

-----------------------------------------------------------------------------
(* The conversation *)

Messages == [role : {"system", "user", "assistant", "tool"}, calls : Seq(Tools)]

(* The tool calls of the turn at i are answered up to the end of the       *)
(* messages, and what is left of them is pending.                          *)
Answering(m, p, i) ==
    /\ \A j \in 1..Len(m[i].calls) : i + j <= Len(m) => m[i + j] = ToolResult(m[i].calls[j])
    /\ \/ i + Len(m[i].calls) <= Len(m)
       \/ /\ i + Len(m[i].calls) = Len(m) + Len(p)
          /\ \A j \in 1..Len(p) : p[j] = m[i].calls[Len(m) - i + j]

Talk(m, p) ==
    /\ m \in Seq(Messages) /\ p \in Seq(Tools)
    /\ \A i \in DOMAIN m : m[i].role = "assistant" => Answering(m, p, i)
    /\ \A i \in DOMAIN m : m[i].role = "tool" =>
        \E k \in 1..(i - 1) : m[k].role = "assistant" /\ i - k <= Len(m[k].calls)
    /\ p # <<>> => \E k \in DOMAIN m :
        m[k].role = "assistant" /\ k + Len(m[k].calls) = Len(m) + Len(p)

LEMMA AppendFacts ==
    ASSUME NEW m \in Seq(Messages), NEW x \in Messages
    PROVE  /\ Append(m, x) \in Seq(Messages) /\ Len(Append(m, x)) = Len(m) + 1
           /\ DOMAIN Append(m, x) = 1..(Len(m) + 1) /\ DOMAIN m = 1..Len(m)
           /\ \A i \in DOMAIN m : Append(m, x)[i] = m[i]
           /\ Append(m, x)[Len(m) + 1] = x
           /\ Len(m) \in Nat
           /\ \A i \in DOMAIN m : m[i].calls \in Seq(Tools) /\ Len(m[i].calls) \in Nat
<1>1. /\ Append(m, x) \in Seq(Messages) /\ Len(Append(m, x)) = Len(m) + 1
      /\ DOMAIN Append(m, x) = 1..(Len(m) + 1) /\ DOMAIN m = 1..Len(m)
      /\ Append(m, x)[Len(m) + 1] = x
      /\ Len(m) \in Nat
  OBVIOUS
<1>2. \A i \in DOMAIN m : Append(m, x)[i] = m[i]
  BY <1>1
<1>3. ASSUME NEW i \in DOMAIN m
      PROVE  m[i].calls \in Seq(Tools) /\ Len(m[i].calls) \in Nat
  <2>1. m[i] \in Messages
    BY <1>1
  <2>2. m[i].calls \in Seq(Tools)
    BY <2>1 DEF Messages
  <2> QED
    BY <2>2
<1> QED
  BY <1>1, <1>2, <1>3

LEMMA ToolCalls == \A r \in Responses : r.calls \in Seq(Tools)
<1> SUFFICES ASSUME NEW r \in Responses PROVE r.calls \in Seq(Tools)
  OBVIOUS
<1>1. r.calls \in Seq({r.calls[i] : i \in DOMAIN r.calls})
  BY ResponseShape
<1>2. {r.calls[i] : i \in DOMAIN r.calls} \subseteq Tools
  BY DEF Tools
<1> QED
  BY <1>1, <1>2

LEMMA NoteAdded ==
    ASSUME NEW m, Talk(m, <<>>)
    PROVE  Talk(Append(m, SystemMessage), <<>>)
<1> DEFINE n == Append(m, SystemMessage)
<1>1. SystemMessage \in Messages /\ SystemMessage.role = "system" /\ m \in Seq(Messages)
  BY DEF SystemMessage, Messages, Talk
<1>2. /\ n \in Seq(Messages) /\ Len(n) = Len(m) + 1
      /\ DOMAIN n = 1..(Len(m) + 1) /\ DOMAIN m = 1..Len(m)
      /\ \A i \in DOMAIN m : n[i] = m[i]
      /\ n[Len(m) + 1] = SystemMessage
      /\ Len(m) \in Nat
      /\ \A i \in DOMAIN m : m[i].calls \in Seq(Tools) /\ Len(m[i].calls) \in Nat
  BY <1>1, AppendFacts
<1> HIDE DEF n
<1>3. \A i \in DOMAIN n : n[i].role \in {"assistant", "tool"} => i \in DOMAIN m /\ n[i] = m[i]
  BY <1>1, <1>2
<1>4. ASSUME NEW i \in DOMAIN n, n[i].role = "assistant"
      PROVE  Answering(n, <<>>, i)
  <2>1. i \in DOMAIN m /\ n[i] = m[i] /\ Answering(m, <<>>, i)
    BY <1>3, <1>4 DEF Talk
  <2>2. i + Len(m[i].calls) <= Len(m)
    <3>1. CASE i + Len(m[i].calls) = Len(m) + Len(<<>>)
      BY <1>2, <2>1, <3>1
    <3> QED
      BY <2>1, <3>1 DEF Answering
  <2>3. \A j \in 1..Len(m[i].calls) :
          i + j \in DOMAIN m /\ n[i + j] = m[i + j] /\ m[i + j] = ToolResult(m[i].calls[j])
    BY <1>2, <2>1, <2>2 DEF Answering
  <2> QED
    BY <1>2, <2>1, <2>2, <2>3 DEF Answering
<1>5. ASSUME NEW i \in DOMAIN n, n[i].role = "tool"
      PROVE  \E k \in 1..(i - 1) : n[k].role = "assistant" /\ i - k <= Len(n[k].calls)
  <2>1. PICK k \in 1..(i - 1) : m[k].role = "assistant" /\ i - k <= Len(m[k].calls)
    BY <1>3, <1>5 DEF Talk
  <2>2. n[k] = m[k]
    BY <1>2, <1>3, <1>5
  <2> QED
    BY <2>1, <2>2
<1> QED
  BY <1>2, <1>4, <1>5 DEF Talk, n

LEMMA TurnBegun ==
    ASSUME NEW m, Talk(m, <<>>), NEW calls \in Seq(Tools)
    PROVE  Talk(Append(m, AssistantTurn(calls)), calls)
<1> DEFINE x == AssistantTurn(calls)
           n == Append(m, x)
<1>1. x \in Messages /\ x.role = "assistant" /\ x.calls = calls /\ m \in Seq(Messages)
  BY DEF AssistantTurn, Messages, Talk
<1> HIDE DEF x
<1>2. /\ n \in Seq(Messages) /\ Len(n) = Len(m) + 1
      /\ DOMAIN n = 1..(Len(m) + 1) /\ DOMAIN m = 1..Len(m)
      /\ \A i \in DOMAIN m : n[i] = m[i]
      /\ n[Len(m) + 1] = x
      /\ Len(m) \in Nat
      /\ \A i \in DOMAIN m : m[i].calls \in Seq(Tools) /\ Len(m[i].calls) \in Nat
  BY <1>1, AppendFacts
<1> HIDE DEF n
<1>3. ASSUME NEW i \in DOMAIN m, m[i].role = "assistant"
      PROVE  Answering(n, calls, i)
  <2>1. n[i] = m[i] /\ Answering(m, <<>>, i)
    BY <1>2, <1>3 DEF Talk
  <2>2. i + Len(m[i].calls) <= Len(m)
    <3>1. CASE i + Len(m[i].calls) = Len(m) + Len(<<>>)
      BY <1>2, <3>1
    <3> QED
      BY <2>1, <3>1 DEF Answering
  <2>3. \A j \in 1..Len(m[i].calls) :
          i + j \in DOMAIN m /\ n[i + j] = m[i + j] /\ m[i + j] = ToolResult(m[i].calls[j])
    BY <1>2, <2>1, <2>2 DEF Answering
  <2> QED
    BY <1>2, <2>1, <2>2, <2>3 DEF Answering
<1>4. Answering(n, calls, Len(m) + 1)
  <2> DEFINE l == Len(m) + 1
  <2>1. n[l].calls = calls /\ Len(n) = l /\ l \in Nat /\ Len(calls) \in Nat
    BY <1>1, <1>2
  <2>2. \A j \in 1..Len(calls) : ~(l + j <= l) /\ l - l + j = j
    BY <2>1
  <2> HIDE DEF l
  <2>3. Answering(n, calls, l)
    BY <2>1, <2>2 DEF Answering
  <2> QED
    BY <2>3 DEF l
<1>5. \A i \in DOMAIN n : n[i].role = "assistant" => Answering(n, calls, i)
  <2> SUFFICES ASSUME NEW i \in DOMAIN n, n[i].role = "assistant" PROVE Answering(n, calls, i)
    OBVIOUS
  <2>1. CASE i \in DOMAIN m
    BY <1>2, <1>3, <2>1
  <2>2. CASE i = Len(m) + 1
    BY <1>4, <2>2
  <2> QED
    BY <1>2, <2>1, <2>2
<1>6. ASSUME NEW i \in DOMAIN n, n[i].role = "tool"
      PROVE  \E k \in 1..(i - 1) : n[k].role = "assistant" /\ i - k <= Len(n[k].calls)
  <2>1. i \in DOMAIN m /\ m[i].role = "tool"
    BY <1>1, <1>2, <1>6
  <2>2. PICK k \in 1..(i - 1) : m[k].role = "assistant" /\ i - k <= Len(m[k].calls)
    BY <2>1 DEF Talk
  <2>3. n[k] = m[k]
    BY <1>2, <2>1
  <2> QED
    BY <2>2, <2>3
<1>7. \E k \in DOMAIN n : n[k].role = "assistant" /\ k + Len(n[k].calls) = Len(n) + Len(calls)
  <2> DEFINE l == Len(m) + 1
  <2>1. l \in DOMAIN n
    <3> HIDE DEF n
    <3> QED
      BY <1>2
  <2>2. n[l].role = "assistant" /\ n[l].calls = calls /\ Len(n) = l
    <3> HIDE DEF n
    <3> QED
      BY <1>1, <1>2
  <2>3. l + Len(n[l].calls) = Len(n) + Len(calls)
    BY <2>2
  <2> HIDE DEF l, n
  <2> QED
    BY <2>1, <2>2, <2>3
<1> QED
  BY <1>2, <1>5, <1>6, <1>7 DEF Talk, n, x

LEMMA ResultAdded ==
    ASSUME NEW m, NEW p, Talk(m, p), p # <<>>
    PROVE  Talk(Append(m, ToolResult(Head(p))), Tail(p))
<1> DEFINE x == ToolResult(Head(p))
           n == Append(m, x)
           q == Tail(p)
<1>1. /\ m \in Seq(Messages) /\ p \in Seq(Tools)
      /\ Head(p) = p[1] /\ Head(p) \in Tools /\ q \in Seq(Tools) /\ Len(q) = Len(p) - 1
      /\ Len(p) \in Nat /\ Len(p) >= 1
      /\ \A j \in 1..Len(q) : q[j] = p[j + 1]
  BY DEF Talk
<1>2. x \in Messages /\ x.role = "tool"
  BY <1>1 DEF ToolResult, Messages
<1>3. x = ToolResult(p[1])
  BY <1>1
<1> HIDE DEF x, q
<1>4. /\ n \in Seq(Messages) /\ Len(n) = Len(m) + 1
      /\ DOMAIN n = 1..(Len(m) + 1) /\ DOMAIN m = 1..Len(m)
      /\ \A i \in DOMAIN m : n[i] = m[i]
      /\ n[Len(m) + 1] = x
      /\ Len(m) \in Nat
      /\ \A i \in DOMAIN m : m[i].calls \in Seq(Tools) /\ Len(m[i].calls) \in Nat
  BY <1>1, <1>2, AppendFacts
<1> HIDE DEF n
<1>5. ASSUME NEW i \in DOMAIN n, n[i].role = "assistant"
      PROVE  Answering(n, q, i)
  <2>1. i \in DOMAIN m /\ n[i] = m[i] /\ Answering(m, p, i) /\ i \in Nat
    BY <1>2, <1>4, <1>5 DEF Talk
  <2> DEFINE calls == m[i].calls
  <2>2. Len(calls) \in Nat
    BY <1>4, <2>1
  <2>3. /\ \A j \in 1..Len(calls) : i + j <= Len(m) => m[i + j] = ToolResult(calls[j])
        /\ \/ i + Len(calls) <= Len(m)
           \/ /\ i + Len(calls) = Len(m) + Len(p)
              /\ \A j \in 1..Len(p) : p[j] = calls[Len(m) - i + j]
    BY <2>1 DEF Answering
  <2> HIDE DEF calls
  <2>4. CASE i + Len(calls) <= Len(m)
    <3>1. \A j \in 1..Len(calls) :
            i + j \in DOMAIN m /\ n[i + j] = m[i + j] /\ m[i + j] = ToolResult(calls[j])
      BY <1>4, <2>1, <2>2, <2>3, <2>4
    <3>2. i + Len(calls) <= Len(n)
      BY <1>4, <2>1, <2>2, <2>4
    <3> QED
      BY <2>1, <3>1, <3>2 DEF Answering, calls
  <2>5. CASE /\ i + Len(calls) = Len(m) + Len(p)
             /\ \A j \in 1..Len(p) : p[j] = calls[Len(m) - i + j]
    <3>1. p[1] = calls[Len(m) - i + 1]
      BY <1>1, <2>5
    <3>2. ASSUME NEW j \in 1..Len(calls), i + j <= Len(n)
          PROVE  n[i + j] = ToolResult(calls[j])
      <4>1. CASE i + j <= Len(m)
        BY <1>4, <2>1, <2>3, <4>1
      <4>2. CASE i + j = Len(m) + 1
        <5>1. j = Len(m) - i + 1
          BY <1>4, <2>1, <4>2
        <5> QED
          BY <1>3, <1>4, <3>1, <4>2, <5>1
      <4> QED
        BY <1>4, <2>1, <3>2, <4>1, <4>2
    <3>3. i + Len(calls) = Len(n) + Len(q)
      BY <1>1, <1>4, <2>1, <2>2, <2>5
    <3>4. ASSUME NEW j \in 1..Len(q) PROVE q[j] = calls[Len(n) - i + j]
      <4>1. j + 1 \in 1..Len(p) /\ Len(m) - i + (j + 1) = Len(n) - i + j
        BY <1>1, <1>4, <2>1
      <4>2. p[j + 1] = calls[Len(m) - i + (j + 1)]
        BY <2>5, <4>1
      <4> QED
        BY <1>1, <4>1, <4>2
    <3> QED
      BY <2>1, <3>2, <3>3, <3>4 DEF Answering, calls
  <2> QED
    BY <2>3, <2>4, <2>5
<1>6. PICK l \in DOMAIN m : m[l].role = "assistant" /\ l + Len(m[l].calls) = Len(m) + Len(p)
  BY DEF Talk
<1>7. n[l] = m[l] /\ l \in 1..Len(m) /\ Len(m[l].calls) \in Nat
  BY <1>4
<1>8. ASSUME NEW i \in DOMAIN n, n[i].role = "tool"
      PROVE  \E k \in 1..(i - 1) : n[k].role = "assistant" /\ i - k <= Len(n[k].calls)
  <2>1. CASE i \in DOMAIN m
    <3>1. PICK k \in 1..(i - 1) : m[k].role = "assistant" /\ i - k <= Len(m[k].calls)
      BY <1>4, <1>8, <2>1 DEF Talk
    <3>2. n[k] = m[k]
      BY <1>4, <2>1
    <3> QED
      BY <3>1, <3>2
  <2>2. CASE i = Len(m) + 1
    <3>1. l \in 1..(i - 1) /\ i - l <= Len(m[l].calls)
      BY <1>1, <1>4, <1>6, <1>7, <2>2
    <3> QED
      BY <1>6, <1>7, <3>1
  <2> QED
    BY <1>4, <2>1, <2>2
<1>9. l \in DOMAIN n /\ n[l].role = "assistant" /\ l + Len(n[l].calls) = Len(n) + Len(q)
  BY <1>1, <1>4, <1>6, <1>7
<1> QED
  BY <1>1, <1>4, <1>5, <1>8, <1>9 DEF Talk, n, q, x

(* A call is at its tools exactly when some of their results are missing.  *)
Said(s) == Talk(s.messages, s.pending) /\ (s.pc = "dispatch" <=> s.pending # <<>>)

TalkInv == \A c \in Callers : Said(call[c])

LEMMA Opening == Talk(<<SystemMessage, UserMessage>>, <<>>)
<1> DEFINE m == <<SystemMessage, UserMessage>>
<1>1. /\ SystemMessage \in Messages /\ UserMessage \in Messages
      /\ SystemMessage.role = "system" /\ UserMessage.role = "user"
  BY DEF SystemMessage, UserMessage, Messages
<1>2. m \in Seq(Messages) /\ \A i \in DOMAIN m : m[i].role \notin {"assistant", "tool"}
  BY <1>1
<1> QED
  BY <1>2 DEF Talk

LEMMA NewCallSaid ==
    ASSUME NEW args \in Args, NEW day \in 0..LastDay
    PROVE  /\ NewCall(args, day).messages = <<SystemMessage, UserMessage>>
           /\ NewCall(args, day).pending = <<>>
BY DEF NewCall

LEMMA EndedSaid ==
    ASSUME NEW s, Shaped(s), NEW reply
    PROVE  Said(Ended(s, reply))
<1> DEFINE new == NewCall(CHOOSE a \in Args : TRUE, 0)
<1>1. (CHOOSE a \in Args : TRUE) \in Args /\ 0 \in 0..LastDay
  BY ConstantFacts
<1>2. Shaped(new) /\ new.messages = <<SystemMessage, UserMessage>> /\ new.pending = <<>>
  BY <1>1, NewCallFresh, NewCallSaid
<1>3. Idle = [new EXCEPT !.pc = "idle"]
  BY DEF Idle
<1> HIDE DEF new
<1>4. Idle.messages = <<SystemMessage, UserMessage>> /\ Idle.pending = <<>>
  BY <1>2, <1>3 DEF Shaped
<1>5. /\ Ended(s, reply).messages = Idle.messages /\ Ended(s, reply).pending = Idle.pending
      /\ Ended(s, reply).pc = "idle"
  BY IdleFresh, EndedFacts DEF Ended, Shaped
<1> QED
  BY <1>4, <1>5, Opening DEF Said

LEMMA KeptSaid ==
    ASSUME NEW s, Said(s), s.pc # "dispatch",
           NEW t, t.messages = s.messages, t.pending = s.pending, t.pc # "dispatch"
    PROVE  Said(t)
BY DEF Said

LEMMA SaidMoves ==
    ASSUME ChatInv, TalkInv, NEW c \in Callers, NEW t, Said(t), call' = [call EXCEPT ![c] = t]
    PROVE  TalkInv'
<1>1. \A d \in Callers : call'[d] = IF d = c THEN t ELSE call[d]
  BY DEF ChatInv
<1>2. ASSUME NEW d \in Callers PROVE Said(call'[d])
  <2>1. CASE d = c
    BY <1>1, <2>1
  <2>2. CASE d # c
    BY <1>1, <2>2 DEF TalkInv
  <2> QED
    BY <2>1, <2>2
<1> QED
  BY <1>2 DEF TalkInv

LEMMA FailSaid ==
    ASSUME ChatInv, TalkInv, NEW c \in Callers, NEW s, Shaped(s), NEW why, Fail(c, s, why)
    PROVE  TalkInv'
BY EndedSaid, SaidMoves DEF Fail, Become

LEMMA RequestingSaid ==
    ASSUME NEW s, Shaped(s), Talk(s.messages, s.pending), s.pending = <<>>
    PROVE  Said(Requesting(s))
<1>1. /\ Requesting(s).messages = s.messages /\ Requesting(s).pending = s.pending
      /\ Requesting(s).pc = "request"
  BY DEF Requesting, Shaped
<1> QED
  BY <1>1 DEF Said

(* Every step of a call keeps the conversation.                            *)
LEMMA StepSaid ==
    ASSUME ChatInv, TalkInv, NEW c \in Callers,
           Begin(c) \/ RenderFails(c) \/ Progress(c) \/ Abandon(c)
    PROVE  TalkInv'
<1> USE CallFacts
<1> DEFINE s == call[c]
<1>a. Said(s) /\ (s.pc # "dispatch" => s.pending = <<>> /\ Talk(s.messages, <<>>))
  BY DEF TalkInv, Said
<1>1. CASE Begin(c)
  <2> DEFINE pc == IF UsdDailyCap > 0 THEN "gate" ELSE AfterGate
  <2>1. PICK args \in Args : Become(c, [NewCall(args, today) EXCEPT !.pc = pc])
    BY <1>1 DEF Begin
  <2>2. pc # "dispatch"
    BY DEF AfterGate
  <2> DEFINE new == NewCall(args, today)
             t == [new EXCEPT !.pc = pc]
  <2>3. Shaped(new) /\ new.messages = <<SystemMessage, UserMessage>> /\ new.pending = <<>>
    BY NewCallFresh, NewCallSaid
  <2> HIDE DEF new, pc
  <2>4. t.messages = <<SystemMessage, UserMessage>> /\ t.pending = <<>> /\ t.pc # "dispatch"
    BY <2>2, <2>3 DEF Shaped
  <2>5. call' = [call EXCEPT ![c] = t]
    BY <2>1 DEF Become, new
  <2> HIDE DEF t
  <2> QED
    BY <2>4, <2>5, Opening, SaidMoves DEF Said
<1>2. CASE RenderFails(c)
  <2>1. PICK args \in Args : Fail(c, NewCall(args, call[c].stamp), "template")
    BY <1>2 DEF RenderFails
  <2>2. call[c].stamp \in 0..LastDay
    BY DEF Shaped
  <2> QED
    BY <2>1, <2>2, NewCallFresh, FailSaid
<1>3. CASE \/ BudgetRefuses(c) \/ CacheUndecodable(c) \/ PrefetchFails(c) \/ GiveUp(c)
           \/ Exhausted(c) \/ Reject(c) \/ Abandon(c)
  <2>1. \E why : Fail(c, s, why)
    BY <1>3 DEF BudgetRefuses, CacheUndecodable, PrefetchFails, GiveUp, Exhausted, Reject, Abandon
  <2> QED
    BY <2>1, FailSaid
<1>4. CASE CacheHit(c)
  <2>1. call' = [call EXCEPT ![c] = Ended(s, Delivered(cache[CacheKey(s.args)]))]
    BY <1>4 DEF CacheHit, Become
  <2> QED
    BY <2>1, EndedSaid, SaidMoves
<1>5. CASE BudgetAdmits(c) \/ CacheMiss(c) \/ RetryLater(c)
  <2>1. PICK pc : pc # "dispatch" /\ Become(c, [s EXCEPT !.pc = pc])
    BY <1>5 DEF BudgetAdmits, CacheMiss, RetryLater, GoTo, AfterGate
  <2>2. s.pc # "dispatch"
    BY <1>5 DEF BudgetAdmits, CacheMiss, RetryLater, At
  <2> DEFINE t == [s EXCEPT !.pc = pc]
  <2>3. t.messages = s.messages /\ t.pending = s.pending /\ t.pc = pc
    BY DEF Shaped
  <2>4. call' = [call EXCEPT ![c] = t]
    BY <2>1 DEF Become
  <2> HIDE DEF t, s
  <2> QED
    BY <1>a, <2>1, <2>2, <2>3, <2>4, KeptSaid, SaidMoves
<1>6. CASE Prefetch(c)
  <2>1. s.pc = "prefetch" /\ call' = [call EXCEPT ![c] = Requesting(s)]
    BY <1>6 DEF Prefetch, At, Become
  <2>2. Said(Requesting(s))
    BY <1>a, <2>1, RequestingSaid
  <2> QED
    BY <2>1, <2>2, SaidMoves
<1>7. CASE Wake(c)
  <2> DEFINE t == [s EXCEPT !.pc = "request", !.attempt = s.attempt + 1, !.sent = s.sent + 1]
  <2>1. s.pc = "backoff" /\ call' = [call EXCEPT ![c] = t]
    BY <1>7 DEF Wake, At, Become
  <2>2. t.messages = s.messages /\ t.pending = s.pending /\ t.pc = "request"
    BY DEF Shaped
  <2> HIDE DEF t, s
  <2> QED
    BY <1>a, <2>1, <2>2, KeptSaid, SaidMoves
<1>8. ASSUME NEW r \in Responses, LoopReply(c, r) PROVE TalkInv'
  <2> DEFINE h == Heard(s, r)
  <2>1. s.pc = "request" /\ ~s.corrective
    BY <1>8 DEF LoopReply, At
  <2>2. Shaped(h)
    BY <2>1, HeardFacts DEF InTheLoop
  <2>3. h.messages = s.messages /\ h.pending = s.pending
    BY DEF Heard, Shaped
  <2>4. \/ \E why : Fail(c, h, why)
        \/ Become(c, [h EXCEPT !.pc = "conclude"])
        \/ /\ r.calls # <<>>
           /\ Become(c, [h EXCEPT !.pc = "dispatch", !.pending = r.calls,
                                  !.messages = Append(h.messages, AssistantTurn(r.calls))])
    BY <1>8 DEF LoopReply
  <2>5. Talk(h.messages, <<>>) /\ h.pending = <<>>
    BY <1>a, <2>1, <2>3
  <2> HIDE DEF h
  <2>6. CASE \E why : Fail(c, h, why)
    BY <2>2, <2>6, FailSaid
  <2>7. CASE Become(c, [h EXCEPT !.pc = "conclude"])
    <3> DEFINE t == [h EXCEPT !.pc = "conclude"]
    <3>1. t.messages = h.messages /\ t.pending = h.pending /\ t.pc = "conclude"
      BY <2>2 DEF Shaped
    <3>2. call' = [call EXCEPT ![c] = t]
      BY <2>7 DEF Become
    <3> HIDE DEF t
    <3>3. Said(t)
      BY <2>5, <3>1 DEF Said
    <3> QED
      BY <3>2, <3>3, SaidMoves
  <2>8. CASE /\ r.calls # <<>>
             /\ Become(c, [h EXCEPT !.pc = "dispatch", !.pending = r.calls,
                                    !.messages = Append(h.messages, AssistantTurn(r.calls))])
    <3> DEFINE m == Append(h.messages, AssistantTurn(r.calls))
               t == [h EXCEPT !.pc = "dispatch", !.pending = r.calls, !.messages = m]
    <3>1. Talk(m, r.calls)
      BY <2>5, ToolCalls, TurnBegun
    <3>2. call' = [call EXCEPT ![c] = t]
      BY <2>8 DEF Become
    <3> HIDE DEF m
    <3>3. t.messages = m /\ t.pending = r.calls /\ t.pc = "dispatch"
      BY <2>2 DEF Shaped
    <3> HIDE DEF t
    <3>4. Said(t)
      BY <2>8, <3>1, <3>3 DEF Said
    <3> QED
      BY <3>2, <3>4, SaidMoves
  <2> QED
    BY <2>4, <2>6, <2>7, <2>8
<1>9. ASSUME NEW r \in Responses, CorrectiveReply(c, r) PROVE TalkInv'
  <2> DEFINE h == [s EXCEPT !.charged = s.charged + r.tokens]
             t == Settled(h, r.content)
  <2>1. s.pc = "request" /\ s.corrective
    BY <1>9 DEF CorrectiveReply, At
  <2>2. Become(c, t) \/ Fail(c, h, "schema")
    BY <1>9 DEF CorrectiveReply
  <2>3. Shaped(h)
    BY <2>1, CorrectedFacts
  <2>4. h.messages = s.messages /\ h.pending = s.pending
    BY DEF Shaped
  <2> HIDE DEF h
  <2>5. t.messages = h.messages /\ t.pending = h.pending /\ t.pc = "record"
    BY <2>3 DEF Settled, Shaped
  <2> HIDE DEF t, s
  <2>6. Said(t)
    BY <1>a, <2>1, <2>4, <2>5 DEF Said
  <2>7. CASE Become(c, t)
    BY <2>6, <2>7, SaidMoves DEF Become
  <2> QED
    BY <2>2, <2>3, <2>7, FailSaid
<1>10. CASE Dispatch(c)
  <2> DEFINE m == Append(s.messages, ToolResult(Head(s.pending)))
             p == Tail(s.pending)
             a == Answered(s)
             t == [a EXCEPT !.iter = a.iter + 1]
  <2>1. /\ s.pc = "dispatch"
        /\ \/ a.pending # <<>> /\ Become(c, a)
           \/ a.pending = <<>> /\ Become(c, Requesting(t))
           \/ a.pending = <<>> /\ Become(c, [t EXCEPT !.pc = "conclude"])
    BY <1>10 DEF Dispatch, At
  <2>2. Talk(m, p)
    BY <1>a, <2>1, ResultAdded DEF Said
  <2>3. Shaped(a) /\ a.iter + 1 \in 0..MaxIterations
    <3>1. InTheLoop(a)
      BY <2>1, AnsweredFacts
    <3> HIDE DEF a
    <3> QED
      BY <3>1, ConstantFacts DEF InTheLoop, Shaped
  <2>4. a.messages = m /\ a.pending = p /\ a.pc = "dispatch"
    BY <2>1 DEF Answered, Shaped
  <2> HIDE DEF m, p, a
  <2> DEFINE n == a.iter + 1
             u == [a EXCEPT !.iter = n]
  <2>5. u = t /\ n \in 0..MaxIterations
    BY <2>3
  <2> HIDE DEF n
  <2>6. Shaped(u) /\ u.messages = m /\ u.pending = p
    BY <2>3, <2>4, <2>5 DEF Shaped
  <2> HIDE DEF t, u
  <2> DEFINE v == [t EXCEPT !.pc = "conclude"]
  <2>7. v.messages = m /\ v.pending = p /\ v.pc = "conclude"
    BY <2>5, <2>6 DEF Shaped
  <2> HIDE DEF v
  <2>8. CASE a.pending # <<>> /\ Become(c, a)
    BY <2>2, <2>4, <2>8, SaidMoves DEF Become, Said
  <2>9. CASE a.pending = <<>> /\ Become(c, Requesting(t))
    <3>1. Said(Requesting(t))
      BY <2>2, <2>4, <2>5, <2>6, <2>9, RequestingSaid
    <3> QED
      BY <2>9, <3>1, SaidMoves DEF Become
  <2>10. CASE a.pending = <<>> /\ Become(c, v)
    <3>1. Said(v)
      BY <2>2, <2>4, <2>7, <2>10 DEF Said
    <3> QED
      BY <2>10, <3>1, SaidMoves DEF Become
  <2> QED
    BY <2>1, <2>8, <2>9, <2>10 DEF v
<1>11. CASE Accept(c)
  <2> DEFINE t == Settled(s, s.last_response.content)
  <2>1. s.pc = "conclude" /\ call' = [call EXCEPT ![c] = t]
    BY <1>11 DEF Accept, Concludes, At, Become
  <2>2. t.messages = s.messages /\ t.pending = s.pending /\ t.pc = "record"
    BY DEF Settled, Shaped
  <2> HIDE DEF t, s
  <2> QED
    BY <1>a, <2>1, <2>2, KeptSaid, SaidMoves
<1>12. CASE Correct(c)
  <2> DEFINE m == Append(s.messages, SystemMessage)
             h == [s EXCEPT !.corrective = TRUE, !.messages = m]
  <2>1. s.pc = "conclude" /\ call' = [call EXCEPT ![c] = Requesting(h)]
    BY <1>12 DEF Correct, Concludes, At, Become
  <2>2. Talk(m, <<>>) /\ s.pending = <<>>
    BY <1>a, <2>1, NoteAdded
  <2> HIDE DEF m
  <2>3. Shaped(h) /\ h.messages = m /\ h.pending = s.pending
    <3>1. Shaped(s)
      OBVIOUS
    <3> HIDE DEF s
    <3> QED
      BY <3>1 DEF Shaped
  <2> HIDE DEF h, s
  <2>4. Said(Requesting(h))
    BY <2>2, <2>3, RequestingSaid
  <2> QED
    BY <2>1, <2>4, SaidMoves
<1>13. CASE Record(c)
  <2> DEFINE kept == [s EXCEPT !.pc = "store"]
             ended == Ended(s, Delivered(s.validated))
  <2>1. s.pc = "record" /\ \/ call' = [call EXCEPT ![c] = kept]
                           \/ call' = [call EXCEPT ![c] = ended]
    BY <1>13 DEF Record, At
  <2>2. Said(ended)
    BY EndedSaid
  <2>3. kept.messages = s.messages /\ kept.pending = s.pending /\ kept.pc = "store"
    BY DEF Shaped
  <2> HIDE DEF kept, ended, s
  <2> QED
    BY <1>a, <2>1, <2>2, <2>3, KeptSaid, SaidMoves
<1>14. CASE Store(c)
  <2>1. call' = [call EXCEPT ![c] = Ended(s, Delivered(s.validated))]
    BY <1>14 DEF Store
  <2> QED
    BY <2>1, EndedSaid, SaidMoves
<1> QED
  BY <1>1, <1>2, <1>3, <1>4, <1>5, <1>6, <1>7, <1>8, <1>9, <1>10, <1>11, <1>12, <1>13, <1>14
  DEF Progress, ProviderStep

(* What is sent to a provider is a conversation it accepts, for any tools, *)
(* denied or not, any turns and any corrections (engine.rs:296-331).       *)
THEOREM ConversationsAreWellFormed == Spec => []ConversationWellFormed
<1>1. Init => TalkInv
  <2> SUFFICES ASSUME Init PROVE TalkInv
    OBVIOUS
  <2>1. ASSUME NEW c \in Callers PROVE call[c] = Idle
    BY <2>1 DEF Init
  <2>2. Said(Idle)
    <3> DEFINE new == NewCall(CHOOSE a \in Args : TRUE, 0)
    <3>1. (CHOOSE a \in Args : TRUE) \in Args /\ 0 \in 0..LastDay
      BY ConstantFacts
    <3>2. Shaped(new) /\ new.messages = <<SystemMessage, UserMessage>> /\ new.pending = <<>>
      BY <3>1, NewCallFresh, NewCallSaid
    <3>3. Idle = [new EXCEPT !.pc = "idle"]
      BY DEF Idle
    <3> HIDE DEF new
    <3>4. Idle.messages = <<SystemMessage, UserMessage>> /\ Idle.pending = <<>>
          /\ Idle.pc = "idle"
      BY <3>2, <3>3 DEF Shaped
    <3> QED
      BY <3>4, Opening DEF Said
  <2> QED
    BY <2>1, <2>2 DEF TalkInv
<1>2. ChatInv /\ TalkInv /\ [Next]_vars => TalkInv'
  <2> SUFFICES ASSUME ChatInv, TalkInv, [Next]_vars PROVE TalkInv'
    OBVIOUS
  <2>1. ASSUME UNCHANGED call PROVE TalkInv'
    BY <2>1 DEF TalkInv
  <2>2. CASE (\E k \in Keys : Forget(k)) \/ (Midnight /\ UNCHANGED engineVars) \/ UNCHANGED vars
    <3>1. UNCHANGED call
      BY <2>2 DEF Forget, engineVars, vars
    <3> QED
      BY <2>1, <3>1
  <2>3. ASSUME NEW c \in Callers, Begin(c) \/ RenderFails(c) \/ Progress(c) \/ Abandon(c)
        PROVE  TalkInv'
    BY <2>3, StepSaid
  <2> QED
    BY <2>2, <2>3 DEF Next
<1>3. TalkInv => ConversationWellFormed
  <2> SUFFICES ASSUME TalkInv, NEW c \in Callers, At(c, "request")
               PROVE  LET m == call[c].messages
                      IN  /\ \A i \in DOMAIN m : m[i].role = "assistant" => Turn(m, i)
                          /\ \A i \in DOMAIN m : m[i].role = "tool" =>
                              \E k \in 1..(i - 1) :
                                  m[k].role = "assistant" /\ i - k <= Len(m[k].calls)
    BY DEF ConversationWellFormed
  <2> DEFINE m == call[c].messages
  <2>1. Talk(m, <<>>)
    <3>1. Said(call[c]) /\ call[c].pc # "dispatch"
      BY DEF TalkInv, At
    <3> QED
      BY <3>1 DEF Said
  <2> HIDE DEF m
  <2>2. ASSUME NEW i \in DOMAIN m, m[i].role = "assistant" PROVE Turn(m, i)
    <3>1. Answering(m, <<>>, i) /\ m \in Seq(Messages)
      BY <2>1, <2>2 DEF Talk
    <3>2. m[i] \in Messages /\ i \in 1..Len(m) /\ Len(m) \in Nat
      BY <3>1
    <3>3. Len(m[i].calls) \in Nat
      BY <3>2 DEF Messages
    <3>4. i + Len(m[i].calls) <= Len(m)
      BY <3>1, <3>2, <3>3 DEF Answering
    <3>5. \A j \in 1..Len(m[i].calls) : m[i + j] = ToolResult(m[i].calls[j])
      BY <3>1, <3>2, <3>3, <3>4 DEF Answering
    <3> QED
      BY <3>4, <3>5 DEF Turn
  <2> QED
    BY <2>1, <2>2 DEF Talk, m
<1>4. ChatInv /\ [Next]_vars => ChatInv'
  BY NextInv
<1>5. Init => ChatInv
  BY InitInv
<1> QED
  BY <1>1, <1>2, <1>3, <1>4, <1>5, PTL DEF Spec

-----------------------------------------------------------------------------
(* What holds of the prices of every rate card.                            *)

Usages == [input : Nat, cached : Nat, output : Nat]
Reported(usage) == usage \in Usages /\ usage.cached <= usage.input

Prices(entry) ==
    entry.input \in Nat /\ entry.output \in Nat /\ entry.cached \subseteq Nat

(* A call is priced once, for the sum of what its requests used: that is   *)
(* what they cost one by one, as long as no provider reports more cached   *)
(* tokens than tokens (engine.rs:232-234, 388-403, cost.rs:98-113).        *)
THEOREM PricedOnceForAll ==
    ASSUME NEW u, NEW v, Reported(u), Reported(v),
           NEW entry, Prices(entry)
    PROVE  ChatCost(entry, Plus(u, v)) = ChatCost(entry, u) + ChatCost(entry, v)
<1> DEFINE cached == IF entry.cached = {} THEN entry.input ELSE CHOOSE p \in entry.cached : TRUE
           price(n, c, o) == n * entry.input + c * cached + o * entry.output
<1>1. cached \in Nat /\ entry.input \in Nat /\ entry.output \in Nat
  BY DEF Prices
<1>2. /\ Uncached(u) \in Nat /\ u.cached \in Nat /\ u.output \in Nat
      /\ Uncached(v) \in Nat /\ v.cached \in Nat /\ v.output \in Nat
  BY DEF Reported, Usages, Uncached
<1>3. Uncached(Plus(u, v)) = Uncached(u) + Uncached(v)
  BY DEF Reported, Usages, Uncached, Plus
<1>4. \A a, b, p \in Nat : (a + b) * p = a * p + b * p
  OBVIOUS
<1> HIDE DEF cached
<1>5. price(Uncached(u) + Uncached(v), u.cached + v.cached, u.output + v.output)
        = price(Uncached(u), u.cached, u.output) + price(Uncached(v), v.cached, v.output)
  BY <1>1, <1>2, <1>4
<1>6. QED
  BY <1>3, <1>5 DEF ChatCost, Plus, cached

(* The cut-off at u32::MAX undoes none of it: what is billed for a long    *)
(* call is at most the price of what was used, though the cached tokens    *)
(* are cut off too, which are taken off the dearer ones                    *)
(* (engine.rs:389-393, cost.rs:105).                                       *)
THEOREM CutOffNeverOverbills ==
    ASSUME NEW u, Reported(u), NEW entry, Prices(entry), NEW maxU32 \in Nat
    PROVE  ChatCost(entry, Aggregate(u, maxU32)) <= ChatCost(entry, u)
<1> DEFINE cached == IF entry.cached = {} THEN entry.input ELSE CHOOSE p \in entry.cached : TRUE
           a == Aggregate(u, maxU32)
<1>1. cached \in Nat /\ entry.input \in Nat /\ entry.output \in Nat
  BY DEF Prices
<1>2. /\ Uncached(u) \in Nat /\ u.cached \in Nat /\ u.output \in Nat
      /\ Uncached(a) \in Nat /\ a.cached \in Nat /\ a.output \in Nat
      /\ Uncached(a) <= Uncached(u) /\ a.cached <= u.cached /\ a.output <= u.output
  BY DEF Reported, Usages, Uncached, Aggregate, CutOff
<1>3. \A m, n, p \in Nat : m <= n => m * p <= n * p /\ m * p \in Nat /\ n * p \in Nat
  OBVIOUS
<1> HIDE DEF cached, a
<1>4. /\ Uncached(a) * entry.input <= Uncached(u) * entry.input
      /\ a.cached * cached <= u.cached * cached
      /\ a.output * entry.output <= u.output * entry.output
      /\ Uncached(a) * entry.input \in Nat /\ Uncached(u) * entry.input \in Nat
      /\ a.cached * cached \in Nat /\ u.cached * cached \in Nat
      /\ a.output * entry.output \in Nat /\ u.output * entry.output \in Nat
  BY <1>1, <1>2, <1>3
<1>5. /\ ChatCost(entry, a) = Uncached(a) * entry.input + a.cached * cached + a.output * entry.output
      /\ ChatCost(entry, u) = Uncached(u) * entry.input + u.cached * cached + u.output * entry.output
  BY DEF ChatCost, cached
<1>6. QED
  <2> DEFINE a1 == Uncached(a) * entry.input
             a2 == a.cached * cached
             a3 == a.output * entry.output
             u1 == Uncached(u) * entry.input
             u2 == u.cached * cached
             u3 == u.output * entry.output
  <2>1. /\ a1 \in Nat /\ a2 \in Nat /\ a3 \in Nat /\ u1 \in Nat /\ u2 \in Nat /\ u3 \in Nat
        /\ a1 <= u1 /\ a2 <= u2 /\ a3 <= u3
    BY <1>4
  <2>2. ChatCost(entry, a) = a1 + a2 + a3 /\ ChatCost(entry, u) = u1 + u2 + u3
    BY <1>5
  <2> HIDE DEF a1, a2, a3, u1, u2, u3
  <2>3. ChatCost(entry, a) <= ChatCost(entry, u)
    BY <2>1, <2>2
  <2>4. QED
    BY <2>3 DEF a

=============================================================================
