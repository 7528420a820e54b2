-------------------------------- MODULE RateCard --------------------------------
(***************************************************************************)
(* src/cost.rs: what a call costs.  A price is a natural number per token  *)
(* instead of a floating point one per million.                            *)
(***************************************************************************)
EXTENDS Integers, Sequences

(* eq_ignore_ascii_case, for a provider's name as it is spelled.           *)
SameProvider(a, b) == a.name = b.name
Label(name, spelling) == [name |-> name, spelling |-> spelling]

Entry(provider, model, input, cached, output) ==
    [provider |-> provider, model |-> model, input |-> input, cached |-> cached, output |-> output]

(* find_chat, find_embedding: the first entry, as an Option.               *)
Entries(card, provider, model) ==
    {i \in DOMAIN card : SameProvider(card[i].provider, provider) /\ card[i].model = model}

Find(card, provider, model) ==
    {card[i] : i \in {i \in Entries(card, provider, model) :
                        \A j \in Entries(card, provider, model) : i <= j}}

Uncached(usage) == IF usage.input > usage.cached THEN usage.input - usage.cached ELSE 0

(* compute_chat_cost_usd, with the entry's cached price or its full one.   *)
ChatCost(entry, usage) ==
    LET cached == IF entry.cached = {} THEN entry.input ELSE CHOOSE p \in entry.cached : TRUE
    IN  Uncached(usage) * entry.input + usage.cached * cached + usage.output * entry.output

EmbeddingCost(entry, tokens) == tokens * entry.input

(* total_input_tokens and its like: what the loop adds up, in u64.         *)
Plus(u, v) ==
    [input |-> u.input + v.input, cached |-> u.cached + v.cached, output |-> u.output + v.output]

(* aggregate_usage: what is priced is cut off at the largest u32.          *)
CutOff(n, maxU32) == IF n <= maxU32 THEN n ELSE maxU32

Aggregate(usage, maxU32) ==
    [input |-> CutOff(usage.input, maxU32), cached |-> CutOff(usage.cached, maxU32),
     output |-> CutOff(usage.output, maxU32)]

=============================================================================
