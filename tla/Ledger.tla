------------------------------- MODULE Ledger -------------------------------
(***************************************************************************)
(* Prices, caps and reservations: llm/ledger.py.                           *)
(*                                                                         *)
(* Of the table llm_spend only its sums are read, so the sums are the      *)
(* state.  Money is in millionths of a dollar, prices in dollars per       *)
(* million tokens, so that a token at price 1 costs 1.                     *)
(***************************************************************************)
EXTENDS Integers, FiniteSets

CONSTANTS Key,          \* what may be asked: model, system, prompt
          Price,        \* inp and out of each key's model, or Unpriced
          Unpriced,
          Chars,        \* characters of each key's prompt and system
          MaxTokens,    \* max_tokens of each key
          Overhead,     \* tokens added to the estimate: 64 in the code
          CacheWrite,   \* _CACHE_WRITE in percent: 200 or 125
          Total,        \* the account of everything
          Run,          \* an account each: _budget.per_run_usd
          Repo,         \* an account each: per_repo_daily_usd, emptied every day
          Cap

Account == {Total} \cup Run \cup Repo

ASSUME LedgerAssumption ==
    /\ Key # {}
    /\ Price \in [Key -> [inp : Nat, out : Nat] \cup {Unpriced}]
    /\ Chars \in [Key -> Nat] /\ MaxTokens \in [Key -> Nat]
    /\ Overhead \in Nat
    /\ CacheWrite \in Nat
    /\ Total \notin Repo
    /\ Cap \in [Account -> Nat]

VARIABLES
    spent,      \* SUM(usd) over the rows of each account
    held,       \* _held
    next        \* _next

ledgerVars == <<spent, held, next>>
----------------------------------------------------------------------------
(* Prices *)

Larger(m, n) == IF m >= n THEN m ELSE n

\* round(usd, 6), of hundredths of a millionth.
Rounded(hundredths) == (hundredths + 50) \div 100

\* An estimate of the input, at three characters a token.
EstimatedTokens(k) == Chars[k] \div 3 + Overhead

\* What the provider may report of a call: it counts the input as sent, written
\* to its cache or read from it.
Usage(k) ==
    {u \in [input : 0 .. EstimatedTokens(k), write : 0 .. EstimatedTokens(k),
            read : 0 .. EstimatedTokens(k), output : 0 .. MaxTokens[k]] :
        u.input + u.write + u.read <= EstimatedTokens(k)}

Cost(u, price) ==
    Rounded(u.input * price.inp * 100 + u.write * price.inp * CacheWrite
            + u.read * price.inp * 10 + u.output * price.out * 100)

\* Seeded fault: the price of writing to the cache is forgotten.
WorstCaseUncached(k) ==
    Rounded(EstimatedTokens(k) * Price[k].inp * 100 + MaxTokens[k] * Price[k].out * 100)

\* worst_case: all of the input written to the cache, all of the output used.
WorstCase(k) ==
    Rounded(EstimatedTokens(k) * Price[k].inp * Larger(100, CacheWrite)
            + MaxTokens[k] * Price[k].out * 100)
----------------------------------------------------------------------------
(* Reservations *)

\* Seeded fault: the total is not one of them.
AccountsWithoutTotal(a) == a

\* The accounts a call is charged to: the total, and its run and its repository
\* where it has them.
Accounts(a) == a \cup {Total}

Reservation == [id : Nat, usd : Nat, accounts : SUBSET Account]

\* A sum over reservations, as the number of the units they hold.
Units(R) == UNION {{r} \X (1 .. r.usd) : r \in R}
HeldOn(R, a) == Cardinality(Units({r \in R : a \in r.accounts}))

LedgerTypeOK ==
    /\ spent \in [Account -> Nat]
    /\ held \subseteq Reservation /\ IsFiniteSet(held)
    /\ next \in Nat
    /\ \A r \in held : r.id <= next
    /\ \A r, s \in held : r.id = s.id => r = s

LedgerInit ==
    /\ spent = [a \in Account |-> 0]
    /\ held = {}
    /\ next = 0

NewReservation(usd, accounts) == [id |-> next + 1, usd |-> usd, accounts |-> accounts]

\* Seeded fault: calls in flight are not counted.
FitsSpent(usd, accounts) == \A a \in accounts : spent[a] + usd <= Cap[a]

\* What is spent, what is held and what is needed stay within each cap.
Fits(usd, accounts) == \A a \in accounts : spent[a] + HeldOn(held, a) + usd <= Cap[a]

\* Seeded fault: the counter of reservations stands still.
HoldUncounted(r) == held' = held \cup {r} /\ UNCHANGED next

\* reserve, under the lock: refuse, or hold the worst case.
Hold(r) == held' = held \cup {r} /\ next' = next + 1

\* The INSERT of record.
Insert(usd, accounts) ==
    spent' = [a \in Account |-> IF a \in accounts THEN spent[a] + usd ELSE spent[a]]

Release(r) == held' = held \ {r}

\* day_start moves on: no row counts for a repository's day any more.
NewDay ==
    /\ spent' = [a \in Account |-> IF a \in Repo THEN 0 ELSE spent[a]]
    /\ UNCHANGED <<held, next>>
=============================================================================
