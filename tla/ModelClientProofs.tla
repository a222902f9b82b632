------------------------- MODULE ModelClientProofs -------------------------
(***************************************************************************)
(* Prices never exceed the estimate, and sums over reservations grow and   *)
(* shrink by what is added and removed.  With that the caps hold, whatever *)
(* the threads do: spent and held, together; every charge is in the ledger *)
(* or among what the failures lost; and a half written file has a writer.  *)
(***************************************************************************)
EXTENDS ModelClient, FiniteSetTheorems, TLAPS
----------------------------------------------------------------------------
(* The ledger *)

\* Arithmetic the provers need in this form.
LEMMA ProductType == ASSUME NEW m \in Nat, NEW n \in Nat PROVE m * n \in Nat
  OBVIOUS

\* Products grow with both factors.
LEMMA ProductMono ==
    ASSUME NEW a \in Nat, NEW b \in Nat, NEW m \in Nat, a <= b
    PROVE  a * m <= b * m
<1>1. (b - a) * m \in Nat
  BY ProductType
<1>2. b * m = a * m + (b - a) * m
  OBVIOUS
<1>3. a * m \in Nat /\ b * m \in Nat
  BY ProductType
<1> QED BY <1>1, <1>2, <1>3

\* Rounding to cents keeps the order of amounts.
LEMMA RoundedMono ==
    ASSUME NEW m \in Nat, NEW n \in Nat, m <= n
    PROVE  /\ Rounded(m) \in Nat /\ Rounded(n) \in Nat
           /\ Rounded(m) <= Rounded(n)
  BY DEF Rounded

\* Whatever share of the input the provider reports as sent, as written to its
\* cache and as read from it, the call costs at most what was reserved for it
\* (cost, worst_case).
THEOREM CostWithinEstimate ==
    ASSUME NEW k \in Key, Price[k] # Unpriced, NEW u \in Usage(k)
    PROVE  /\ Cost(u, Price[k]) \in Nat /\ WorstCase(k) \in Nat
           /\ Cost(u, Price[k]) <= WorstCase(k)
<1> DEFINE T == EstimatedTokens(k)
           M == MaxTokens[k]
           inp == Price[k].inp
           out == Price[k].out
           L == Larger(100, CacheWrite)
           i == u.input
           w == u.write
           r == u.read
           o == u.output
<1>1. /\ T \in Nat /\ M \in Nat /\ inp \in Nat /\ out \in Nat
      /\ L \in Nat /\ 100 <= L /\ CacheWrite \in Nat /\ CacheWrite <= L
  <2>1. Chars[k] \in Nat /\ Overhead \in Nat
    BY LedgerAssumption
  <2>2. Chars[k] \div 3 \in Nat
    BY <2>1
  <2>3. Price[k] \in [inp : Nat, out : Nat]
    BY LedgerAssumption
  <2> QED BY <2>1, <2>2, <2>3, LedgerAssumption DEF EstimatedTokens, Larger
<1>2. /\ i \in Nat /\ w \in Nat /\ r \in Nat /\ o \in Nat
      /\ i + w + r <= T /\ o <= M
  BY <1>1 DEF Usage
<1> HIDE DEF T, M, inp, out, L, i, w, r, o
<1> DEFINE ip == i * inp
           wp == w * inp
           rp == r * inp
           tp == T * inp
           op == o * out
           mp == M * out
<1>3. /\ ip \in Nat /\ wp \in Nat /\ rp \in Nat /\ tp \in Nat /\ op \in Nat /\ mp \in Nat
  BY <1>1, <1>2, ProductType
<1>4. ip + wp + rp <= tp
  <2>1. (i + w + r) * inp <= T * inp
    BY <1>1, <1>2, ProductMono
  <2>2. (i + w + r) * inp = ip + wp + rp
    BY <1>1, <1>2
  <2> QED BY <2>1, <2>2
<1>5. op <= mp
  BY <1>1, <1>2, ProductMono
<1> HIDE DEF ip, wp, rp, tp, op, mp
<1>6. /\ 100 * ip <= L * ip /\ CacheWrite * wp <= L * wp /\ 10 * rp <= L * rp
      /\ (ip + wp + rp) * L <= tp * L
  BY <1>1, <1>3, <1>4, ProductMono
<1>7. /\ 100 * ip = ip * 100 /\ CacheWrite * wp = wp * CacheWrite /\ 10 * rp = rp * 10
      /\ (ip + wp + rp) * L = L * ip + L * wp + L * rp
      /\ wp * CacheWrite \in Nat /\ L * ip \in Nat /\ L * wp \in Nat /\ L * rp \in Nat
      /\ tp * L \in Nat
  BY <1>1, <1>3
<1>8. ip * 100 + wp * CacheWrite + rp * 10 + op * 100 <= tp * L + mp * 100
  BY <1>3, <1>5, <1>6, <1>7
<1>9. /\ ip * 100 + wp * CacheWrite + rp * 10 + op * 100 \in Nat
      /\ tp * L + mp * 100 \in Nat
  BY <1>3, <1>7
<1>10. /\ Cost(u, Price[k]) = Rounded(ip * 100 + wp * CacheWrite + rp * 10 + op * 100)
       /\ WorstCase(k) = Rounded(tp * L + mp * 100)
  BY DEF Cost, WorstCase, ip, wp, rp, tp, op, mp, T, M, inp, out, L, i, w, r, o
<1> QED BY <1>8, <1>9, <1>10, RoundedMono
-----------------------------------------------------------------------------
(* Sums over reservations *)

\* What one reservation holds, as a set of units.
LEMMA UnitsOfOne ==
    ASSUME NEW r, NEW n \in Nat
    PROVE  /\ IsFiniteSet({r} \X (1 .. n))
           /\ Cardinality({r} \X (1 .. n)) = n
<1> DEFINE f == [j \in 1 .. n |-> <<r, j>>]
<1>1. f \in Bijection(1 .. n, {r} \X (1 .. n))
  <2>1. f \in [1 .. n -> {r} \X (1 .. n)]
    OBVIOUS
  <2>2. \A i, j \in 1 .. n : f[i] = f[j] => i = j
    OBVIOUS
  <2>3. \A x \in {r} \X (1 .. n) : x[2] \in 1 .. n /\ f[x[2]] = x
    OBVIOUS
  <2>4. \A x \in {r} \X (1 .. n) : \E j \in 1 .. n : f[j] = x
    BY <2>3
  <2> HIDE DEF f
  <2>5. f \in Injection(1 .. n, {r} \X (1 .. n))
    BY <2>1, <2>2, Zenon DEF Injection, IsInjective
  <2>6. f \in Surjection(1 .. n, {r} \X (1 .. n))
    BY <2>1, <2>4, Zenon DEF Surjection
  <2> QED BY <2>5, <2>6 DEF Bijection
<1>2. IsFiniteSet(1 .. n) /\ Cardinality(1 .. n) = n
  BY FS_Interval
<1>3. ExistsBijection(1 .. n, {r} \X (1 .. n))
  BY <1>1 DEF ExistsBijection
<1> QED BY <1>2, <1>3, FS_Bijection

\* Reservations whose units can be counted, and how many of them are held on an
\* account.
Countable(R) == R \subseteq Reservation /\ IsFiniteSet(Units(R))
Share(r, a) == IF a \in r.accounts THEN r.usd ELSE 0

\* No reservation, nothing held.
LEMMA NoneHeld == Countable({}) /\ \A a : HeldOn({}, a) = 0
<1>1. Units({}) = {} /\ \A a : {r \in {} : a \in r.accounts} = {}
  BY DEF Units
<1> QED BY <1>1, FS_EmptySet DEF Countable, HeldOn

\* A part of the reservations holds no more.
LEMMA FewerHeld ==
    ASSUME NEW S, Countable(S), NEW R \in SUBSET S
    PROVE  /\ Countable(R)
           /\ \A a : HeldOn(R, a) \in Nat /\ HeldOn(S, a) \in Nat
                     /\ HeldOn(R, a) <= HeldOn(S, a)
<1> DEFINE On(Q, a) == {r \in Q : a \in r.accounts}
<1>1. Units(R) \subseteq Units(S)
  BY DEF Units
<1>2. \A a : Units(On(R, a)) \subseteq Units(On(S, a)) /\ Units(On(S, a)) \subseteq Units(S)
  BY DEF Units
<1>3. Countable(R)
  BY <1>1, FS_Subset DEF Countable
<1>4. \A a : IsFiniteSet(Units(On(S, a)))
  BY <1>2, FS_Subset DEF Countable
<1>5. ASSUME NEW a
      PROVE  /\ IsFiniteSet(Units(On(R, a)))
             /\ Cardinality(Units(On(R, a))) <= Cardinality(Units(On(S, a)))
  <2> DEFINE X == Units(On(S, a))
             Y == Units(On(R, a))
  <2>1. IsFiniteSet(X) /\ Y \in SUBSET X
    BY <1>2, <1>4
  <2> HIDE DEF X, Y
  <2>2. IsFiniteSet(Y) /\ Cardinality(Y) <= Cardinality(X)
    BY <2>1, FS_Subset
  <2> QED BY <2>2 DEF X, Y
<1> QED BY <1>3, <1>4, <1>5, FS_CardinalityType DEF HeldOn

\* One more reservation holds its estimate more.
LEMMA OneMoreHeld ==
    ASSUME NEW R, Countable(R), NEW r \in Reservation, r \notin R
    PROVE  /\ Countable(R \cup {r})
           /\ \A a : /\ HeldOn(R, a) \in Nat
                     /\ HeldOn(R \cup {r}, a) = HeldOn(R, a) + Share(r, a)
<1> DEFINE On(Q, a) == {q \in Q : a \in q.accounts}
           new == {r} \X (1 .. r.usd)
           S == R \cup {r}
<1>1. r.usd \in Nat
  BY DEF Reservation
<1>2. IsFiniteSet(new) /\ Cardinality(new) = r.usd
  BY <1>1, UnitsOfOne
<1>3. Units(S) = Units(R) \cup new
  BY DEF Units
<1>4. Countable(S)
  <2>1. IsFiniteSet(Units(R)) /\ S \subseteq Reservation
    BY DEF Countable
  <2>2. IsFiniteSet(Units(R) \cup new)
    BY <1>2, <2>1, FS_Union
  <2> QED BY <1>3, <2>1, <2>2 DEF Countable
<1>5. ASSUME NEW a PROVE HeldOn(S, a) = HeldOn(R, a) + Share(r, a) /\ HeldOn(R, a) \in Nat
  <2>1. IsFiniteSet(Units(On(R, a))) /\ HeldOn(R, a) \in Nat
    <3>1. Units(On(R, a)) \subseteq Units(R)
      BY DEF Units
    <3> QED BY <3>1, FS_Subset, FS_CardinalityType DEF Countable, HeldOn
  <2>2. CASE a \in r.accounts
    <3>1. Units(On(S, a)) = Units(On(R, a)) \cup new
      BY <2>2 DEF Units
    <3>2. Units(On(R, a)) \cap new = {}
      BY DEF Units
    <3>3. Cardinality(Units(On(S, a)))
            = Cardinality(Units(On(R, a))) + r.usd - Cardinality({})
      BY <1>2, <2>1, <3>1, <3>2, FS_Union
    <3> QED BY <1>1, <2>1, <2>2, <3>3, FS_EmptySet DEF HeldOn, Share
  <2>3. CASE a \notin r.accounts
    <3>1. On(S, a) = On(R, a) /\ Share(r, a) = 0
      BY <2>3 DEF Share
    <3>2. HeldOn(S, a) = HeldOn(R, a)
      BY <3>1 DEF HeldOn
    <3> QED BY <2>1, <3>1, <3>2
  <2> QED BY <2>2, <2>3
<1> QED BY <1>4, <1>5

\* One fewer holds its estimate less.
LEMMA OneLessHeld ==
    ASSUME NEW R, Countable(R), NEW r \in R
    PROVE  /\ Countable(R \ {r})
           /\ \A a : /\ HeldOn(R \ {r}, a) \in Nat /\ Share(r, a) \in Nat
                     /\ HeldOn(R, a) = HeldOn(R \ {r}, a) + Share(r, a)
<1>1. Countable(R \ {r})
  BY FewerHeld
<1>2. r \in Reservation /\ r \notin R \ {r} /\ (R \ {r}) \cup {r} = R
  BY DEF Countable
<1>3. \A a : Share(r, a) \in Nat
  BY <1>2 DEF Share, Reservation
<1> QED BY <1>1, <1>2, <1>3, OneMoreHeld
----------------------------------------------------------------------------
(* Reservations against the caps *)

\* What a thread's reservation covers: the worst case of the call it is about to
\* make, and the cost of the call it is about to record.
Covered ==
    \A t \in Thread :
        /\ thread[t].pc = "call" =>
             /\ Price[thread[t].key] # Unpriced
             /\ thread[t].reservation.usd = WorstCase(thread[t].key)
        /\ thread[t].pc = "record" => thread[t].usd <= thread[t].reservation.usd
        /\ Holds(t) => thread[t].reservation.accounts = thread[t].accounts

IInv == TypeOK /\ HeldByCalls /\ Covered /\ Countable(held) /\ WithinCaps

\* A priced key's worst case is an amount.
LEMMA WorstCaseType ==
    ASSUME NEW k \in Key, Price[k] # Unpriced
    PROVE  WorstCase(k) \in Nat
<1> DEFINE u == [input |-> 0, write |-> 0, read |-> 0, output |-> 0]
<1>1. EstimatedTokens(k) \in Nat /\ MaxTokens[k] \in Nat
  <2>1. Chars[k] \in Nat /\ Overhead \in Nat
    BY LedgerAssumption
  <2>2. Chars[k] \div 3 \in Nat
    BY <2>1
  <2> QED BY <2>1, <2>2, LedgerAssumption DEF EstimatedTokens
<1>2. u \in Usage(k)
  BY <1>1 DEF Usage
<1> QED BY <1>2, CostWithinEstimate

\* The caps survive a step that spends nothing and holds no more.
LEMMA NothingMore ==
    ASSUME IInv, Unrecorded' \subseteq Unrecorded, spent' \in [Account -> Nat],
           \A a \in Account : spent'[a] <= spent[a]
    PROVE  WithinCaps'
<1>1. Unrecorded \subseteq held /\ Countable(Unrecorded)
  BY FewerHeld DEF IInv, Unrecorded
<1>2. \A a : /\ HeldOn(Unrecorded', a) \in Nat /\ HeldOn(Unrecorded, a) \in Nat
             /\ HeldOn(Unrecorded', a) <= HeldOn(Unrecorded, a)
  BY <1>1, FewerHeld
<1> QED
  <2> SUFFICES ASSUME NEW a \in Account
               PROVE  spent'[a] + HeldOn(Unrecorded', a) <= Cap[a]
    BY DEF WithinCaps, HeldOn
  <2>1. spent[a] + HeldOn(Unrecorded, a) <= Cap[a]
    BY DEF IInv, WithinCaps
  <2>2. spent[a] \in Nat /\ spent'[a] \in Nat /\ spent'[a] <= spent[a] /\ Cap[a] \in Nat
    BY LedgerAssumption DEF IInv, TypeOK, LedgerTypeOK
  <2> QED BY <1>2, <2>1, <2>2

\* ... a step that reserves what fits,
LEMMA ReservingFits ==
    ASSUME IInv, NEW r \in Reservation, r \notin held, Fits(r.usd, r.accounts),
           Unrecorded' = Unrecorded \cup {r}, spent' = spent
    PROVE  WithinCaps'
<1>1. Unrecorded \subseteq held /\ r \notin Unrecorded /\ Countable(held)
  BY DEF IInv, Unrecorded
<1>2. Countable(Unrecorded)
      /\ \A a : /\ HeldOn(Unrecorded, a) \in Nat /\ HeldOn(held, a) \in Nat
                /\ HeldOn(Unrecorded, a) <= HeldOn(held, a)
  BY <1>1, FewerHeld
<1>3. \A a : HeldOn(Unrecorded \cup {r}, a) = HeldOn(Unrecorded, a) + Share(r, a)
  BY <1>1, <1>2, OneMoreHeld
<1> SUFFICES ASSUME NEW a \in Account
             PROVE  spent[a] + HeldOn(Unrecorded \cup {r}, a) <= Cap[a]
  BY DEF WithinCaps, HeldOn
<1>4. /\ spent[a] \in Nat /\ Cap[a] \in Nat /\ r.usd \in Nat
      /\ spent[a] + HeldOn(Unrecorded, a) <= Cap[a]
  BY LedgerAssumption DEF IInv, TypeOK, LedgerTypeOK, WithinCaps, Reservation
<1>5. CASE a \in r.accounts
  <2>1. spent[a] + HeldOn(held, a) + r.usd <= Cap[a] /\ Share(r, a) = r.usd
    BY <1>5 DEF Fits, Share
  <2>2. HeldOn(Unrecorded \cup {r}, a) = HeldOn(Unrecorded, a) + r.usd
    BY <1>3, <2>1
  <2> QED BY <1>2, <1>4, <2>1, <2>2
<1>6. CASE a \notin r.accounts
  <2>1. HeldOn(Unrecorded \cup {r}, a) = HeldOn(Unrecorded, a) + 0
    BY <1>3, <1>6 DEF Share
  <2> QED BY <1>2, <1>4, <2>1
<1> QED BY <1>5, <1>6

\* ... and the step that records no more than was reserved.
LEMMA RecordingFits ==
    ASSUME IInv, NEW r \in Unrecorded, NEW usd \in Nat, usd <= r.usd,
           Unrecorded' = Unrecorded \ {r}, Insert(usd, r.accounts)
    PROVE  WithinCaps'
<1>1. Countable(Unrecorded) /\ r \in Reservation
  BY FewerHeld DEF IInv, Unrecorded, Countable
<1>2. \A a : /\ HeldOn(Unrecorded \ {r}, a) \in Nat /\ Share(r, a) \in Nat
             /\ HeldOn(Unrecorded, a) = HeldOn(Unrecorded \ {r}, a) + Share(r, a)
  BY <1>1, OneLessHeld
<1> SUFFICES ASSUME NEW a \in Account
             PROVE  spent'[a] + HeldOn(Unrecorded \ {r}, a) <= Cap[a]
  BY DEF WithinCaps, HeldOn
<1>3. /\ spent[a] \in Nat /\ Cap[a] \in Nat /\ r.usd \in Nat
      /\ spent[a] + HeldOn(Unrecorded, a) <= Cap[a]
  BY <1>1, LedgerAssumption DEF IInv, TypeOK, LedgerTypeOK, WithinCaps, Reservation
<1>4. CASE a \in r.accounts
  <2>1. spent'[a] = spent[a] + usd /\ Share(r, a) = r.usd
    BY <1>4 DEF Insert, Share
  <2>2. HeldOn(Unrecorded, a) = HeldOn(Unrecorded \ {r}, a) + r.usd
    BY <1>2, <2>1
  <2> QED BY <1>2, <1>3, <2>1, <2>2
<1>5. CASE a \notin r.accounts
  <2>1. spent'[a] = spent[a]
    BY <1>5 DEF Insert
  <2> QED BY <1>2, <1>3, <2>1
<1> QED BY <1>4, <1>5
-----------------------------------------------------------------------------
\* A process that starts holds nothing.
LEMMA InitHolds == Init => IInv
<1> SUFFICES ASSUME Init PROVE IInv
  OBVIOUS
<1>1. (CHOOSE k \in Key : TRUE) \in Key
  BY LedgerAssumption
<1>2. TypeOK
  BY <1>1, FS_EmptySet, ModelClientAssumption
     DEF Init, LedgerInit, TypeOK, LedgerTypeOK, Idle, Ask, NoReservation, Reservation, Content
<1>3. HeldByCalls /\ Covered
  BY DEF Init, LedgerInit, HeldByCalls, Covered, Holds, Idle
<1>4. Countable(held)
  BY NoneHeld DEF Init, LedgerInit
<1>5. WithinCaps
  <2>1. Unrecorded = {}
    BY DEF Init, LedgerInit, Unrecorded
  <2>2. \A a \in Account : spent[a] = 0 /\ Cap[a] \in Nat
    BY LedgerAssumption DEF Init, LedgerInit
  <2> QED BY <2>1, <2>2, NoneHeld DEF WithinCaps
<1> QED BY <1>2, <1>3, <1>4, <1>5 DEF IInv

\* Steps that touch neither the ledger nor who holds what.
LEMMA LedgerUntouched ==
    ASSUME IInv, TypeOK', UNCHANGED <<ledgerVars, leaked>>,
           \A t \in Thread :
             /\ (thread'[t].pc = thread[t].pc \/ {thread'[t].pc, thread[t].pc}
                   \cap {"call", "record", "release"} = {})
             /\ thread'[t].pc \in {"call", "record", "release"} =>
                  thread'[t].reservation = thread[t].reservation
                  /\ thread'[t].accounts = thread[t].accounts
                  /\ thread'[t].key = thread[t].key /\ thread'[t].usd = thread[t].usd
    PROVE  IInv'
<1>1. \A t \in Thread : /\ Holds(t)' <=> Holds(t)
                        /\ Holds(t) => thread'[t].reservation = thread[t].reservation
                        /\ Holds(t) => thread'[t].pc = thread[t].pc
  BY DEF Holds
<1>2. HeldByCalls'
  BY <1>1 DEF IInv, HeldByCalls, ledgerVars
<1>3. Covered'
  BY <1>1 DEF IInv, Covered, Holds, WorstCase
<1>4. Countable(held)' /\ held' = held
  BY DEF IInv, ledgerVars, Countable, Units
<1>5. Unrecorded' \subseteq Unrecorded
  BY <1>1, <1>4 DEF Unrecorded, Holds
<1>6. WithinCaps'
  BY <1>5, NothingMore DEF IInv, TypeOK, LedgerTypeOK, ledgerVars
<1> QED BY <1>2, <1>3, <1>4, <1>6 DEF IInv

\* A thread begins to ask.
LEMMA StartStep ==
    ASSUME IInv, NEW t \in Thread, NEW k \in Key, NEW purpose \in Purpose,
           Start(t, k, purpose)
    PROVE  IInv'
<1>1. Accounts(purpose) \subseteq Account
  BY ModelClientAssumption DEF Accounts, Account
<1>2. TypeOK'
  BY <1>1 DEF Start, IInv, TypeOK, LedgerTypeOK, ledgerVars, Idle, Ask, NoReservation, Reservation
<1>3. /\ thread[t].pc = "idle" /\ thread'[t].pc = "reserve"
      /\ \A u \in Thread : u # t => thread'[u] = thread[u]
      /\ UNCHANGED <<ledgerVars, leaked>>
  BY DEF Start, Idle, IInv, TypeOK
<1> QED BY <1>2, <1>3, LedgerUntouched

\* reserve, which admits the call, refuses it or finds it cached.
LEMMA ReserveStep ==
    ASSUME IInv, NEW t \in Thread, Reserve(t)
    PROVE  IInv'
<1> DEFINE k == thread[t].key
           a == thread[t].accounts
           r == NewReservation(WorstCase(k), a)
<1>1. k \in Key /\ a \subseteq Account /\ thread[t].pc = "reserve"
  BY DEF Reserve, IInv, TypeOK, Ask
<1>2. CASE /\ Price[k] # Unpriced
           /\ Fits(WorstCase(k), a)
           /\ Hold(r)
           /\ thread' = [thread EXCEPT ![t].pc = "call", ![t].reservation = r]
  <2>1. /\ WorstCase(k) \in Nat /\ next \in Nat
        /\ r \in Reservation /\ r.id = next + 1
        /\ r.usd = WorstCase(k) /\ r.accounts = a
    BY <1>1, <1>2, WorstCaseType
       DEF IInv, TypeOK, LedgerTypeOK, NewReservation, Reservation
  <2>2. \A q \in held : q \in Reservation /\ q.id \in Nat /\ q.id <= next
    BY DEF IInv, TypeOK, LedgerTypeOK, Reservation
  <2>3. r \notin held /\ \A q \in held : q.id # r.id
    BY <2>1, <2>2
  <2> HIDE DEF r
  <2>4. UNCHANGED <<spent, available, file, tmp, billed, lost, leaked, faults>>
        /\ held' = held \cup {r} /\ next' = next + 1
    BY <1>2 DEF Reserve, Hold
  <2>5. TypeOK'
    <3>1. LedgerTypeOK'
      BY <2>1, <2>2, <2>3, <2>4, FS_AddElement DEF IInv, TypeOK, LedgerTypeOK
    <3>2. thread \in [Thread -> Ask]
      BY DEF IInv, TypeOK
    <3>3. [thread[t] EXCEPT !.pc = "call", !.reservation = r] \in Ask
      BY <2>1, <3>2 DEF Ask
    <3>4. thread' \in [Thread -> Ask]
      BY <1>2, <3>2, <3>3
    <3> QED BY <2>4, <3>1, <3>4 DEF IInv, TypeOK
  <2>6. /\ \A u \in Thread : u # t => thread'[u] = thread[u]
        /\ thread'[t] = [thread[t] EXCEPT !.pc = "call", !.reservation = r]
    BY <1>2 DEF IInv, TypeOK
  <2>7. /\ thread'[t].pc = "call" /\ thread'[t].reservation = r
        /\ thread'[t].key = k /\ thread'[t].accounts = a
    BY <2>6 DEF IInv, TypeOK, Ask
  <2>8. ~Holds(t) /\ \A u \in Thread : Holds(u)' <=> u = t \/ Holds(u)
    BY <1>1, <2>6, <2>7 DEF Holds
  <2>8a. HeldByCalls'
    <3>1. \A u \in Thread : Holds(u) => thread[u].reservation \in held \ leaked
      BY DEF IInv, HeldByCalls
    <3>2. leaked' = leaked /\ r \in held' \ leaked'
      BY <2>3, <2>4 DEF IInv, TypeOK
    <3>3. \A u \in Thread : Holds(u)' => thread'[u].reservation \in held' \ leaked'
      BY <2>4, <2>6, <2>7, <2>8, <3>1, <3>2
    <3>4. \A u, v \in Thread : Holds(u)' /\ Holds(v)'
            /\ thread'[u].reservation.id = thread'[v].reservation.id => u = v
      <4>1. \A u \in Thread : Holds(u) => thread[u].reservation.id # r.id
        BY <2>3, <3>1
      <4>2. \A u, v \in Thread : Holds(u) /\ Holds(v)
            /\ thread[u].reservation.id = thread[v].reservation.id => u = v
        BY DEF IInv, HeldByCalls
      <4>3. \A u \in Thread : Holds(u)' =>
              \/ u = t /\ thread'[u].reservation = r
              \/ Holds(u) /\ thread'[u].reservation = thread[u].reservation
        BY <2>6, <2>7, <2>8
      <4> QED BY <4>1, <4>2, <4>3
    <3>5. \A q \in held' \ leaked' : \E u \in Thread : Holds(u)' /\ thread'[u].reservation = q
      <4>1. \A q \in held \ leaked : \E u \in Thread : Holds(u) /\ thread[u].reservation = q
        BY DEF IInv, HeldByCalls
      <4>2. \A u \in Thread : Holds(u) => u # t /\ thread'[u] = thread[u]
        BY <2>6, <2>8
      <4> QED BY <2>4, <2>7, <2>8, <3>2, <4>1, <4>2
    <3> QED BY <3>3, <3>4, <3>5 DEF HeldByCalls
  <2>9. Covered'
    <3>1. Price[thread'[t].key] # Unpriced /\ thread'[t].pc # "record"
          /\ thread'[t].reservation.usd = WorstCase(thread'[t].key)
          /\ thread'[t].reservation.accounts = thread'[t].accounts
      BY <1>2, <2>1, <2>7
    <3>2. \A u \in Thread : u # t => (Holds(u)' <=> Holds(u))
      BY <2>6 DEF Holds
    <3>3. \A q : WorstCase(q)' = WorstCase(q)
      BY DEF WorstCase, EstimatedTokens
    <3>4. \A u \in Thread \ {t} :
            /\ thread'[u].pc = "call" =>
                 /\ Price[thread'[u].key] # Unpriced
                 /\ thread'[u].reservation.usd = WorstCase(thread'[u].key)
            /\ thread'[u].pc = "record" => thread'[u].usd <= thread'[u].reservation.usd
            /\ Holds(u)' => thread'[u].reservation.accounts = thread'[u].accounts
      BY <2>6, <3>2 DEF IInv, Covered
    <3> QED BY <3>1, <3>4, <2>8 DEF Covered, WorstCase, EstimatedTokens
  <2>10. Countable(held \cup {r})
    BY <2>1, <2>3, OneMoreHeld DEF IInv
  <2>11. Unrecorded' = Unrecorded \cup {r}
    <3>1. \A u \in Thread : thread[u].pc = "release" => thread[u].reservation # r
      BY <2>3 DEF IInv, HeldByCalls, Holds
    <3>2. \A u \in Thread : thread'[u].pc = "release" <=> thread[u].pc = "release"
      BY <1>1, <2>6, <2>7
    <3>3. \A u \in Thread : thread[u].pc = "release" => thread'[u] = thread[u]
      BY <1>1, <2>6
    <3> QED BY <2>4, <3>1, <3>2, <3>3 DEF Unrecorded
  <2>12. WithinCaps'
    BY <1>2, <2>1, <2>3, <2>4, <2>11, ReservingFits
  <2> QED BY <2>4, <2>5, <2>8a, <2>9, <2>10, <2>12 DEF IInv, Countable, Units
<1>3. CASE Returns(t) /\ UNCHANGED <<held, next>>
  <2>1. Idle \in Ask
    BY LedgerAssumption DEF Idle, Ask, NoReservation, Reservation
  <2>2. TypeOK'
    BY <1>3, <2>1 DEF Reserve, Returns, IInv, TypeOK, LedgerTypeOK
  <2> QED BY <1>1, <1>3, <2>2, LedgerUntouched
          DEF Reserve, Returns, Idle, ledgerVars, IInv, TypeOK
<1> QED BY <1>2, <1>3 DEF Reserve

\* The provider answers, or refuses to.
LEMMA AnsweredStep ==
    ASSUME IInv, NEW t \in Thread, Answered(t)
    PROVE  IInv'
<1> PICK usage \in Usage(thread[t].key) :
          LET usd == Cost(usage, Price[thread[t].key]) IN
          /\ billed' = billed + usd
          /\ thread' = [thread EXCEPT ![t].pc = "record", ![t].usd = usd]
  BY DEF Answered
<1> DEFINE k == thread[t].key
           usd == Cost(usage, Price[k])
<1>1. k \in Key /\ thread[t].pc = "call" /\ Price[k] # Unpriced
      /\ thread[t].reservation.usd = WorstCase(k)
  BY DEF Answered, IInv, TypeOK, Ask, Covered
<1>2. usd \in Nat /\ usd <= WorstCase(k)
  BY <1>1, CostWithinEstimate
<1> HIDE DEF usd
<1>3. billed' = billed + usd /\ thread' = [thread EXCEPT ![t].pc = "record", ![t].usd = usd]
      /\ UNCHANGED <<ledgerVars, available, file, tmp, lost, leaked, faults>>
  BY DEF usd, Answered
<1>4. TypeOK'
  <2>1. thread \in [Thread -> Ask]
    BY DEF IInv, TypeOK
  <2>2. [thread[t] EXCEPT !.pc = "record", !.usd = usd] \in Ask
    BY <1>2, <2>1 DEF Ask
  <2>3. thread' \in [Thread -> Ask]
    BY <1>3, <2>1, <2>2
  <2>4. billed' \in Nat
    BY <1>2, <1>3 DEF IInv, TypeOK
  <2> QED BY <1>3, <2>3, <2>4 DEF IInv, TypeOK, LedgerTypeOK, ledgerVars
<1>5. /\ \A u \in Thread : u # t => thread'[u] = thread[u]
      /\ thread'[t].pc = "record" /\ thread'[t].usd = usd
      /\ thread'[t].reservation = thread[t].reservation
      /\ thread'[t].accounts = thread[t].accounts
  BY <1>3 DEF IInv, TypeOK, Ask
<1>5a. \A u \in Thread : /\ Holds(u)' <=> Holds(u)
                         /\ thread'[u].reservation = thread[u].reservation
  BY <1>1, <1>5 DEF Holds
<1>5b. UNCHANGED <<held, leaked>>
  BY <1>3 DEF ledgerVars
<1>6. HeldByCalls'
  <2>1. \A u \in Thread : Holds(u)' => thread'[u].reservation \in held' \ leaked'
    BY <1>5a, <1>5b DEF IInv, HeldByCalls
  <2>2. \A u, v \in Thread : Holds(u)' /\ Holds(v)'
          /\ thread'[u].reservation.id = thread'[v].reservation.id => u = v
    BY <1>5a DEF IInv, HeldByCalls
  <2>3. \A r \in held' \ leaked' : \E u \in Thread : Holds(u)' /\ thread'[u].reservation = r
    <3>1. \A r \in held \ leaked : \E u \in Thread : Holds(u) /\ thread[u].reservation = r
      BY DEF IInv, HeldByCalls
    <3>2. held' = held /\ leaked' = leaked
      BY <1>5b
    <3> SUFFICES ASSUME NEW r \in held \ leaked
                 PROVE  \E u \in Thread : Holds(u)' /\ thread'[u].reservation = r
      BY <3>2
    <3>3. PICK u \in Thread : Holds(u) /\ thread[u].reservation = r
      BY <3>1
    <3>4. Holds(u)' /\ thread'[u].reservation = r
      BY <1>5a, <3>3
    <3> QED BY <3>4
  <2> QED BY <2>1, <2>2, <2>3 DEF HeldByCalls
<1>7. Covered'
  <2>1. Holds(t) => thread'[t].reservation.accounts = thread'[t].accounts
    BY <1>5 DEF IInv, Covered
  <2>2. thread'[t].usd <= thread'[t].reservation.usd /\ thread'[t].pc # "call"
    BY <1>1, <1>2, <1>5
  <2>3. \A u \in Thread \ {t} :
          /\ thread'[u].pc = "call" =>
               /\ Price[thread'[u].key] # Unpriced
               /\ thread'[u].reservation.usd = WorstCase(thread'[u].key)
          /\ thread'[u].pc = "record" => thread'[u].usd <= thread'[u].reservation.usd
          /\ Holds(u)' => thread'[u].reservation.accounts = thread'[u].accounts
    BY ZenonT(40), <1>5, <1>5a DEF IInv, Covered
  <2>4. Holds(t)' => Holds(t)
    BY <1>5a
  <2> QED BY <2>1, <2>2, <2>3, <2>4 DEF Covered, WorstCase, EstimatedTokens
<1>8. Countable(held)'
  BY <1>3 DEF IInv, ledgerVars, Countable, Units
<1>9. Unrecorded' \subseteq Unrecorded
  BY <1>1, <1>3, <1>5 DEF Unrecorded, ledgerVars
<1>10. WithinCaps'
  BY <1>3, <1>9, NothingMore DEF ledgerVars, IInv, TypeOK, LedgerTypeOK
<1> QED BY <1>4, <1>6, <1>7, <1>8, <1>10 DEF IInv

\* A thread that gives up its reservation and holds nothing afterwards.
LEMMA ReleaseStep ==
    ASSUME IInv, TypeOK', NEW t \in Thread, Holds(t), Release(thread[t].reservation),
           thread'[t].pc \notin {"call", "record", "release"},
           \A u \in Thread : u # t => thread'[u] = thread[u],
           UNCHANGED <<spent, leaked>>
    PROVE  IInv'
<1> DEFINE r == thread[t].reservation
<1>1. held' = held \ {r} /\ r \in held
  BY DEF Release, IInv, HeldByCalls
<1>2. \A u \in Thread : u # t /\ Holds(u) => thread[u].reservation # r
  BY DEF IInv, HeldByCalls
<1>3. HeldByCalls'
  BY <1>1, <1>2 DEF IInv, HeldByCalls, Holds
<1>4. Covered'
  BY DEF IInv, Covered, Holds, WorstCase
<1>5. Countable(held \ {r})
  BY <1>1, OneLessHeld DEF IInv
<1>6. Unrecorded' \subseteq Unrecorded
  BY <1>1, <1>2 DEF Unrecorded, Holds
<1>7. WithinCaps'
  BY <1>6, NothingMore DEF IInv, TypeOK, LedgerTypeOK
<1> QED BY <1>1, <1>3, <1>4, <1>5, <1>7 DEF IInv, Countable, Units

\* release takes one reservation away.
LEMMA ReleasedType ==
    ASSUME IInv, NEW t \in Thread, Holds(t), Release(thread[t].reservation),
           UNCHANGED <<spent, next, leaked>>
    PROVE  LedgerTypeOK' /\ leaked' \subseteq held'
BY FS_RemoveElement DEF IInv, TypeOK, LedgerTypeOK, Release, HeldByCalls

\* The finally of ask, after the provider raised.
LEMMA RaisedStep ==
    ASSUME IInv, NEW t \in Thread, Raised(t)
    PROVE  IInv'
<1>1. Idle \in Ask /\ Idle.pc = "idle"
  BY LedgerAssumption DEF Idle, Ask, NoReservation, Reservation
<1>2. /\ thread' = [thread EXCEPT ![t] = Idle] /\ Holds(t)
      /\ Release(thread[t].reservation) /\ available' \in BOOLEAN
      /\ UNCHANGED <<spent, next, file, tmp, billed, lost, leaked, faults>>
  BY DEF Raised, Returns, Holds, IInv, TypeOK
<1>3. LedgerTypeOK' /\ leaked' \subseteq held'
  BY <1>2, ReleasedType
<1>4. TypeOK'
  BY <1>1, <1>2, <1>3 DEF IInv, TypeOK
<1> QED BY <1>1, <1>2, <1>4, ReleaseStep DEF IInv, TypeOK

\* The finally of ask, after the row was written.
LEMMA RecordedStep ==
    ASSUME IInv, NEW t \in Thread, Recorded(t)
    PROVE  IInv'
<1>1. /\ thread' = [thread EXCEPT ![t].pc = "open"] /\ Holds(t)
      /\ Release(thread[t].reservation)
      /\ UNCHANGED <<spent, next, available, file, tmp, billed, lost, leaked, faults>>
  BY DEF Recorded, Goes, Holds
<1>2. LedgerTypeOK' /\ leaked' \subseteq held'
  BY <1>1, ReleasedType
<1>3. TypeOK'
  BY <1>1, <1>2 DEF IInv, TypeOK, Ask
<1>4. thread'[t].pc = "open" /\ \A u \in Thread : u # t => thread'[u] = thread[u]
  BY <1>1 DEF IInv, TypeOK, Ask
<1> QED BY <1>1, <1>3, <1>4, ReleaseStep

\* record writes the row of a call that is still reserved.
LEMMA RecordStep ==
    ASSUME IInv, NEW t \in Thread, Record(t)
    PROVE  IInv'
<1> DEFINE r == thread[t].reservation
           usd == thread[t].usd
<1>1. /\ thread[t].pc = "record" /\ usd \in Nat /\ usd <= r.usd
      /\ r.accounts = thread[t].accounts /\ Insert(usd, r.accounts)
      /\ UNCHANGED <<held, next, available, file, tmp, billed, lost, leaked, faults>>
  BY DEF Record, IInv, TypeOK, Ask, Covered, Holds
<1>2. /\ \A u \in Thread : u # t => thread'[u] = thread[u]
      /\ thread'[t].pc = "release" /\ thread'[t].reservation = r
      /\ thread'[t].accounts = thread[t].accounts
  BY DEF Record, Goes, IInv, TypeOK, Ask
<1>3. TypeOK'
  <2>1. spent' \in [Account -> Nat]
    BY <1>1 DEF Insert, IInv, TypeOK, LedgerTypeOK
  <2>2. thread' \in [Thread -> Ask]
    BY DEF Record, Goes, IInv, TypeOK, Ask
  <2> QED BY <1>1, <2>1, <2>2 DEF IInv, TypeOK, LedgerTypeOK
<1>4. HeldByCalls'
  BY <1>1, <1>2 DEF IInv, HeldByCalls, Holds
<1>5. Covered'
  BY <1>1, <1>2 DEF IInv, Covered, Holds, WorstCase
<1>6. Countable(held)'
  BY <1>1 DEF IInv, Countable, Units
<1>7. r \in Unrecorded /\ Unrecorded' = Unrecorded \ {r}
  <2>1. r \in held /\ \A u \in Thread : u # t /\ Holds(u) => thread[u].reservation # r
    BY <1>1 DEF IInv, HeldByCalls, Holds
  <2> QED BY <1>1, <1>2, <2>1 DEF Unrecorded, Holds
<1>8. WithinCaps'
  BY <1>1, <1>7, RecordingFits
<1> QED BY <1>3, <1>4, <1>5, <1>6, <1>8 DEF IInv

\* record raises.
LEMMA RecordFailsStep ==
    ASSUME IInv, NEW t \in Thread, RecordFails(t)
    PROVE  IInv'
<1> DEFINE r == thread[t].reservation
<1>1. Idle \in Ask /\ Idle.pc = "idle"
  BY LedgerAssumption DEF Idle, Ask, NoReservation, Reservation
<1>2. /\ thread[t].pc = "record" /\ leaked' = leaked \cup {r}
      /\ thread' = [thread EXCEPT ![t] = Idle]
      /\ UNCHANGED <<ledgerVars, available, file, tmp, billed>>
  BY DEF RecordFails, Returns
<1>3. r \in held /\ \A u \in Thread : u # t /\ Holds(u) => thread[u].reservation # r
  BY <1>2 DEF IInv, HeldByCalls, Holds
<1>4. TypeOK'
  <2>1. faults' \in 0 .. MaxFaults /\ lost' \in Int
    BY ModelClientAssumption DEF RecordFails, IInv, TypeOK, Ask
  <2> QED BY <1>1, <1>2, <1>3, <2>1 DEF IInv, TypeOK, LedgerTypeOK, ledgerVars
<1>5. HeldByCalls'
  BY <1>1, <1>2, <1>3 DEF IInv, TypeOK, HeldByCalls, Holds, ledgerVars
<1>6. Covered'
  BY <1>1, <1>2 DEF IInv, TypeOK, Covered, Holds, WorstCase
<1>7. Countable(held)'
  BY <1>2 DEF IInv, ledgerVars, Countable, Units
<1>8. Unrecorded' \subseteq Unrecorded
  BY <1>1, <1>2 DEF IInv, TypeOK, Unrecorded, ledgerVars
<1>9. WithinCaps'
  BY <1>2, <1>8, NothingMore DEF ledgerVars, IInv, TypeOK, LedgerTypeOK
<1> QED BY <1>4, <1>5, <1>6, <1>7, <1>9 DEF IInv

\* _write: the reservation is released by then.
LEMMA WriteStep ==
    ASSUME IInv, NEW t \in Thread, OpenTmp(t) \/ FillTmp(t) \/ Replace(t)
    PROVE  IInv'
<1>1. UNCHANGED <<ledgerVars, leaked>> /\ ~Holds(t)
  BY DEF OpenTmp, FillTmp, Replace, Holds
<1>2. Idle \in Ask /\ Idle.pc = "idle"
  BY LedgerAssumption DEF Idle, Ask, NoReservation, Reservation
<1>2a. thread \in [Thread -> Ask] /\ tmp \in [Key -> Content]
  BY DEF IInv, TypeOK
<1>3. CASE OpenTmp(t)
  <2>1a. thread' \in [Thread -> Ask]
    <3>1. [thread[t] EXCEPT !.pc = "fill", !.fd = "tmp"] \in Ask
      BY <1>2a DEF Ask
    <3>2. thread' = [thread EXCEPT ![t] = [thread[t] EXCEPT !.pc = "fill", !.fd = "tmp"]]
      BY <1>3, <1>2a DEF OpenTmp
    <3> QED BY <1>2a, <3>1, <3>2
  <2>1b. tmp' \in [Key -> Content]
    BY <1>3, <1>2a DEF OpenTmp, Content
  <2>1. TypeOK'
    BY <1>3, <2>1a, <2>1b DEF OpenTmp, IInv, TypeOK, LedgerTypeOK, ledgerVars
  <2>2. thread'[t].pc = "fill" /\ \A u \in Thread : u # t => thread'[u] = thread[u]
    BY <1>3 DEF OpenTmp, IInv, TypeOK, Ask
  <2> QED BY <1>1, <1>3, <2>1, <2>2, LedgerUntouched DEF Holds, OpenTmp
<1>4. CASE FillTmp(t)
  <2>1. thread' \in [Thread -> Ask]
    <3>1. [thread[t] EXCEPT !.pc = "replace", !.fd = "none"] \in Ask
      BY <1>2a DEF Ask
    <3>2. thread' = [thread EXCEPT ![t] = [thread[t] EXCEPT !.pc = "replace", !.fd = "none"]]
      BY <1>4, <1>2a DEF FillTmp
    <3> QED BY <1>2a, <3>1, <3>2
  <2>2. tmp' \in [Key -> Content] /\ file' \in [Key -> Content]
    BY <1>4 DEF FillTmp, IInv, TypeOK, Content
  <2>3. TypeOK'
    BY <1>4, <2>1, <2>2 DEF FillTmp, IInv, TypeOK, LedgerTypeOK, ledgerVars
  <2>4. thread'[t].pc = "replace" /\ \A u \in Thread : u # t => thread'[u] = thread[u]
    BY <1>4 DEF FillTmp, IInv, TypeOK, Ask
  <2> QED BY <1>1, <1>4, <2>3, <2>4, LedgerUntouched DEF Holds, FillTmp
<1>5. CASE Replace(t)
  <2> DEFINE k == thread[t].key
             moved == [tmp |-> "file", file |-> "none", none |-> "none"]
  <2>0. thread \in [Thread -> Ask] /\ k \in Key
    BY DEF IInv, TypeOK, Ask
  <2>1. CASE tmp[k] = "none"
    <3>1. thread' = [thread EXCEPT ![t] = Idle] /\ UNCHANGED <<file, tmp>>
      BY <1>5, <2>1 DEF Replace, Returns
    <3>2. TypeOK'
      BY <1>2, <1>5, <3>1 DEF Replace, IInv, TypeOK, LedgerTypeOK, ledgerVars
    <3> QED BY <1>1, <1>2, <2>0, <3>1, <3>2, LedgerUntouched DEF Holds
  <2>2. CASE tmp[k] # "none"
    <3>1. /\ file' = [file EXCEPT ![k] = tmp[k]]
          /\ tmp' = [tmp EXCEPT ![k] = "none"]
          /\ thread' = [u \in Thread |->
                          IF u = t THEN Idle
                          ELSE IF thread[u].key = k
                          THEN [thread[u] EXCEPT !.fd = moved[@]] ELSE thread[u]]
      BY <1>5, <2>2 DEF Replace
    <3>2. \A u \in Thread : [thread[u] EXCEPT !.fd = moved[@]] \in Ask
      BY <2>0 DEF Ask
    <3>3. thread' \in [Thread -> Ask]
      BY <1>2, <2>0, <3>1, <3>2
    <3>4. TypeOK'
      BY <1>5, <2>0, <3>1, <3>3
         DEF Replace, IInv, TypeOK, LedgerTypeOK, ledgerVars, Content
    <3>5. thread'[t].pc = "idle"
      BY <1>2, <3>1
    <3>6. \A u \in Thread \ {t} :
            /\ thread'[u].pc = thread[u].pc /\ thread'[u].reservation = thread[u].reservation
            /\ thread'[u].accounts = thread[u].accounts
            /\ thread'[u].key = thread[u].key /\ thread'[u].usd = thread[u].usd
      BY <2>0, <3>1 DEF Ask
    <3>7. thread[t].pc = "replace"
      BY <1>5 DEF Replace
    <3> QED BY <1>1, <3>4, <3>5, <3>6, <3>7, LedgerUntouched
  <2> QED BY <2>1, <2>2
<1> QED BY <1>3, <1>4, <1>5

\* Nobody holds anything after a restart, and a new day spends nothing.
LEMMA CrashStep == ASSUME IInv, Crash PROVE IInv'
<1>1. Idle \in Ask /\ Idle.pc = "idle"
  BY LedgerAssumption DEF Idle, Ask, NoReservation, Reservation
<1>2. /\ held' = {} /\ next' = 0 /\ leaked' = {} /\ thread' = [t \in Thread |-> Idle]
      /\ UNCHANGED <<spent, file, tmp, billed>>
  BY DEF Crash
<1>3. TypeOK'
  <2>1. LedgerTypeOK'
    BY <1>2, FS_EmptySet DEF IInv, TypeOK, LedgerTypeOK
  <2>2. lost' \in Int
    <3>1. Total \in Account /\ spent \in [Account -> Nat] /\ billed \in Nat
      BY DEF IInv, TypeOK, LedgerTypeOK, Account
    <3>2. spent[Total] \in Nat /\ lost' = billed - spent[Total]
      BY <3>1 DEF Crash
    <3> QED BY <3>1, <3>2
  <2>3. faults' \in 0 .. MaxFaults /\ available' \in BOOLEAN
    BY ModelClientAssumption DEF Crash, IInv, TypeOK
  <2> QED BY <1>1, <1>2, <2>1, <2>2, <2>3 DEF IInv, TypeOK
<1>4. HeldByCalls' /\ Covered'
  BY <1>1, <1>2 DEF HeldByCalls, Covered, Holds
<1>5. Countable(held)'
  BY <1>2, NoneHeld DEF Countable, Units
<1>6. Unrecorded' \subseteq Unrecorded
  BY <1>2 DEF Unrecorded
<1>7. WithinCaps'
  BY <1>2, <1>6, NothingMore DEF IInv, TypeOK, LedgerTypeOK
<1> QED BY <1>3, <1>4, <1>5, <1>7 DEF IInv

\* A new day.
LEMMA MidnightStep == ASSUME IInv, Midnight PROVE IInv'
<1>1. /\ spent' = [a \in Account |-> IF a \in Repo THEN 0 ELSE spent[a]]
      /\ UNCHANGED <<held, next, thread, available, file, tmp, billed, lost, leaked, faults>>
  BY DEF Midnight, NewDay, clientVars
<1>2. spent' \in [Account -> Nat] /\ \A a \in Account : spent'[a] <= spent[a]
  BY <1>1 DEF IInv, TypeOK, LedgerTypeOK
<1>3. TypeOK'
  BY <1>1, <1>2 DEF IInv, TypeOK, LedgerTypeOK
<1>4. HeldByCalls' /\ Covered' /\ Countable(held)' /\ Unrecorded' = Unrecorded
  BY <1>1 DEF IInv, HeldByCalls, Covered, Holds, Countable, Units, Unrecorded,
              WorstCase, EstimatedTokens
<1>5. WithinCaps'
  BY <1>2, <1>4, NothingMore
<1> QED BY <1>3, <1>4, <1>5 DEF IInv

\* Nothing happens.
LEMMA Stutter == ASSUME IInv, UNCHANGED vars PROVE IInv'
<1>1. UNCHANGED <<spent, held, next, thread, available, file, tmp, billed, lost, leaked, faults>>
  BY DEF vars, ledgerVars, clientVars
<1>2. TypeOK' /\ HeldByCalls'
  BY <1>1 DEF IInv, TypeOK, LedgerTypeOK, HeldByCalls, Holds
<1>3. Covered' /\ Countable(held)'
  BY <1>1 DEF IInv, Covered, Holds, Countable, Units, WorstCase, EstimatedTokens
<1>4. WithinCaps'
  BY <1>1, NothingMore DEF IInv, TypeOK, LedgerTypeOK, Unrecorded
<1> QED BY <1>2, <1>3, <1>4 DEF IInv
-----------------------------------------------------------------------------
\* The strengthened invariant of ask: every step of a thread, of the clock and of the
\* process keeps it.
THEOREM IInvInductive == IInv /\ [Next]_vars => IInv'
<1> SUFFICES ASSUME IInv, [Next]_vars PROVE IInv'
  OBVIOUS
<1>1. ASSUME NEW t \in Thread, NEW k \in Key, NEW purpose \in Purpose, Start(t, k, purpose)
      PROVE  IInv'
  BY <1>1, StartStep
<1>2. ASSUME NEW t \in Thread, Proceed(t)
      PROVE  IInv'
  BY <1>2, ReserveStep, AnsweredStep, RaisedStep, RecordStep, RecordedStep, WriteStep DEF Proceed
<1>3. ASSUME NEW t \in Thread, RecordFails(t)
      PROVE  IInv'
  BY <1>3, RecordFailsStep
<1> QED BY <1>1, <1>2, <1>3, CrashStep, MidnightStep, Stutter DEF Next

\* It holds from the start of the process on.
THEOREM IInvHolds == Spec => []IInv
BY InitHolds, IInvInductive, PTL DEF Spec

\* The budget is never exceeded, whatever the models, the prices and the number of
\* threads: the estimate covers the cost (worst_case), the reservation covers the
\* estimate until its row is written (reserve, record), and the sums are read with
\* everything in flight.
THEOREM CapsHold == Spec => []WithinCaps
<1>1. IInv => WithinCaps
  BY DEF IInv
<1> QED BY <1>1, IInvHolds, PTL

\* Each call under way has a reservation of its own, and nothing is held for a
\* call that ended, but what a failed INSERT left (the finally of ask).
THEOREM ReservationsInUse == Spec => []HeldByCalls
<1>1. IInv => HeldByCalls
  BY DEF IInv
<1> QED BY <1>1, IInvHolds, PTL

\* Type correctness.
THEOREM ModelClientTypes == Spec => []TypeOK
<1>1. IInv => TypeOK
  BY DEF IInv
<1> QED BY <1>1, IInvHolds, PTL
-----------------------------------------------------------------------------
(* Every charge is in the table, about to be, or lost *)

Charges == UNION {{t} \X (1 .. thread[t].usd) : t \in Charging}

\* Whoever is about to reserve or to record charges the total too.
TotalCharged ==
    \A t \in Thread : thread[t].pc = "reserve" \/ Holds(t) => Total \in thread[t].accounts

Money == MoneyAccounted /\ IsFiniteSet(Charges) /\ TotalCharged

\* The same threads have charged the same.
LEMMA ChargesKept ==
    ASSUME Charging' = Charging, \A t \in Charging : thread'[t].usd = thread[t].usd
    PROVE  Charges' = Charges
BY DEF Charges

\* One thread more has charged n.
LEMMA OneMoreCharge ==
    ASSUME NEW X, IsFiniteSet(X), NEW t, NEW n \in Nat, \A x \in X : x[1] # t
    PROVE  /\ IsFiniteSet(X \cup ({t} \X (1 .. n)))
           /\ Cardinality(X) \in Nat
           /\ Cardinality(X \cup ({t} \X (1 .. n))) = Cardinality(X) + n
<1> DEFINE Y == {t} \X (1 .. n)
<1>1. IsFiniteSet(Y) /\ Cardinality(Y) = n
  BY UnitsOfOne
<1>2. X \cap Y = {}
  OBVIOUS
<1> HIDE DEF Y
<1>3. IsFiniteSet(X \cup Y) /\ Cardinality(X \cup Y) = Cardinality(X) + n - Cardinality({})
  <2>1. /\ IsFiniteSet(X \cup Y)
        /\ Cardinality(X \cup Y) = Cardinality(X) + Cardinality(Y) - Cardinality(X \cap Y)
    BY <1>1, FS_Union
  <2> QED BY <1>1, <1>2, <2>1
<1>4. Cardinality(X) \in Nat /\ Cardinality({}) = 0
  BY FS_CardinalityType, FS_EmptySet
<1> QED BY <1>3, <1>4 DEF Y

\* A thread starts or ends charging; the others have charged what they had.
LEMMA ChargeAdded ==
    ASSUME IsFiniteSet(Charges), NEW t \in Thread, t \notin Charging,
           Charging' = Charging \cup {t}, thread'[t].usd \in Nat,
           \A u \in Charging : thread'[u].usd = thread[u].usd
    PROVE  /\ IsFiniteSet(Charges') /\ Cardinality(Charges) \in Nat
           /\ Cardinality(Charges') = Cardinality(Charges) + thread'[t].usd
<1>1. Charges' = Charges \cup ({t} \X (1 .. thread'[t].usd))
  BY DEF Charges
<1>2. \A x \in Charges : x[1] # t
  BY DEF Charges
<1> QED BY <1>1, <1>2, OneMoreCharge

LEMMA ChargeTaken ==
    ASSUME IsFiniteSet(Charges), NEW t \in Charging, thread[t].usd \in Nat,
           Charging' = Charging \ {t},
           \A u \in Charging : u # t => thread'[u].usd = thread[u].usd
    PROVE  /\ IsFiniteSet(Charges') /\ Cardinality(Charges') \in Nat
           /\ Cardinality(Charges) = Cardinality(Charges') + thread[t].usd
<1> DEFINE X == UNION {{u} \X (1 .. thread[u].usd) : u \in Charging \ {t}}
<1>1. Charges' = X
  BY DEF Charges
<1>2. Charges = X \cup ({t} \X (1 .. thread[t].usd))
  BY DEF Charges
<1>3. \A x \in X : x[1] # t
  OBVIOUS
<1> HIDE DEF X
<1>4. IsFiniteSet(X)
  BY <1>2, FS_Subset
<1> QED BY <1>1, <1>2, <1>3, <1>4, OneMoreCharge

\* The amounts, as numbers.
LEMMA Amounts ==
    ASSUME IInv, Money
    PROVE  /\ billed \in Nat /\ lost \in Int /\ spent[Total] \in Nat
           /\ Cardinality(Charges) \in Nat
           /\ billed = spent[Total] + Cardinality(Charges) + lost
           /\ \A t \in Thread : thread[t] \in Ask /\ thread[t].usd \in Nat
BY FS_CardinalityType
   DEF IInv, TypeOK, LedgerTypeOK, Account, Ask, Money, MoneyAccounted, ChargedNotRecorded,
       Charges

\* A step that charges nothing and records nothing.
LEMMA NothingCharged ==
    ASSUME IInv, Money, Charging' = Charging, spent'[Total] = spent[Total],
           UNCHANGED <<billed, lost>>,
           \A t \in Charging : thread'[t].usd = thread[t].usd,
           TotalCharged'
    PROVE  Money'
<1>1. Charges' = Charges
  BY ChargesKept
<1> QED BY <1>1 DEF Money, MoneyAccounted, ChargedNotRecorded, Charges

LEMMA StepMoney == IInv /\ Money /\ [Next]_vars => Money'
<1> SUFFICES ASSUME IInv, Money, [Next]_vars PROVE Money'
  OBVIOUS
<1>1. /\ thread \in [Thread -> Ask] /\ spent \in [Account -> Nat]
      /\ Total \in Account /\ Idle.pc = "idle"
  BY DEF IInv, TypeOK, LedgerTypeOK, Account, Idle
<1>2. /\ billed \in Nat /\ lost \in Int /\ spent[Total] \in Nat
      /\ Cardinality(Charges) \in Nat
      /\ billed = spent[Total] + Cardinality(Charges) + lost
      /\ \A t \in Thread : thread[t] \in Ask /\ thread[t].usd \in Nat
      /\ IsFiniteSet(Charges) /\ TotalCharged
  BY Amounts DEF Money
<1>3. ASSUME NEW t \in Thread, NEW k \in Key, NEW purpose \in Purpose, Start(t, k, purpose)
      PROVE  Money'
  <2>1. /\ thread[t].pc = "idle" /\ thread'[t].pc = "reserve"
        /\ Total \in thread'[t].accounts
        /\ \A u \in Thread : u # t => thread'[u] = thread[u]
        /\ UNCHANGED <<spent, billed, lost>>
    BY <1>1, <1>3 DEF Start, Idle, Accounts, ledgerVars
  <2>2. Charging' = Charging
    BY <2>1 DEF Charging
  <2>3. TotalCharged'
    BY <1>2, <2>1 DEF TotalCharged, Holds
  <2>4. \A u \in Charging : thread'[u].usd = thread[u].usd
    BY <2>1 DEF Charging
  <2> QED BY <2>1, <2>2, <2>3, <2>4, NothingCharged
<1>4. ASSUME NEW t \in Thread,
             \/ Reserve(t) \/ Raised(t) \/ Recorded(t)
             \/ OpenTmp(t) \/ FillTmp(t) \/ Replace(t)
      PROVE  Money'
  <2>1. /\ thread[t].pc # "record" /\ thread'[t].pc # "record"
        /\ thread'[t].pc = "call" => thread[t].pc = "reserve"
                                     /\ thread'[t].accounts = thread[t].accounts
        /\ thread'[t].pc \notin {"reserve", "release"}
        /\ \A u \in Thread : u # t =>
              /\ thread'[u].pc = thread[u].pc /\ thread'[u].usd = thread[u].usd
              /\ thread'[u].accounts = thread[u].accounts
        /\ UNCHANGED <<spent, billed, lost>>
    <3>1. CASE Reserve(t)
      <4>1. /\ \/ thread'[t] = Idle
               \/ thread'[t].pc = "call" /\ thread'[t].accounts = thread[t].accounts
            /\ thread[t].pc = "reserve"
            /\ \A u \in Thread : u # t => thread'[u] = thread[u]
        BY <1>1, <3>1 DEF Reserve, Returns, Ask
      <4> QED BY <1>1, <3>1, <4>1 DEF Reserve
    <3>2. CASE Raised(t)
      BY <1>1, <3>2 DEF Raised, Returns
    <3>3. CASE Recorded(t)
      BY <1>1, <3>3 DEF Recorded, Goes, Ask
    <3>4. CASE OpenTmp(t)
      BY <1>1, <3>4 DEF OpenTmp, ledgerVars, Ask
    <3>5. CASE FillTmp(t)
      BY <1>1, <3>5 DEF FillTmp, ledgerVars, Ask
    <3>6. CASE Replace(t)
      <4>1. CASE tmp[thread[t].key] = "none"
        BY <1>1, <3>6, <4>1 DEF Replace, Returns, ledgerVars
      <4>2. CASE tmp[thread[t].key] # "none"
        <5>1. \A u \in Thread :
                 \/ thread'[u] = Idle /\ u = t
                 \/ u # t /\ thread'[u] = thread[u]
                 \/ u # t /\ \E fd : thread'[u] = [thread[u] EXCEPT !.fd = fd]
          BY <3>6, <4>2 DEF Replace
        <5> QED BY <1>1, <1>2, <3>6, <5>1 DEF Replace, ledgerVars, Ask
      <4> QED BY <4>1, <4>2
    <3> QED BY <1>4, <3>1, <3>2, <3>3, <3>4, <3>5, <3>6
  <2>2. Charging' = Charging
    BY <2>1 DEF Charging
  <2>3. TotalCharged'
    BY <1>2, <2>1 DEF TotalCharged, Holds
  <2>4. \A u \in Charging : thread'[u].usd = thread[u].usd
    BY <2>1 DEF Charging
  <2> QED BY <2>1, <2>2, <2>3, <2>4, NothingCharged
<1>5. ASSUME NEW t \in Thread, Answered(t)
      PROVE  Money'
  <2>1. PICK usage \in Usage(thread[t].key) :
           /\ billed' = billed + Cost(usage, Price[thread[t].key])
           /\ thread' = [thread EXCEPT ![t].pc = "record",
                                       ![t].usd = Cost(usage, Price[thread[t].key])]
    BY <1>5 DEF Answered
  <2> DEFINE usd == Cost(usage, Price[thread[t].key])
  <2>2. usd \in Nat
    <3>1. thread[t].key \in Key /\ Price[thread[t].key] # Unpriced
      BY <1>2, <1>5 DEF Answered, IInv, Covered, Ask
    <3> QED BY <3>1, CostWithinEstimate
  <2> HIDE DEF usd
  <2>3. /\ billed' = billed + usd /\ UNCHANGED <<spent, lost>>
        /\ thread[t].pc = "call" /\ thread'[t].pc = "record" /\ thread'[t].usd = usd
        /\ thread'[t].accounts = thread[t].accounts
        /\ \A u \in Thread : u # t => thread'[u] = thread[u]
    BY <1>1, <1>5, <2>1 DEF Answered, ledgerVars, usd, Ask
  <2>4. t \notin Charging /\ Charging' = Charging \cup {t}
    BY <2>3 DEF Charging
  <2>5. \A u \in Charging : thread'[u].usd = thread[u].usd
    BY <2>3, <2>4 DEF Charging
  <2>6. /\ IsFiniteSet(Charges') /\ Cardinality(Charges') = Cardinality(Charges) + usd
    BY <1>2, <2>2, <2>3, <2>4, <2>5, ChargeAdded
  <2>7. TotalCharged'
    BY <1>2, <2>3 DEF TotalCharged, Holds
  <2>8. billed' = spent'[Total] + Cardinality(Charges') + lost'
    BY <1>2, <2>2, <2>3, <2>6
  <2> QED BY <2>6, <2>7, <2>8 DEF Money, MoneyAccounted, ChargedNotRecorded, Charges
<1>6. ASSUME NEW t \in Thread, Record(t)
      PROVE  Money'
  <2>1. /\ thread[t].pc = "record" /\ thread'[t].pc = "release"
        /\ thread'[t].accounts = thread[t].accounts
        /\ \A u \in Thread : u # t => thread'[u] = thread[u]
        /\ UNCHANGED <<billed, lost>>
    BY <1>1, <1>6 DEF Record, Goes, Ask
  <2>2. spent'[Total] = spent[Total] + thread[t].usd
    <3>1. Total \in thread[t].accounts
      BY <1>2, <2>1 DEF TotalCharged, Holds
    <3> QED BY <1>1, <1>6, <3>1 DEF Record, Insert
  <2>3. t \in Charging /\ Charging' = Charging \ {t}
    BY <2>1 DEF Charging
  <2>4. \A u \in Charging : u # t => thread'[u].usd = thread[u].usd
    BY <2>1 DEF Charging
  <2>5. /\ IsFiniteSet(Charges') /\ Cardinality(Charges') \in Nat
        /\ Cardinality(Charges) = Cardinality(Charges') + thread[t].usd
    BY <1>2, <2>3, <2>4, ChargeTaken
  <2>6. TotalCharged'
    BY <1>2, <2>1 DEF TotalCharged, Holds
  <2>7. billed' = spent'[Total] + Cardinality(Charges') + lost'
    BY <1>2, <2>1, <2>2, <2>5
  <2> QED BY <2>5, <2>6, <2>7 DEF Money, MoneyAccounted, ChargedNotRecorded, Charges
<1>7. ASSUME NEW t \in Thread, RecordFails(t)
      PROVE  Money'
  <2>1. /\ thread[t].pc = "record" /\ thread'[t].pc = "idle"
        /\ \A u \in Thread : u # t => thread'[u] = thread[u]
        /\ lost' = lost + thread[t].usd
        /\ UNCHANGED <<spent, billed>>
    BY <1>1, <1>7 DEF RecordFails, Returns, ledgerVars
  <2>2. t \in Charging /\ Charging' = Charging \ {t}
    BY <2>1 DEF Charging
  <2>3. \A u \in Charging : u # t => thread'[u].usd = thread[u].usd
    BY <2>1 DEF Charging
  <2>4. /\ IsFiniteSet(Charges') /\ Cardinality(Charges') \in Nat
        /\ Cardinality(Charges) = Cardinality(Charges') + thread[t].usd
    BY <1>2, <2>2, <2>3, ChargeTaken
  <2>5. TotalCharged'
    BY <1>2, <2>1 DEF TotalCharged, Holds
  <2>6. billed' = spent'[Total] + Cardinality(Charges') + lost'
    BY <1>2, <2>1, <2>4
  <2> QED BY <2>4, <2>5, <2>6 DEF Money, MoneyAccounted, ChargedNotRecorded, Charges
<1>8. CASE Midnight
  <2>1. spent'[Total] = spent[Total] /\ UNCHANGED <<thread, billed, lost>>
    BY <1>1, <1>8, LedgerAssumption DEF Midnight, NewDay, clientVars
  <2>2. Charging' = Charging /\ TotalCharged'
    BY <1>2, <2>1 DEF Charging, TotalCharged, Holds
  <2> QED BY <2>1, <2>2, NothingCharged
<1>9. CASE Crash
  <2>1. /\ lost' = billed - spent[Total] /\ UNCHANGED <<spent, billed>>
        /\ \A u \in Thread : thread'[u].pc = "idle"
    BY <1>1, <1>9 DEF Crash
  <2>2. Charging' = {} /\ TotalCharged'
    BY <2>1 DEF Charging, TotalCharged, Holds
  <2>3. Charges' = {}
    BY <2>2 DEF Charges
  <2>4. IsFiniteSet(Charges') /\ Cardinality(Charges') = 0
    BY <2>3, FS_EmptySet
  <2>5. billed' = spent'[Total] + Cardinality(Charges') + lost'
    BY <1>2, <2>1, <2>4
  <2> QED BY <2>2, <2>4, <2>5 DEF Money, MoneyAccounted, ChargedNotRecorded, Charges
<1>10. CASE UNCHANGED vars
  <2>1. UNCHANGED <<spent, thread, billed, lost>>
    BY <1>10 DEF vars, ledgerVars, clientVars
  <2>2. Charging' = Charging /\ TotalCharged'
    BY <1>2, <2>1 DEF Charging, TotalCharged, Holds
  <2> QED BY <2>1, <2>2, NothingCharged
<1> QED BY <1>3, <1>4, <1>5, <1>6, <1>7, <1>8, <1>9, <1>10 DEF Next, Proceed

\* What the provider has charged is in the table once, or is being recorded, or was
\* lost with a failing INSERT or with the process: for any number of threads.
THEOREM EveryChargeAccounted == Spec => []MoneyAccounted
<1>1. Init => Money
  <2>1. ASSUME Init
        PROVE  /\ Charging = {} /\ billed = 0 /\ lost = 0 /\ spent[Total] = 0
               /\ TotalCharged
    BY <2>1 DEF Init, LedgerInit, Account, Charging, TotalCharged, Holds, Idle
  <2>2. Init => Charges = {}
    BY <2>1 DEF Charges
  <2> QED BY <2>1, <2>2, FS_EmptySet DEF Money, MoneyAccounted, ChargedNotRecorded, Charges
<1>2. Money => MoneyAccounted
  BY DEF Money
<1> QED BY <1>1, <1>2, StepMoney, IInvHolds, PTL DEF Spec
-----------------------------------------------------------------------------
(* The file cache *)

\* The temporary file, like the answer, is half written while somebody fills it.
HalfTmp ==
    \A k \in Key : tmp[k] = "half" =>
        \/ faults > 0
        \/ \E t \in Thread : thread[t].pc = "fill" /\ thread[t].key = k /\ thread[t].fd = "tmp"

LEMMA StepHalf ==
    IInv /\ HalfTmp /\ HalfIsBeingWritten /\ [Next]_vars => HalfTmp' /\ HalfIsBeingWritten'
<1> SUFFICES ASSUME IInv, HalfTmp, HalfIsBeingWritten, [Next]_vars
             PROVE  HalfTmp' /\ HalfIsBeingWritten'
  OBVIOUS
<1>1. /\ thread \in [Thread -> Ask] /\ faults \in Nat
      /\ file \in [Key -> Content] /\ tmp \in [Key -> Content]
      /\ \A t \in Thread : thread[t] \in Ask
  BY DEF IInv, TypeOK
\* No file changes, and the threads that fill one go on.
<1>2. ASSUME UNCHANGED <<file, tmp>>, faults' \in Nat, faults' >= faults,
             \A u \in Thread : thread[u].pc = "fill" => thread'[u] = thread[u]
      PROVE  HalfTmp' /\ HalfIsBeingWritten'
  <2>1. HalfTmp'
    BY <1>1, <1>2 DEF HalfTmp
  <2>2. HalfIsBeingWritten'
    BY <1>1, <1>2 DEF HalfIsBeingWritten
  <2> QED BY <2>1, <2>2
<1>3. CASE UNCHANGED vars
  BY <1>1, <1>2, <1>3 DEF vars, clientVars
<1>4. CASE Midnight
  BY <1>1, <1>2, <1>4 DEF Midnight, clientVars
<1>5. CASE Crash
  <2>1. faults' > 0
    BY <1>1, <1>5 DEF Crash
  <2> QED BY <2>1 DEF HalfTmp, HalfIsBeingWritten
<1>6. ASSUME NEW t \in Thread, RecordFails(t)
      PROVE  HalfTmp' /\ HalfIsBeingWritten'
  <2>1. faults' > 0
    BY <1>1, <1>6 DEF RecordFails
  <2> QED BY <2>1 DEF HalfTmp, HalfIsBeingWritten
<1>7. ASSUME NEW t \in Thread, NEW k \in Key, NEW purpose \in Purpose, Start(t, k, purpose)
      PROVE  HalfTmp' /\ HalfIsBeingWritten'
  BY <1>1, <1>2, <1>7 DEF Start
<1>8. ASSUME NEW t \in Thread,
             Reserve(t) \/ Answered(t) \/ Raised(t) \/ Record(t) \/ Recorded(t)
      PROVE  HalfTmp' /\ HalfIsBeingWritten'
  <2>1. /\ UNCHANGED <<file, tmp, faults>> /\ thread[t].pc # "fill"
    BY <1>8 DEF Reserve, Answered, Raised, Record, Recorded
  <2>2. \A u \in Thread : u # t => thread'[u] = thread[u]
    BY <1>1, <1>8 DEF Reserve, Answered, Raised, Record, Recorded, Returns, Goes
  <2> QED BY <1>1, <1>2, <2>1, <2>2
<1>9. ASSUME NEW t \in Thread, OpenTmp(t)
      PROVE  HalfTmp' /\ HalfIsBeingWritten'
  <2> DEFINE k == thread[t].key
  <2>1. /\ thread[t].pc = "open" /\ tmp' = [tmp EXCEPT ![k] = "half"]
        /\ thread'[t].pc = "fill" /\ thread'[t].key = k /\ thread'[t].fd = "tmp"
        /\ \A u \in Thread : u # t => thread'[u] = thread[u]
        /\ UNCHANGED <<file, faults>>
    BY <1>1, <1>9 DEF OpenTmp, Ask
  <2>2. HalfTmp'
    BY <1>1, <2>1 DEF HalfTmp
  <2>3. HalfIsBeingWritten'
    BY <1>1, <2>1 DEF HalfIsBeingWritten
  <2> QED BY <2>2, <2>3
<1>10. ASSUME NEW t \in Thread, FillTmp(t)
       PROVE  HalfTmp' /\ HalfIsBeingWritten'
  <2> DEFINE k == thread[t].key
  <2>1. /\ tmp' = IF thread[t].fd = "tmp" THEN [tmp EXCEPT ![k] = "whole"] ELSE tmp
        /\ file' = IF thread[t].fd = "file" THEN [file EXCEPT ![k] = "whole"] ELSE file
        /\ \A u \in Thread : u # t => thread'[u] = thread[u]
        /\ faults' = faults
    BY <1>1, <1>10 DEF FillTmp
  <2>2. HalfTmp'
    BY <1>1, <2>1 DEF HalfTmp
  <2>3. HalfIsBeingWritten'
    BY <1>1, <2>1 DEF HalfIsBeingWritten
  <2> QED BY <2>2, <2>3
<1>11. ASSUME NEW t \in Thread, Replace(t)
       PROVE  HalfTmp' /\ HalfIsBeingWritten'
  <2> DEFINE k == thread[t].key
             moved == [tmp |-> "file", file |-> "none", none |-> "none"]
  <2>1. CASE tmp[k] = "none"
    BY <1>1, <1>2, <1>11, <2>1 DEF Replace, Returns
  <2>2. CASE tmp[k] # "none"
    <3>1. /\ thread[t].pc = "replace" /\ faults' = faults
          /\ file' = [file EXCEPT ![k] = tmp[k]]
          /\ tmp' = [tmp EXCEPT ![k] = "none"]
          /\ \A u \in Thread : u # t =>
                thread'[u] = IF thread[u].key = k
                             THEN [thread[u] EXCEPT !.fd = moved[@]] ELSE thread[u]
      BY <1>11, <2>2 DEF Replace
    <3>2. moved["tmp"] = "file"
      OBVIOUS
    <3>3. \A u \in Thread : u # t =>
             /\ thread'[u].pc = thread[u].pc /\ thread'[u].key = thread[u].key
             /\ thread[u].key # k => thread'[u].fd = thread[u].fd
             /\ thread[u].key = k /\ thread[u].fd = "tmp" => thread'[u].fd = "file"
      <4> SUFFICES ASSUME NEW u \in Thread, u # t
                   PROVE  /\ thread'[u].pc = thread[u].pc /\ thread'[u].key = thread[u].key
                          /\ thread[u].key # k => thread'[u].fd = thread[u].fd
                          /\ thread[u].key = k /\ thread[u].fd = "tmp"
                                => thread'[u].fd = "file"
        OBVIOUS
      <4> DEFINE c == thread[u]
                 fd == moved[c.fd]
      <4>1. c \in Ask /\ (c.fd = "tmp" => fd = "file")
        BY <1>1, <3>2
      <4>2. thread'[u] = IF c.key = k THEN [c EXCEPT !.fd = fd] ELSE c
        BY <3>1
      <4> HIDE DEF c, fd, k
      <4>3. thread'[u].pc = c.pc /\ thread'[u].key = c.key
            /\ (c.key # k => thread'[u].fd = c.fd)
            /\ (c.key = k /\ c.fd = "tmp" => thread'[u].fd = "file")
        BY <4>1, <4>2 DEF Ask
      <4> QED BY <4>3 DEF c
    <3> HIDE DEF k, moved
    <3>4. ASSUME NEW j \in Key, tmp'[j] = "half", ~ (faults' > 0)
          PROVE  \E u \in Thread : /\ thread'[u].pc = "fill" /\ thread'[u].key = j
                                   /\ thread'[u].fd = "tmp"
      <4>1. j # k /\ tmp[j] = "half"
        BY <1>1, <3>1, <3>4
      <4> QED BY <3>1, <3>3, <3>4, <4>1 DEF HalfTmp
    <3>5. ASSUME NEW j \in Key, file'[j] = "half", ~ (faults' > 0)
          PROVE  \E u \in Thread : /\ thread'[u].pc = "fill" /\ thread'[u].key = j
                                   /\ thread'[u].fd = "file"
      <4>1. CASE j = k
        <5>1. tmp[k] = "half"
          BY <1>1, <3>1, <3>5, <4>1
        <5> QED BY <3>1, <3>3, <3>5, <4>1, <5>1 DEF HalfTmp
      <4>2. CASE j # k
        <5>1. file[j] = "half"
          BY <1>1, <3>1, <3>5, <4>2
        <5> QED BY <3>1, <3>3, <3>5, <4>2, <5>1 DEF HalfIsBeingWritten
      <4> QED BY <4>1, <4>2
    <3> QED BY <3>4, <3>5 DEF HalfTmp, HalfIsBeingWritten
  <2> QED BY <2>1, <2>2
<1> QED BY <1>3, <1>4, <1>5, <1>6, <1>7, <1>8, <1>9, <1>10, <1>11 DEF Next, Proceed

\* However many threads write one answer over the same temporary file, a half written
\* one has a writer that is not through with it, unless something had failed.
THEOREM HalfAnswersHaveWriters == Spec => []HalfIsBeingWritten
<1>1. Init => HalfTmp /\ HalfIsBeingWritten
  BY DEF Init, HalfTmp, HalfIsBeingWritten
<1> QED BY <1>1, StepHalf, IInvHolds, PTL DEF Spec
=============================================================================
