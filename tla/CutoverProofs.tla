--------------------------- MODULE CutoverProofs ----------------------------
(***************************************************************************)
(* Theorems about the life of a state, for any amounts, any intact first   *)
(* file of any version, and any number of imports, and about what the hash *)
(* of an entry vouches for.                                                *)
(***************************************************************************)
EXTENDS Cutover, MoneyTheorems, SequenceTheorems

-----------------------------------------------------------------------------
(***************************************************************************)
(* Sequences.                                                              *)
(***************************************************************************)
Whole(l) == l \in Seq(Range(l))

\* A prefix, entry by entry.
Begins(l, m) == Len(l) <= Len(m) /\ \A i \in 1 .. Len(l) : l[i] = m[i]

\* A sequence has a length and entries.
LEMMA WholeFacts ==
  ASSUME NEW l, Whole(l)
  PROVE  /\ Len(l) \in Nat /\ DOMAIN l = 1 .. Len(l)
         /\ \A i \in 1 .. Len(l) : l[i] \in Range(l)
         /\ Begins(l, l)
<1>1. Len(l) \in Nat /\ DOMAIN l = 1 .. Len(l)
  BY LenProperties DEF Whole
<1> QED
  BY <1>1 DEF Range, Begins

\* What appending an entry leaves as it was.
LEMMA WholeAppend ==
  ASSUME NEW l, Whole(l), NEW e
  PROVE  /\ Whole(Append(l, e)) /\ Len(Append(l, e)) = Len(l) + 1
         /\ Append(l, e)[Len(l) + 1] = e
         /\ \A i \in 1 .. Len(l) : Append(l, e)[i] = l[i]
         /\ Begins(l, Append(l, e))
<1> DEFINE S == Range(l) \cup {e}
           m == Append(l, e)
<1>1. l \in Seq(S) /\ e \in S
  BY SeqMonotonic DEF Whole
<1> HIDE DEF S
<1>2. /\ m \in Seq(S) /\ Len(m) = Len(l) + 1 /\ m[Len(l) + 1] = e
      /\ \A i \in 1 .. Len(l) : m[i] = l[i]
  BY <1>1, AppendProperties
<1>3. Len(l) \in Nat
  BY WholeFacts
<1> HIDE DEF m
<1>4. m \in [1 .. Len(m) -> Range(m)]
  BY <1>2, LenProperties DEF Range
<1>5. Whole(m)
  BY <1>2, <1>3, <1>4, SeqDef DEF Whole
<1>6. Begins(l, m)
  BY <1>2, <1>3 DEF Begins
<1> QED
  BY <1>2, <1>5, <1>6 DEF m

\* Prefixes compose.
LEMMA BeginsTrans ==
  ASSUME NEW l, NEW m, NEW n, Whole(l), Whole(m), Whole(n), Begins(l, m), Begins(m, n)
  PROVE  Begins(l, n)
<1>1. Len(l) \in Nat /\ Len(m) \in Nat /\ Len(n) \in Nat
  BY WholeFacts
<1> QED
  BY <1>1 DEF Begins

\* It is the prefix of the properties.
LEMMA BeginsIsPrefix ==
  ASSUME NEW l, NEW m, Whole(l), Whole(m), Begins(l, m)
  PROVE  IsPrefix(l, m)
<1>1. Len(l) \in Nat /\ Len(m) \in Nat /\ Len(l) <= Len(m)
  BY WholeFacts DEF Begins
<1>2. \A i \in 1 .. Len(l) : l[i] = m[i]
  BY DEF Begins
<1> DEFINE S == Range(l)
<1>3. \A i \in 1 .. Len(l) : l[i] \in S /\ m[i] \in S
  BY <1>2, WholeFacts
<1> HIDE DEF S
<1> DEFINE a == SubSeq(l, 1, Len(l))
           b == SubSeq(m, 1, Len(l))
<1>4. /\ a \in Seq(S) /\ b \in Seq(S) /\ Len(a) = Len(b)
      /\ \A i \in 1 .. Len(l) - 1 + 1 : a[i] = l[1 + i - 1] /\ b[i] = m[1 + i - 1]
      /\ Len(a) = IF 1 <= Len(l) THEN Len(l) - 1 + 1 ELSE 0
  BY <1>1, <1>3, SubSeqProperties
<1> HIDE DEF a, b
<1>5. Len(a) = Len(l)
  BY <1>1, <1>4
<1>6. \A i \in 1 .. Len(a) : a[i] = b[i]
  BY <1>1, <1>2, <1>4, <1>5
<1>7. a = b
  BY <1>4, <1>6, SeqEqual
<1> QED
  BY <1>1, <1>7 DEF IsPrefix, a, b

-----------------------------------------------------------------------------
(***************************************************************************)
(* What the ledger says was minted.                                        *)
(***************************************************************************)
Mint(e) == IF e.typ = "funds_minted" THEN e.amount ELSE 0

Amount(l) == [i \in DOMAIN l |-> Mint(l[i])]

\* The total of the amounts that mints brought.
LEMMA MintedInIs ==
  ASSUME NEW l
  PROVE  MintedIn(l) = Total(Amount(l))
BY DEF MintedIn, Amount, Mint

\* Nothing yet.
LEMMA NothingMinted == MintedIn(<<>>) = 0
<1>1. DOMAIN <<>> = {}
  BY EmptySeq, LenProperties
<1>2. Amount(<<>>) \in [{} -> Nat]
  BY <1>1 DEF Amount
<1> HIDE DEF Amount
<1> DEFINE f == Amount(<<>>)
<1>3. f \in [{} -> Nat] /\ \A x \in {} : f[x] = 0
  BY <1>2
<1> HIDE DEF f
<1>4. Total(f) = 0
  BY <1>3, TotalOfZeros
<1> QED
  BY <1>4, MintedInIs DEF f

\* One entry more.
LEMMA MintedInMore ==
  ASSUME NEW l, Whole(l), \A i \in 1 .. Len(l) : l[i].amount \in Nat, NEW e, e.amount \in Nat
  PROVE  /\ MintedIn(l) \in Nat
         /\ MintedIn(Append(l, e)) = MintedIn(l) + Mint(e)
<1> DEFINE n == Len(l)
           m == Append(l, e)
           f == Amount(l)
           g == Amount(m)
<1>1. n \in Nat /\ DOMAIN l = 1 .. n
  BY WholeFacts
<1>2. DOMAIN m = 1 .. n + 1 /\ m[n + 1] = e /\ \A i \in 1 .. n : m[i] = l[i]
  BY WholeAppend, WholeFacts
<1> HIDE DEF m, n
<1>3. f \in [1 .. n -> Nat]
  BY <1>1 DEF Amount, Mint, n
<1>4. g \in [1 .. n + 1 -> Nat]
  <2>1. \A i \in 1 .. n + 1 : m[i].amount \in Nat
    BY <1>1, <1>2 DEF n
  <2> QED
    BY <1>2, <2>1 DEF Amount, Mint
<1>5. g[n + 1] = Mint(e) /\ \A i \in 1 .. n : g[i] = f[i]
  BY <1>1, <1>2 DEF Amount
<1> HIDE DEF f, g
<1>6. IsFiniteSet(1 .. n)
  BY <1>1, FS_Interval
<1>7. n + 1 \notin 1 .. n /\ 1 .. n + 1 = (1 .. n) \cup {n + 1}
  BY <1>1
<1> DEFINE D == 1 .. n
           T == 1 .. n + 1
           x == n + 1
<1>8. Total(g) = Total(f) + g[x]
  <2>1. /\ IsFiniteSet(D) /\ x \notin D /\ T = D \cup {x}
        /\ f \in [D -> Nat] /\ g \in [T -> Nat] /\ \A y \in D : g[y] = f[y]
    BY <1>3, <1>4, <1>5, <1>6, <1>7
  <2> HIDE DEF D, T, x
  <2> QED
    BY <2>1, TotalOfMore, SMTT(60)
<1>9. Total(f) \in Nat
  BY <1>3, <1>6, UnitsFinite
<1> QED
  BY <1>5, <1>8, <1>9, MintedInIs DEF f, g, m

-----------------------------------------------------------------------------
(***************************************************************************)
(* States.  A good one would be accepted by the migration, is laid out as  *)
(* hashes were made of it, and has the fields that a load would otherwise  *)
(* fill in.                                                                *)
(***************************************************************************)
Record(l, n, h, m, b, x) ==
  [ledger |-> l, next |-> n, head |-> h, minted |-> m, balance |-> b, escrow |-> x]

GoodEntry(e) ==
  /\ e = [seq |-> e.seq, prev |-> e.prev, typ |-> e.typ, amount |-> e.amount,
          layout |-> "compact", hash |-> e.hash]
  /\ e.typ \in {"colony_created", "funds_minted", "trade_accepted"} /\ e.amount \in Nat

Good(s) ==
  /\ s = Record(s.ledger, s.next, s.head, s.minted, s.balance, s.escrow)
  /\ Whole(s.ledger) /\ \A i \in 1 .. Len(s.ledger) : GoodEntry(s.ledger[i])
  /\ {s.next, s.minted, s.escrow} \subseteq Nat /\ s.balance \in Int
  /\ s.head = LastHash(s.ledger)
  /\ s.minted = MintedIn(s.ledger)
  /\ VerifyStateIntegrity(s)

\* A record has its fields.
LEMMA RecordFields ==
  ASSUME NEW l, NEW n, NEW h, NEW m, NEW b, NEW x
  PROVE  LET s == Record(l, n, h, m, b, x)
         IN  /\ s.ledger = l /\ s.next = n /\ s.head = h
             /\ s.minted = m /\ s.balance = b /\ s.escrow = x
             /\ DOMAIN s = DOMAIN Empty
BY DEF Record, Empty

\* Nothing is wrong with an empty state.
LEMMA EmptyGood == Good(Empty)
<1>1. Empty = Record(<<>>, 0, NoHash, 0, 0, 0)
  BY DEF Empty, Record
<1>2. /\ Empty.ledger = <<>> /\ Empty.next = 0 /\ Empty.head = NoHash
      /\ Empty.minted = 0 /\ Empty.balance = 0 /\ Empty.escrow = 0
  BY <1>1, RecordFields
<1>3. Whole(<<>>) /\ Len(<<>>) = 0 /\ DOMAIN <<>> = 1 .. 0
  BY EmptySeq, LenProperties DEF Whole
<1>4. LastHash(<<>>) = NoHash
  BY DEF LastHash
<1>5. VerifyStateIntegrity(Empty)
  BY <1>2, <1>3 DEF VerifyStateIntegrity, Verifies
<1>6. \A i \in 1 .. Len(<<>>) : GoodEntry(<<>>[i])
  BY <1>3
<1> QED
  BY <1>1, <1>2, <1>3, <1>4, <1>5, <1>6, NothingMinted DEF Good

\* A good state is a state.
LEMMA GoodIsState == ASSUME NEW s, Good(s) PROVE IsState(s)
<1>1. DOMAIN s = DOMAIN Empty
  BY RecordFields DEF Good
<1>2. s.ledger \in Seq(Range(s.ledger)) /\ DOMAIN s.ledger = 1 .. Len(s.ledger)
  BY WholeFacts DEF Good, Whole
<1>3. ASSUME NEW e \in Range(s.ledger) PROVE IsEntry(e)
  <2>1. PICK i \in 1 .. Len(s.ledger) : e = s.ledger[i]
    BY <1>2 DEF Range
  <2>2. GoodEntry(e)
    BY <2>1 DEF Good
  <2> DEFINE r == [seq |-> e.seq, prev |-> e.prev, typ |-> e.typ, amount |-> e.amount,
                   layout |-> "compact", hash |-> e.hash]
  <2>3. /\ DOMAIN r = {"seq", "prev", "typ", "amount", "layout", "hash"}
        /\ r.layout = "compact"
    OBVIOUS
  <2>4. e = r
    BY <2>2 DEF GoodEntry
  <2> HIDE DEF r
  <2> QED
    BY <2>2, <2>3, <2>4 DEF GoodEntry, IsEntry
<1>4. {s.next, s.minted, s.escrow} \subseteq Nat /\ s.balance \in Int
  BY DEF Good
<1> QED
  BY <1>1, <1>2, <1>3, <1>4 DEF IsState

\* What is laid out in another way.
LEMMA LaidOutFields ==
  ASSUME NEW s, IsState(s), NEW layout \in {"compact", "indented"}
  PROVE  LET t == LaidOut(s, layout)
         IN  /\ t = Record(t.ledger, s.next, s.head, s.minted, s.balance, s.escrow)
             /\ Whole(t.ledger) /\ Len(t.ledger) = Len(s.ledger)
             /\ DOMAIN s.ledger = 1 .. Len(s.ledger)
             /\ \A i \in 1 .. Len(s.ledger) : t.ledger[i] = [s.ledger[i] EXCEPT !.layout = layout]
<1> DEFINE l == [i \in DOMAIN s.ledger |-> [s.ledger[i] EXCEPT !.layout = layout]]
           t == [s EXCEPT !.ledger = l]
<1>1. Whole(s.ledger) /\ DOMAIN s = DOMAIN Empty
  BY DEF IsState, Whole
<1>2. DOMAIN s.ledger = 1 .. Len(s.ledger) /\ Len(s.ledger) \in Nat
  BY <1>1, WholeFacts
<1>3. /\ DOMAIN l = 1 .. Len(s.ledger)
      /\ \A i \in 1 .. Len(s.ledger) : l[i] = [s.ledger[i] EXCEPT !.layout = layout]
      /\ l = [i \in DOMAIN l |-> l[i]]
  BY <1>2
<1>4. LaidOut(s, layout) = t
  BY DEF LaidOut
<1> HIDE DEF l
<1>5. l \in [1 .. Len(s.ledger) -> Range(l)]
  BY <1>3 DEF Range
<1>6. l \in Seq(Range(l))
  BY <1>2, <1>5, SeqDef
<1>7. Len(l) = Len(s.ledger)
  BY <1>2, <1>3, <1>6, LenProperties
<1>8. DOMAIN s = {"ledger", "next", "head", "minted", "balance", "escrow"}
  BY <1>1 DEF Empty
<1>9. t = Record(l, s.next, s.head, s.minted, s.balance, s.escrow)
  BY <1>8 DEF Record
<1> HIDE DEF t
<1>10. t.ledger = l
  BY <1>9, RecordFields
<1> QED
  BY <1>2, <1>3, <1>4, <1>6, <1>7, <1>9, <1>10 DEF Whole

\* What was written indented is as good once it is compacted again.
LEMMA EntryRoundTrip ==
  ASSUME NEW e, GoodEntry(e)
  PROVE  /\ [e EXCEPT !.layout = "compact"] = e
         /\ [[e EXCEPT !.layout = "indented"] EXCEPT !.layout = "compact"] = e
<1> DEFINE r(a) == [seq |-> e.seq, prev |-> e.prev, typ |-> e.typ, amount |-> e.amount,
                    layout |-> a, hash |-> e.hash]
<1>1. e = r("compact")
  BY DEF GoodEntry
<1>2. ASSUME NEW a, NEW b PROVE [r(a) EXCEPT !.layout = b] = r(b)
  OBVIOUS
<1> HIDE DEF r
<1> QED
  BY <1>1, <1>2

\* Ledgers with the same entries are the same.
LEMMA SameEntries ==
  ASSUME NEW l, NEW m, Whole(l), Whole(m), Len(l) = Len(m), \A i \in 1 .. Len(l) : l[i] = m[i]
  PROVE  l = m
<1>1. DOMAIN l = 1 .. Len(l) /\ DOMAIN m = 1 .. Len(m)
  BY WholeFacts
<1>2. Range(l) = Range(m)
  BY <1>1 DEF Range
<1> QED
  BY <1>2, SeqEqual DEF Whole

\* What was minted is a number.
LEMMA MintedNat ==
  ASSUME NEW l, Whole(l), \A i \in 1 .. Len(l) : l[i].amount \in Nat
  PROVE  MintedIn(l) \in Nat
<1> DEFINE e == [amount |-> 0]
<1>1. e.amount \in Nat
  OBVIOUS
<1> HIDE DEF e
<1> QED
  BY <1>1, MintedInMore

\* A good state that is laid out another way and compacted again is itself.
LEMMA RoundTrip ==
  ASSUME NEW s, Good(s)
  PROVE  /\ CloneJSON(s) = s
         /\ IsState(Indented(s)) /\ NormalizeRawPayloads(Indented(s)) = s
<1> DEFINE t == LaidOut(s, "indented")
           u == LaidOut(t, "compact")
           v == LaidOut(s, "compact")
<1>1. IsState(s)
  BY GoodIsState
<1>2. /\ t = Record(t.ledger, s.next, s.head, s.minted, s.balance, s.escrow)
      /\ Whole(t.ledger) /\ Len(t.ledger) = Len(s.ledger)
      /\ \A i \in 1 .. Len(s.ledger) : t.ledger[i] = [s.ledger[i] EXCEPT !.layout = "indented"]
  BY <1>1, LaidOutFields
<1>3. /\ v = Record(v.ledger, s.next, s.head, s.minted, s.balance, s.escrow)
      /\ Whole(v.ledger) /\ Len(v.ledger) = Len(s.ledger)
      /\ \A i \in 1 .. Len(s.ledger) : v.ledger[i] = [s.ledger[i] EXCEPT !.layout = "compact"]
  BY <1>1, LaidOutFields
<1> HIDE DEF t, v
<1>4. /\ t.next = s.next /\ t.head = s.head /\ t.minted = s.minted
      /\ t.balance = s.balance /\ t.escrow = s.escrow /\ DOMAIN t = DOMAIN Empty
  BY <1>2, RecordFields
<1>5. /\ Whole(s.ledger) /\ \A i \in 1 .. Len(s.ledger) : GoodEntry(s.ledger[i])
      /\ s = Record(s.ledger, s.next, s.head, s.minted, s.balance, s.escrow)
  BY DEF Good
<1>6. DOMAIN t.ledger = 1 .. Len(s.ledger)
  BY <1>2, WholeFacts
<1>7. ASSUME NEW e \in Range(t.ledger) PROVE IsEntry(e)
  <2>1. PICK i \in DOMAIN t.ledger : e = t.ledger[i]
    BY DEF Range
  <2>2. i \in 1 .. Len(s.ledger) /\ e = [s.ledger[i] EXCEPT !.layout = "indented"]
    BY <1>2, <1>6, <2>1
  <2> DEFINE a == s.ledger[i]
  <2>3. a \in Range(s.ledger)
    BY <1>5, <2>2, WholeFacts
  <2>4. IsEntry(a)
    BY <1>1, <2>3 DEF IsState
  <2>5. e = [a EXCEPT !.layout = "indented"]
    BY <2>2
  <2> HIDE DEF a
  <2> QED
    BY <2>4, <2>5 DEF IsEntry
<1>8. IsState(t)
  BY <1>1, <1>2, <1>4, <1>7 DEF IsState, Whole
<1>9. /\ u = Record(u.ledger, t.next, t.head, t.minted, t.balance, t.escrow)
      /\ Whole(u.ledger) /\ Len(u.ledger) = Len(t.ledger)
      /\ \A i \in 1 .. Len(t.ledger) : u.ledger[i] = [t.ledger[i] EXCEPT !.layout = "compact"]
  BY <1>8, LaidOutFields
<1> HIDE DEF u
<1>10. ASSUME NEW i \in 1 .. Len(s.ledger)
       PROVE  u.ledger[i] = s.ledger[i] /\ v.ledger[i] = s.ledger[i]
  <2> DEFINE a == s.ledger[i]
  <2>1. GoodEntry(a)
    BY <1>5
  <2>2. u.ledger[i] = [[a EXCEPT !.layout = "indented"] EXCEPT !.layout = "compact"]
    BY <1>2, <1>9
  <2>3. v.ledger[i] = [a EXCEPT !.layout = "compact"]
    BY <1>3
  <2> HIDE DEF a
  <2>4. u.ledger[i] = a /\ v.ledger[i] = a
    BY <2>1, <2>2, <2>3, EntryRoundTrip
  <2> QED
    BY <2>4 DEF a
<1>11. u.ledger = s.ledger /\ v.ledger = s.ledger
  BY <1>2, <1>3, <1>5, <1>9, <1>10, SameEntries
<1>12. u = s /\ v = s
  BY <1>3, <1>4, <1>5, <1>9, <1>11
<1> QED
  BY <1>8, <1>12 DEF CloneJSON, Indented, NormalizeRawPayloads, t, u, v

\* A load fills in nothing that is there.
LEMMA LoadIndented ==
  ASSUME NEW s, Good(s)
  PROVE  IsState(Indented(s)) /\ Load(Indented(s)) = s
<1>1. IsState(Indented(s)) /\ NormalizeRawPayloads(Indented(s)) = s
  BY RoundTrip
<1>2. /\ s = Record(s.ledger, s.next, s.head, s.minted, s.balance, s.escrow)
      /\ s.minted = MintedIn(s.ledger) /\ s.head = LastHash(s.ledger)
  BY DEF Good
<1>3. [s EXCEPT !.minted = s.minted] = s /\ [s EXCEPT !.head = s.head] = s
  <2> DEFINE r == Record(s.ledger, s.next, s.head, s.minted, s.balance, s.escrow)
  <2>1. [r EXCEPT !.minted = s.minted] = r /\ [r EXCEPT !.head = s.head] = r
    BY DEF Record
  <2> HIDE DEF r
  <2>2. r = s
    BY <1>2 DEF r
  <2> QED
    BY <2>1, <2>2
<1>4. BackfillMintedTotals(s) = s
  BY <1>2, <1>3 DEF BackfillMintedTotals
<1>5. BackfillLedgerHeads(s) = s
  BY <1>2, <1>3 DEF BackfillLedgerHeads
<1> QED
  BY <1>1, <1>4, <1>5 DEF Load

\* What a load makes of an intact first file is good.
LEMMA FirstFileGood ==
  ASSUME NEW f \in FirstFiles, f # None
  PROVE  IsState(f) /\ Good(Load(f))
<1>1. /\ IsState(f) /\ VerifyStateIntegrity(Load(f))
      /\ f.head \in {NoHash, LastHash(f.ledger)}
      /\ f.minted \in {0, MintedIn(f.ledger)}
  BY FirstFilesAssumption
<1> DEFINE c == NormalizeRawPayloads(f)
           b == BackfillMintedTotals(c)
           s == Load(f)
<1>2. /\ c = Record(c.ledger, f.next, f.head, f.minted, f.balance, f.escrow)
      /\ Whole(c.ledger) /\ Len(c.ledger) = Len(f.ledger)
      /\ DOMAIN f.ledger = 1 .. Len(f.ledger)
      /\ \A i \in 1 .. Len(f.ledger) : c.ledger[i] = [f.ledger[i] EXCEPT !.layout = "compact"]
  BY <1>1, LaidOutFields DEF NormalizeRawPayloads
<1> HIDE DEF c
<1>3. /\ c.head = f.head /\ c.minted = f.minted
  BY <1>2, RecordFields
<1>4. ASSUME NEW i \in 1 .. Len(f.ledger)
      PROVE  /\ GoodEntry(c.ledger[i])
             /\ c.ledger[i].typ = f.ledger[i].typ /\ c.ledger[i].amount = f.ledger[i].amount
             /\ c.ledger[i].hash = f.ledger[i].hash
  <2> DEFINE a == f.ledger[i]
             e == c.ledger[i]
  <2>1. IsEntry(a)
    BY <1>1, <1>2 DEF IsState, Range
  <2>2. e = [a EXCEPT !.layout = "compact"]
    BY <1>2
  <2> HIDE DEF a, e
  <2>3. e = [seq |-> a.seq, prev |-> a.prev, typ |-> a.typ, amount |-> a.amount,
             layout |-> "compact", hash |-> a.hash]
    BY <2>1, <2>2 DEF IsEntry
  <2>4. /\ e.seq = a.seq /\ e.prev = a.prev /\ e.typ = a.typ /\ e.amount = a.amount
        /\ e.hash = a.hash
    BY <2>3
  <2>5. GoodEntry(e)
    BY <2>1, <2>3, <2>4 DEF IsEntry, GoodEntry
  <2> QED
    BY <2>4, <2>5 DEF a, e
<1>5. MintedIn(c.ledger) = MintedIn(f.ledger)
  <2>1. DOMAIN c.ledger = DOMAIN f.ledger
    BY <1>2, WholeFacts
  <2>2. Amount(c.ledger) = Amount(f.ledger)
    BY <1>2, <1>4, <2>1 DEF Amount, Mint
  <2> QED
    BY <2>2, MintedInIs
<1>6. LastHash(c.ledger) = LastHash(f.ledger)
  <2>1. Len(f.ledger) \in Nat /\ (f.ledger # <<>> => Len(f.ledger) > 0)
        /\ (c.ledger # <<>> => Len(c.ledger) > 0)
    BY <1>1, <1>2, EmptySeq, WholeFacts DEF IsState, Whole
  <2>2. Len(<<>>) = 0
    BY EmptySeq
  <2>3. f.ledger = <<>> <=> c.ledger = <<>>
    BY <1>2, <2>1, <2>2
  <2> QED
    BY <1>2, <1>4, <2>1, <2>3 DEF LastHash
<1>7. b = Record(c.ledger, f.next, f.head, MintedIn(c.ledger), f.balance, f.escrow)
  <2>1. CASE f.minted = 0
    <3>1. b = [c EXCEPT !.minted = MintedIn(c.ledger)]
      BY <1>3, <2>1 DEF BackfillMintedTotals
    <3> DEFINE m == MintedIn(c.ledger)
               l == c.ledger
               r == Record(l, f.next, f.head, f.minted, f.balance, f.escrow)
    <3>2. [r EXCEPT !.minted = m] = Record(l, f.next, f.head, m, f.balance, f.escrow)
      BY DEF Record
    <3> HIDE DEF m, l, r
    <3>3. r = c
      BY <1>2 DEF r, l
    <3> QED
      BY <3>1, <3>2, <3>3 DEF m, l
  <2>2. CASE f.minted # 0
    BY <1>1, <1>2, <1>3, <1>5, <2>2 DEF BackfillMintedTotals
  <2> QED
    BY <2>1, <2>2
<1> HIDE DEF b
<1>8. b.ledger = c.ledger /\ b.head = f.head
  BY <1>7, RecordFields
<1>9. s = BackfillLedgerHeads(b)
  BY DEF Load, b, c
<1>10. s = Record(c.ledger, f.next, LastHash(c.ledger), MintedIn(c.ledger), f.balance, f.escrow)
  <2>1. CASE f.head = NoHash
    <3> DEFINE h == LastHash(c.ledger)
               l == c.ledger
               r == Record(l, f.next, f.head, MintedIn(l), f.balance, f.escrow)
    <3>1. s = [b EXCEPT !.head = h]
      BY <1>8, <1>9, <2>1 DEF BackfillLedgerHeads
    <3>2. [r EXCEPT !.head = h] = Record(l, f.next, h, MintedIn(l), f.balance, f.escrow)
      BY DEF Record
    <3> HIDE DEF h, l, r
    <3>3. r = b
      BY <1>7 DEF r, l
    <3> QED
      BY <3>1, <3>2, <3>3 DEF h, l
  <2>2. CASE f.head # NoHash
    BY <1>1, <1>6, <1>7, <1>8, <1>9, <2>2 DEF BackfillLedgerHeads
  <2> QED
    BY <2>1, <2>2
<1> HIDE DEF s
<1>11. /\ s.ledger = c.ledger /\ s.next = f.next /\ s.head = LastHash(c.ledger)
       /\ s.minted = MintedIn(c.ledger) /\ s.balance = f.balance /\ s.escrow = f.escrow
  BY <1>10, RecordFields
<1>12. MintedIn(c.ledger) \in Nat
  BY <1>2, <1>4, MintedNat DEF GoodEntry
<1>13. {f.next, f.escrow} \subseteq Nat /\ f.balance \in Int
  BY <1>1 DEF IsState
<1>14. VerifyStateIntegrity(s)
  BY <1>1 DEF s
<1>15. Good(s)
  BY <1>2, <1>4, <1>10, <1>11, <1>12, <1>13, <1>14 DEF Good
<1> QED
  BY <1>1, <1>15 DEF s

-----------------------------------------------------------------------------
(***************************************************************************)
(* Operations.                                                             *)
(***************************************************************************)
\* The entry that is appended to a ledger of n entries whose last hash is h.
Entry(n, h, typ, amount) ==
  [seq |-> n + 1, prev |-> h, typ |-> typ, amount |-> amount, layout |-> "compact",
   hash |-> HashLedgerEntry(n + 1, typ, amount, "compact", h)]

SetEntry(s, u, v, w) == [[[s EXCEPT !.ledger = u] EXCEPT !.next = v] EXCEPT !.head = w]

\* The fields that an entry changes.
LEMMA EntryUpdate ==
  ASSUME NEW l, NEW n, NEW h, NEW m, NEW b, NEW x, NEW u, NEW v, NEW w
  PROVE  SetEntry(Record(l, n, h, m, b, x), u, v, w)
           = Record(u, v, w, m, b, x)
<1>1. [Record(l, n, h, m, b, x) EXCEPT !.ledger = u] = Record(u, n, h, m, b, x)
  BY DEF Record
<1>2. [Record(u, n, h, m, b, x) EXCEPT !.next = v] = Record(u, v, h, m, b, x)
  BY DEF Record
<1>3. [Record(u, v, h, m, b, x) EXCEPT !.head = w] = Record(u, v, w, m, b, x)
  BY DEF Record
<1> QED
  BY <1>1, <1>2, <1>3 DEF SetEntry

SetMint(s, v, w) == [[s EXCEPT !.minted = v] EXCEPT !.balance = w]

\* The fields that a mint changes.
LEMMA MintUpdate ==
  ASSUME NEW l, NEW n, NEW h, NEW m, NEW b, NEW x, NEW v, NEW w
  PROVE  SetMint(Record(l, n, h, m, b, x), v, w)
           = Record(l, n, h, v, w, x)
<1>1. [Record(l, n, h, m, b, x) EXCEPT !.minted = v] = Record(l, n, h, v, b, x)
  BY DEF Record
<1>2. [Record(l, n, h, v, b, x) EXCEPT !.balance = w] = Record(l, n, h, v, w, x)
  BY DEF Record
<1> QED
  BY <1>1, <1>2 DEF SetMint

SetEscrow(s, v, w) == [[s EXCEPT !.balance = v] EXCEPT !.escrow = w]

\* The fields that an acceptance changes.
LEMMA EscrowUpdate ==
  ASSUME NEW l, NEW n, NEW h, NEW m, NEW b, NEW x, NEW v, NEW w
  PROVE  SetEscrow(Record(l, n, h, m, b, x), v, w)
           = Record(l, n, h, m, v, w)
<1>1. [Record(l, n, h, m, b, x) EXCEPT !.balance = v] = Record(l, n, h, m, v, x)
  BY DEF Record
<1>2. [Record(l, n, h, m, v, x) EXCEPT !.escrow = w] = Record(l, n, h, m, v, w)
  BY DEF Record
<1> QED
  BY <1>1, <1>2 DEF SetEscrow

\* The head is the last hash, of a ledger that is loaded and of one that is not.
LEMMA AppendIs ==
  ASSUME NEW l, NEW n, NEW h, NEW m, NEW b, NEW x, NEW typ, NEW amount,
         h = NoHash => LastHash(l) = NoHash
  PROVE  LET e == Entry(n, h, typ, amount)
         IN  AppendLedger(Record(l, n, h, m, b, x), typ, amount)
               = Record(Append(l, e), n + 1, e.hash, m, b, x)
<1> DEFINE s == Record(l, n, h, m, b, x)
           e == Entry(n, h, typ, amount)
           k == Append(l, e)
<1>1. s.ledger = l /\ s.next = n /\ s.head = h
  BY RecordFields
<1>2. (IF s.head = NoHash THEN LastHash(s.ledger) ELSE s.head) = h
  BY <1>1
<1>3. AppendLedger(s, typ, amount)
        = [s EXCEPT !.ledger = Append(@, e), !.next = @ + 1, !.head = e.hash]
  BY <1>1, <1>2 DEF AppendLedger, Entry
<1> HIDE DEF e, s, k
<1>4. [s EXCEPT !.ledger = Append(@, e), !.next = @ + 1, !.head = e.hash]
        = SetEntry(s, k, n + 1, e.hash)
  BY <1>1 DEF k, SetEntry
<1>5. SetEntry(s, k, n + 1, e.hash)
        = Record(k, n + 1, e.hash, m, b, x)
  BY EntryUpdate DEF s
<1> QED
  BY <1>3, <1>4, <1>5 DEF e, s, k

\* What an operation does to the money.
Kind(op) == CASE op.kind = "create" -> "colony_created"
              [] op.kind = "mint" -> "funds_minted"
              [] op.kind = "accept" -> "trade_accepted"

Moves(op, l, n, h, m, b, x) ==
  LET e == Entry(n, h, Kind(op), IF op.kind = "create" THEN 0 ELSE op.amount)
      l2 == Append(l, e)
  IN CASE op.kind = "create" -> Record(l2, n + 1, e.hash, m, b, x)
       [] op.kind = "mint"   -> Record(l2, n + 1, e.hash, m + op.amount, b + op.amount, x)
       [] op.kind = "accept" -> Record(l2, n + 1, e.hash, m, b - op.amount, x + op.amount)

\* The amounts of the three operations.
LEMMA OperationKinds ==
  ASSUME NEW op \in Operations
  PROVE  /\ \/ op.kind = "create" /\ op.amount = 0
            \/ op.kind = "mint" /\ op.amount \in Nat \ {0}
            \/ op.kind = "accept" /\ op.amount \in Nat \ {0}
BY LedgerAssumption DEF Operations

\* An operation, field by field.
LEMMA PerformIs ==
  ASSUME NEW l, NEW n, NEW h, NEW m, NEW b, NEW x, NEW op \in Operations,
         h = NoHash => LastHash(l) = NoHash
  PROVE  Perform(op, Record(l, n, h, m, b, x)) = Moves(op, l, n, h, m, b, x)
<1> DEFINE s == Record(l, n, h, m, b, x)
           a == op.amount
<1>0. s.minted = m /\ s.balance = b /\ s.escrow = x
  BY RecordFields
<1> HIDE DEF s, a
<1>1. [s EXCEPT !.minted = @ + a, !.balance = @ + a] = Record(l, n, h, m + a, b + a, x)
  <2>1. [s EXCEPT !.minted = @ + a, !.balance = @ + a]
          = SetMint(s, m + a, b + a)
    BY <1>0 DEF SetMint
  <2>2. SetMint(s, m + a, b + a) = Record(l, n, h, m + a, b + a, x)
    BY MintUpdate DEF s
  <2> QED
    BY <2>1, <2>2
<1>2. [s EXCEPT !.balance = @ - a, !.escrow = @ + a] = Record(l, n, h, m, b - a, x + a)
  <2>1. [s EXCEPT !.balance = @ - a, !.escrow = @ + a]
          = SetEscrow(s, b - a, x + a)
    BY <1>0 DEF SetEscrow
  <2>2. SetEscrow(s, b - a, x + a) = Record(l, n, h, m, b - a, x + a)
    BY EscrowUpdate DEF s
  <2> QED
    BY <2>1, <2>2
<1> USE DEF s, a
<1>3. CASE op.kind = "create"
  BY <1>3, AppendIs DEF Perform, Moves, Kind
<1>4. CASE op.kind = "mint"
  <2> DEFINE m2 == m + a
             b2 == b + a
  <2>1. Perform(op, s) = AppendLedger(Record(l, n, h, m2, b2, x), "funds_minted", a)
    BY <1>1, <1>4 DEF Perform
  <2> HIDE DEF s, a, m2, b2
  <2>2. Perform(op, s) = LET e == Entry(n, h, "funds_minted", a)
                         IN  Record(Append(l, e), n + 1, e.hash, m2, b2, x)
    BY <2>1, AppendIs
  <2> QED
    BY <1>4, <2>2 DEF Moves, Kind, s, a, m2, b2
<1>5. CASE op.kind = "accept"
  <2> DEFINE b2 == b - a
             x2 == x + a
  <2>1. Perform(op, s) = AppendLedger(Record(l, n, h, m, b2, x2), "trade_accepted", a)
    BY <1>2, <1>5 DEF Perform
  <2> HIDE DEF s, a, b2, x2
  <2>2. Perform(op, s) = LET e == Entry(n, h, "trade_accepted", a)
                         IN  Record(Append(l, e), n + 1, e.hash, m, b2, x2)
    BY <2>1, AppendIs
  <2> QED
    BY <1>5, <2>2 DEF Moves, Kind, s, a, b2, x2
<1> QED
  BY <1>3, <1>4, <1>5, OperationKinds

\* A chain that verifies still does with the next entry.
LEMMA ChainGrows ==
  ASSUME NEW l, Whole(l), Verifies(l), NEW typ, NEW amount
  PROVE  Verifies(Append(l, Entry(Len(l), LastHash(l), typ, amount)))
<1> DEFINE n == Len(l)
           e == Entry(n, LastHash(l), typ, amount)
           m == Append(l, e)
<1>1. n \in Nat /\ DOMAIN l = 1 .. n /\ (n = 0 => l = <<>>) /\ (l = <<>> => n = 0)
  BY WholeFacts, EmptySeq DEF Whole
<1>2. /\ Whole(m) /\ Len(m) = n + 1 /\ m[n + 1] = e /\ \A i \in 1 .. n : m[i] = l[i]
  BY WholeAppend
<1>3. DOMAIN m = 1 .. n + 1
  BY <1>2, WholeFacts
<1>4. /\ e.seq = n + 1 /\ e.prev = LastHash(l)
      /\ e.hash = HashLedgerEntry(e.seq, e.typ, e.amount, e.layout, e.prev)
  BY DEF Entry
<1> HIDE DEF n, e, m
<1>5. ASSUME NEW i \in 1 .. n + 1
      PROVE  /\ m[i].seq = i
             /\ m[i].prev = IF i = 1 THEN NoHash ELSE m[i - 1].hash
             /\ m[i].hash = HashLedgerEntry(m[i].seq, m[i].typ, m[i].amount, m[i].layout, m[i].prev)
  <2>1. CASE i = n + 1
    <3>1. LastHash(l) = IF i = 1 THEN NoHash ELSE m[i - 1].hash
      <4>1. CASE n = 0
        BY <1>1, <2>1, <4>1 DEF LastHash
      <4>2. CASE n # 0
        <5>1. n \in 1 .. n /\ i - 1 = n /\ i # 1 /\ l # <<>>
          BY <1>1, <2>1, <4>2
        <5> QED
          BY <1>2, <5>1 DEF LastHash, n
      <4> QED
        BY <4>1, <4>2
    <3> QED
      BY <1>2, <1>4, <2>1, <3>1
  <2>2. CASE i # n + 1
    <3>1. i \in 1 .. n /\ (i # 1 => i - 1 \in 1 .. n)
      BY <1>1, <2>2
    <3>2. /\ l[i].seq = i
          /\ l[i].prev = IF i = 1 THEN NoHash ELSE l[i - 1].hash
          /\ l[i].hash = HashLedgerEntry(l[i].seq, l[i].typ, l[i].amount, l[i].layout, l[i].prev)
      BY <1>1, <3>1 DEF Verifies
    <3> QED
      BY <1>2, <3>1, <3>2
  <2> QED
    BY <2>1, <2>2
<1>6. Verifies(m)
  BY <1>3, <1>5 DEF Verifies
<1> QED
  BY <1>6 DEF n, e, m

\* An operation on a good state makes a good one, whose ledger begins with the
\* one there was.
LEMMA PerformGood ==
  ASSUME NEW s, Good(s), NEW op \in Operations, Possible(op, s)
  PROVE  Good(Perform(op, s)) /\ Begins(s.ledger, Perform(op, s).ledger)
<1> DEFINE l == s.ledger
           n == s.next
           h == s.head
           m == s.minted
           b == s.balance
           x == s.escrow
           typ == Kind(op)
           amount == IF op.kind = "create" THEN 0 ELSE op.amount
           e == Entry(n, h, typ, amount)
           k == Append(l, e)
           new == Perform(op, s)
<1>1. /\ s = Record(l, n, h, m, b, x) /\ Whole(l)
      /\ \A i \in 1 .. Len(l) : GoodEntry(l[i])
      /\ n \in Nat /\ m \in Nat /\ x \in Nat /\ b \in Int
      /\ h = LastHash(l) /\ m = MintedIn(l)
  BY DEF Good
<1>2. Verifies(l) /\ n = Len(l) /\ b >= 0 /\ b + x = m
  BY DEF Good, VerifyStateIntegrity
<1>3. \/ op.kind = "create" /\ op.amount = 0
      \/ op.kind = "mint" /\ op.amount \in Nat \ {0}
      \/ op.kind = "accept" /\ op.amount \in Nat \ {0}
  BY OperationKinds
<1>4. amount \in Nat /\ typ \in {"colony_created", "funds_minted", "trade_accepted"}
  BY <1>3 DEF Kind
<1>5. GoodEntry(e) /\ e.amount = amount /\ e.typ = typ
  BY <1>4 DEF Entry, GoodEntry
<1>6. new = Moves(op, l, n, h, m, b, x)
  BY <1>1, PerformIs
<1>7. op.kind = "accept" => b >= op.amount
  BY DEF Possible
<1> DEFINE m2 == IF op.kind = "mint" THEN m + op.amount ELSE m
           b2 == IF op.kind = "mint" THEN b + op.amount
                 ELSE IF op.kind = "accept" THEN b - op.amount ELSE b
           x2 == IF op.kind = "accept" THEN x + op.amount ELSE x
           g == e.hash
<1>8. new = Record(k, n + 1, g, m2, b2, x2)
  BY <1>3, <1>6 DEF Moves
<1>9. m2 \in Nat /\ b2 \in Nat /\ x2 \in Nat /\ b2 + x2 = m2
  BY <1>1, <1>2, <1>3, <1>7
<1>10. m2 = m + Mint(e)
  BY <1>1, <1>3, <1>5 DEF Mint, Kind
<1> HIDE DEF new, l, n, h, m, b, x, typ, amount, e, m2, b2, x2, g
<1>11. /\ Whole(k) /\ Len(k) = Len(l) + 1 /\ k[Len(l) + 1] = e
       /\ \A i \in 1 .. Len(l) : k[i] = l[i]
       /\ Begins(l, k)
  BY <1>1, WholeAppend
<1>12. MintedIn(k) = m2
  <2>1. \A i \in 1 .. Len(l) : l[i].amount \in Nat
    BY <1>1 DEF GoodEntry
  <2>2. e.amount \in Nat
    BY <1>4, <1>5
  <2> QED
    BY <1>1, <1>10, <2>1, <2>2, MintedInMore
<1>13. Verifies(k)
  BY <1>1, <1>2, ChainGrows DEF e
<1> HIDE DEF k
<1>14. Len(l) \in Nat
  BY <1>1, WholeFacts
<1>15. LastHash(k) = g
  <2>1. k # <<>>
    BY <1>11, <1>14, EmptySeq
  <2> QED
    BY <1>2, <1>11, <2>1 DEF LastHash, g
<1>16. \A i \in 1 .. Len(k) : GoodEntry(k[i])
  BY <1>1, <1>5, <1>11, <1>14
<1> DEFINE n2 == n + 1
<1>17. n2 \in Nat /\ n2 = Len(k)
  BY <1>1, <1>2, <1>11
<1>18. new = Record(k, n2, g, m2, b2, x2)
  BY <1>8
<1> HIDE DEF n2
<1>19. /\ new.ledger = k /\ new.next = n2 /\ new.head = g
       /\ new.minted = m2 /\ new.balance = b2 /\ new.escrow = x2
  BY <1>18, RecordFields
<1>20. VerifyStateIntegrity(new)
  BY <1>9, <1>13, <1>17, <1>19 DEF VerifyStateIntegrity
<1>21. Good(new)
  BY <1>9, <1>11, <1>12, <1>15, <1>16, <1>17, <1>18, <1>19, <1>20 DEF Good
<1> QED
  BY <1>11, <1>19, <1>21 DEF new, l

\* On the database the ledger is not loaded, and the entry is inserted behind
\* it; that makes no difference.
LEMMA ServeGood ==
  ASSUME NEW s, Good(s), NEW op \in Operations, Possible(op, s)
  PROVE  LET new == Perform(op, [s EXCEPT !.ledger = <<>>])
         IN  [new EXCEPT !.ledger = s.ledger \o new.ledger] = Perform(op, s)
<1> DEFINE l == s.ledger
           n == s.next
           h == s.head
           m == s.minted
           b == s.balance
           x == s.escrow
           bare == [s EXCEPT !.ledger = <<>>]
           new == Perform(op, bare)
           e == Entry(n, h, Kind(op), IF op.kind = "create" THEN 0 ELSE op.amount)
           k == Append(l, e)
           k0 == Append(<<>>, e)
<1>1. s = Record(l, n, h, m, b, x) /\ Whole(l) /\ h = LastHash(l)
  BY DEF Good
<1> HIDE DEF l, n, h, m, b, x, e, bare, new
<1>2. bare = Record(<<>>, n, h, m, b, x)
  <2>1. [Record(l, n, h, m, b, x) EXCEPT !.ledger = <<>>] = Record(<<>>, n, h, m, b, x)
    BY DEF Record
  <2> QED
    BY <1>1, <2>1 DEF bare
<1>3. new = Moves(op, <<>>, n, h, m, b, x)
  <2>1. h = NoHash => LastHash(<<>>) = NoHash
    BY DEF LastHash
  <2> QED
    BY <1>2, <2>1, PerformIs DEF new
<1>4. Perform(op, s) = Moves(op, l, n, h, m, b, x)
  BY <1>1, PerformIs
<1>5. l \o k0 = k
  <2> DEFINE S == Range(l) \cup {e}
  <2>1. l \in Seq(S) /\ e \in S /\ <<>> \in Seq(S)
    BY <1>1, SeqMonotonic, EmptySeq DEF Whole
  <2> HIDE DEF S
  <2>2. k \in Seq(S) /\ k0 \in Seq(S) /\ Len(l) \in Nat
    BY <2>1, AppendProperties, LenProperties
  <2>3. k = l \o <<e>> /\ k0 = <<>> \o <<e>>
    BY <2>1, AppendIsConcat
  <2>4. <<e>> \in Seq(S)
    BY <2>1
  <2> QED
    BY <2>3, <2>4, ConcatEmptySeq
<1> HIDE DEF k, k0
<1>6. ASSUME NEW p, NEW q, NEW g, NEW c, NEW d, NEW f,
             new = Record(k0, p, g, c, d, f), Perform(op, s) = Record(k, p, g, c, d, f)
      PROVE  [new EXCEPT !.ledger = l \o new.ledger] = Perform(op, s)
  <2>1. new.ledger = k0
    BY <1>6, RecordFields
  <2>2. [Record(k0, p, g, c, d, f) EXCEPT !.ledger = k] = Record(k, p, g, c, d, f)
    BY DEF Record
  <2> QED
    BY <1>5, <1>6, <2>1, <2>2
<1>7. [new EXCEPT !.ledger = l \o new.ledger] = Perform(op, s)
  <2>1. CASE op.kind = "create"
    BY <1>3, <1>4, <1>6, <2>1 DEF Moves, e, k, k0
  <2>2. CASE op.kind = "mint"
    BY <1>3, <1>4, <1>6, <2>2 DEF Moves, e, k, k0
  <2>3. CASE op.kind = "accept"
    BY <1>3, <1>4, <1>6, <2>3 DEF Moves, e, k, k0
  <2> QED
    BY <2>1, <2>2, <2>3, OperationKinds
<1> QED
  BY <1>7 DEF new, bare, l

-----------------------------------------------------------------------------
(***************************************************************************)
(* The inductive invariant.                                                *)
(***************************************************************************)
\* The state a server would find in the file.
Found == IF file = None THEN Empty ELSE Load(file)

Imported == \E i \in Imports : stage[i] = "imported"

\* Every state is good, and so is the file once it is loaded.
StatesGood ==
  /\ file = None \/ (IsState(file) /\ Good(Load(file)))
  /\ mem = None \/ Good(mem)
  /\ work = None \/ Good(work)
  /\ tmp \in {None, Torn} \/ IsState(tmp)
  /\ Good(target) /\ Good(acked)

\* An update prolongs what is in the file, and memory follows the file.
UpdateInv ==
  /\ step \in {"down", "idle", "write", "rename", "install"}
  /\ step = "down" => mem = None
  /\ step = "idle" => mem # None
  /\ step \in {"write", "rename", "install"} => work # None
  /\ mem # None /\ step # "install" => file # None /\ mem = Load(file)
  /\ step \in {"write", "rename"} => Begins(Found.ledger, work.ledger)
  /\ step = "rename" => tmp = Indented(work)
  /\ step = "install" => file = Indented(work)

\* Imports carry what is in the file, which stays as it is.
ImportInv ==
  /\ stage \in [Imports -> {"idle", "read", "insert", "imported", "refused"}]
  /\ carried = [i \in Imports |-> carried[i]]
  /\ \A i \in Imports : carried[i] = None \/ Good(carried[i])
  /\ \A i \in Imports :
       stage[i] \in {"read", "insert"} => step = "down" /\ file # None /\ carried[i] = Load(file)
  /\ Imported => step = "down"

\* What clients were told is in the file, or in the database once it was imported.
AckInv ==
  IF Imported THEN Begins(acked.ledger, target.ledger) ELSE Begins(acked.ledger, Found.ledger)

CInv == StatesGood /\ UpdateInv /\ ImportInv /\ AckInv

\* A step keeps the invariant, and what clients were told.
GoodStep == CInv' /\ Begins(acked.ledger, acked'.ledger)

\* A state is neither missing nor half a file, and its ledger is whole.
LEMMA GoodThere ==
  ASSUME NEW s, Good(s)
  PROVE  s # None /\ Whole(s.ledger) /\ s.next = Len(s.ledger) /\ VerifyStateIntegrity(s)
<1>1. DOMAIN s = DOMAIN Empty
  BY GoodIsState DEF IsState
<1>2. s # None
  BY <1>1 DEF Empty, None
<1> QED
  BY <1>2 DEF Good, VerifyStateIntegrity

\* A state is not a missing one.
LEMMA StateThere == ASSUME NEW s, IsState(s) PROVE s # None
BY DEF IsState, Empty, None

\* What is found in the file is good.
LEMMA FoundGood == ASSUME StatesGood PROVE Good(Found) /\ Whole(Found.ledger)
<1>1. Good(Found)
  BY EmptyGood DEF StatesGood, Found
<1> QED
  BY <1>1, GoodThere

\* Acknowledgements stay where nothing is told.
LEMMA AckStays == ASSUME CInv PROVE Begins(acked.ledger, acked.ledger)
BY GoodThere, WholeFacts DEF CInv, StatesGood

\* The invariant holds at first.
LEMMA InitInv == Init => CInv
<1> SUFFICES ASSUME Init PROVE CInv
  OBVIOUS
<1>1. file = None \/ (IsState(file) /\ Good(Load(file)))
  BY FirstFileGood DEF Init, FileInit
<1>2. acked = Found /\ Good(acked)
  BY <1>1, EmptyGood DEF Init, FileInit, Found
<1>3. StatesGood
  BY <1>1, <1>2, EmptyGood DEF Init, FileInit, StatesGood
<1>4. UpdateInv
  BY DEF Init, FileInit, UpdateInv
<1>5. ~Imported
  BY DEF Init, Imported
<1>6. ImportInv
  BY <1>5 DEF Init, ImportInv
<1>7. AckInv
  BY <1>2, <1>5, GoodThere, WholeFacts DEF AckInv
<1> QED
  BY <1>3, <1>4, <1>6, <1>7 DEF CInv

\* The server on the file leaves the imports alone, and has none beside it.
LEMMA ImportFrame ==
  ASSUME CInv, UNCHANGED <<target, stage, carried>>,
         step # "down" \/ \A i \in Imports : stage[i] \in {"idle", "refused"}
  PROVE  ImportInv' /\ ~Imported /\ ~Imported'
<1>1. ~Imported /\ \A i \in Imports : stage[i] \notin {"read", "insert"}
  BY DEF CInv, ImportInv, Imported
<1>2. ~Imported'
  BY <1>1 DEF Imported
<1> QED
  BY <1>1, <1>2 DEF CInv, ImportInv

\* Clients are told at a restart what is in the file.
LEMMA OpenKeeps ==
  ASSUME CInv, Open, UNCHANGED <<target, stage, carried>>,
         \A i \in Imports : stage[i] \in {"idle", "refused"}
  PROVE  GoodStep
<1>1. ImportInv' /\ ~Imported /\ ~Imported'
  BY ImportFrame
<1>2. Good(Load(file)) /\ Found' = Found /\ Found = Load(file)
  BY DEF CInv, StatesGood, Open, Found
<1>3. StatesGood'
  BY <1>2 DEF CInv, StatesGood, Open
<1>4. UpdateInv'
  BY <1>2, GoodThere DEF CInv, UpdateInv, Open
<1>5. Begins(Found.ledger, Found.ledger)
  BY <1>2, GoodThere, WholeFacts
<1>6. acked' = Found
  BY <1>2 DEF Open
<1>7. AckInv'
  BY <1>1, <1>2, <1>5, <1>6 DEF AckInv
<1>8. Begins(acked.ledger, acked'.ledger)
  BY <1>1, <1>6 DEF CInv, AckInv
<1> QED
  BY <1>1, <1>3, <1>4, <1>7, <1>8 DEF CInv, GoodStep

\* Steps that tell clients nothing and do not touch the file.
LEMMA Untold ==
  ASSUME CInv, UNCHANGED <<file, acked, target, stage, carried>>,
         step # "down" \/ \A i \in Imports : stage[i] \in {"idle", "refused"},
         StatesGood', UpdateInv'
  PROVE  GoodStep
<1>1. ImportInv' /\ ~Imported /\ ~Imported'
  BY ImportFrame
<1>2. Found' = Found
  BY DEF Found
<1>3. AckInv'
  BY <1>1, <1>2 DEF CInv, AckInv
<1> QED
  BY <1>1, <1>3, AckStays DEF CInv, GoodStep

\* The first state is empty.
LEMMA CreateKeeps ==
  ASSUME CInv, Create, UNCHANGED <<target, stage, carried>>,
         \A i \in Imports : stage[i] \in {"idle", "refused"}
  PROVE  GoodStep
<1>1. StatesGood'
  BY EmptyGood DEF CInv, StatesGood, Create
<1>2. Found' = Empty /\ work' = Empty /\ Begins(Empty.ledger, Empty.ledger) /\ Empty # None
  BY EmptyGood, GoodThere, WholeFacts DEF Create, Found
<1>3. UpdateInv'
  BY <1>2 DEF CInv, UpdateInv, Create
<1> QED
  BY <1>1, <1>3, Untold DEF Create

\* The copy an update works on prolongs what is in the file.
LEMMA UpdateKeeps ==
  ASSUME CInv, NEW op \in Operations, Update(op), UNCHANGED <<target, stage, carried>>
  PROVE  GoodStep
<1>1. mem # None /\ Good(mem) /\ Found = mem /\ file # None /\ mem = Load(file)
  BY DEF CInv, StatesGood, UpdateInv, Update, Found
<1>2. CloneJSON(mem) = mem
  BY <1>1, RoundTrip
<1>3. Good(work') /\ Begins(mem.ledger, work'.ledger)
  BY <1>1, <1>2, PerformGood DEF Update
<1>4. StatesGood'
  BY <1>3 DEF CInv, StatesGood, Update
<1>5. Found' = mem /\ work' # None
  BY <1>1, <1>3, GoodThere DEF Found, Update
<1>6. UpdateInv'
  BY <1>1, <1>3, <1>5 DEF CInv, UpdateInv, Update
<1> QED
  BY <1>4, <1>6, Untold DEF Update

\* The temporary file is what the update made.
LEMMA WriteKeeps ==
  ASSUME CInv, Write, UNCHANGED <<target, stage, carried>>
  PROVE  GoodStep
<1>1. Good(work) /\ IsState(tmp') /\ tmp' = Indented(work)
  BY RoundTrip DEF CInv, StatesGood, UpdateInv, Write
<1>2. StatesGood'
  BY <1>1 DEF CInv, StatesGood, Write
<1>3. Found' = Found
  BY DEF Found, Write
<1>4. UpdateInv'
  BY <1>1, <1>3 DEF CInv, UpdateInv, Write
<1> QED
  BY <1>2, <1>4, Untold DEF Write

\* The file is replaced by one that is found to be what the update made.
LEMMA RenameKeeps ==
  ASSUME CInv, Rename, UNCHANGED <<target, stage, carried>>
  PROVE  GoodStep
<1>1. ImportInv' /\ ~Imported /\ ~Imported'
  BY ImportFrame DEF Rename
<1>2. Good(work) /\ file' = Indented(work) /\ work' = work
  BY DEF CInv, StatesGood, UpdateInv, Rename
<1>3. IsState(file') /\ Load(file') = work
  BY <1>2, LoadIndented
<1>4. Found' = work
  BY <1>3, StateThere DEF Found
<1>5. StatesGood'
  BY <1>2, <1>3 DEF CInv, StatesGood, Rename
<1>6. UpdateInv'
  BY <1>2 DEF CInv, UpdateInv, Rename
<1>7. Begins(acked.ledger, Found.ledger) /\ Begins(Found.ledger, work.ledger)
  BY <1>1 DEF CInv, AckInv, UpdateInv, Rename
<1>8. Begins(acked.ledger, work.ledger)
  BY <1>2, <1>7, FoundGood, GoodThere, BeginsTrans DEF CInv, StatesGood
<1>9. AckInv' /\ acked' = acked
  BY <1>1, <1>4, <1>8 DEF AckInv, Rename
<1> QED
  BY <1>1, <1>5, <1>6, <1>9, AckStays DEF CInv, GoodStep

\* Memory and clients catch up with the file.
LEMMA InstallKeeps ==
  ASSUME CInv, Install, UNCHANGED <<target, stage, carried>>
  PROVE  GoodStep
<1>1. ImportInv' /\ ~Imported /\ ~Imported'
  BY ImportFrame DEF Install
<1>2. Good(work) /\ file = Indented(work)
  BY DEF CInv, StatesGood, UpdateInv, Install
<1>3. Load(file) = work /\ file # None
  BY <1>2, LoadIndented, StateThere
<1>4. Found' = work /\ Found = work /\ acked' = work /\ mem' = work /\ work # None
  BY <1>2, <1>3, GoodThere DEF Found, Install
<1>5. StatesGood'
  BY <1>2 DEF CInv, StatesGood, Install
<1>6. UpdateInv'
  BY <1>3, <1>4 DEF CInv, UpdateInv, Install
<1>7. AckInv'
  BY <1>1, <1>2, <1>4, GoodThere, WholeFacts DEF AckInv
<1>8. Begins(acked.ledger, acked'.ledger)
  BY <1>1, <1>4 DEF CInv, AckInv
<1> QED
  BY <1>1, <1>5, <1>6, <1>7, <1>8 DEF CInv, GoodStep

\* A failed write leaves the file and memory alone.
LEMMA SaveFailsKeeps ==
  ASSUME CInv, SaveFails, UNCHANGED <<target, stage, carried>>
  PROVE  GoodStep
<1>1. StatesGood'
  BY DEF CInv, StatesGood, SaveFails
<1>2. UpdateInv'
  BY DEF CInv, UpdateInv, SaveFails
<1> QED
  BY <1>1, <1>2, Untold DEF SaveFails

\* So does a crash, which forgets the memory.
LEMMA CrashKeeps ==
  ASSUME CInv, Crash, UNCHANGED <<target, stage, carried>>
  PROVE  GoodStep
<1>1. StatesGood'
  BY DEF CInv, StatesGood, Crash
<1>2. UpdateInv'
  BY DEF CInv, UpdateInv, Crash
<1> QED
  BY <1>1, <1>2, Untold DEF Crash

\* An import moves on, and leaves the file, the database and the clients alone.
LEMMA StageMoves ==
  ASSUME CInv, UNCHANGED <<fileVars, target>>, ImportInv', Imported' <=> Imported
  PROVE  GoodStep
<1>1. StatesGood' /\ UpdateInv' /\ Found' = Found
  BY DEF CInv, StatesGood, UpdateInv, Found, fileVars
<1>2. AckInv'
  BY <1>1 DEF CInv, AckInv, fileVars
<1> QED
  BY <1>1, <1>2, AckStays DEF CInv, GoodStep, fileVars

\* An import carries what is in the file.
LEMMA ReadFileKeeps == ASSUME CInv, NEW i \in Imports, ReadFile(i) PROVE GoodStep
<1>1. Good(Load(file)) /\ file # None /\ step = "down"
  BY DEF CInv, StatesGood, ReadFile
<1>2. Imported' <=> Imported
  BY DEF CInv, ImportInv, Imported, ReadFile
<1>3. ImportInv'
  BY <1>1, <1>2 DEF CInv, ImportInv, ReadFile, fileVars
<1> QED
  BY <1>2, <1>3, StageMoves DEF ReadFile

\* It goes on carrying that.
LEMMA BeginKeeps == ASSUME CInv, NEW i \in Imports, Begin(i) PROVE GoodStep
<1>1. Imported' <=> Imported
  BY DEF CInv, ImportInv, Imported, Begin
<1>2. ImportInv'
  BY <1>1 DEF CInv, ImportInv, Begin, fileVars
<1> QED
  BY <1>1, <1>2, StageMoves DEF Begin

\* A refused import changes nothing.
LEMMA RefuseImportKeeps == ASSUME CInv, NEW i \in Imports, RefuseImport(i) PROVE GoodStep
<1>1. Imported' <=> Imported
  BY DEF CInv, ImportInv, Imported, RefuseImport
<1>2. ImportInv'
  BY <1>1 DEF CInv, ImportInv, RefuseImport, fileVars
<1> QED
  BY <1>1, <1>2, StageMoves DEF RefuseImport

\* Nor does one that is abandoned.
LEMMA AbandonImportKeeps == ASSUME CInv, NEW i \in Imports, AbandonImport(i) PROVE GoodStep
<1>1. Imported' <=> Imported
  BY DEF CInv, ImportInv, Imported, AbandonImport
<1>2. ImportInv'
  BY <1>1 DEF CInv, ImportInv, AbandonImport, fileVars
<1> QED
  BY <1>1, <1>2, StageMoves DEF AbandonImport

\* The database takes over what was in the file, or was vacant already.
LEMMA CommitImportKeeps == ASSUME CInv, NEW i \in Imports, CommitImport(i) PROVE GoodStep
<1>1. /\ file # None /\ step = "down" /\ carried[i] = Load(file) /\ Good(Load(file))
      /\ Found = Load(file) /\ target' = Found /\ Found' = Found
  BY DEF CInv, StatesGood, ImportInv, CommitImport, Found, fileVars
<1>2. StatesGood' /\ UpdateInv'
  BY <1>1 DEF CInv, StatesGood, UpdateInv, CommitImport, fileVars
<1>3. Imported'
  BY DEF CInv, ImportInv, Imported, CommitImport
<1>4. ImportInv'
  BY <1>1, <1>3 DEF CInv, ImportInv, CommitImport, fileVars
<1>5. Begins(acked.ledger, Found.ledger)
  <2>1. CASE Imported
    <3>1. target.next = 0 /\ Len(target.ledger) = 0
      BY GoodThere DEF CInv, StatesGood, CommitImport, Vacant
    <3>2. Len(acked.ledger) \in Nat /\ Len(acked.ledger) <= Len(target.ledger)
      BY <2>1, GoodThere, WholeFacts DEF CInv, StatesGood, AckInv, Begins
    <3>3. Len(acked.ledger) = 0 /\ Len(Found.ledger) \in Nat
      BY <1>1, <3>1, <3>2, GoodThere, WholeFacts
    <3> QED
      BY <3>3 DEF Begins
  <2>2. CASE ~Imported
    BY <2>2 DEF CInv, AckInv
  <2> QED
    BY <2>1, <2>2
<1>6. AckInv' /\ acked' = acked
  BY <1>1, <1>3, <1>5 DEF AckInv, CommitImport, fileVars
<1> QED
  BY <1>2, <1>4, <1>6, AckStays DEF CInv, GoodStep

\* A request on the database prolongs what is there.
LEMMA ServeKeeps == ASSUME CInv, NEW op \in Operations, Serve(op) PROVE GoodStep
<1>1. Imported /\ Good(target) /\ Possible(op, target)
  BY DEF CInv, StatesGood, Serve, Imported
<1>2. target' = Perform(op, target) /\ acked' = target'
  BY <1>1, ServeGood DEF Serve
<1>3. Good(target') /\ Begins(target.ledger, target'.ledger)
  BY <1>1, <1>2, PerformGood
<1>4. Found' = Found /\ (Imported' <=> Imported)
  BY DEF Serve, Found, Imported
<1>5. StatesGood' /\ UpdateInv'
  BY <1>2, <1>3, <1>4 DEF CInv, StatesGood, UpdateInv, Serve
<1>6. ImportInv'
  BY <1>4 DEF CInv, ImportInv, Serve
<1>7. AckInv'
  BY <1>1, <1>2, <1>3, <1>4, GoodThere, WholeFacts DEF AckInv
<1>8. Begins(acked.ledger, target.ledger)
  BY <1>1 DEF CInv, AckInv
<1>9. Begins(acked.ledger, acked'.ledger)
  BY <1>2, <1>3, <1>8, GoodThere, BeginsTrans DEF CInv, StatesGood
<1> QED
  BY <1>5, <1>6, <1>7, <1>9 DEF CInv, GoodStep

\* Every step.
LEMMA StepKeeps == CInv /\ [Next]_vars => GoodStep
<1> SUFFICES ASSUME CInv, [Next]_vars PROVE GoodStep
  OBVIOUS
<1>1. CASE FileServer
  <2>1. UNCHANGED <<target, stage, carried>>
    BY <1>1 DEF FileServer
  <2>2. CASE (\A i \in Imports : stage[i] \in {"idle", "refused"}) /\ (Open \/ Create)
    BY <2>1, <2>2, OpenKeeps, CreateKeeps
  <2>3. CASE \E op \in Operations : Update(op)
    BY <2>1, <2>3, UpdateKeeps
  <2>4. CASE Write \/ Rename \/ Install \/ SaveFails \/ Crash
    BY <2>1, <2>4, WriteKeeps, RenameKeeps, InstallKeeps, SaveFailsKeeps, CrashKeeps
  <2> QED
    BY <1>1, <2>2, <2>3, <2>4 DEF FileServer
<1>2. CASE \E i \in Imports :
             ReadFile(i) \/ Begin(i) \/ CommitImport(i) \/ RefuseImport(i) \/ AbandonImport(i)
  BY <1>2, ReadFileKeeps, BeginKeeps, CommitImportKeeps, RefuseImportKeeps, AbandonImportKeeps
<1>3. CASE \E op \in Operations : Serve(op)
  BY <1>3, ServeKeeps
<1>4. CASE UNCHANGED vars
  <2>1. /\ StatesGood' /\ UpdateInv' /\ Found' = Found /\ (Imported' <=> Imported)
        /\ acked' = acked /\ target' = target
    BY <1>4 DEF CInv, StatesGood, UpdateInv, Found, Imported, vars
  <2>2. ImportInv' /\ AckInv'
    BY <1>4, <2>1 DEF CInv, ImportInv, AckInv, vars
  <2> QED
    BY <2>1, <2>2, AckStays DEF CInv, GoodStep
<1> QED
  BY <1>1, <1>2, <1>3, <1>4 DEF Next

-----------------------------------------------------------------------------
\* The invariant holds in every reachable state.
THEOREM CutoverSound == Spec => []CInv
<1>1. CInv /\ [Next]_vars => CInv'
  BY StepKeeps DEF GoodStep
<1> QED
  BY <1>1, InitInv, PTL DEF Spec

\* What is stored, in memory and on its way into the database is always a whole
\* state; only the temporary file may be half written.
THEOREM CutoverTypeCorrect == Spec => []TypeOK
<1>1. CInv => TypeOK
  <2> SUFFICES ASSUME CInv PROVE TypeOK
    OBVIOUS
  <2>1. \A i \in Imports : carried[i] = None \/ IsState(carried[i])
    BY GoodIsState DEF CInv, ImportInv
  <2>2. (mem = None \/ IsState(mem)) /\ (work = None \/ IsState(work))
        /\ (file = None \/ IsState(file)) /\ IsState(target) /\ IsState(acked)
    BY GoodIsState DEF CInv, StatesGood
  <2>3. tmp \in {None, Torn} \/ IsState(tmp)
    BY DEF CInv, StatesGood
  <2>4. /\ step \in {"down", "idle", "write", "rename", "install"}
        /\ stage \in [Imports -> {"idle", "read", "insert", "imported", "refused"}]
    BY DEF CInv, UpdateInv, ImportInv
  <2>5. \A s \in {file, mem, work} \cup {carried[i] : i \in Imports} : s = None \/ IsState(s)
    BY <2>1, <2>2
  <2> QED
    BY <2>2, <2>3, <2>4, <2>5 DEF TypeOK
<1> QED
  BY <1>1, CutoverSound, PTL

\* The server answers from what it would find after a restart (StoreUpdateScoped
\* and NewStore), for files of any version.
THEOREM MemoryFollowsFile == Spec => []MemoryIsFile
<1>1. CInv => MemoryIsFile
  BY DEF CInv, UpdateInv, MemoryIsFile
<1> QED
  BY <1>1, CutoverSound, PTL

\* Every state passes the checks of the migration (VerifyStateIntegrity): its
\* ledger is a chain and its money adds up, in the file, in memory and in the
\* database.
THEOREM StatesVerify == Spec => []StateVerifies
<1>1. CInv => StateVerifies
  BY GoodThere DEF CInv, StatesGood, StateVerifies
<1> QED
  BY <1>1, CutoverSound, PTL

\* What clients were told stays in the ledger, through crashes, restarts and
\* imports, and on the database (Install, ImportState, appendLedger).
THEOREM AckedIsKept == Spec => NothingAckedIsLost
<1>1. CInv /\ [Next]_vars => CInv' /\ [IsPrefix(acked.ledger, acked'.ledger)]_vars
  <2> SUFFICES ASSUME CInv, [Next]_vars PROVE CInv' /\ IsPrefix(acked.ledger, acked'.ledger)
    OBVIOUS
  <2>1. CInv' /\ Begins(acked.ledger, acked'.ledger)
    BY StepKeeps DEF GoodStep
  <2>2. Good(acked) /\ Good(acked')
    BY <2>1 DEF CInv, StatesGood
  <2> QED
    BY <2>1, <2>2, GoodThere, BeginsIsPrefix
<1> QED
  BY <1>1, InitInv, PTL DEF Spec, NothingAckedIsLost

-----------------------------------------------------------------------------
(***************************************************************************)
(* What a hash vouches for.  An entry's hash covers the hash before it, so *)
(* one hash, kept elsewhere, tells whether any entry up to it was changed, *)
(* dropped, added or moved since.  This needs nothing of how the ledgers   *)
(* came about, and holds for any layout of their payloads.                 *)
(***************************************************************************)
\* A ledger of records that have the fields of an entry.
EntriesOf(l) ==
  /\ Whole(l)
  /\ \A i \in 1 .. Len(l) :
       l[i] = [seq |-> l[i].seq, prev |-> l[i].prev, typ |-> l[i].typ, amount |-> l[i].amount,
               layout |-> l[i].layout, hash |-> l[i].hash]

\* Entries with one hash are one entry, and the entries before them have one hash.
LEMMA HashPinsEntry ==
  ASSUME NEW l, NEW m, EntriesOf(l), EntriesOf(m), Verifies(l), Verifies(m),
         NEW i \in 1 .. Len(l), NEW j \in 1 .. Len(m), l[i].hash = m[j].hash
  PROVE  i = j /\ l[i] = m[j] /\ (i > 1 => l[i - 1].hash = m[i - 1].hash)
<1>1. DOMAIN l = 1 .. Len(l) /\ DOMAIN m = 1 .. Len(m)
  BY WholeFacts DEF EntriesOf
<1> DEFINE a == l[i]
           b == m[j]
<1>2. /\ a.seq = i /\ a.hash = <<a.seq, a.typ, a.amount, a.layout, a.prev>>
      /\ i > 1 => a.prev = l[i - 1].hash
  BY <1>1 DEF Verifies, HashLedgerEntry
<1>3. /\ b.seq = j /\ b.hash = <<b.seq, b.typ, b.amount, b.layout, b.prev>>
      /\ j > 1 => b.prev = m[j - 1].hash
  BY <1>1 DEF Verifies, HashLedgerEntry
<1>4. \A u, v, w, x, y, p, q, r, s, t :
        <<u, v, w, x, y>> = <<p, q, r, s, t>> => u = p /\ v = q /\ w = r /\ x = s /\ y = t
  OBVIOUS
<1>5. /\ a = [seq |-> a.seq, prev |-> a.prev, typ |-> a.typ, amount |-> a.amount,
              layout |-> a.layout, hash |-> a.hash]
      /\ b = [seq |-> b.seq, prev |-> b.prev, typ |-> b.typ, amount |-> b.amount,
              layout |-> b.layout, hash |-> b.hash]
  BY DEF EntriesOf
<1>6. a.hash = b.hash
  OBVIOUS
<1> HIDE DEF a, b
<1>7. a.seq = b.seq /\ a.typ = b.typ /\ a.amount = b.amount /\ a.layout = b.layout /\ a.prev = b.prev
  BY <1>2, <1>3, <1>4, <1>6
<1>8. i = j /\ a = b
  BY <1>2, <1>3, <1>5, <1>6, <1>7
<1> QED
  BY <1>2, <1>3, <1>7, <1>8 DEF a, b

(***************************************************************************)
(* The last hash of a ledger (LastLedgerHash) is found in no other history *)
(* than its own: whichever ledger has it, and verifies, begins with all of *)
(* that ledger and has the hash at its end.                                *)
(***************************************************************************)
THEOREM HashPinsHistory ==
  ASSUME NEW l, NEW m, EntriesOf(l), EntriesOf(m), Verifies(l), Verifies(m), l # <<>>,
         NEW i \in 1 .. Len(m), m[i].hash = LastHash(l)
  PROVE  Len(l) = i /\ Begins(l, m)
<1>1. Len(l) \in Nat \ {0} /\ Len(m) \in Nat
  BY WholeFacts, EmptySeq DEF EntriesOf, Whole
<1>2. Len(l) = i /\ l[i].hash = m[i].hash
  <2>1. Len(l) \in 1 .. Len(l) /\ l[Len(l)].hash = m[i].hash
    BY <1>1 DEF LastHash
  <2> QED
    BY <2>1, HashPinsEntry
<1> DEFINE Differ == {k \in 1 .. i : l[k].hash # m[k].hash}
           Back   == {i - k : k \in Differ}
<1>3. Differ = {}
  <2> SUFFICES ASSUME Differ # {} PROVE FALSE
    OBVIOUS
  <2>1. Back # {} /\ Back \subseteq Nat
    BY <1>1
  <2>2. PICK n \in Back : \A k \in Back : ~(<<k, n>> \in OpToRel(<, Nat))
    BY <2>1, NatLessThanWellFounded, WFMin
  <2>3. PICK k \in Differ : n = i - k
    BY <2>2
  <2>4. k # i
    BY <1>2
  <2>5. k + 1 \in 1 .. i /\ k + 1 \in 1 .. Len(l) /\ k + 1 \in 1 .. Len(m)
    BY <1>1, <1>2, <2>4
  <2>6. k + 1 \notin Differ
    <3> SUFFICES ASSUME k + 1 \in Differ PROVE FALSE
      OBVIOUS
    <3>1. i - (k + 1) \in Back
      OBVIOUS
    <3>2. i - (k + 1) < n /\ i - (k + 1) \in Nat /\ n \in Nat
      BY <1>1, <2>3, <2>5
    <3>3. <<i - (k + 1), n>> \in OpToRel(<, Nat)
      BY <3>2 DEF OpToRel
    <3> QED
      BY <2>2, <3>1, <3>3
  <2>7. l[(k + 1) - 1].hash = m[(k + 1) - 1].hash
    <3> DEFINE h == k + 1
    <3>1. h \in 1 .. Len(l) /\ h \in 1 .. Len(m) /\ l[h].hash = m[h].hash /\ h > 1
      BY <2>5, <2>6
    <3> HIDE DEF h
    <3>2. l[h - 1].hash = m[h - 1].hash
      BY <3>1, HashPinsEntry
    <3> QED
      BY <3>2 DEF h
  <2>8. (k + 1) - 1 = k
    BY <2>3
  <2> QED
    BY <2>3, <2>7, <2>8
<1> HIDE DEF Differ
<1>4. \A k \in 1 .. Len(l) : l[k] = m[k]
  <2> SUFFICES ASSUME NEW k \in 1 .. Len(l) PROVE l[k] = m[k]
    OBVIOUS
  <2>1. k \in 1 .. Len(m) /\ l[k].hash = m[k].hash
    BY <1>1, <1>2, <1>3 DEF Differ
  <2> QED
    BY <2>1, HashPinsEntry
<1> QED
  BY <1>1, <1>2, <1>4 DEF Begins

=============================================================================
