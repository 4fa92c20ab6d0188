---------------------------- MODULE AccountProofs ---------------------------
(***************************************************************************)
(* What accounts for a governed run, for any number of bodies and any      *)
(* limits.  The receipt: each effect that was authorised before the seal,  *)
(* and each refusal, has an entry of its own.  The ledger: the evidence of *)
(* a run tells how its dictionaries came to be what they are.  The proof   *)
(* about the receipt counts, for each operation and target, the effects    *)
(* that were done and those that are written down and still to be done.    *)
(***************************************************************************)
EXTENDS AuthorityProofs, FiniteSetTheorems

-----------------------------------------------------------------------------
(* Counting.                                                               *)

Places(s, x) == {k \in DOMAIN s : s[k] = x}

LEMMA PlacesOfAppend ==
  ASSUME NEW s, s \in Seq(Range(s)), NEW e
  PROVE  /\ Append(s, e) \in Seq(Range(Append(s, e)))
         /\ \A x : /\ IsFiniteSet(Places(s, x)) /\ IsFiniteSet(Places(Append(s, e), x))
                   /\ Cardinality(Places(Append(s, e), x)) >= Cardinality(Places(s, x))
         /\ Cardinality(Places(Append(s, e), e)) = Cardinality(Places(s, e)) + 1
  <1> DEFINE n == Len(s)
             S == Range(s) \cup {e}
             t == Append(s, e)
  <1>1. s \in Seq(S) /\ n \in Nat /\ DOMAIN s = 1 .. n
    BY SeqMonotonic, LenProperties
  <1>2. /\ t \in Seq(S) /\ Len(t) = n + 1 /\ DOMAIN t = 1 .. n + 1
        /\ \A k \in 1 .. n : t[k] = s[k]
        /\ t[n + 1] = e
    BY <1>1, AppendProperties, LenProperties
  <1>3. t \in Seq(Range(t))
    BY <1>2, SeqOfRange
  <1> HIDE DEF t, n
  <1>4. ASSUME NEW x
        PROVE  /\ IsFiniteSet(Places(s, x)) /\ IsFiniteSet(Places(t, x))
               /\ Places(s, x) \subseteq Places(t, x)
    <2>1. Places(s, x) \in SUBSET (1 .. n) /\ Places(t, x) \in SUBSET (1 .. n + 1)
      BY <1>1, <1>2 DEF Places
    <2>2. IsFiniteSet(1 .. n) /\ IsFiniteSet(1 .. n + 1)
      BY <1>1, FS_Interval
    <2>3. Places(s, x) \subseteq Places(t, x)
      BY <1>1, <1>2 DEF Places
    <2>. QED BY <2>1, <2>2, <2>3, FS_Subset
  <1>5. \A x : Cardinality(Places(t, x)) >= Cardinality(Places(s, x))
    BY <1>4, FS_Subset, FS_CardinalityType
  <1>6. Places(t, e) = Places(s, e) \cup {n + 1} /\ n + 1 \notin Places(s, e)
    BY <1>1, <1>2 DEF Places
  <1>7. Cardinality(Places(t, e)) = Cardinality(Places(s, e)) + 1
    BY <1>4, <1>6, FS_AddElement
  <1>. QED BY <1>3, <1>4, <1>5, <1>7 DEF t

-----------------------------------------------------------------------------
(* The receipt.                                                            *)

ReceiptIsRecord ==
  /\ DOMAIN receipt = {"effects", "truncated", "sealed"}
  /\ receipt.effects \in Seq(Range(receipt.effects))

\* Entries stay, and a receipt that is truncated stays so.
Grows ==
  /\ ReceiptIsRecord'
  /\ receipt.truncated => receipt'.truncated
  /\ receipt.sealed => receipt'.sealed
  /\ \A op, cap, target, decision :
       receipt'.truncated \/
         /\ Amount(op, cap, target, decision)' \in Nat
         /\ Amount(op, cap, target, decision)' >= Amount(op, cap, target, decision)

LEMMA AmountIsNat ==
  ASSUME ReceiptIsRecord, NEW op, NEW cap, NEW target, NEW decision
  PROVE  Amount(op, cap, target, decision) \in Nat
  <1> DEFINE x == Entry(op, cap, target, decision)
  <1>1. Amount(op, cap, target, decision) = Cardinality(Places(receipt.effects, x))
    BY DEF Amount, Places
  <1>2. IsFiniteSet(Places(receipt.effects, x))
    BY PlacesOfAppend DEF ReceiptIsRecord
  <1>. QED BY <1>1, <1>2, FS_CardinalityType

LEMMA SameReceiptGrows ==
  ASSUME ReceiptIsRecord, receipt' = receipt
  PROVE  Grows
  <1>1. \A op, cap, target, decision :
          Amount(op, cap, target, decision)' = Amount(op, cap, target, decision)
    BY DEF Amount
  <1>. QED BY <1>1, AmountIsNat DEF Grows, ReceiptIsRecord

\* An entry that is noted before the seal is there afterwards.
LEMMA NotedGrows ==
  ASSUME ReceiptIsRecord, NEW op, NEW cap, NEW target, NEW decision,
         receipt' = Noted(receipt, Entry(op, cap, target, decision))
  PROVE  /\ Grows
         /\ ~ receipt.sealed =>
              receipt'.truncated \/
                Amount(op, cap, target, decision)' >= Amount(op, cap, target, decision) + 1
  <1> DEFINE e == Entry(op, cap, target, decision)
             s == receipt.effects
  <1>1. CASE receipt' = receipt /\ receipt.sealed
    BY <1>1, SameReceiptGrows
  <1>2. CASE receipt' = [receipt EXCEPT !.truncated = TRUE]
    BY <1>2 DEF Grows, ReceiptIsRecord
  <1>3. CASE receipt' = [receipt EXCEPT !.effects = Append(@, e)]
    <2>1. receipt'.effects = Append(s, e) /\ receipt'.truncated = receipt.truncated
          /\ receipt'.sealed = receipt.sealed
      BY <1>3 DEF ReceiptIsRecord
    <2>2. DOMAIN receipt' = {"effects", "truncated", "sealed"}
      BY <1>3 DEF ReceiptIsRecord
    <2>3. s \in Seq(Range(s))
      BY DEF ReceiptIsRecord
    <2> HIDE DEF s, e
    <2>4. /\ Append(s, e) \in Seq(Range(Append(s, e)))
          /\ \A x : Cardinality(Places(Append(s, e), x)) >= Cardinality(Places(s, x))
          /\ Cardinality(Places(Append(s, e), e)) = Cardinality(Places(s, e)) + 1
          /\ \A x : Cardinality(Places(Append(s, e), x)) \in Nat
      BY <2>3, PlacesOfAppend, FS_CardinalityType
    <2>5. ASSUME NEW o, NEW c, NEW t, NEW d
          PROVE  /\ Amount(o, c, t, d) = Cardinality(Places(s, Entry(o, c, t, d)))
                 /\ Amount(o, c, t, d)' = Cardinality(Places(Append(s, e), Entry(o, c, t, d)))
      BY <2>1 DEF Amount, Places, s
    <2>6. Grows
      BY <2>1, <2>2, <2>4, <2>5 DEF Grows, ReceiptIsRecord
    <2>7. Amount(op, cap, target, decision)' = Amount(op, cap, target, decision) + 1
      BY <2>4, <2>5 DEF e
    <2>8. Amount(op, cap, target, decision) \in Nat
      BY AmountIsNat
    <2>. QED BY <2>6, <2>7, <2>8
  <1>. QED BY <1>1, <1>2, <1>3 DEF Noted

-----------------------------------------------------------------------------
(* What the receipt accounts for.                                          *)

RefusedFor(op, cap, target) ==
  {f \in refused : /\ f.unsealed /\ f.cap \notin f.decided
                   /\ f.op = op /\ f.cap = cap /\ f.target = target}

RefusalsAccounted ==
  receipt.truncated \/
  \A op, cap, target :
    Cardinality(RefusedFor(op, cap, target)) <= Amount(op, cap, target, "denied")

\* A body whose effect was written down before the seal and is still to be done,
\* and what it was written down as.
Due(b) ==
  /\ Inst(b).op \in FileOps \cup {"ENV", "EXEC", "FETCH"}
  /\ bodies[b].unsealed /\ CapOf(Inst(b).op) \in bodies[b].decided
  /\ \/ bodies[b].state = "started"
     \/ bodies[b].state = "io" /\ (Inst(b).op = "FETCH" => Io(b).phase = "dial")

DueLabel(b) ==
  IF Inst(b).op = "FETCH" /\ bodies[b].state = "io" /\ Len(Io(b).chain) > 1
  THEN <<"redirect">> ELSE Summary(Inst(b))

DueFor(op, target) == {b \in Ids : Due(b) /\ Inst(b).op = op /\ DueLabel(b) = target}

DoneFor(op, target) == {f \in performed : f.unsealed /\ f.op = op /\ Label(f) = target}

EffectsAccounted ==
  receipt.truncated \/
  \A op, target :
    Cardinality(DoneFor(op, target)) + Cardinality(DueFor(op, target))
      <= Amount(op, CapOf(op), target, "allowed")

Accounts ==
  /\ ReceiptIsRecord /\ IsFiniteSet(performed) /\ IsFiniteSet(refused)
  /\ RefusalsAccounted /\ EffectsAccounted

\* The steps that matter to the accounts.
Idles ==
  /\ performed' = performed /\ refused' = refused /\ Grows
  /\ \A c \in Ids' : Due(c)' =>
       c \in Ids /\ Due(c) /\ Inst(c)'.op = Inst(c).op /\ DueLabel(c)' = DueLabel(c)

Refuses(b) ==
  /\ performed' = performed /\ Grows /\ ~ Due(b)'
  /\ \E f : /\ refused' = refused \cup {f}
            /\ f.unsealed /\ f.cap \notin f.decided =>
                 /\ ~ receipt.sealed
                 /\ receipt' = Noted(receipt, Entry(f.op, f.cap, f.target, "denied"))

Decides(b) ==
  /\ performed' = performed /\ refused' = refused /\ Grows
  /\ Due(b)' =>
       /\ ~ receipt.sealed
       /\ receipt' = Noted(receipt, Entry(Inst(b)'.op, CapOf(Inst(b)'.op), DueLabel(b)', "allowed"))

Does(b) ==
  /\ refused' = refused /\ receipt' = receipt /\ ~ Due(b)'
  /\ \E e : /\ performed' = performed \cup {e}
            /\ e.unsealed => Due(b) /\ e.op = Inst(b).op /\ Label(e) = DueLabel(b)

\* One set more or less.
LEMMA OneMore ==
  ASSUME NEW S, IsFiniteSet(S), NEW T, NEW x
  PROVE  /\ T \subseteq S => IsFiniteSet(T) /\ Cardinality(T) <= Cardinality(S)
         /\ T \subseteq S \cup {x} => IsFiniteSet(T) /\ Cardinality(T) <= Cardinality(S) + 1
         /\ T \subseteq S \ {x} /\ x \in S => Cardinality(T) <= Cardinality(S) - 1
         /\ Cardinality(S) \in Nat /\ (IsFiniteSet(T) => Cardinality(T) \in Nat)
  <1>1. Cardinality(S) \in Nat /\ (IsFiniteSet(T) => Cardinality(T) \in Nat)
    BY FS_CardinalityType
  <1>2. T \subseteq S => IsFiniteSet(T) /\ Cardinality(T) <= Cardinality(S)
    BY FS_Subset
  <1>3. ASSUME T \subseteq S \cup {x}
        PROVE  IsFiniteSet(T) /\ Cardinality(T) <= Cardinality(S) + 1
    <2>1. /\ IsFiniteSet(S \cup {x})
          /\ Cardinality(S \cup {x}) = IF x \in S THEN Cardinality(S) ELSE Cardinality(S) + 1
      BY FS_AddElement
    <2>2. IsFiniteSet(T) /\ Cardinality(T) <= Cardinality(S \cup {x})
      BY <1>3, <2>1, FS_Subset
    <2>. QED BY <1>1, <2>1, <2>2, FS_CardinalityType
  <1>4. ASSUME T \subseteq S \ {x}, x \in S
        PROVE  Cardinality(T) <= Cardinality(S) - 1
    <2>1. IsFiniteSet(S \ {x}) /\ Cardinality(S \ {x}) = Cardinality(S) - 1
      BY <1>4, FS_RemoveElement
    <2>. QED BY <1>4, <2>1, FS_Subset
  <1>. QED BY <1>1, <1>2, <1>3, <1>4

LEMMA CountedSetsAreFinite ==
  ASSUME Accounts, IsFiniteSet(Ids), NEW op, NEW cap, NEW target
  PROVE  /\ IsFiniteSet(RefusedFor(op, cap, target))
         /\ IsFiniteSet(DoneFor(op, target)) /\ IsFiniteSet(DueFor(op, target))
  BY FS_Subset DEF Accounts, RefusedFor, DoneFor, DueFor

LEMMA SameRefusals ==
  ASSUME Accounts, refused' = refused, Grows
  PROVE  RefusalsAccounted' /\ IsFiniteSet(refused)' /\ ReceiptIsRecord'
  <1>1. IsFiniteSet(refused)' /\ ReceiptIsRecord'
    BY DEF Accounts, Grows
  <1>2. ASSUME ~ receipt'.truncated, NEW op, NEW cap, NEW target
        PROVE  Cardinality(RefusedFor(op, cap, target))' <= Amount(op, cap, target, "denied")'
    <2>1. RefusedFor(op, cap, target)' = RefusedFor(op, cap, target)
      BY DEF RefusedFor
    <2>2. Cardinality(RefusedFor(op, cap, target)) \in Nat
      <3>1. IsFiniteSet(RefusedFor(op, cap, target))
        BY FS_Subset DEF Accounts, RefusedFor
      <3>. QED BY <3>1, FS_CardinalityType
    <2>3. /\ Cardinality(RefusedFor(op, cap, target)) <= Amount(op, cap, target, "denied")
          /\ Amount(op, cap, target, "denied")' >= Amount(op, cap, target, "denied")
          /\ Amount(op, cap, target, "denied")' \in Nat
      BY <1>2 DEF Accounts, Grows, RefusalsAccounted
    <2>4. Amount(op, cap, target, "denied") \in Nat
      BY AmountIsNat DEF Accounts
    <2>. QED BY <2>1, <2>2, <2>3, <2>4
  <1>. QED BY <1>1, <1>2 DEF RefusalsAccounted

LEMMA IdlePreserves ==
  ASSUME Accounts, IsFiniteSet(Ids), Idles
  PROVE  Accounts'
  <1>1. RefusalsAccounted' /\ IsFiniteSet(refused)' /\ ReceiptIsRecord'
    BY SameRefusals DEF Idles
  <1>2. ASSUME ~ receipt'.truncated, NEW op, NEW target
        PROVE  Cardinality(DoneFor(op, target))' + Cardinality(DueFor(op, target))'
                 <= Amount(op, CapOf(op), target, "allowed")'
    <2>1. DoneFor(op, target)' = DoneFor(op, target)
      BY DEF DoneFor, Idles
    <2>2. DueFor(op, target)' \subseteq DueFor(op, target)
      BY DEF DueFor, Idles
    <2>3. Cardinality(DueFor(op, target)') <= Cardinality(DueFor(op, target))
          /\ IsFiniteSet(DueFor(op, target)')
      BY <2>2, CountedSetsAreFinite, FS_Subset
    <2>4. /\ Cardinality(DoneFor(op, target)) \in Nat /\ Cardinality(DueFor(op, target)) \in Nat
          /\ Cardinality(DueFor(op, target)') \in Nat
      BY <2>3, CountedSetsAreFinite, FS_CardinalityType
    <2>5. /\ Cardinality(DoneFor(op, target)) + Cardinality(DueFor(op, target))
               <= Amount(op, CapOf(op), target, "allowed")
          /\ Amount(op, CapOf(op), target, "allowed")' >= Amount(op, CapOf(op), target, "allowed")
          /\ Amount(op, CapOf(op), target, "allowed")' \in Nat
      <3>1. CapOf(op)' = CapOf(op)
        BY DEF CapOf, Class
      <3>. QED BY <1>2, <3>1 DEF Accounts, Idles, Grows, EffectsAccounted
    <2>6. Amount(op, CapOf(op), target, "allowed") \in Nat
      BY AmountIsNat DEF Accounts
    <2>. QED BY <2>1, <2>3, <2>4, <2>5, <2>6
  <1>3. IsFiniteSet(performed)'
    BY DEF Accounts, Idles
  <1>. QED BY <1>1, <1>2, <1>3 DEF Accounts, EffectsAccounted

LEMMA RefusalPreserves ==
  ASSUME Accounts, IsFiniteSet(Ids), NEW b \in Ids, Turn(b), Refuses(b)
  PROVE  Accounts'
  <1>1. PICK f : /\ refused' = refused \cup {f}
                 /\ f.unsealed /\ f.cap \notin f.decided =>
                      /\ ~ receipt.sealed
                      /\ receipt' = Noted(receipt, Entry(f.op, f.cap, f.target, "denied"))
    BY DEF Refuses
  <1>2. /\ performed' = performed /\ Grows /\ ReceiptIsRecord' /\ IsFiniteSet(refused)'
        /\ IsFiniteSet(performed)'
    BY <1>1, FS_AddElement DEF Refuses, Grows, Accounts
  <1>3. ASSUME ~ receipt'.truncated, NEW op, NEW cap, NEW target
        PROVE  Cardinality(RefusedFor(op, cap, target))' <= Amount(op, cap, target, "denied")'
    <2> DEFINE R == RefusedFor(op, cap, target)
               A == Amount(op, cap, target, "denied")
    <2>1. PICK S, T : S = R /\ T = R'
      OBVIOUS
    <2>2. IsFiniteSet(S) /\ Cardinality(S) <= A /\ A \in Nat /\ A' \in Nat /\ A' >= A
      <3>1. IsFiniteSet(R)
        BY CountedSetsAreFinite
      <3>2. A' \in Nat /\ A' >= A /\ Cardinality(R) <= A
        BY <1>2, <1>3 DEF Grows, Accounts, RefusalsAccounted
      <3>3. A \in Nat
        BY AmountIsNat DEF Accounts
      <3>. QED BY <2>1, <3>1, <3>2, <3>3
    <2>3. T \subseteq S \cup {f}
      BY <1>1, <2>1 DEF RefusedFor
    <2>4. CASE f \in T
      <3>1. f.unsealed /\ f.cap \notin f.decided /\ f.op = op /\ f.cap = cap /\ f.target = target
        BY <2>1, <2>4 DEF RefusedFor
      <3>2. A' >= A + 1
        BY <1>1, <1>3, <3>1, NotedGrows DEF Accounts
      <3>. QED BY <2>1, <2>2, <2>3, <3>2, OneMore
    <2>5. CASE f \notin T
      <3>1. T \subseteq S
        BY <2>3, <2>5
      <3>2. Cardinality(T) <= Cardinality(S) /\ Cardinality(T) \in Nat /\ Cardinality(S) \in Nat
        BY <2>2, <3>1, OneMore
      <3>. QED BY <2>1, <2>2, <3>2
    <2>. QED BY <2>4, <2>5
  <1>4. ASSUME ~ receipt'.truncated, NEW op, NEW target
        PROVE  Cardinality(DoneFor(op, target))' + Cardinality(DueFor(op, target))'
                 <= Amount(op, CapOf(op), target, "allowed")'
    <2> DEFINE A == Amount(op, CapOf(op), target, "allowed")
    <2>1. DoneFor(op, target)' = DoneFor(op, target)
      BY <1>2 DEF DoneFor
    <2>2. DueFor(op, target)' \subseteq DueFor(op, target)
      <3>1. ASSUME NEW c \in DueFor(op, target)'
            PROVE  c \in DueFor(op, target)
        <4>1. c \in Ids /\ c # b
          BY DEF DueFor, Refuses, Turn
        <4>2. bodies'[c] = bodies[c]
          BY <4>1 DEF Turn
        <4>. QED BY <4>1, <4>2 DEF DueFor, Due, DueLabel, Inst, Io
      <3>. QED BY <3>1
    <2>3. PICK S, T : S = DueFor(op, target) /\ T = DueFor(op, target)'
      OBVIOUS
    <2>4. IsFiniteSet(S) /\ Cardinality(T) <= Cardinality(S) /\ IsFiniteSet(T)
      BY <2>2, <2>3, CountedSetsAreFinite, FS_Subset
    <2>5. /\ Cardinality(DoneFor(op, target)) \in Nat /\ Cardinality(S) \in Nat
          /\ Cardinality(T) \in Nat
      BY <2>4, CountedSetsAreFinite, FS_CardinalityType
    <2>6. Cardinality(DoneFor(op, target)) + Cardinality(S) <= A /\ A' >= A /\ A' \in Nat
      <3>1. CapOf(op)' = CapOf(op)
        BY DEF CapOf, Class
      <3>. QED BY <1>2, <1>4, <2>3, <3>1 DEF Accounts, Grows, EffectsAccounted
    <2>7. A \in Nat
      BY AmountIsNat DEF Accounts
    <2>. QED BY <2>1, <2>3, <2>4, <2>5, <2>6, <2>7
  <1>. QED BY <1>2, <1>3, <1>4 DEF Accounts, RefusalsAccounted, EffectsAccounted

\* The others are due for what they were.
LEMMA OthersStayDue ==
  ASSUME NEW b \in Ids, Turn(b), NEW op, NEW target
  PROVE  DueFor(op, target)' \subseteq DueFor(op, target) \cup {b}
  <1>1. ASSUME NEW c \in DueFor(op, target)', c # b
        PROVE  c \in DueFor(op, target)
    <2>1. c \in Ids
      BY DEF DueFor, Turn
    <2>2. bodies'[c] = bodies[c]
      BY <1>1, <2>1 DEF Turn
    <2>. QED BY <2>1, <2>2 DEF DueFor, Due, DueLabel, Inst, Io
  <1>. QED BY <1>1

LEMMA DecisionPreserves ==
  ASSUME Accounts, IsFiniteSet(Ids), NEW b \in Ids, Turn(b), Decides(b)
  PROVE  Accounts'
  <1>1. RefusalsAccounted' /\ IsFiniteSet(refused)' /\ ReceiptIsRecord'
    BY SameRefusals DEF Decides
  <1>2. performed' = performed /\ Grows /\ IsFiniteSet(performed)'
    BY DEF Decides, Accounts
  <1>3. ASSUME ~ receipt'.truncated, NEW op, NEW target
        PROVE  Cardinality(DoneFor(op, target))' + Cardinality(DueFor(op, target))'
                 <= Amount(op, CapOf(op), target, "allowed")'
    <2> DEFINE A == Amount(op, CapOf(op), target, "allowed")
    <2>1. DoneFor(op, target)' = DoneFor(op, target)
      BY <1>2 DEF DoneFor
    <2>2. PICK S, T : S = DueFor(op, target) /\ T = DueFor(op, target)'
      OBVIOUS
    <2>3. IsFiniteSet(S) /\ T \subseteq S \cup {b}
      BY <2>2, CountedSetsAreFinite, OthersStayDue
    <2>4. Cardinality(DoneFor(op, target)) \in Nat /\ Cardinality(S) \in Nat
      BY <2>3, CountedSetsAreFinite, FS_CardinalityType
    <2>5. Cardinality(DoneFor(op, target)) + Cardinality(S) <= A /\ A' >= A /\ A' \in Nat
      <3>1. CapOf(op)' = CapOf(op)
        BY DEF CapOf, Class
      <3>. QED BY <1>2, <1>3, <2>2, <3>1 DEF Accounts, Grows, EffectsAccounted
    <2>6. A \in Nat
      BY AmountIsNat DEF Accounts
    <2>7. CASE b \in T
      <3>1. Due(b)' /\ Inst(b)'.op = op /\ DueLabel(b)' = target
        BY <2>2, <2>7 DEF DueFor
      <3>2. ~ receipt.sealed /\ receipt' = Noted(receipt, Entry(op, CapOf(op), target, "allowed"))
        BY <3>1 DEF Decides
      <3>3. A' >= A + 1
        <4>1. PICK cap : cap = CapOf(op)
          OBVIOUS
        <4>2. CapOf(op)' = cap
          BY <4>1 DEF CapOf, Class
        <4>. QED BY <1>3, <3>2, <4>1, <4>2, NotedGrows DEF Accounts
      <3>4. Cardinality(T) <= Cardinality(S) + 1 /\ Cardinality(T) \in Nat
        BY <2>3, OneMore
      <3>. QED BY <2>1, <2>2, <2>4, <2>5, <2>6, <3>3, <3>4
    <2>8. CASE b \notin T
      <3>1. T \subseteq S
        BY <2>3, <2>8
      <3>2. Cardinality(T) <= Cardinality(S) /\ Cardinality(T) \in Nat
        BY <2>3, <3>1, OneMore
      <3>. QED BY <2>1, <2>2, <2>4, <2>5, <2>6, <3>2
    <2>. QED BY <2>7, <2>8
  <1>. QED BY <1>1, <1>2, <1>3 DEF Accounts, EffectsAccounted

\* What was due is done: the entry stands for the effect now.
LEMMA DoingPreserves ==
  ASSUME Accounts, IsFiniteSet(Ids), NEW b \in Ids, Turn(b), Does(b)
  PROVE  Accounts'
  <1>1. Grows
    BY SameReceiptGrows DEF Does, Accounts
  <1>2. RefusalsAccounted' /\ IsFiniteSet(refused)' /\ ReceiptIsRecord'
    BY <1>1, SameRefusals DEF Does
  <1>3. PICK e : /\ performed' = performed \cup {e}
                 /\ e.unsealed => Due(b) /\ e.op = Inst(b).op /\ Label(e) = DueLabel(b)
    BY DEF Does
  <1>4. IsFiniteSet(performed)'
    BY <1>3, FS_AddElement DEF Accounts
  <1>5. ASSUME ~ receipt'.truncated, NEW op, NEW target
        PROVE  Cardinality(DoneFor(op, target))' + Cardinality(DueFor(op, target))'
                 <= Amount(op, CapOf(op), target, "allowed")'
    <2> DEFINE A == Amount(op, CapOf(op), target, "allowed")
    <2>1. PICK S, T, P, Q : /\ S = DueFor(op, target) /\ T = DueFor(op, target)'
                            /\ P = DoneFor(op, target) /\ Q = DoneFor(op, target)'
      OBVIOUS
    <2>2. IsFiniteSet(S) /\ IsFiniteSet(P)
      BY <2>1, CountedSetsAreFinite
    <2>3. T \subseteq S \ {b}
      BY <2>1, OthersStayDue DEF Does, DueFor
    <2>4. Q \subseteq P \cup {e}
      BY <1>3, <2>1 DEF DoneFor
    <2>5. Cardinality(P) + Cardinality(S) <= A /\ A' >= A /\ A' \in Nat
      <3>1. CapOf(op)' = CapOf(op)
        BY DEF CapOf, Class
      <3>. QED BY <1>1, <1>5, <2>1, <3>1 DEF Accounts, Grows, EffectsAccounted
    <2>6. A \in Nat
      BY AmountIsNat DEF Accounts
    <2>7. CASE e \in Q
      <3>1. e.unsealed /\ e.op = op /\ Label(e) = target
        BY <2>1, <2>7 DEF DoneFor, Label, Summary
      <3>2. b \in S
        BY <1>3, <2>1, <3>1 DEF DueFor
      <3>3. Cardinality(T) <= Cardinality(S) - 1 /\ Cardinality(S) \in Nat
        BY <2>2, <2>3, <3>2, OneMore
      <3>4. Cardinality(Q) <= Cardinality(P) + 1 /\ Cardinality(P) \in Nat /\ Cardinality(Q) \in Nat
        BY <2>2, <2>4, OneMore
      <3>5. T \subseteq S /\ IsFiniteSet(T)
        BY <2>2, <2>3, FS_Subset
      <3>6. Cardinality(T) \in Nat
        BY <3>5, FS_CardinalityType
      <3>. QED BY <2>1, <2>5, <2>6, <3>3, <3>4, <3>6
    <2>8. CASE e \notin Q
      <3>1. T \subseteq S /\ Q \subseteq P
        BY <2>3, <2>4, <2>8
      <3>2. /\ Cardinality(T) <= Cardinality(S) /\ Cardinality(T) \in Nat /\ Cardinality(S) \in Nat
            /\ Cardinality(Q) <= Cardinality(P) /\ Cardinality(Q) \in Nat /\ Cardinality(P) \in Nat
        BY <2>2, <3>1, OneMore
      <3>. QED BY <2>1, <2>5, <2>6, <3>2
    <2>. QED BY <2>7, <2>8
  <1>. QED BY <1>2, <1>4, <1>5 DEF Accounts, EffectsAccounted

-----------------------------------------------------------------------------
(* Steps of a body, and what they mean to the accounts.                    *)

\* What is written down before an effect: a body that is about to do something
\* has a decision on it, made while the receipt was as its mark says.
DecidedFor(b) ==
  /\ ~ receipt.sealed => bodies[b].unsealed
  /\ bodies[b].state = "io" => CapOf(Inst(b).op) \in bodies[b].decided
  /\ bodies[b].state = "started" /\ Inst(b).op = "ENV" => "environment" \in bodies[b].decided

DecidedFirst == \A b \in Ids : DecidedFor(b)

RInv == IInv /\ Accounts /\ DecidedFirst

Reckons(b) ==
  /\ Turn(b) /\ DecidedFor(b)'
  /\ Idles \/ Refuses(b) \/ Decides(b) \/ Does(b)

LEMMA Capabilities ==
  /\ \A op \in FileOps : CapOf(op) = "filesystem"
  /\ CapOf("EXEC") = "process" /\ CapOf("FETCH") = "network" /\ CapOf("ENV") = "environment"
  BY DEF FileOps, CapOf, Class

LEMMA TurnIdles ==
  ASSUME NEW b \in Ids, Turn(b), performed' = performed, refused' = refused, Grows,
         Due(b)' => Due(b) /\ Inst(b)'.op = Inst(b).op /\ DueLabel(b)' = DueLabel(b)
  PROVE  Idles
  <1>1. ASSUME NEW c \in Ids', Due(c)'
        PROVE  c \in Ids /\ Due(c) /\ Inst(c)'.op = Inst(c).op /\ DueLabel(c)' = DueLabel(c)
    <2>1. c \in Ids
      BY DEF Turn
    <2>2. CASE c = b
      BY <1>1, <2>2
    <2>3. CASE c # b
      <3>1. bodies'[c] = bodies[c]
        BY <2>1, <2>3 DEF Turn
      <3>2. Inst(c)' = Inst(c) /\ DueLabel(c)' = DueLabel(c)
        BY <3>1 DEF Inst, DueLabel, Io
      <3>. QED BY <1>1, <2>1, <3>1, <3>2 DEF Due, Io
    <2>. QED BY <2>2, <2>3
  <1>. QED BY <1>1 DEF Idles

LEMMA RFacts ==
  ASSUME RInv
  PROVE  Inv /\ BodiesAreRecords /\ ReceiptIsRecord /\ Accounts /\ \A b \in Ids : DecidedFor(b)
  BY DEF RInv, IInv, Inv, AInv, Accounts, DecidedFirst

\* A body that gives up, or is past its instruction, is due for nothing.
LEMMA LeavingReckons ==
  ASSUME RInv, NEW b \in Ids,
         \/ bodies' = [bodies EXCEPT ![b] = Proceed(@)]
         \/ \E why : bodies' = [bodies EXCEPT ![b] = Failing(@, why)]
  PROVE  /\ Turn(b) /\ ~ Due(b)' /\ bodies'[b].state \notin {"started", "io"}
         /\ bodies'[b].unsealed = bodies[b].unsealed
         /\ (receipt.sealed => receipt'.sealed) => DecidedFor(b)'
         /\ performed' = performed /\ refused' = refused /\ receipt' = receipt => Reckons(b)
  <1>1. /\ Turn(b) /\ bodies'[b].state \in {"ready", "failing"}
        /\ bodies'[b].unsealed = bodies[b].unsealed
    BY RFacts, ProceedTurn, FailingTurn
  <1>2. ~ Due(b)'
    BY <1>1 DEF Due
  <1>3. (receipt.sealed => receipt'.sealed) => DecidedFor(b)'
    BY <1>1, RFacts DEF DecidedFor
  <1>4. ASSUME performed' = performed /\ refused' = refused /\ receipt' = receipt
        PROVE  Reckons(b)
    BY <1>1, <1>2, <1>3, <1>4, RFacts, SameReceiptGrows, TurnIdles DEF Reckons
  <1>. QED BY <1>1, <1>2, <1>3, <1>4

\* A refusal is written down unless the same was allowed.
LEMMA DenyReckons ==
  ASSUME RInv, NEW b \in Ids, NEW cap, Deny(b, cap)
  PROVE  Reckons(b)
  <1> DEFINE f == Refusal(b, cap, Summary(Inst(b)))
             e == Entry(Inst(b).op, cap, Summary(Inst(b)), "denied")
  <1>1. /\ bodies' = [bodies EXCEPT ![b] = Failing(@, "CAPABILITY_DENIED")]
        /\ performed' = performed /\ refused' = refused \cup {f}
    BY DEF Deny
  <1>2. /\ f.op = Inst(b).op /\ f.cap = cap /\ f.target = Summary(Inst(b))
        /\ f.decided = bodies[b].decided
    BY DEF Refusal
  <1>3. f.unsealed <=> ~ receipt.sealed
    BY DEF Refusal
  <1>4. \/ cap \in bodies[b].decided /\ receipt' = receipt
        \/ cap \notin bodies[b].decided /\ receipt' = Noted(receipt, e)
    BY DEF Deny, Record
  <1>5. Grows
    BY <1>4, RFacts, SameReceiptGrows, NotedGrows
  <1>6. Turn(b) /\ ~ Due(b)' /\ DecidedFor(b)'
    BY <1>1, <1>5, LeavingReckons DEF Grows
  <1> HIDE DEF f
  <1>7. f.unsealed /\ f.cap \notin f.decided =>
          ~ receipt.sealed /\ receipt' = Noted(receipt, Entry(f.op, f.cap, f.target, "denied"))
    BY <1>2, <1>3, <1>4
  <1>8. Refuses(b)
    BY <1>1, <1>5, <1>6, <1>7 DEF Refuses
  <1>. QED BY <1>6, <1>8 DEF Reckons

\* What is allowed is written down, unless it already was.
LEMMA AllowReckons ==
  ASSUME RInv, NEW b \in Ids, bodies[b].state = "started",
         Inst(b).op \in FileOps \cup {"EXEC", "FETCH"},
         NEW cap, cap = CapOf(Inst(b).op), NEW io, Allow(b, cap, io),
         Inst(b).op = "FETCH" => Len(io.chain) = 1
  PROVE  Reckons(b)
  <1> DEFINE e == Entry(Inst(b).op, cap, Summary(Inst(b)), "allowed")
  <1>1. /\ Turn(b) /\ bodies'[b].state = "io" /\ bodies'[b].code = bodies[b].code
        /\ bodies'[b].decided = bodies[b].decided \cup {cap} /\ bodies'[b].io = io
    BY RFacts, AllowTurn
  <1>2. bodies'[b].unsealed <=> ~ receipt.sealed
    BY RFacts, AllowTurn
  <1>3. \/ cap \in bodies[b].decided /\ receipt' = receipt
        \/ cap \notin bodies[b].decided /\ receipt' = Noted(receipt, e)
    BY DEF Allow, Record
  <1>4. Grows
    BY <1>3, RFacts, SameReceiptGrows, NotedGrows
  <1>5. Inst(b)' = Inst(b) /\ Io(b)' = io
    BY <1>1 DEF Inst, Io
  <1>6. DueLabel(b)' = Summary(Inst(b)) /\ DueLabel(b) = Summary(Inst(b))
    BY <1>1, <1>5 DEF DueLabel, Summary
  <1>7. CapOf(Inst(b).op)' = CapOf(Inst(b).op)
    BY <1>5 DEF CapOf, Class
  <1>8. DecidedFor(b)'
    BY <1>1, <1>2, <1>4, <1>5, <1>7 DEF DecidedFor, Grows
  <1>9. CASE cap \in bodies[b].decided /\ receipt' = receipt
    <2>1. Due(b)' => Due(b)
      <3>1. Due(b)' => ~ receipt.sealed
        BY <1>2 DEF Due
      <3>2. ~ receipt.sealed => bodies[b].unsealed
        BY RFacts DEF DecidedFor
      <3>. QED BY <1>9, <3>1, <3>2 DEF Due
    <2>2. Idles
      BY <1>1, <1>4, <1>5, <1>6, <2>1, TurnIdles DEF Allow
    <2>. QED BY <1>1, <1>8, <2>2 DEF Reckons
  <1>10. CASE receipt' = Noted(receipt, e)
    <2>1. Due(b)' => ~ receipt.sealed
      BY <1>2 DEF Due
    <2>2. receipt' = Noted(receipt, Entry(Inst(b)'.op, CapOf(Inst(b)'.op), DueLabel(b)', "allowed"))
      BY <1>5, <1>6, <1>10
    <2>3. Decides(b)
      BY <1>4, <2>1, <2>2 DEF Decides, Allow
    <2>. QED BY <1>1, <1>8, <2>3 DEF Reckons
  <1>. QED BY <1>3, <1>9, <1>10

\* From phase to phase, what is due stays due.
LEMMA LearningReckons ==
  ASSUME RInv, NEW b \in Ids, bodies[b].state = "io", Inst(b).op \in FileOps,
         Turn(b), bodies'[b].state = "io", bodies'[b].code = bodies[b].code,
         bodies'[b].decided = bodies[b].decided, bodies'[b].unsealed = bodies[b].unsealed,
         performed' = performed, refused' = refused, receipt' = receipt
  PROVE  Reckons(b)
  <1>1. Inst(b)' = Inst(b) /\ Inst(b).op # "FETCH" /\ Inst(b).op # "ENV"
    BY DEF Inst, FileOps
  <1>2. CapOf(Inst(b).op)' = CapOf(Inst(b).op)
    BY <1>1 DEF CapOf, Class
  <1>3. DueLabel(b)' = DueLabel(b)
    BY <1>1 DEF DueLabel, Summary
  <1>4. Due(b)' => Due(b)
    BY <1>1, <1>2 DEF Due
  <1>5. Idles
    BY <1>1, <1>3, <1>4, RFacts, SameReceiptGrows, TurnIdles
  <1>6. DecidedFor(b)'
    BY <1>1, <1>2, RFacts DEF DecidedFor
  <1>. QED BY <1>5, <1>6 DEF Reckons

\* An effect is done in the place of its entry.
LEMMA EffectReckons ==
  ASSUME RInv, NEW b \in Ids, bodies[b].state = "io", Inst(b).op \in FileOps \cup {"EXEC"},
         NEW target, NEW file, Performs(b, target, file)
  PROVE  Reckons(b)
  <1> DEFINE e == Effect(b, target, file)
  <1>1. e.op = Inst(b).op /\ e.request = Inst(b) /\ Inst(b).op # "FETCH" /\ Inst(b).op # "ENV"
    BY DEF Effect, FileOps
  <1>2. e.unsealed = bodies[b].unsealed
    BY DEF Effect
  <1>3. /\ bodies' = [bodies EXCEPT ![b] = Proceed(@)] /\ receipt' = receipt /\ refused' = refused
        /\ performed' = performed \cup {e}
    BY DEF Performs
  <1> HIDE DEF e
  <1>4. Turn(b) /\ ~ Due(b)' /\ DecidedFor(b)'
    BY <1>3, LeavingReckons
  <1>5. Label(e) = DueLabel(b)
    BY <1>1 DEF Label, DueLabel
  <1>6. e.unsealed => Due(b)
    BY <1>1, <1>2, RFacts DEF Due, DecidedFor
  <1>7. Does(b)
    BY <1>1, <1>3, <1>4, <1>5, <1>6 DEF Does
  <1>. QED BY <1>4, <1>7 DEF Reckons

LEMMA BreaksReckons ==
  ASSUME RInv, NEW b \in Ids, Breaks(b) \/ Escapes(b)
  PROVE  Reckons(b)
  <1>1. CASE Breaks(b)
    BY <1>1, LeavingReckons DEF Breaks
  <1>2. CASE Escapes(b)
    BY <1>2, DenyReckons DEF Escapes
  <1>. QED BY <1>1, <1>2

-----------------------------------------------------------------------------
(* The actions of a body.                                                  *)

LEMMA BeginReckons ==
  ASSUME RInv, NEW b \in Ids, Begin(b)
  PROVE  Reckons(b)
  <1> DEFINE op == Inst(b).op
             c == Class(Inst(b).op)
  <1>1. Turn(b) /\ bodies'[b].code = bodies[b].code /\ performed' = performed
    BY RFacts, BeginTurn DEF Begin
  <1>2. Inst(b)' = Inst(b)
    BY <1>1 DEF Inst
  <1>3. CASE PassesClass(b)
    <2>1. /\ bodies'[b].state = "started"
          /\ bodies'[b].decided = IF IsProvisional(b) THEN {} ELSE {c}
      BY <1>3, RFacts, BeginTurn
    <2>2. bodies'[b].unsealed <=> ~ receipt.sealed
      BY <1>3, RFacts, BeginTurn
    <2>3. /\ refused' = refused
          /\ receipt' = IF IsProvisional(b) THEN receipt
                        ELSE Noted(receipt, Entry(op, c, Summary(Inst(b)), "allowed"))
      BY <1>3 DEF Begin
    <2>4. Grows
      BY <2>3, RFacts, SameReceiptGrows, NotedGrows
    <2>5. DueLabel(b)' = Summary(Inst(b))
      BY <1>2, <2>1 DEF DueLabel, Summary
    <2>6. op = "ENV" => ~ IsProvisional(b) /\ c = "environment"
      BY AuthorityAssumption DEF IsProvisional, Class
    <2>7. DecidedFor(b)'
      BY <1>2, <2>1, <2>2, <2>4, <2>6 DEF DecidedFor, Grows
    <2>8. CASE IsProvisional(b)
      <3>1. ~ Due(b)'
        BY <2>1, <2>8 DEF Due
      <3>. QED BY <1>1, <2>3, <2>4, <2>7, <3>1, TurnIdles DEF Reckons
    <2>9. CASE ~ IsProvisional(b)
      <3>1. Due(b)' => ~ receipt.sealed /\ CapOf(Inst(b)'.op) = c
        BY <1>2, <2>1, <2>2, <2>9 DEF Due, CapOf, Class
      <3>2. Decides(b)
        BY <1>1, <1>2, <2>3, <2>4, <2>5, <2>9, <3>1 DEF Decides
      <3>. QED BY <1>1, <2>7, <3>2 DEF Reckons
    <2>. QED BY <2>8, <2>9
  <1>4. CASE ~ PassesClass(b)
    <2> DEFINE f == [Refusal(b, c, Summary(Inst(b))) EXCEPT !.decided = {}]
    <2>1. bodies'[b].state = "failing" /\ bodies'[b].unsealed = bodies[b].unsealed
      BY <1>4, RFacts, BeginTurn
    <2>2. /\ receipt' = Noted(receipt, Entry(op, c, Summary(Inst(b)), "denied"))
          /\ refused' = refused \cup {f}
      BY <1>4 DEF Begin
    <2>3. f.op = op /\ f.cap = c /\ f.target = Summary(Inst(b))
      BY DEF Refusal
    <2>4. f.unsealed <=> ~ receipt.sealed
      BY DEF Refusal
    <2> HIDE DEF f
    <2>5. Grows
      BY <2>2, RFacts, NotedGrows
    <2>6. ~ Due(b)' /\ DecidedFor(b)'
      BY <2>1, <2>5, RFacts DEF Due, DecidedFor, Grows
    <2>7. Refuses(b)
      BY <1>1, <2>2, <2>3, <2>4, <2>5, <2>6 DEF Refuses
    <2>. QED BY <1>1, <2>6, <2>7 DEF Reckons
  <1>. QED BY <1>3, <1>4

\* In the middle of a file operation.
LEMMA InFile ==
  ASSUME RInv, NEW b \in Ids, NEW phase \in FilePhases, In(b, phase)
  PROVE  bodies[b].state = "io" /\ Inst(b).op \in FileOps /\ "phase" \in DOMAIN Io(b)
  BY InIo, RFacts, PhasesApart DEF FileIsGranted

LEMMA StepReckons ==
  ASSUME RInv, NEW b \in Ids, NEW phase \in FilePhases, In(b, phase),
         \E more : Step(b, more)
  PROVE  Reckons(b)
  <1>1. PICK more : Step(b, more)
    OBVIOUS
  <1>2. bodies' = [bodies EXCEPT ![b].io = Learnt(@, more)]
    BY <1>1 DEF Step
  <1>3. performed' = performed /\ refused' = refused /\ receipt' = receipt
    BY <1>1 DEF Step
  <1>4. /\ Turn(b) /\ bodies'[b].state = bodies[b].state /\ bodies'[b].code = bodies[b].code
        /\ bodies'[b].decided = bodies[b].decided /\ bodies'[b].unsealed = bodies[b].unsealed
    BY <1>2, RFacts, StepTurn
  <1>. QED BY <1>3, <1>4, InFile, LearningReckons

LEMMA AuthorizeFileReckons ==
  ASSUME RInv, NEW b \in Ids, AuthorizeFile(b)
  PROVE  Reckons(b)
  <1>1. /\ bodies[b].state = "started" /\ Inst(b).op \in FileOps /\ Inst(b).op # "FETCH"
        /\ CapOf(Inst(b).op) = "filesystem"
    BY Capabilities DEF AuthorizeFile, Starts, FileOps
  <1>2. CASE Deny(b, "filesystem")
    BY <1>2, DenyReckons
  <1>3. CASE Allow(b, "filesystem", [phase |-> "scope"])
    BY <1>1, <1>3, AllowReckons
  <1>. QED BY <1>2, <1>3 DEF AuthorizeFile

LEMMA OpenRootReckons ==
  ASSUME RInv, NEW b \in Ids, OpenRoot(b)
  PROVE  Reckons(b)
  <1>1. PICK phase \in {"root", "reopen"} : In(b, phase)
    BY DEF OpenRoot
  <1>2. phase \in FilePhases
    BY DEF FilePhases
  <1>3. CASE \E more : Step(b, more)
    BY <1>1, <1>2, <1>3, StepReckons
  <1>4. CASE /\ bodies' = [bodies EXCEPT ![b].io.phase = "reopen"]
             /\ UNCHANGED <<receipt, books, cancelled, performed, refused>>
    <2>1. /\ Turn(b) /\ bodies'[b].state = bodies[b].state /\ bodies'[b].code = bodies[b].code
          /\ bodies'[b].decided = bodies[b].decided /\ bodies'[b].unsealed = bodies[b].unsealed
      BY <1>4, RFacts, PhaseTurn
    <2>2. performed' = performed /\ refused' = refused /\ receipt' = receipt
      BY <1>4
    <2>. QED BY <1>1, <1>2, <2>1, <2>2, InFile, LearningReckons
  <1>5. CASE Breaks(b)
    BY <1>5, BreaksReckons
  <1>. QED BY <1>3, <1>4, <1>5 DEF OpenRoot

LEMMA OpenPinnedReckons ==
  ASSUME RInv, NEW b \in Ids, OpenPinned(b)
  PROVE  Reckons(b)
  <1>1. In(b, "pinned") /\ "pinned" \in FilePhases
    BY DEF OpenPinned, FilePhases
  <1>2. CASE \E more : Step(b, more)
    BY <1>1, <1>2, StepReckons
  <1>3. CASE \E more : /\ bodies' = [bodies EXCEPT ![b].io = Learnt(@, more)]
                       /\ UNCHANGED <<receipt, books, cancelled, performed, refused>>
    <2>1. PICK more : /\ bodies' = [bodies EXCEPT ![b].io = Learnt(@, more)]
                      /\ UNCHANGED <<receipt, books, cancelled, performed, refused>>
      BY <1>3
    <2>2. /\ Turn(b) /\ bodies'[b].state = bodies[b].state /\ bodies'[b].code = bodies[b].code
          /\ bodies'[b].decided = bodies[b].decided /\ bodies'[b].unsealed = bodies[b].unsealed
      BY <2>1, RFacts, StepTurn
    <2>. QED BY <1>1, <2>1, <2>2, InFile, LearningReckons
  <1>4. CASE Breaks(b)
    BY <1>4, BreaksReckons
  <1>. QED BY <1>2, <1>3, <1>4 DEF OpenPinned

LEMMA FilesReckon ==
  ASSUME RInv, NEW b \in Ids, Files(b)
  PROVE  Reckons(b)
  <1>1. CASE MatchRoot(b) \/ StatRoot(b) \/ LstatTarget(b)
    <2>1. PICK phase \in {"scope", "stat", "lstat"} : In(b, phase)
      BY <1>1 DEF MatchRoot, StatRoot, LstatTarget
    <2>2. phase \in FilePhases
      BY DEF FilePhases
    <2>3. (\E more : Step(b, more)) \/ Breaks(b) \/ Escapes(b)
      BY <1>1 DEF MatchRoot, StatRoot, LstatTarget
    <2>. QED BY <2>1, <2>2, <2>3, StepReckons, BreaksReckons
  <1>2. CASE OpenTarget(b) \/ VerifyPinned(b) \/ CreatePinned(b) \/ MakeDirectory(b) \/ ReplaceTarget(b)
    <2>1. PICK phase \in {"open", "verify", "create", "mkdir", "replace"} : In(b, phase)
      BY <1>2 DEF OpenTarget, VerifyPinned, CreatePinned, MakeDirectory, ReplaceTarget
    <2>2. phase \in FilePhases
      BY DEF FilePhases
    <2>3. (\E target, file : Performs(b, target, file)) \/ Breaks(b) \/ Escapes(b)
      BY <1>2 DEF OpenTarget, VerifyPinned, CreatePinned, MakeDirectory, ReplaceTarget
    <2>. QED BY <2>1, <2>2, <2>3, InFile, EffectReckons, BreaksReckons
  <1>3. CASE \E phase : Leaves(b, phase)
    BY <1>3, BreaksReckons DEF Leaves
  <1>. QED BY <1>1, <1>2, <1>3, AuthorizeFileReckons, OpenRootReckons, OpenPinnedReckons DEF Files

LEMMA InRequest ==
  ASSUME RInv, NEW b \in Ids, NEW phase \in {"dial", "response"}, In(b, phase)
  PROVE  /\ bodies[b].state = "io" /\ Inst(b).op = "FETCH" /\ Io(b).phase = phase
         /\ Len(Io(b).chain) > 0 /\ Io(b).chain \in Seq(Range(Io(b).chain))
         /\ "network" \in bodies[b].decided
         /\ DOMAIN Io(b) = {"phase", "chain", "referer"}
  BY InIo, RFacts, PhasesApart, Capabilities DEF RequestIsGranted, ChainIsGuarded, DecidedFor

LEMMA AuthorizeRequestReckons ==
  ASSUME RInv, NEW b \in Ids, AuthorizeRequest(b)
  PROVE  Reckons(b)
  <1> DEFINE io == [phase |-> "dial", chain |-> <<Inst(b).url>>, referer |-> None]
  <1>1. bodies[b].state = "started" /\ Inst(b).op = "FETCH" /\ "network" = CapOf(Inst(b).op)
    BY Capabilities DEF AuthorizeRequest, Starts
  <1>2. CASE Deny(b, "network")
    BY <1>2, DenyReckons
  <1>3. CASE Allow(b, "network", io)
    <2>1. Len(io.chain) = 1
      OBVIOUS
    <2> HIDE DEF io
    <2>. QED BY <1>1, <1>3, <2>1, AllowReckons
  <1>. QED BY <1>2, <1>3 DEF AuthorizeRequest

\* A hop that is refused is always written down.
LEMMA DenyHopReckons ==
  ASSUME RInv, NEW b \in Ids, NEW phase \in {"dial", "response"}, In(b, phase), DenyHop(b)
  PROVE  Reckons(b)
  <1> DEFINE f == [Refusal(b, "network", <<"redirect">>) EXCEPT !.decided = {}]
  <1>1. Inst(b).op = "FETCH"
    BY InRequest
  <1>2. /\ bodies' = [bodies EXCEPT ![b] = Failing(@, "CAPABILITY_DENIED")]
        /\ performed' = performed /\ refused' = refused \cup {f}
        /\ receipt' = Noted(receipt, Entry("FETCH", "network", <<"redirect">>, "denied"))
    BY DEF DenyHop, RecordHop
  <1>3. f.op = "FETCH" /\ f.cap = "network" /\ f.target = <<"redirect">>
    BY <1>1 DEF Refusal
  <1>4. f.unsealed <=> ~ receipt.sealed
    BY DEF Refusal
  <1> HIDE DEF f
  <1>5. Grows
    BY <1>2, RFacts, NotedGrows
  <1>6. Turn(b) /\ ~ Due(b)' /\ DecidedFor(b)'
    BY <1>2, <1>5, LeavingReckons DEF Grows
  <1>7. Refuses(b)
    BY <1>2, <1>3, <1>4, <1>5, <1>6 DEF Refuses
  <1>. QED BY <1>6, <1>7 DEF Reckons

\* The request of the last hop is made in the place of its entry.
LEMMA DialReckons ==
  ASSUME RInv, NEW b \in Ids, Dial(b)
  PROVE  Reckons(b)
  <1>1. In(b, "dial")
    BY DEF Dial
  <1>2. /\ bodies[b].state = "io" /\ Inst(b).op = "FETCH" /\ Io(b).phase = "dial"
        /\ "network" \in bodies[b].decided /\ "phase" \in DOMAIN Io(b)
    BY <1>1, InRequest
  <1>3. CASE DenyHop(b)
    BY <1>1, <1>3, DenyHopReckons
  <1>4. CASE \E a, target :
               /\ performed' = performed \cup
                    {[body |-> b, left |-> Len(bodies[b].code), op |-> "FETCH", target |-> target,
                      request |-> Inst(b), unsealed |-> bodies[b].unsealed, chain |-> Io(b).chain,
                      referer |-> Io(b).referer, address |-> a]}
               /\ bodies' = [bodies EXCEPT ![b].io.phase = "response"]
               /\ UNCHANGED <<receipt, refused>>
    <2>1. PICK a, target :
               /\ performed' = performed \cup
                    {[body |-> b, left |-> Len(bodies[b].code), op |-> "FETCH", target |-> target,
                      request |-> Inst(b), unsealed |-> bodies[b].unsealed, chain |-> Io(b).chain,
                      referer |-> Io(b).referer, address |-> a]}
               /\ bodies' = [bodies EXCEPT ![b].io.phase = "response"]
               /\ UNCHANGED <<receipt, refused>>
      BY <1>4
    <2> DEFINE e == [body |-> b, left |-> Len(bodies[b].code), op |-> "FETCH", target |-> target,
                     request |-> Inst(b), unsealed |-> bodies[b].unsealed, chain |-> Io(b).chain,
                     referer |-> Io(b).referer, address |-> a]
    <2>2. e.op = "FETCH" /\ e.request = Inst(b) /\ e.chain = Io(b).chain
      OBVIOUS
    <2>3. e.unsealed = bodies[b].unsealed
      OBVIOUS
    <2>4. performed' = performed \cup {e} /\ receipt' = receipt /\ refused' = refused
      BY <2>1
    <2> HIDE DEF e
    <2>5. Label(e) = DueLabel(b)
      BY <1>2, <2>2 DEF Label, DueLabel
    <2>6. e.unsealed => Due(b)
      BY <1>2, <2>3, Capabilities DEF Due
    <2>7. /\ Turn(b) /\ bodies'[b].state = "io" /\ bodies'[b].code = bodies[b].code
          /\ bodies'[b].decided = bodies[b].decided /\ bodies'[b].unsealed = bodies[b].unsealed
          /\ bodies'[b].io = [bodies[b].io EXCEPT !.phase = "response"]
      BY <1>2, <2>1, RFacts, PhaseTurn
    <2>8. Inst(b)' = Inst(b) /\ Io(b)'.phase = "response"
      BY <1>2, <2>7 DEF Inst, Io
    <2>9. ~ Due(b)'
      BY <1>2, <2>7, <2>8 DEF Due
    <2>10. DecidedFor(b)'
      <3>1. CapOf(Inst(b).op)' = "network"
        BY <1>2, <2>8 DEF CapOf, Class
      <3>. QED BY <1>2, <2>4, <2>7, <2>8, <3>1, RFacts DEF DecidedFor
    <2>11. Does(b)
      BY <1>2, <2>2, <2>4, <2>5, <2>6, <2>9 DEF Does
    <2>. QED BY <2>7, <2>10, <2>11 DEF Reckons
  <1>. QED BY <1>3, <1>4 DEF Dial

\* Each redirect that is followed is written down as one.
LEMMA RedirectReckons ==
  ASSUME RInv, NEW b \in Ids, Redirect(b)
  PROVE  Reckons(b)
  <1>1. In(b, "response")
    BY DEF Redirect
  <1>2. /\ bodies[b].state = "io" /\ Inst(b).op = "FETCH" /\ "network" \in bodies[b].decided
        /\ Len(Io(b).chain) > 0 /\ Io(b).chain \in Seq(Range(Io(b).chain))
    BY <1>1, InRequest
  <1>3. CASE Breaks(b) \/ DenyHop(b)
    BY <1>1, <1>3, BreaksReckons, DenyHopReckons
  <1> DEFINE io(next) == [phase |-> "dial", chain |-> Append(Io(b).chain, next),
                          referer |-> Referer(Append(Io(b).chain, next))]
  <1>4. CASE \E next :
               /\ bodies' = [bodies EXCEPT ![b].unsealed = ~receipt.sealed, ![b].io = io(next)]
               /\ receipt' = RecordHop(b, "allowed")
               /\ UNCHANGED <<performed, refused>>
    <2>1. PICK next :
               /\ bodies' = [bodies EXCEPT ![b].unsealed = ~receipt.sealed, ![b].io = io(next)]
               /\ receipt' = RecordHop(b, "allowed")
               /\ UNCHANGED <<performed, refused>>
      BY <1>4
    <2>2. Len(Append(Io(b).chain, next)) > 1
      <3> DEFINE chain == Io(b).chain
      <3>1. chain \in Seq(Range(chain) \cup {next}) /\ next \in Range(chain) \cup {next}
        BY <1>2, SeqMonotonic
      <3>2. Len(chain) \in Nat /\ Len(Append(chain, next)) = Len(chain) + 1
        BY <1>2, <3>1, AppendProperties, LenProperties
      <3>. QED BY <1>2, <3>2
    <2>3. io(next).chain = Append(Io(b).chain, next)
      OBVIOUS
    <2> DEFINE it == io(next)
               r == [bodies[b] EXCEPT !.unsealed = ~receipt.sealed, !.io = it]
    <2>4. DOMAIN r = Fields
      BY RFacts DEF BodiesAreRecords, Fields
    <2>5. r.io = it /\ \A x \in Fields \ {"io", "unsealed"} : r[x] = bodies[b][x]
      BY RFacts DEF BodiesAreRecords, Fields
    <2>6. r.unsealed <=> ~ receipt.sealed
      BY RFacts DEF BodiesAreRecords, Fields
    <2>7. bodies' = [bodies EXCEPT ![b] = r]
      BY <2>1, RFacts DEF BodiesAreRecords, Ids
    <2> HIDE DEF io, it, r
    <2>8. /\ Turn(b) /\ bodies'[b].state = "io" /\ bodies'[b].code = bodies[b].code
          /\ bodies'[b].decided = bodies[b].decided /\ bodies'[b].io = it
          /\ bodies'[b] = r
      BY <1>2, <2>4, <2>5, <2>7, RFacts, BodyChange DEF Turn, Fields
    <2>9. Inst(b)' = Inst(b) /\ Len(Io(b)'.chain) > 1
      BY <2>2, <2>3, <2>8 DEF Inst, Io, it
    <2>10. DueLabel(b)' = <<"redirect">> /\ CapOf(Inst(b).op)' = "network"
      BY <1>2, <2>8, <2>9 DEF DueLabel, CapOf, Class
    <2>11. /\ receipt' = Noted(receipt, Entry("FETCH", "network", <<"redirect">>, "allowed"))
           /\ performed' = performed /\ refused' = refused
      BY <2>1 DEF RecordHop
    <2>12. Grows
      BY <2>11, RFacts, NotedGrows
    <2>13. Due(b)' => ~ receipt.sealed
      BY <2>6, <2>8 DEF Due
    <2>14. receipt' = Noted(receipt, Entry(Inst(b)'.op, CapOf(Inst(b)'.op), DueLabel(b)', "allowed"))
      BY <1>2, <2>9, <2>10, <2>11
    <2>15. Decides(b)
      BY <2>11, <2>12, <2>13, <2>14 DEF Decides
    <2>16. DecidedFor(b)'
      BY <1>2, <2>6, <2>8, <2>9, <2>10, <2>12 DEF DecidedFor, Grows
    <2>. QED BY <2>8, <2>15, <2>16 DEF Reckons
  <1>. QED BY <1>3, <1>4 DEF Redirect

LEMMA FetchesReckon ==
  ASSUME RInv, NEW b \in Ids, Fetches(b)
  PROVE  Reckons(b)
  <1>1. CASE Respond(b)
    BY <1>1, LeavingReckons DEF Respond
  <1>. QED BY <1>1, AuthorizeRequestReckons, DialReckons, RedirectReckons DEF Fetches

LEMMA ProgramsReckon ==
  ASSUME RInv, NEW b \in Ids, AuthorizeProgram(b) \/ RunProgram(b)
  PROVE  Reckons(b)
  <1>1. CASE AuthorizeProgram(b)
    <2>1. /\ bodies[b].state = "started" /\ Inst(b).op = "EXEC"
          /\ "process" = CapOf(Inst(b).op)
      BY <1>1, Capabilities DEF AuthorizeProgram, Starts
    <2>2. CASE Deny(b, "process")
      BY <2>2, DenyReckons
    <2>3. CASE \E io : Allow(b, "process", io)
      BY <2>1, <2>3, AllowReckons
    <2>. QED BY <1>1, <2>2, <2>3 DEF AuthorizeProgram
  <1>2. CASE RunProgram(b)
    <2>1. bodies[b].state = "io" /\ Inst(b).op = "EXEC"
      BY <1>2, InIo, RFacts, PhasesApart DEF RunProgram, ProgramIsGranted
    <2>2. CASE Breaks(b)
      BY <2>2, BreaksReckons
    <2>3. CASE Performs(b, Summary(Inst(b)), None)
      BY <2>1, <2>3, EffectReckons
    <2>. QED BY <1>2, <2>2, <2>3 DEF RunProgram
  <1>. QED BY <1>1, <1>2

LEMMA ReadEnvironmentReckons ==
  ASSUME RInv, NEW b \in Ids, ReadEnvironment(b)
  PROVE  Reckons(b)
  <1> DEFINE e == [body |-> b, left |-> Len(bodies[b].code), op |-> "ENV", target |-> <<>>,
                   request |-> Inst(b), unsealed |-> bodies[b].unsealed]
  <1>1. bodies[b].state = "started" /\ Inst(b).op = "ENV"
    BY DEF ReadEnvironment, Starts
  <1>2. e.op = "ENV" /\ e.request = Inst(b)
    OBVIOUS
  <1>3. e.unsealed = bodies[b].unsealed
    OBVIOUS
  <1>4. /\ bodies' = [bodies EXCEPT ![b] = Proceed(@)] /\ receipt' = receipt /\ refused' = refused
        /\ performed' = performed \cup {e}
    BY DEF ReadEnvironment
  <1> HIDE DEF e
  <1>5. Turn(b) /\ ~ Due(b)' /\ DecidedFor(b)'
    BY <1>4, LeavingReckons
  <1>6. Label(e) = DueLabel(b)
    BY <1>1, <1>2 DEF Label, DueLabel
  <1>7. e.unsealed => Due(b)
    BY <1>1, <1>3, RFacts, Capabilities DEF Due, DecidedFor
  <1>8. Does(b)
    BY <1>1, <1>2, <1>4, <1>5, <1>6, <1>7 DEF Does
  <1>. QED BY <1>5, <1>8 DEF Reckons

LEMMA ActsReckon ==
  ASSUME RInv, NEW b \in Ids, Acts(b)
  PROVE  Reckons(b)
  <1>1. CASE Limited(b) \/ Catch(b) \/ UseDict(b)
    BY <1>1, LeavingReckons DEF Limited, Catch, UseDict
  <1>. QED BY <1>1, BeginReckons, FilesReckon, FetchesReckon, ProgramsReckon,
             ReadEnvironmentReckons
           DEF Acts

-----------------------------------------------------------------------------
(* Steps that start and end bodies, and the theorems.                      *)

LEMMA ReckoningPreserves ==
  ASSUME RInv, NEW b \in Ids, Reckons(b)
  PROVE  Accounts' /\ DecidedFirst'
  <1>1. IsFiniteSet(Ids) /\ Turn(b) /\ DecidedFor(b)'
    <2>1. Ids = 1 .. Len(bodies) /\ Len(bodies) \in Nat
      BY RFacts DEF BodiesAreRecords, Ids
    <2>. QED BY <2>1, FS_Interval DEF Reckons
  <1>2. Accounts'
    BY <1>1, RFacts, IdlePreserves, RefusalPreserves, DecisionPreserves, DoingPreserves DEF Reckons
  <1>3. Grows
    BY RFacts, SameReceiptGrows DEF Reckons, Idles, Refuses, Decides, Does
  <1>4. ASSUME NEW c \in Ids \ {b}
        PROVE  DecidedFor(c)'
    <2>1. bodies'[c] = bodies[c] /\ DecidedFor(c)
      BY <1>1, RFacts DEF Turn
    <2>2. Inst(c)' = Inst(c)
      BY <2>1 DEF Inst
    <2>3. CapOf(Inst(c).op)' = CapOf(Inst(c).op)
      BY <2>2 DEF CapOf, Class
    <2>. QED BY <1>3, <2>1, <2>2, <2>3 DEF DecidedFor, Grows
  <1>5. DecidedFirst'
    BY <1>1, <1>4 DEF DecidedFirst, Turn
  <1>. QED BY <1>2, <1>5

\* A step that leaves each body as it is or out of any instruction.
LEMMA RestingPreserves ==
  ASSUME RInv, performed' = performed, refused' = refused, Grows,
         \A c \in Ids' : \/ c \in Ids /\ bodies'[c] = bodies[c]
                         \/ /\ bodies'[c].state \notin {"started", "io"}
                            /\ ~ receipt.sealed => bodies'[c].unsealed
  PROVE  Accounts' /\ DecidedFirst'
  <1>1. ASSUME NEW c \in Ids, bodies'[c] = bodies[c]
        PROVE  /\ Inst(c)' = Inst(c) /\ DueLabel(c)' = DueLabel(c) /\ (Due(c)' => Due(c))
               /\ DecidedFor(c)'
    <2>1. Inst(c)' = Inst(c) /\ Io(c)' = Io(c)
      BY <1>1 DEF Inst, Io
    <2>2. CapOf(Inst(c).op)' = CapOf(Inst(c).op)
      BY <2>1 DEF CapOf, Class
    <2>3. DueLabel(c)' = DueLabel(c)
      BY <1>1, <2>1 DEF DueLabel, Summary
    <2>4. Due(c)' => Due(c)
      BY <1>1, <2>1, <2>2 DEF Due
    <2>5. DecidedFor(c)'
      BY <1>1, <2>1, <2>2, RFacts DEF DecidedFor, Grows
    <2>. QED BY <2>1, <2>3, <2>4, <2>5
  <1>2. ASSUME NEW c, bodies'[c].state \notin {"started", "io"},
               ~ receipt.sealed => bodies'[c].unsealed
        PROVE  ~ Due(c)' /\ DecidedFor(c)'
    BY <1>2 DEF Due, DecidedFor, Grows
  <1>3. Idles
    BY <1>1, <1>2 DEF Idles
  <1>4. DecidedFirst'
    BY <1>1, <1>2 DEF DecidedFirst
  <1>5. IsFiniteSet(Ids)
    <2>1. Ids = 1 .. Len(bodies) /\ Len(bodies) \in Nat
      BY RFacts DEF BodiesAreRecords, Ids
    <2>. QED BY <2>1, FS_Interval
  <1>. QED BY <1>3, <1>4, <1>5, RFacts, IdlePreserves

LEMMA RecordGrows ==
  ASSUME RInv, NEW b, NEW cap, NEW decision, receipt' = Record(receipt, b, cap, decision)
  PROVE  Grows
  BY RFacts, SameReceiptGrows, NotedGrows DEF Record

LEMMA SpawnReckons ==
  ASSUME RInv, NEW b \in Ids, Spawn(b) \/ SpawnAgent(b)
  PROVE  Accounts' /\ DecidedFirst'
  <1>1. BodiesAreRecords
    BY RFacts
  <1>2. CASE Deny(b, "process")
    BY <1>2, DenyReckons, ReckoningPreserves
  <1>3. CASE \E r, child :
               /\ receipt' = Record(receipt, b, "process", "allowed")
               /\ bodies' = Append([bodies EXCEPT ![b] = r], child)
               /\ DOMAIN r = Fields /\ r.state \in {"ready", "waiting"}
               /\ ~ receipt.sealed => r.unsealed
               /\ child.state = "ready" /\ child.unsealed
               /\ performed' = performed /\ refused' = refused
    <2>1. PICK r, child :
               /\ receipt' = Record(receipt, b, "process", "allowed")
               /\ bodies' = Append([bodies EXCEPT ![b] = r], child)
               /\ DOMAIN r = Fields /\ r.state \in {"ready", "waiting"}
               /\ ~ receipt.sealed => r.unsealed
               /\ child.state = "ready" /\ child.unsealed
               /\ performed' = performed /\ refused' = refused
      BY <1>3
    <2>2. PICK bs : bs = Replaced(b, r)
      OBVIOUS
    <2>3. bs \in Seq(Range(bs)) /\ DOMAIN bs = Ids /\ bs[b] = r
      BY <1>1, <2>2, BodyReplaced
    <2>4. \A c \in Ids \ {b} : bs[c] = bodies[c]
      BY <1>1, <2>2, BodyReplaced
    <2>5. bodies' = Append(bs, child)
      BY <2>1, <2>2 DEF Replaced
    <2>6. /\ Ids' = Ids \cup {Len(bodies) + 1}
          /\ bodies'[Len(bodies) + 1] = child
          /\ \A c \in Ids : bodies'[c] = bs[c]
      BY <1>1, <2>3, <2>5, BodyAdded
    <2>7. ASSUME NEW c \in Ids'
          PROVE  \/ c \in Ids /\ bodies'[c] = bodies[c]
                 \/ /\ bodies'[c].state \notin {"started", "io"}
                    /\ ~ receipt.sealed => bodies'[c].unsealed
      <3>1. CASE c = b
        BY <2>1, <2>3, <2>6, <3>1
      <3>2. CASE c = Len(bodies) + 1
        BY <2>1, <2>6, <3>2
      <3>3. CASE c \in Ids \ {b}
        BY <2>4, <2>6, <3>3
      <3>. QED BY <2>6, <3>1, <3>2, <3>3
    <2>8. Grows
      BY <2>1, RecordGrows
    <2>. QED BY <2>1, <2>7, <2>8, RestingPreserves
  <1>4. ~ receipt.sealed => bodies[b].unsealed
    BY RFacts DEF DecidedFor
  <1>5. CASE Spawn(b) /\ ~ Deny(b, "process")
    <2> DEFINE r == Proceed(bodies[b])
               child == Child("detached", b, Inst(b))
    <2>1. DOMAIN r = Fields /\ r.state = "ready" /\ (~ receipt.sealed => r.unsealed)
      BY <1>1, <1>4 DEF BodiesAreRecords, Proceed, Fields
    <2>2. child.state = "ready" /\ child.unsealed
      BY DEF Child, Body
    <2>3. /\ receipt' = Record(receipt, b, "process", "allowed")
          /\ bodies' = Append([bodies EXCEPT ![b] = r], child)
          /\ performed' = performed /\ refused' = refused
      BY <1>5 DEF Spawn
    <2> HIDE DEF r, child
    <2>. QED BY <1>3, <2>1, <2>2, <2>3
  <1>6. CASE SpawnAgent(b) /\ ~ Deny(b, "process")
    <2>1. /\ receipt' = Record(receipt, b, "process", "allowed")
          /\ performed' = performed /\ refused' = refused
      BY <1>6 DEF SpawnAgent
    <2>2. CASE bodies' = [bodies EXCEPT ![b] = Failing(@, "LIMIT_EXCEEDED")]
      <3>1. /\ Turn(b) /\ bodies'[b].state \notin {"started", "io"}
            /\ bodies'[b].unsealed = bodies[b].unsealed
        BY <2>2, LeavingReckons
      <3>2. ASSUME NEW c \in Ids'
            PROVE  \/ c \in Ids /\ bodies'[c] = bodies[c]
                   \/ /\ bodies'[c].state \notin {"started", "io"}
                      /\ ~ receipt.sealed => bodies'[c].unsealed
        BY <1>4, <3>1 DEF Turn
      <3>. QED BY <2>1, <3>2, RecordGrows, RestingPreserves
    <2>3. CASE bodies' = Append([bodies EXCEPT ![b].state = "waiting"],
                    [Child("agent", b, Inst(b)) EXCEPT !.executed = bodies[b].executed,
                                                       !.depth = bodies[b].depth + 1])
      <3> DEFINE r == [bodies[b] EXCEPT !.state = "waiting"]
                 child == [Child("agent", b, Inst(b)) EXCEPT !.executed = bodies[b].executed,
                                                             !.depth = bodies[b].depth + 1]
      <3>1. DOMAIN r = Fields /\ r.state = "waiting" /\ (~ receipt.sealed => r.unsealed)
        BY <1>1, <1>4 DEF BodiesAreRecords, Fields
      <3>2. child.state = "ready" /\ child.unsealed
        BY DEF Child, Body
      <3>3. bodies' = Append([bodies EXCEPT ![b] = r], child)
        BY <2>3
      <3> HIDE DEF r, child
      <3>. QED BY <1>3, <2>1, <3>1, <3>2, <3>3
    <2>. QED BY <1>6, <2>2, <2>3 DEF SpawnAgent
  <1>. QED BY <1>2, <1>5, <1>6

LEMMA AgentEndsReckons ==
  ASSUME RInv, NEW b \in Ids, AgentEnds(b)
  PROVE  Accounts' /\ DecidedFirst'
  <1>1. BodiesAreRecords /\ AgentsAreAwaited
    BY DEF RInv, IInv, Inv, AInv
  <1>2. PICK p : p = bodies[b].parent
    OBVIOUS
  <1>3. p \in Ids /\ p # b
    <2>1. Running(b)
      BY DEF AgentEnds, Running, Over
    <2>. QED BY <1>1, <1>2, <2>1 DEF AgentsAreAwaited
  <1>4. ~ receipt.sealed => bodies[b].unsealed /\ bodies[p].unsealed
    BY <1>3, RFacts DEF DecidedFor
  <1> DEFINE counted == [bodies[p] EXCEPT !.executed = bodies[b].executed]
             last == [bodies[b] EXCEPT !.state = "ended"]
             next == IF bodies[b].failure = "LIMIT_EXCEEDED" THEN Failing(counted, "LIMIT_EXCEEDED")
                     ELSE Proceed(counted)
  <1>5. last.state = "ended" /\ (~ receipt.sealed => last.unsealed)
    BY <1>1, <1>4 DEF BodiesAreRecords, Fields
  <1>6. next.state \in {"ready", "failing"} /\ (~ receipt.sealed => next.unsealed)
    <2>1. DOMAIN counted = Fields
      BY <1>1, <1>3 DEF BodiesAreRecords
    <2>2. ~ receipt.sealed => counted.unsealed
      BY <1>1, <1>3, <1>4 DEF BodiesAreRecords, Fields
    <2> HIDE DEF counted
    <2>3. CASE bodies[b].failure = "LIMIT_EXCEEDED"
      BY <2>1, <2>2, <2>3 DEF Failing, Fields
    <2>4. CASE bodies[b].failure # "LIMIT_EXCEEDED"
      BY <2>1, <2>2, <2>4 DEF Proceed, Fields
    <2>. QED BY <2>3, <2>4
  <1>7. bodies' = [bodies EXCEPT ![b] = last, ![p] = next]
    BY <1>1, <1>2, <1>3 DEF AgentEnds, BodiesAreRecords, Ids
  <1> HIDE DEF last, next
  <1>8. /\ Ids' = Ids /\ bodies'[b] = last /\ bodies'[p] = next
        /\ \A c \in Ids \ {b, p} : bodies'[c] = bodies[c]
    BY <1>1, <1>3, <1>7 DEF BodiesAreRecords, Ids
  <1>9. ASSUME NEW c \in Ids'
        PROVE  \/ c \in Ids /\ bodies'[c] = bodies[c]
               \/ /\ bodies'[c].state \notin {"started", "io"}
                  /\ ~ receipt.sealed => bodies'[c].unsealed
    BY <1>5, <1>6, <1>8
  <1>10. performed' = performed /\ refused' = refused /\ Grows
    BY RFacts, SameReceiptGrows DEF AgentEnds
  <1>. QED BY <1>9, <1>10, RestingPreserves

LEMMA EndReckons ==
  ASSUME RInv, (\E b \in Ids : DetachedEnds(b)) \/ Seal
  PROVE  Accounts' /\ DecidedFirst'
  <1>1. PICK b \in Ids : bodies' = [bodies EXCEPT ![b].state = "ended"]
    BY RFacts DEF DetachedEnds, Seal, BodiesAreRecords, Ids
  <1>2. /\ Turn(b) /\ bodies'[b].state = "ended" /\ bodies'[b].unsealed = bodies[b].unsealed
    BY <1>1, RFacts, StateTurn
  <1>3. performed' = performed /\ refused' = refused
    BY DEF DetachedEnds, Seal
  <1>4. Grows
    <2>1. CASE receipt' = receipt
      BY <2>1, RFacts, SameReceiptGrows
    <2>2. CASE receipt' = [receipt EXCEPT !.sealed = TRUE]
      <3>1. /\ ReceiptIsRecord' /\ receipt'.effects = receipt.effects
            /\ receipt'.truncated = receipt.truncated /\ receipt'.sealed
        BY <2>2, RFacts DEF ReceiptIsRecord
      <3>2. \A op, cap, target, decision :
              Amount(op, cap, target, decision)' = Amount(op, cap, target, decision)
        BY <3>1 DEF Amount
      <3>. QED BY <3>1, <3>2, RFacts, AmountIsNat DEF Grows
    <2>. QED BY <2>1, <2>2 DEF DetachedEnds, Seal
  <1>5. ~ receipt.sealed => bodies[b].unsealed
    BY RFacts DEF DecidedFor
  <1>6. ASSUME NEW c \in Ids'
        PROVE  \/ c \in Ids /\ bodies'[c] = bodies[c]
               \/ /\ bodies'[c].state \notin {"started", "io"}
                  /\ ~ receipt.sealed => bodies'[c].unsealed
    BY <1>2, <1>5 DEF Turn
  <1>. QED BY <1>3, <1>4, <1>6, RestingPreserves

LEMMA RStepPreserves ==
  ASSUME RInv, [Next]_vars
  PROVE  RInv'
  <1>1. IInv'
    BY StepPreserves DEF RInv
  <1>2. ASSUME NEW b \in Ids, Bodies(b)
        PROVE  Accounts' /\ DecidedFirst'
    <2>1. CASE Acts(b)
      BY <2>1, ActsReckon, ReckoningPreserves
    <2>. QED BY <1>2, <2>1, SpawnReckons, AgentEndsReckons, EndReckons DEF Bodies, Acts
  <1>3. ASSUME CopyEvidence \/ Cancel \/ Outside \/ UNCHANGED vars
        PROVE  Accounts' /\ DecidedFirst'
    <2>1. bodies' = bodies /\ performed' = performed /\ refused' = refused /\ receipt' = receipt
      BY <1>3 DEF CopyEvidence, Cancel, Outside, vars
    <2>2. Ids' = Ids
      BY <2>1 DEF Ids
    <2>3. \A c \in Ids' : c \in Ids /\ bodies'[c] = bodies[c]
      BY <2>1, <2>2
    <2>4. Grows
      BY <2>1, RFacts, SameReceiptGrows
    <2>5. ASSUME NEW c \in Ids'
          PROVE  \/ c \in Ids /\ bodies'[c] = bodies[c]
                 \/ /\ bodies'[c].state \notin {"started", "io"}
                    /\ ~ receipt.sealed => bodies'[c].unsealed
      BY <2>3
    <2>. QED BY <2>1, <2>4, <2>5, RestingPreserves
  <1>4. ASSUME Seal
        PROVE  Accounts' /\ DecidedFirst'
    BY <1>4, EndReckons
  <1>5. Accounts' /\ DecidedFirst'
    <2>1. (\E b \in Ids : Bodies(b)) \/ CopyEvidence \/ Seal \/ Cancel \/ Outside \/ UNCHANGED vars
      BY DEF Next, Main
    <2>. QED BY <2>1, <1>2, <1>3, <1>4
  <1>. QED BY <1>1, <1>5 DEF RInv

LEMMA RInitHolds ==
  ASSUME Init
  PROVE  RInv
  <1>1. IInv
    BY InitHolds
  <1>2. /\ receipt = [effects |-> <<>>, truncated |-> FALSE, sealed |-> FALSE]
        /\ performed = {} /\ refused = {}
    BY DEF Init
  <1>3. ReceiptIsRecord
    <2>1. <<>> \in Seq({}) /\ Range(<<>>) = {}
      BY DEF Range
    <2>. QED BY <1>2, <2>1 DEF ReceiptIsRecord
  <1>4. bodies = <<Body("main", 0, program.caps, program.code)>>
    BY DEF Init
  <1>5. \A b \in Ids : bodies[b].state = "ready" /\ bodies[b].unsealed
    BY <1>4 DEF Ids, Body
  <1>6. DecidedFirst
    BY <1>5 DEF DecidedFirst, DecidedFor
  <1>7. \A op, cap, target, decision : Amount(op, cap, target, decision) \in Nat
    BY <1>3, AmountIsNat
  <1>8. /\ IsFiniteSet({}) /\ Cardinality({}) = 0
        /\ \A op, cap, target : RefusedFor(op, cap, target) = {} /\ DoneFor(op, target) = {}
                                /\ DueFor(op, target) = {}
    BY <1>2, <1>5, FS_EmptySet DEF RefusedFor, DoneFor, DueFor, Due
  <1>9. RefusalsAccounted
    BY <1>7, <1>8 DEF RefusalsAccounted
  <1>10. EffectsAccounted
    <2>1. ASSUME NEW op, NEW target
          PROVE  Cardinality(DoneFor(op, target)) + Cardinality(DueFor(op, target))
                   <= Amount(op, CapOf(op), target, "allowed")
      <3>1. Amount(op, CapOf(op), target, "allowed") \in Nat
        BY <1>7
      <3>2. Cardinality(DoneFor(op, target)) = 0 /\ Cardinality(DueFor(op, target)) = 0
        BY <1>8
      <3>. QED BY <3>1, <3>2
    <2>. QED BY <2>1 DEF EffectsAccounted
  <1>. QED BY <1>1, <1>2, <1>3, <1>6, <1>8, <1>9, <1>10 DEF RInv, Accounts

\* The entries of the receipt cover, one for one, the effects done and those
\* decided and still to be done.
THEOREM AccountsHold == Spec => []RInv
  BY RInitHolds, RStepPreserves, PTL DEF Spec

\* Each refusal before the seal has an entry of its own, unless its instruction
\* had been allowed the same capability or the receipt says it is truncated.
THEOREM RefusalsRecorded == Spec => []RefusalsAreRecorded
  <1>1. RInv => RefusalsAreRecorded
    BY DEF RInv, Accounts, RefusalsAccounted, RefusedFor, RefusalsAreRecorded
  <1>. QED BY <1>1, AccountsHold, PTL

\* Each effect authorised before the seal has an entry of its own, whatever other
\* bodies do between the two, unless the receipt says it is truncated.
THEOREM EffectsRecorded == Spec => []EffectsAreRecorded
  <1>1. ASSUME RInv
        PROVE  EffectsAreRecorded
    <2>1. ASSUME ~ receipt.truncated, NEW op, NEW target
          PROVE  Cardinality(DoneFor(op, target)) <= Amount(op, CapOf(op), target, "allowed")
      <3>1. Cardinality(DoneFor(op, target)) + Cardinality(DueFor(op, target))
              <= Amount(op, CapOf(op), target, "allowed")
        BY <1>1, <2>1, RFacts DEF Accounts, EffectsAccounted
      <3>2. /\ Cardinality(DoneFor(op, target)) \in Nat /\ Cardinality(DueFor(op, target)) \in Nat
            /\ Amount(op, CapOf(op), target, "allowed") \in Nat
        <4>1. IsFiniteSet(Ids)
          <5>1. Ids = 1 .. Len(bodies) /\ Len(bodies) \in Nat
            BY <1>1, RFacts DEF BodiesAreRecords, Ids
          <5>. QED BY <5>1, FS_Interval
        <4>. QED BY <1>1, <4>1, RFacts, CountedSetsAreFinite, FS_CardinalityType, AmountIsNat
      <3>. QED BY <3>1, <3>2
    <2>. QED BY <2>1 DEF EffectsAreRecorded, DoneFor
  <1>. QED BY <1>1, AccountsHold, PTL

-----------------------------------------------------------------------------
(* What the ledger tells while main runs.                                  *)

Changes(e, d) == e.op = "MAP_SET" /\ e.dict = d
SetsIn(events, d) == {k \in DOMAIN events : Changes(events[k], d)}

\* Those up to the event k, and that their versions number them in order.
Until(events, d, k) == {j \in SetsIn(events, d) : j <= k}
Numbered(events, d) ==
  \A k \in SetsIn(events, d) : events[k].version = Cardinality(Until(events, d, k))

\* The changes of a dictionary counted so far.
Count(l, d) == IF l.version[d] = None THEN 0 ELSE l.version[d]

\* Every change counted has an event, and the event its number.
TellsOf(l, d) ==
  /\ Cardinality(SetsIn(l.events, d)) = Count(l, d)
  /\ Numbered(l.events, d)

IsLedger(l) ==
  /\ DOMAIN l = {"complete", "events", "version"}
  /\ l.complete \in BOOLEAN
  /\ l.events \in Seq(Range(l.events))
  /\ DOMAIN l.version = Dicts
  /\ \A d \in Dicts : l.version[d] \in Nat \cup {None}

IsHistory(h) == h \in [Dicts -> [times : Nat, elsewhere : BOOLEAN]]

LedgerTells ==
  ledger.complete =>
    \A d \in Dicts :
      TellsOf(ledger, d) /\ (~ changed[d].elsewhere => changed[d].times = Count(ledger, d))

EvidenceIsLedger == evidence # None => evidence = ledger

LInv ==
  /\ IInv
  /\ IsLedger(ledger) /\ IsHistory(changed)
  /\ bodies[1].shares
  /\ EvidenceIsLedger
  /\ LedgerTells

-----------------------------------------------------------------------------
(* The operations on a ledger.                                             *)

\* Registering a dictionary counts no change.
LEMMA RegisteredTells ==
  ASSUME NEW l, IsLedger(l), NEW d
  PROVE  /\ IsLedger(Registered(l, d))
         /\ Registered(l, d).complete => l.complete
         /\ Registered(l, d).events = l.events
         /\ \A c \in Dicts : Count(Registered(l, d), c) = Count(l, c)
         /\ Registered(l, d).complete /\ d \in Dicts => Registered(l, d).version[d] \in Nat
  <1>1. CASE Registered(l, d) = l /\ (d \in Dicts /\ l.complete => l.version[d] # None)
    BY <1>1 DEF IsLedger
  <1>2. CASE Registered(l, d) = [l EXCEPT !.complete = FALSE]
    BY <1>2 DEF IsLedger, Count
  <1>3. CASE l.complete /\ l.version[d] = None /\ Registered(l, d) = [l EXCEPT !.version[d] = 0]
    <2> DEFINE r == [l EXCEPT !.version[d] = 0]
    <2>1. /\ DOMAIN r = {"complete", "events", "version"} /\ r.complete /\ r.events = l.events
          /\ DOMAIN r.version = Dicts
          /\ \A c \in Dicts : r.version[c] = IF c = d THEN 0 ELSE l.version[c]
      BY <1>3 DEF IsLedger
    <2>2. 0 # None
      BY AuthorityAssumption
    <2>3. Registered(l, d) = r /\ (d \in Dicts => r.version[d] \in Nat)
      BY <1>3, <2>1
    <2> HIDE DEF r
    <2>4. IsLedger(r)
      BY <2>1 DEF IsLedger
    <2>5. ASSUME NEW c \in Dicts
          PROVE  Count(r, c) = Count(l, c)
      BY <1>3, <2>1, <2>2 DEF Count
    <2>. QED BY <1>3, <2>1, <2>3, <2>4, <2>5
  <1>. QED BY <1>1, <1>2, <1>3 DEF Registered

\* A change counts one more for its dictionary.
LEMMA BumpedCounts ==
  ASSUME NEW l, IsLedger(l), l.complete, NEW d, d \in Dicts => l.version[d] \in Nat
  PROVE  /\ IsLedger(Bumped(l, d)) /\ Bumped(l, d).complete
         /\ Bumped(l, d).events = l.events
         /\ \A c \in Dicts \ {d} : Count(Bumped(l, d), c) = Count(l, c)
         /\ d \in Dicts => /\ Count(Bumped(l, d), d) = Count(l, d) + 1
                           /\ Bumped(l, d).version[d] = Count(l, d) + 1
  <1> DEFINE r == [l EXCEPT !.version[d] = @ + 1]
  <1>1. /\ DOMAIN r = {"complete", "events", "version"} /\ r.complete = l.complete
        /\ r.events = l.events /\ DOMAIN r.version = Dicts
        /\ \A c \in Dicts : r.version[c] = IF c = d THEN l.version[d] + 1 ELSE l.version[c]
    BY DEF IsLedger
  <1>2. Bumped(l, d) = r
    BY DEF Bumped
  <1>3. None \notin Nat
    BY AuthorityAssumption
  <1> HIDE DEF r
  <1>4. IsLedger(r)
    BY <1>1 DEF IsLedger
  <1>5. \A c \in Dicts \ {d} : Count(r, c) = Count(l, c)
    BY <1>1 DEF Count
  <1>6. d \in Dicts => Count(r, d) = Count(l, d) + 1 /\ r.version[d] = Count(l, d) + 1
    BY <1>1, <1>3 DEF Count
  <1>. QED BY <1>1, <1>2, <1>4, <1>5, <1>6

LEMMA SetsAreFinite ==
  ASSUME NEW s, s \in Seq(Range(s)), NEW d
  PROVE  /\ IsFiniteSet(SetsIn(s, d)) /\ Cardinality(SetsIn(s, d)) \in Nat
         /\ SetsIn(s, d) \subseteq 1 .. Len(s) /\ Len(s) \in Nat
  <1>1. SetsIn(s, d) \subseteq 1 .. Len(s) /\ Len(s) \in Nat
    BY DEF SetsIn
  <1>2. IsFiniteSet(1 .. Len(s))
    BY <1>1, FS_Interval
  <1>. QED BY <1>1, <1>2, FS_Subset, FS_CardinalityType

LEMMA AppendedIsSeq ==
  ASSUME NEW s, s \in Seq(Range(s)), NEW e
  PROVE  Append(s, e) \in Seq(Range(Append(s, e)))
  <1> DEFINE t == Append(s, e)
             n == Len(s)
  <1>1. n \in Nat /\ n + 1 \in Nat
    OBVIOUS
  <1>2. t \in [1 .. n + 1 -> Range(s) \cup {e}]
    <2>1. PICK S : S = Range(s) \cup {e}
      OBVIOUS
    <2>2. s \in Seq(S) /\ e \in S
      BY <2>1
    <2>3. t \in Seq(S) /\ Len(t) = n + 1
      BY <2>2, AppendProperties
    <2>. QED BY <1>1, <2>1, <2>3, LenProperties
  <1> HIDE DEF t, n
  <1>3. t \in [1 .. n + 1 -> Range(t)]
    BY <1>2 DEF Range
  <1>. QED BY <1>1, <1>3, FunctionIsSeq DEF t

\* The event of a change is the last of its dictionary.
LEMMA ChangeAppended ==
  ASSUME NEW s, s \in Seq(Range(s)), NEW d, Numbered(s, d),
         NEW e, Changes(e, d), e.version = Cardinality(SetsIn(s, d)) + 1
  PROVE  /\ Cardinality(SetsIn(Append(s, e), d)) = Cardinality(SetsIn(s, d)) + 1
         /\ Numbered(Append(s, e), d)
  <1> DEFINE n == Len(s)
             t == Append(s, e)
  <1>1. /\ n \in Nat /\ DOMAIN s = 1 .. n /\ DOMAIN t = 1 .. n + 1
        /\ t[n + 1] = e /\ \A k \in 1 .. n : t[k] = s[k]
    BY DEF Range
  <1> HIDE DEF t
  <1>2. /\ IsFiniteSet(SetsIn(s, d)) /\ SetsIn(s, d) \subseteq 1 .. n /\ n + 1 \notin SetsIn(s, d)
        /\ Cardinality(SetsIn(s, d)) \in Nat
    BY <1>1, SetsAreFinite
  <1>3. SetsIn(t, d) = SetsIn(s, d) \cup {n + 1}
    BY <1>1 DEF SetsIn
  <1>4. Cardinality(SetsIn(t, d)) = Cardinality(SetsIn(s, d)) + 1
    BY <1>2, <1>3, FS_AddElement
  <1>5. ASSUME NEW k \in SetsIn(s, d)
        PROVE  t[k].version = Cardinality(Until(t, d, k))
    <2>1. Until(t, d, k) = Until(s, d, k)
      BY <1>1, <1>2, <1>3 DEF Until
    <2>. QED BY <1>1, <1>2, <2>1 DEF Numbered
  <1>6. Until(t, d, n + 1) = SetsIn(t, d)
    BY <1>1, <1>2, <1>3 DEF Until
  <1>7. Numbered(t, d)
    BY <1>1, <1>3, <1>4, <1>5, <1>6 DEF Numbered
  <1>. QED BY <1>4, <1>7 DEF t

\* Any other event leaves the changes of a dictionary as they were.
LEMMA OtherAppended ==
  ASSUME NEW s, s \in Seq(Range(s)), NEW d, Numbered(s, d), NEW e, ~ Changes(e, d)
  PROVE  /\ Cardinality(SetsIn(Append(s, e), d)) = Cardinality(SetsIn(s, d))
         /\ Numbered(Append(s, e), d)
  <1> DEFINE t == Append(s, e)
  <1>1. SetsIn(t, d) = SetsIn(s, d) /\ \A k \in SetsIn(s, d) : t[k] = s[k]
    BY DEF SetsIn
  <1>. QED BY <1>1 DEF Numbered, Until

-----------------------------------------------------------------------------
(* Steps.                                                                  *)

LEMMA LFacts ==
  ASSUME LInv
  PROVE  /\ Inv /\ BodiesAreRecords /\ MainRests /\ 1 \in Ids
         /\ IsLedger(ledger) /\ IsHistory(changed)
  BY DEF LInv, IInv, Inv, AInv, BodiesAreRecords, Ids

\* Only the dictionary operations and the end of main touch the books.
LEMMA BooksAreKept ==
  ASSUME NEW b, \/ Begin(b) \/ Limited(b) \/ Files(b) \/ Fetches(b) \/ AuthorizeProgram(b)
                \/ RunProgram(b) \/ ReadEnvironment(b) \/ Spawn(b) \/ SpawnAgent(b)
                \/ Catch(b) \/ AgentEnds(b) \/ DetachedEnds(b)
  PROVE  ledger' = ledger /\ evidence' = evidence /\ changed' = changed
  <1>1. ASSUME Escapes(b) \/ Breaks(b) \/ \E io : Step(b, io)
        PROVE  UNCHANGED books
    BY <1>1 DEF Escapes, Breaks, Step
  <1>2. ASSUME NEW target, NEW x, Performs(b, target, x)
        PROVE  UNCHANGED books
    BY <1>2 DEF Performs
  <1>3. ASSUME AuthorizeFile(b) \/ MatchRoot(b) \/ StatRoot(b) \/ OpenRoot(b) \/ LstatTarget(b)
        PROVE  UNCHANGED books
    BY <1>1, <1>3 DEF AuthorizeFile, MatchRoot, StatRoot, OpenRoot, LstatTarget
  <1>4. ASSUME OpenTarget(b) \/ OpenPinned(b) \/ VerifyPinned(b) \/ CreatePinned(b)
        PROVE  UNCHANGED books
    BY <1>1, <1>2, <1>4 DEF OpenTarget, OpenPinned, VerifyPinned, CreatePinned
  <1>5. ASSUME MakeDirectory(b) \/ ReplaceTarget(b) \/ \E phase : Leaves(b, phase)
        PROVE  UNCHANGED books
    BY <1>1, <1>2, <1>5 DEF MakeDirectory, ReplaceTarget, Leaves
  <1>6. ASSUME Fetches(b)
        PROVE  UNCHANGED books
    BY <1>1, <1>6 DEF Fetches, AuthorizeRequest, Dial, DenyHop, Redirect, Respond
  <1>7. ASSUME AuthorizeProgram(b) \/ RunProgram(b) \/ ReadEnvironment(b) \/ Spawn(b) \/ SpawnAgent(b)
        PROVE  UNCHANGED books
    BY <1>1, <1>2, <1>7 DEF AuthorizeProgram, RunProgram, ReadEnvironment, Spawn, SpawnAgent
  <1>8. ASSUME Begin(b) \/ Limited(b) \/ Catch(b) \/ AgentEnds(b) \/ DetachedEnds(b)
        PROVE  UNCHANGED books
    BY <1>8 DEF Begin, Limited, Catch, AgentEnds, DetachedEnds
  <1>. QED BY <1>3, <1>4, <1>5, <1>6, <1>7, <1>8 DEF Files, books

\* Main works on the run's own dictionaries as long as it runs.
LEMMA MainShares ==
  ASSUME LInv, [Next]_vars
  PROVE  bodies'[1].shares
  <1>1. ASSUME NEW b, Turn(b)
        PROVE  bodies'[1].shares
    BY <1>1, LFacts DEF Turn, LInv
  <1>2. ASSUME NEW b \in Ids, Acts(b)
        PROVE  bodies'[1].shares
    BY <1>1, <1>2, LFacts, ActsAdvance DEF Advances, GoesOn
  <1>3. ASSUME NEW b \in Ids, NEW cap, Deny(b, cap)
        PROVE  bodies'[1].shares
    BY <1>1, <1>3, LFacts, FailingTurn DEF Deny
  <1>4. ASSUME NEW b \in Ids, NEW r, r.shares = bodies[b].shares, NEW child,
               bodies' = Append([bodies EXCEPT ![b] = r], child)
        PROVE  bodies'[1].shares
    <2>1. PICK bs : bs = [bodies EXCEPT ![b] = r]
      OBVIOUS
    <2>2. bs \in Seq(Range(bs))
      BY <1>4, <2>1, LFacts, BodyReplaced DEF Replaced
    <2>3. /\ DOMAIN bs = Ids
          /\ bs[b] = r /\ \A c \in Ids \ {b} : bs[c] = bodies[c]
      BY <1>4, <2>1, LFacts DEF BodiesAreRecords, Ids
    <2>4. bs[1].shares
      BY <1>4, <2>3, LFacts DEF LInv
    <2>5. bodies'[1] = bs[1]
      BY <1>4, <2>1, <2>2, <2>3, LFacts, BodyAdded
    <2>. QED BY <2>4, <2>5
  <1>5. ASSUME NEW b \in Ids, Spawn(b)
        PROVE  bodies'[1].shares
    <2>1. Proceed(bodies[b]).shares = bodies[b].shares
      BY LFacts DEF Proceed, BodiesAreRecords, Fields
    <2>. QED BY <1>3, <1>4, <1>5, <2>1 DEF Spawn
  <1>6. ASSUME NEW b \in Ids, SpawnAgent(b)
        PROVE  bodies'[1].shares
    <2>1. [bodies[b] EXCEPT !.state = "waiting"].shares = bodies[b].shares
      BY LFacts DEF BodiesAreRecords, Fields
    <2>2. CASE bodies' = [bodies EXCEPT ![b] = Failing(@, "LIMIT_EXCEEDED")]
      BY <1>1, <2>2, LFacts, FailingTurn
    <2>. QED BY <1>3, <1>4, <1>6, <2>1, <2>2 DEF SpawnAgent
  <1>7. ASSUME NEW b \in Ids, bodies' = [bodies EXCEPT ![b].state = "ended"]
        PROVE  bodies'[1].shares
    BY <1>1, <1>7, LFacts, StateTurn
  <1>8. ASSUME NEW b \in Ids, AgentEnds(b)
        PROVE  bodies'[1].shares
    BY <1>8, LFacts DEF AgentEnds, Proceed, Failing, BodiesAreRecords, Fields, Ids, LInv
  <1>9. CASE CopyEvidence \/ Cancel \/ Outside \/ UNCHANGED vars
    BY <1>9 DEF CopyEvidence, Cancel, Outside, vars, LInv
  <1>10. CASE Seal
    BY <1>7, <1>10, LFacts DEF Seal
  <1>11. ASSUME NEW b \in Ids, Bodies(b)
         PROVE  bodies'[1].shares
    BY <1>2, <1>5, <1>6, <1>7, <1>8, <1>11 DEF Bodies, Acts, DetachedEnds
  <1>. QED BY <1>9, <1>10, <1>11 DEF Next, Main

\* What an operation of main on a dictionary does to the ledger.
LEMMA MainTells ==
  ASSUME LInv, NEW d, NEW op \in {"MAKE_DICT", "MAP_SET", "MAP_GET"},
         ledger' = Logged(IF op = "MAP_SET" THEN Bumped(Registered(ledger, d), d)
                          ELSE Registered(ledger, d), op, d),
         changed' = IF op = "MAP_SET"
                    THEN [changed EXCEPT ![d].times = @ + 1, ![d].elsewhere = @ \/ FALSE]
                    ELSE changed
  PROVE  IsLedger(ledger') /\ IsHistory(changed') /\ LedgerTells'
  <1> DEFINE known == Registered(ledger, d)
             counted == IF op = "MAP_SET" THEN Bumped(known, d) ELSE known
             event == [op |-> op, dict |-> d, version |-> counted.version[d]]
             more(c) == IF op = "MAP_SET" /\ c = d THEN 1 ELSE 0
  <1>1. /\ IsLedger(known) /\ (known.complete => ledger.complete) /\ known.events = ledger.events
        /\ \A c \in Dicts : Count(known, c) = Count(ledger, c)
        /\ known.complete /\ d \in Dicts => known.version[d] \in Nat
    BY LFacts, RegisteredTells
  <1>2. ~ known.complete => counted = known
    BY DEF Bumped
  <1>3. ASSUME known.complete
        PROVE  /\ IsLedger(counted) /\ counted.complete /\ counted.events = ledger.events
               /\ \A c \in Dicts : Count(counted, c) = Count(ledger, c) + more(c)
               /\ d \in Dicts /\ op = "MAP_SET" => counted.version[d] = Count(ledger, d) + 1
    <2>1. ASSUME NEW c \in Dicts
          PROVE  Count(ledger, c) \in Nat
      BY LFacts DEF IsLedger, Count
    <2>2. CASE op = "MAP_SET"
      BY <1>1, <1>3, <2>1, <2>2, BumpedCounts
    <2>3. CASE op # "MAP_SET"
      BY <1>1, <1>3, <2>1, <2>3
    <2>. QED BY <2>2, <2>3
  <1> HIDE DEF known, counted
  <1>4. ledger' = Logged(counted, op, d)
    BY DEF known, counted
  <1>5. IsHistory(changed')
    <2>1. PICK h : h = changed'
      OBVIOUS
    <2>2. CASE op = "MAP_SET" /\ d \in Dicts
      <3>1. changed[d] \in [times : Nat, elsewhere : BOOLEAN]
        BY <2>2, LFacts DEF IsHistory
      <3>2. PICK x \in BOOLEAN : x = (changed[d].elsewhere \/ FALSE)
        OBVIOUS
      <3>3. PICK y \in Nat : y = changed[d].times + 1
        BY <3>1
      <3>4. PICK r : r = [changed[d] EXCEPT !.times = @ + 1, !.elsewhere = @ \/ FALSE]
        OBVIOUS
      <3>5. r = [times |-> y, elsewhere |-> x]
        BY <3>1, <3>2, <3>3, <3>4
      <3>6. h = [changed EXCEPT ![d] = r]
        BY <2>1, <2>2, <3>4
      <3>7. r \in [times : Nat, elsewhere : BOOLEAN]
        BY <3>5
      <3>. QED BY <2>1, <3>6, <3>7, LFacts DEF IsHistory
    <2>3. CASE ~ (op = "MAP_SET" /\ d \in Dicts)
      BY <2>3, LFacts DEF IsHistory
    <2>. QED BY <2>2, <2>3
  <1>6. ASSUME NEW c \in Dicts, ~ changed'[c].elsewhere
        PROVE  ~ changed[c].elsewhere /\ changed'[c].times = changed[c].times + more(c)
    BY <1>6, LFacts DEF IsHistory
  <1>7. CASE ~ known.complete
    <2>1. ledger' = known
      BY <1>2, <1>4, <1>7 DEF Logged
    <2>. QED BY <1>1, <1>5, <1>7, <2>1 DEF LedgerTells
  <1>8. CASE known.complete /\ Len(counted.events) >= MaxEvents
    <2>1. ledger' = [counted EXCEPT !.complete = FALSE, !.events = <<>>]
      BY <1>3, <1>4, <1>8 DEF Logged
    <2>2. IsLedger(ledger') /\ ~ ledger'.complete
      <3>1. PICK l : l = ledger'
        OBVIOUS
      <3>2. <<>> \in Seq(Range(<<>>))
        OBVIOUS
      <3>3. IsLedger(l) /\ ~ l.complete
        BY <1>3, <1>8, <2>1, <3>1, <3>2 DEF IsLedger
      <3>. QED BY <3>1, <3>3
    <2>. QED BY <1>5, <2>2 DEF LedgerTells
  <1>9. CASE known.complete /\ ~ (Len(counted.events) >= MaxEvents)
    <2>1. ledger' = [counted EXCEPT !.events = Append(@, event)]
      BY <1>3, <1>4, <1>9 DEF Logged
    <2>2. ledger.complete
      BY <1>1, <1>9
    <2>3. event.op = op /\ event.dict = d /\ event.version = counted.version[d]
      OBVIOUS
    <2> HIDE DEF event
    <2>4. ledger.events \in Seq(Range(ledger.events))
      BY LFacts DEF IsLedger
    <2>5. /\ DOMAIN ledger' = {"complete", "events", "version"} /\ ledger'.complete
          /\ ledger'.events = Append(ledger.events, event) /\ ledger'.version = counted.version
      BY <1>3, <1>9, <2>1 DEF IsLedger
    <2>6. ASSUME NEW c \in Dicts
          PROVE  /\ Numbered(ledger.events, c)
                 /\ Cardinality(SetsIn(ledger.events, c)) = Count(ledger, c)
                 /\ Changes(event, c) => event.version = Cardinality(SetsIn(ledger.events, c)) + 1
      BY <1>3, <1>9, <2>2, <2>3, <2>6 DEF LInv, LedgerTells, TellsOf, Changes
    <2>7. Append(ledger.events, event) \in Seq(Range(Append(ledger.events, event)))
      BY <2>4, AppendedIsSeq
    <2>8. IsLedger(ledger')
      BY <1>3, <1>9, <2>5, <2>7 DEF IsLedger
    <2>9. ASSUME NEW c \in Dicts
          PROVE  TellsOf(ledger', c)
      <3>1. Count(ledger', c) = Count(ledger, c) + more(c)
        BY <1>3, <1>9, <2>5 DEF Count
      <3>2. PICK s, e, t : s = ledger.events /\ e = event /\ t = Append(s, e)
        OBVIOUS
      <3>3. s \in Seq(Range(s))
        BY <2>4, <3>2
      <3>4. Numbered(s, c)
        BY <2>6, <3>2
      <3>5. Changes(e, c) => e.version = Cardinality(SetsIn(s, c)) + 1
        BY <2>6, <3>2
      <3>6. more(c) = IF Changes(e, c) THEN 1 ELSE 0
        BY <2>3, <3>2 DEF Changes
      <3>7. CASE Changes(e, c)
        <4>1. Cardinality(SetsIn(t, c)) = Cardinality(SetsIn(s, c)) + 1 /\ Numbered(t, c)
          BY <3>2, <3>3, <3>4, <3>5, <3>7, ChangeAppended
        <4>. QED BY <2>5, <2>6, <3>1, <3>2, <3>6, <3>7, <4>1 DEF TellsOf
      <3>8. CASE ~ Changes(e, c)
        <4>1. Cardinality(SetsIn(t, c)) = Cardinality(SetsIn(s, c)) /\ Numbered(t, c)
          BY <3>2, <3>3, <3>4, <3>8, OtherAppended
        <4>2. Count(ledger, c) \in Nat
          BY LFacts DEF IsLedger, Count
        <4>3. Count(ledger', c) = Count(ledger, c)
          BY <3>1, <3>6, <3>8, <4>2
        <4>. QED BY <2>5, <2>6, <3>2, <4>1, <4>3 DEF TellsOf
      <3>. QED BY <3>7, <3>8
    <2>10. ASSUME NEW c \in Dicts, ~ changed'[c].elsewhere
           PROVE  changed'[c].times = Count(ledger', c)
      <3>1. Count(ledger', c) = Count(ledger, c) + more(c)
        BY <1>3, <1>9, <2>5 DEF Count
      <3>. QED BY <1>6, <2>2, <2>10, <3>1 DEF LInv, LedgerTells
    <2>. QED BY <1>5, <2>8, <2>9, <2>10 DEF LedgerTells
  <1>. QED BY <1>7, <1>8, <1>9

\* What a detached body or an agent does to a dictionary is in no ledger.
LEMMA ElsewhereTells ==
  ASSUME LInv, NEW d, ledger' = ledger,
         \/ changed' = changed
         \/ changed' = [changed EXCEPT ![d].times = @ + 1, ![d].elsewhere = @ \/ TRUE]
  PROVE  IsHistory(changed') /\ LedgerTells'
  <1>1. CASE changed' = changed
    BY <1>1 DEF LInv, LedgerTells
  <1>2. CASE changed' = [changed EXCEPT ![d].times = @ + 1, ![d].elsewhere = @ \/ TRUE]
    <2>1. PICK h : h = changed'
      OBVIOUS
    <2>2. CASE d \in Dicts
      <3>1. changed[d] \in [times : Nat, elsewhere : BOOLEAN]
        BY <2>2, LFacts DEF IsHistory
      <3>2. PICK y \in Nat : y = changed[d].times + 1
        BY <3>1
      <3>3. PICK r : r = [changed[d] EXCEPT !.times = @ + 1, !.elsewhere = @ \/ TRUE]
        OBVIOUS
      <3>4. r = [times |-> y, elsewhere |-> TRUE]
        BY <3>1, <3>2, <3>3
      <3>5. h = [changed EXCEPT ![d] = r]
        BY <1>2, <2>1, <2>2, <3>3
      <3>6. IsHistory(h)
        BY <3>4, <3>5, LFacts DEF IsHistory
      <3>7. ASSUME NEW c \in Dicts, ~ h[c].elsewhere
            PROVE  h[c] = changed[c]
        BY <2>2, <3>4, <3>5, <3>7, LFacts DEF IsHistory
      <3>. QED BY <2>1, <3>6, <3>7 DEF LInv, LedgerTells
    <2>3. CASE d \notin Dicts
      <3>1. h = changed
        BY <1>2, <2>1, <2>3, LFacts DEF IsHistory
      <3>. QED BY <2>1, <3>1 DEF LInv, LedgerTells
    <2>. QED BY <2>2, <2>3
  <1>. QED BY <1>1, <1>2

LEMMA UseDictTells ==
  ASSUME LInv, NEW b \in Ids, UseDict(b)
  PROVE  IsLedger(ledger') /\ IsHistory(changed') /\ LedgerTells' /\ EvidenceIsLedger'
  <1>0. PICK d, op : d = Inst(b).dict /\ op = Inst(b).op
    OBVIOUS
  <1>1. /\ op \in {"MAKE_DICT", "MAP_SET", "MAP_GET"}
        /\ ledger' = IF b # 1 THEN ledger
                     ELSE Logged(IF op = "MAP_SET" THEN Bumped(Registered(ledger, d), d)
                                 ELSE Registered(ledger, d), op, d)
        /\ changed' = IF op = "MAP_SET" /\ bodies[b].shares
                      THEN [changed EXCEPT ![d].times = @ + 1, ![d].elsewhere = @ \/ b # 1]
                      ELSE changed
        /\ evidence' = evidence /\ bodies[b].state = "started"
    <2>1. op \in {"MAKE_DICT", "MAP_SET", "MAP_GET"} /\ bodies[b].state = "started"
      BY <1>0 DEF UseDict, Starts
    <2>2. ledger' = IF b # 1 THEN ledger
                    ELSE Logged(IF op = "MAP_SET" THEN Bumped(Registered(ledger, d), d)
                                ELSE Registered(ledger, d), op, d)
      BY <1>0 DEF UseDict
    <2>3. changed' = IF op = "MAP_SET" /\ bodies[b].shares
                     THEN [changed EXCEPT ![d].times = @ + 1, ![d].elsewhere = @ \/ b # 1]
                     ELSE changed
      BY <1>0 DEF UseDict
    <2>4. evidence' = evidence
      BY DEF UseDict
    <2>. QED BY <2>1, <2>2, <2>3, <2>4
  <1>2. CASE b = 1
    <2>1. evidence = None
      BY <1>1, <1>2, LFacts DEF MainRests, Over
    <2>2. EvidenceIsLedger'
      BY <1>1, <2>1 DEF EvidenceIsLedger
    <2>3. (b # 1) = FALSE
      BY <1>2
    <2>4. bodies[b].shares
      BY <1>2 DEF LInv
    <2>5. changed' = IF op = "MAP_SET"
                     THEN [changed EXCEPT ![d].times = @ + 1, ![d].elsewhere = @ \/ FALSE]
                     ELSE changed
      BY <1>1, <2>3, <2>4
    <2>6. ledger' = Logged(IF op = "MAP_SET" THEN Bumped(Registered(ledger, d), d)
                           ELSE Registered(ledger, d), op, d)
      BY <1>1, <1>2
    <2>7. op \in {"MAKE_DICT", "MAP_SET", "MAP_GET"}
      BY <1>1
    <2>. QED BY <2>2, <2>5, <2>6, <2>7, MainTells
  <1>3. CASE b # 1
    <2>1. ledger' = ledger /\ evidence' = evidence
      BY <1>1, <1>3
    <2>2. (b # 1) = TRUE
      BY <1>3
    <2>3. \/ changed' = changed
          \/ changed' = [changed EXCEPT ![d].times = @ + 1, ![d].elsewhere = @ \/ TRUE]
      BY <1>1, <2>2
    <2>4. IsLedger(ledger') /\ EvidenceIsLedger'
      BY <2>1, LFacts DEF LInv, EvidenceIsLedger
    <2>. QED BY <2>1, <2>3, <2>4, ElsewhereTells
  <1>. QED BY <1>2, <1>3

LEMMA LStepPreserves ==
  ASSUME LInv, [Next]_vars
  PROVE  LInv'
  <1>1. IInv' /\ bodies'[1].shares
    BY StepPreserves, MainShares DEF LInv
  <1>2. ASSUME ledger' = ledger /\ evidence' = evidence /\ changed' = changed
        PROVE  IsLedger(ledger') /\ IsHistory(changed') /\ LedgerTells' /\ EvidenceIsLedger'
    <2>1. LedgerTells'
      BY <1>2 DEF LInv, LedgerTells
    <2>. QED BY <1>2, <2>1 DEF LInv, EvidenceIsLedger
  <1>3. ASSUME NEW b \in Ids, Bodies(b)
        PROVE  IsLedger(ledger') /\ IsHistory(changed') /\ LedgerTells' /\ EvidenceIsLedger'
    <2>1. CASE UseDict(b)
      BY <2>1, UseDictTells
    <2>2. CASE ~ UseDict(b)
      BY <1>2, <1>3, <2>2, BooksAreKept DEF Bodies
    <2>. QED BY <2>1, <2>2
  <1>4. ASSUME CopyEvidence
        PROVE  IsLedger(ledger') /\ IsHistory(changed') /\ LedgerTells' /\ EvidenceIsLedger'
    <2>1. ledger' = ledger /\ changed' = changed /\ evidence' = ledger
      BY <1>4 DEF CopyEvidence
    <2>2. LedgerTells'
      BY <2>1 DEF LInv, LedgerTells
    <2>. QED BY <2>1, <2>2 DEF LInv, EvidenceIsLedger
  <1>5. ASSUME Seal \/ Cancel \/ Outside \/ UNCHANGED vars
        PROVE  IsLedger(ledger') /\ IsHistory(changed') /\ LedgerTells' /\ EvidenceIsLedger'
    BY <1>2, <1>5 DEF Seal, Cancel, Outside, vars, books
  <1>6. IsLedger(ledger') /\ IsHistory(changed') /\ LedgerTells' /\ EvidenceIsLedger'
    BY <1>3, <1>4, <1>5 DEF Next, Main
  <1>. QED BY <1>1, <1>6 DEF LInv

LEMMA LInitHolds ==
  ASSUME Init
  PROVE  LInv
  <1>1. IInv
    BY InitHolds
  <1>2. bodies[1].shares
    BY DEF Init, Body
  <1>3. IsHistory(changed) /\ \A d \in Dicts : changed[d].times = 0
    BY DEF Init, IsHistory
  <1>4. /\ ledger = [complete |-> TRUE, events |-> <<>>, version |-> [d \in Dicts |-> None]]
        /\ evidence = None
    BY DEF Init
  <1>5. IsLedger(ledger)
    <2>1. <<>> \in Seq(Range(<<>>))
      OBVIOUS
    <2>. QED BY <1>4, <2>1 DEF IsLedger
  <1>6. ASSUME NEW d \in Dicts
        PROVE  TellsOf(ledger, d) /\ Count(ledger, d) = 0
    <2>1. SetsIn(ledger.events, d) = {}
      BY <1>4 DEF SetsIn
    <2>2. Count(ledger, d) = 0
      BY <1>4 DEF Count
    <2>. QED BY <2>1, <2>2, FS_EmptySet DEF TellsOf, Numbered
  <1>7. LedgerTells
    BY <1>3, <1>6 DEF LedgerTells
  <1>. QED BY <1>1, <1>2, <1>3, <1>4, <1>5, <1>7 DEF LInv, EvidenceIsLedger

\* As long as the ledger is complete, it has one event for each change it has
\* counted, numbered in order, and has counted every change of a dictionary that
\* no detached body changed; and what was copied at the end of main stays so.
THEOREM AccountsTell == Spec => []LInv
  BY LInitHolds, LStepPreserves, PTL DEF Spec

\* Evidence that says its ledger is complete has every change of every dictionary
\* that no detached body changed as well, in order, for any limits of the ledger,
\* any number of bodies and any order of their steps.
THEOREM LedgerFaithful == Spec => []LedgerIsFaithful
  <1>1. ASSUME LInv
        PROVE  LedgerIsFaithful
    <2>1. ASSUME evidence # None, evidence.complete, NEW d \in Dicts, ~ changed[d].elsewhere
          PROVE  /\ Cardinality(Sets(d)) = changed[d].times
                 /\ \A k \in Sets(d) :
                      evidence.events[k].version = Cardinality({j \in Sets(d) : j <= k})
      <3>1. TellsOf(evidence, d) /\ changed[d].times = Count(evidence, d)
        BY <1>1, <2>1 DEF LInv, EvidenceIsLedger, LedgerTells
      <3>2. Sets(d) = SetsIn(evidence.events, d)
        BY DEF Sets, SetsIn, Changes
      <3>3. \A k : {j \in Sets(d) : j <= k} = Until(evidence.events, d, k)
        BY <3>2 DEF Until
      <3>. QED BY <3>1, <3>2, <3>3 DEF TellsOf, Numbered
    <2>. QED BY <2>1 DEF LedgerIsFaithful
  <1>. QED BY <1>1, AccountsTell, PTL
=============================================================================
