-------------------------------- MODULE Data --------------------------------
(* The operations on values that the interpreter and the bytecode VM both     *)
(* have (internal/vm/vm.go): arithmetic of the width of an integer,           *)
(* comparison, conversion, text and the keys of a dictionary.  Floating-point *)
(* numbers and bytes are left out.                                            *)
EXTENDS Terms, FiniteSets

CONSTANT MaxInt   \* the largest integer: 2^63 - 1 in the code
ASSUME MaxIntIsNumber == MaxInt \in Nat \ {0}

Seqs == INSTANCE SequencesExt

MinInt == -MaxInt - 1
Wrapped(n) == ((n - MinInt) % (2 * (MaxInt + 1))) + MinInt
Magnitude(n) == IF n < 0 THEN -n ELSE n
Quotient(a, b) == LET q == Magnitude(a) \div Magnitude(b) IN IF (a < 0) = (b < 0) THEN q ELSE -q

(* bcCheckedAddInt64, bcCheckedSubInt64, mulOverflowsInt64: each looks for an *)
(* overflow without making one, but for the product, which it divides back.   *)
AddOverflows(a, b) == (b > 0 /\ a > MaxInt - b) \/ (b < 0 /\ a < MinInt - b)
SubOverflows(a, b) == (b > 0 /\ a < MinInt + b) \/ (b < 0 /\ a > MaxInt + b)
MulOverflows(a, b) ==
  /\ a # 0 /\ b # 0
  /\ \/ (a = -1 /\ b = MinInt) \/ (b = -1 /\ a = MinInt)
     \/ Quotient(Wrapped(a * b), b) # a

Overflows(op, a, b) ==
  CASE op = "+" -> AddOverflows(a, b)
    [] op = "-" -> SubOverflows(a, b)
    [] op = "*" -> MulOverflows(a, b)

(* Characters, in the order of their bytes.                                   *)
Digits == <<"0", "1", "2", "3", "4", "5", "6", "7", "8", "9">>
Characters == <<",", "-">> \o Digits \o <<"a", "b">>
Rank(c) == CHOOSE i \in DOMAIN Characters : Characters[i] = c
Before(s, t) ==
  \/ Seqs!IsPrefix(s, t) /\ s # t
  \/ \E i \in 1..Len(s) : /\ i <= Len(t) /\ Rank(s[i]) < Rank(t[i])
                          /\ \A j \in 1..(i - 1) : s[j] = t[j]

(* fmt.Sprint and strconv.ParseInt, of integers of at most two digits.  What  *)
(* a list or a dictionary prints is never taken apart.                        *)
Decimal(n) == IF n < 10 THEN <<Digits[n + 1]>> ELSE <<Digits[(n \div 10) + 1], Digits[(n % 10) + 1]>>
Sprint(v) ==
  CASE IsText(v) -> v[2]
    [] IsInt(v) -> IF v[2] < 0 THEN <<"-">> \o Decimal(-v[2]) ELSE Decimal(v[2])
    [] IsBool(v) -> IF v = Bool(TRUE) THEN <<"true">> ELSE <<"false">>
    [] v = Nil -> <<"<nil>">>
    [] OTHER -> <<v>>
TextOf(v) == IF v = Nil THEN <<>> ELSE Sprint(v)

Numeral(s) == IF s # <<>> /\ s[1] = "-" THEN Tail(s) ELSE s
DigitAt(s, i) == (CHOOSE d \in DOMAIN Digits : Digits[d] = s[i]) - 1
Parsed(s) ==
  LET t == Numeral(s)
      n == IF Len(t) = 1 THEN DigitAt(t, 1) ELSE 10 * DigitAt(t, 1) + DigitAt(t, 2)
  IN IF s[1] = "-" THEN -n ELSE n
Parses(s) ==
  /\ Len(Numeral(s)) \in 1..2
  /\ \A i \in DOMAIN Numeral(s) : Numeral(s)[i] \in Seqs!Range(Digits)
  /\ Parsed(s) \in MinInt..MaxInt

(* strings.Split and strings.Join, by a separator of one character or none.   *)
Split(s, sep) ==
  IF sep = <<>> THEN [i \in 1..Len(s) |-> Text(<<s[i]>>)]
  ELSE LET cuts == {i \in 1..Len(s) : s[i] = sep[1]} \cup {Len(s) + 1}
           end(k) == CHOOSE i \in cuts : Cardinality({j \in cuts : j <= i}) = k
           start(k) == IF k = 1 THEN 1 ELSE end(k - 1) + 1
       IN [k \in 1..Cardinality(cuts) |-> Text(SubSeq(s, start(k), end(k) - 1))]
Joined(texts, sep) ==
  LET whole[n \in 1..Len(texts)] == IF n = 1 THEN texts[1] ELSE whole[n - 1] \o sep \o texts[n]
  IN IF texts = <<>> THEN <<>> ELSE whole[Len(texts)]

(* The keys of a dictionary, in order.                                        *)
SortedKeys(dict) ==
  LET orders == Seqs!SetToSeqs(DOMAIN dict)
      sorted == {ks \in orders : \A i, j \in DOMAIN ks : i < j => Before(ks[i], ks[j])}
      keys == CHOOSE ks \in orders : sorted = {} \/ ks \in sorted
  IN [i \in DOMAIN keys |-> Text(keys[i])]
With(f, x, v) == [y \in DOMAIN f \cup {x} |-> IF y = x THEN v ELSE f[y]]
Without(f, x) == [y \in DOMAIN f \ {x} |-> f[y]]

(* A dictionary of pairs written one after the other: a later one wins.       *)
FromPairs(vs) ==
  LET key(i) == Sprint(vs[2 * i - 1])
      indices == 1..(Len(vs) \div 2)
      last(k) == CHOOSE i \in indices : key(i) = k /\ \A j \in indices : key(j) = k => j <= i
  IN [k \in {key(i) : i \in indices} |-> vs[2 * last(k)]]

(* What a value prints: of a dictionary, what it holds at the time.           *)
Shown(heap, v) == IF IsDict(v) THEN <<"holds", heap[v[2]]>> ELSE v
ShownAll(heap, vs) == [i \in DOMAIN vs |-> Shown(heap, vs[i])]

(* The value a dictionary holds for a key, and nil for one it does not hold.  *)
Held(dict, k) == IF Sprint(k) \in DOMAIN dict THEN dict[Sprint(k)] ELSE Nil

(* What an operation makes of its operands: the code of the error, or None,   *)
(* and the value.                                                             *)
Fine(v) == [fault |-> None, val |-> v]
Faulty(code) == [fault |-> Error(code), val |-> Nil]
Checked(ok, code, v) == IF ok THEN Fine(v) ELSE Faulty(code)
-----------------------------------------------------------------------------
(* BcBinop.  Go's && and || do not look at a right operand that the left one  *)
(* makes irrelevant, and no list or dictionary equals anything.               *)
Equal(a, b) == a = b /\ ~IsList(a) /\ ~IsDict(a)
Arithmetic(op, a, b) ==
  CASE op = "+" -> a + b
    [] op = "-" -> a - b
    [] op = "*" -> a * b
Less(a, b) == IF IsInt(a) THEN a[2] < b[2] ELSE Before(a[2], b[2])
Compared(op, a, b) ==
  CASE op = "<" -> Less(a, b)
    [] op = ">" -> Less(b, a)
    [] op = "<=" -> ~Less(b, a)
    [] op = ">=" -> ~Less(a, b)

Binop(op, a, b) ==
  CASE op = "and" -> Checked(IsBool(a) /\ (a = Bool(FALSE) \/ IsBool(b)), "TYPE_ERROR",
                             Bool(a = Bool(TRUE) /\ b = Bool(TRUE)))
    [] op = "or" -> Checked(IsBool(a) /\ (a = Bool(TRUE) \/ IsBool(b)), "TYPE_ERROR",
                            Bool(a = Bool(TRUE) \/ b = Bool(TRUE)))
    [] op = "==" -> Fine(Bool(Equal(a, b)))
    [] op = "!=" -> Fine(Bool(~Equal(a, b)))
    [] op = "+" /\ IsText(a) /\ IsText(b) -> Fine(Text(a[2] \o b[2]))
    [] op \in {"<", ">", "<=", ">="} ->
         IF a[1] = b[1] /\ (IsInt(a) \/ IsText(a)) THEN Fine(Bool(Compared(op, a, b))) ELSE Faulty("TYPE_ERROR")
    [] OTHER ->
         IF ~(IsInt(a) /\ IsInt(b)) THEN Faulty("TYPE_ERROR")
         ELSE Checked(~Overflows(op, a[2], b[2]), "RUNTIME_ERROR", Num(Arithmetic(op, a[2], b[2])))

(* BcConvert, and list_len, is_nil, which look at one value alone.            *)
Converted(target, v) ==
  CASE target = "to_string" -> Fine(Text(TextOf(v)))
    [] target = "to_int" /\ IsInt(v) -> Fine(v)
    [] target = "to_int" /\ IsText(v) -> IF Parses(v[2]) THEN Fine(Num(Parsed(v[2]))) ELSE Faulty("CONVERSION_ERROR")
    [] OTHER -> Faulty("CONVERSION_ERROR")
Length(v) == IF IsList(v) \/ IsText(v) THEN Fine(Num(Len(v[2]))) ELSE Faulty("TYPE_ERROR")

(* An index is read from what it prints; one that is not in the list gives    *)
(* the empty text.                                                            *)
Element(items, s) ==
  LET i == Parsed(s) IN IF i \in 0..(Len(items) - 1) THEN items[i + 1] ELSE Text(<<>>)
=============================================================================
