------------------------------ MODULE VmProofs ------------------------------
(***************************************************************************)
(* The activations and the limits of the bytecode VM, the dictionaries     *)
(* of a program and of its agents, and what the map ledger says of them:   *)
(* theorems about Vm, for any well-formed programs and any limits.         *)
(***************************************************************************)
EXTENDS Vm, FiniteSetTheorems, WellFoundedInduction, TLAPS

-----------------------------------------------------------------------------
(* Stacks of frames.  What is said of one is said of any sequence s and any *)
(* code, so that it can be used of frames before and after a step.          *)

Kinds == {"main", "call", "value", "branch", "agent"}
Jumping == {"JUMP", "JUMP_IF_FALSE", "FOR_NEXT"}
IsStack(s) == \E S : s \in Seq(S)
IsFrame(f) ==
  /\ DOMAIN f = {"kind", "fn", "ip", "upto", "bases", "kept"}
  /\ f.bases \in Seq(Int) /\ IsStack(f.kept)

IsCode(code) == \A f \in DOMAIN code : WellFormed(code[f])

\* A frame of kinds the VM has, in a function there is.
Placed(code, f) ==
  /\ IsFrame(f) /\ f.kind \in Kinds /\ f.fn \in DOMAIN code
  /\ f.upto \in 1..(Len(code[f.fn]) + 1) /\ f.ip \in 1..f.upto
  /\ f.kind \in {"main", "call"} => f.upto = Len(code[f.fn]) + 1

\* y is a place in the body that the frame f runs, of the instruction at k.
Stays(code, k, f, y) ==
  \E b \in Bodies(code[f.fn], k) : f.upto = b[2] /\ y \in b[1]..b[2]

\* The bodies of the instruction at k of the function fn end at upto or before.
EndBy(code, fn, k, upto) == \A b \in Bodies(code[fn], k) : b[2] <= upto

\* f was started by the instruction that g is at, and g waits for it.
Under(code, g, f) ==
  /\ g.ip < g.upto
  /\ f.kind # "call" =>
       f.fn = g.fn /\ EndBy(code, g.fn, g.ip, g.upto) /\ Stays(code, g.ip, f, f.ip)
  /\ f.kind \in {"value", "branch"} => code[g.fn][g.ip].op = "TRY_LET"
  /\ f.kind = "agent" => code[g.fn][g.ip].op = "SPAWN_AGENT"

Stacked(code, s) ==
  /\ IsStack(s)
  /\ \A i \in 1..Len(s) : Placed(code, s[i]) /\ (s[i].kind = "main" <=> i = 1)
  /\ \A i \in 2..Len(s) : Under(code, s[i - 1], s[i])

CallsIn(s) == {i \in 1..Len(s) : s[i].kind = "call"}
Calls(s) == Cardinality(CallsIn(s))

\* A place the innermost frame may go to: it stays in the code it runs.
Free(code, s, y) ==
  LET f == s[Len(s)] IN
  y \in 1..f.upto /\ (f.kind \notin {"main", "call"} => Stays(code, s[Len(s) - 1].ip, f, y))

LEMMA CallsAreFinite ==
  ASSUME NEW s, NEW S, s \in Seq(S)
  PROVE  IsFiniteSet(CallsIn(s)) /\ Calls(s) \in Nat
  <1>1. Len(s) \in Int /\ 1 \in Int
    OBVIOUS
  <1>2. IsFiniteSet(1..Len(s))
    BY <1>1, FS_Interval
  <1>3. CallsIn(s) \subseteq 1..Len(s)
    BY DEF CallsIn
  <1>4. IsFiniteSet(CallsIn(s))
    BY <1>2, <1>3, FS_Subset
  <1>. QED BY <1>4, FS_CardinalityType DEF Calls

\* The innermost frame goes on, or elsewhere in its code.
LEMMA MovedStays ==
  ASSUME NEW code, NEW s, Stacked(code, s), Len(s) > 0,
         NEW y, Free(code, s, y),
         NEW g, IsFrame(g), g.kind = s[Len(s)].kind, g.fn = s[Len(s)].fn,
         g.upto = s[Len(s)].upto, g.ip = y
  PROVE  /\ Stacked(code, [s EXCEPT ![Len(s)] = g])
         /\ Calls([s EXCEPT ![Len(s)] = g]) = Calls(s)
  <1> DEFINE n == Len(s)
             f == s[n]
  <1>1. PICK S : s \in Seq(S)
    BY DEF Stacked, IsStack
  <1>2. n \in 1..Len(s) /\ n \in Nat
    BY <1>1
  <1>3. PICK t : t = [s EXCEPT ![n] = g]
    OBVIOUS
  <1>4. t \in Seq(S \cup {g})
    <2>1. s \in Seq(S \cup {g})
      BY <1>1
    <2>. QED BY <1>2, <1>3, <2>1
  <1>5. Len(t) = n /\ t[n] = g /\ \A i \in 1..n : i # n => t[i] = s[i]
    BY <1>1, <1>2, <1>3
  <1>6. Placed(code, f) /\ (f.kind = "main" <=> n = 1)
    BY <1>2 DEF Stacked
  <1>7. Placed(code, g)
    BY <1>6 DEF Placed, Free
  <1>8. \A i \in 1..n : t[i].kind = s[i].kind
    BY <1>5
  <1>9. ASSUME NEW i \in 2..n
        PROVE  Under(code, t[i - 1], t[i])
    <2>1. Under(code, s[i - 1], s[i]) /\ t[i - 1] = s[i - 1]
      BY <1>5, <1>9, <1>2 DEF Stacked
    <2>2. CASE i # n
      BY <1>5, <1>9, <2>1, <2>2
    <2>3. CASE i = n
      <3>1. f.kind # "call" => Stays(code, s[n - 1].ip, f, y)
        BY <1>6, <2>3, <1>9 DEF Free, Placed, Kinds
      <3>2. Stays(code, s[n - 1].ip, f, y) => Stays(code, s[n - 1].ip, g, y)
        BY DEF Stays
      <3>. QED BY <1>5, <2>1, <2>3, <3>1, <3>2 DEF Under
    <2>. QED BY <2>2, <2>3
  <1>10. Stacked(code, t)
    <2>1. \A i \in 1..Len(t) : Placed(code, t[i]) /\ (t[i].kind = "main" <=> i = 1)
      BY <1>5, <1>7, <1>8 DEF Stacked
    <2>. QED BY <1>4, <1>5, <1>9, <2>1 DEF Stacked, IsStack
  <1>11. CallsIn(t) = CallsIn(s)
    BY <1>5, <1>8 DEF CallsIn
  <1>. QED BY <1>3, <1>10, <1>11 DEF Calls

\* Another activation of run.
LEMMA PushedStays ==
  ASSUME NEW code, NEW s, Stacked(code, s), Len(s) > 0,
         NEW e, Placed(code, e), e.kind # "main", Under(code, s[Len(s)], e)
  PROVE  /\ Stacked(code, Append(s, e))
         /\ e.kind # "call" => Calls(Append(s, e)) = Calls(s)
         /\ e.kind = "call" => Calls(Append(s, e)) = Calls(s) + 1
  <1> DEFINE n == Len(s)
  <1>1. PICK S : s \in Seq(S)
    BY DEF Stacked, IsStack
  <1>2. n \in Nat
    BY <1>1
  <1>3. PICK t : t = Append(s, e)
    OBVIOUS
  <1>4. t \in Seq(S \cup {e})
    <2>1. s \in Seq(S \cup {e})
      BY <1>1
    <2>. QED BY <1>3, <2>1
  <1>5. Len(t) = n + 1 /\ t[n + 1] = e /\ \A i \in 1..n : t[i] = s[i]
    BY <1>1, <1>3
  <1>6. \A i \in 1..Len(t) : Placed(code, t[i]) /\ (t[i].kind = "main" <=> i = 1)
    BY <1>2, <1>5 DEF Stacked
  <1>7. ASSUME NEW i \in 2..Len(t)
        PROVE  Under(code, t[i - 1], t[i])
    <2>1. CASE i = n + 1
      BY <1>2, <1>5, <2>1
    <2>2. CASE i # n + 1
      BY <1>2, <1>5, <1>7, <2>2 DEF Stacked
    <2>. QED BY <2>1, <2>2
  <1>8. Stacked(code, t)
    BY <1>4, <1>6, <1>7 DEF Stacked, IsStack
  <1>9. CASE e.kind # "call"
    <2>1. CallsIn(t) = CallsIn(s)
      BY <1>2, <1>5, <1>9 DEF CallsIn
    <2>. QED BY <1>3, <1>8, <1>9, <2>1 DEF Calls
  <1>10. CASE e.kind = "call"
    <2>1. CallsIn(t) = CallsIn(s) \cup {n + 1} /\ n + 1 \notin CallsIn(s)
      BY <1>2, <1>5, <1>10 DEF CallsIn
    <2>2. IsFiniteSet(CallsIn(s))
      BY <1>1, CallsAreFinite
    <2>3. Calls(t) = Calls(s) + 1
      BY <2>1, <2>2, FS_AddElement DEF Calls
    <2>. QED BY <1>3, <1>8, <1>10, <2>3
  <1>. QED BY <1>9, <1>10

\* The innermost activation is over.
LEMMA PoppedStays ==
  ASSUME NEW code, NEW s, Stacked(code, s), Len(s) > 0, s[Len(s)].kind # "main",
         NEW t, t = SubSeq(s, 1, Len(s) - 1)
  PROVE  /\ Len(s) > 1 /\ Len(t) = Len(s) - 1 /\ t[Len(t)] = s[Len(s) - 1]
         /\ Stacked(code, t)
         /\ Under(code, t[Len(t)], s[Len(s)])
         /\ s[Len(s)].kind # "call" => Calls(t) = Calls(s)
         /\ s[Len(s)].kind = "call" => Calls(t) = Calls(s) - 1
  <1> DEFINE n == Len(s)
  <1>1. PICK S : s \in Seq(S)
    BY DEF Stacked, IsStack
  <1>2. n \in Nat /\ n \in 1..n
    BY <1>1
  <1>3. n > 1
    BY <1>2 DEF Stacked
  <1>4. t \in Seq(S) /\ Len(t) = n - 1 /\ \A i \in 1..(n - 1) : t[i] = s[i]
    BY <1>1, <1>2, <1>3
  <1>5. Stacked(code, t)
    <2>1. \A i \in 1..Len(t) : Placed(code, t[i]) /\ (t[i].kind = "main" <=> i = 1)
      BY <1>2, <1>4 DEF Stacked
    <2>2. \A i \in 2..Len(t) : Under(code, t[i - 1], t[i])
      BY <1>2, <1>4 DEF Stacked
    <2>. QED BY <1>4, <2>1, <2>2 DEF Stacked, IsStack
  <1>6. t[Len(t)] = s[n - 1] /\ Under(code, s[n - 1], s[n])
    BY <1>2, <1>3, <1>4 DEF Stacked
  <1>7. CASE s[n].kind # "call"
    <2>1. CallsIn(t) = CallsIn(s)
      BY <1>2, <1>4, <1>7 DEF CallsIn
    <2>. QED BY <1>3, <1>4, <1>5, <1>6, <1>7, <2>1 DEF Calls
  <1>8. CASE s[n].kind = "call"
    <2>1. CallsIn(s) = CallsIn(t) \cup {n} /\ n \notin CallsIn(t)
      BY <1>2, <1>4, <1>8 DEF CallsIn
    <2>2. IsFiniteSet(CallsIn(t)) /\ Calls(t) \in Nat
      BY <1>4, CallsAreFinite
    <2>3. Calls(s) = Calls(t) + 1
      BY <2>1, <2>2, FS_AddElement DEF Calls
    <2>4. Calls(t) = Calls(s) - 1
      BY <2>2, <2>3
    <2>. QED BY <1>3, <1>4, <1>5, <1>6, <1>8, <2>4
  <1>. QED BY <1>7, <1>8

-----------------------------------------------------------------------------
(* Where an instruction takes the activation that executes it.             *)

\* The instruction the innermost frame of s is at is not its last.
Ready(s) == Len(s) > 0 /\ s[Len(s)].ip < s[Len(s)].upto

LEMMA TopIsPlaced ==
  ASSUME NEW code, IsCode(code), NEW s, Stacked(code, s), Len(s) > 0
  PROVE  /\ Placed(code, s[Len(s)])
         /\ WellFormed(code[s[Len(s)].fn])
         /\ (s[Len(s)].kind = "main" <=> Len(s) = 1)
         /\ Len(s) > 1 => Under(code, s[Len(s) - 1], s[Len(s)])
         /\ Free(code, s, s[Len(s)].ip)
  <1> DEFINE n == Len(s)
             f == s[n]
  <1>1. PICK S : s \in Seq(S)
    BY DEF Stacked, IsStack
  <1>2. n \in 1..n
    BY <1>1
  <1>3. Placed(code, f) /\ (f.kind = "main" <=> n = 1)
    BY <1>2 DEF Stacked
  <1>4. WellFormed(code[f.fn])
    BY <1>3 DEF Placed, IsCode
  <1>5. n > 1 => Under(code, s[n - 1], f)
    BY <1>2 DEF Stacked
  <1>6. ASSUME f.kind \notin {"main", "call"}
        PROVE  Stays(code, s[n - 1].ip, f, f.ip)
    <2>1. n # 1
      BY <1>3, <1>6
    <2>2. n > 1
      BY <1>1, <1>2, <2>1
    <2>3. Under(code, s[n - 1], f)
      BY <1>5, <2>2
    <2>. QED BY <1>6, <2>3 DEF Under
  <1>7. Free(code, s, f.ip)
    BY <1>3, <1>6 DEF Placed, Free
  <1>. QED BY <1>3, <1>4, <1>5, <1>7

\* Where the bodies of an instruction are: one after the other, behind it.
LEMMA BodiesFollow ==
  ASSUME NEW c, WellFormed(c), NEW i \in DOMAIN c, NEW b \in Bodies(c, i)
  PROVE  b[1] \in Nat /\ b[2] \in Nat /\ b[1] \in (i + 1)..b[2]
  <1>1. i \in Nat
    BY DEF WellFormed
  <1>2. CASE c[i].op = "TRY_LET"
    <2>1. c[i].len \in Nat /\ c[i].catch \in Nat /\ c[i].body \in Nat
      BY <1>2 DEF WellFormed
    <2>. QED BY <1>1, <1>2, <2>1 DEF Bodies
  <1>3. CASE c[i].op = "SPAWN_AGENT"
    <2>1. c[i].len \in Nat
      BY <1>3 DEF WellFormed, Counts
    <2>. QED BY <1>1, <1>3, <2>1 DEF Bodies
  <1>. QED BY <1>2, <1>3 DEF Bodies

\* The instruction a frame is at, if it has not done its last.
LEMMA AtIsInCode ==
  ASSUME NEW code, IsCode(code), NEW f, Placed(code, f), f.ip < f.upto
  PROVE  f.ip \in DOMAIN code[f.fn] /\ f.ip \in Nat /\ f.upto \in Nat /\ WellFormed(code[f.fn])
  <1>1. WellFormed(code[f.fn])
    BY DEF IsCode, Placed
  <1>2. Len(code[f.fn]) \in Nat /\ DOMAIN code[f.fn] = 1..Len(code[f.fn])
    BY <1>1 DEF WellFormed
  <1>3. f.upto \in 1..(Len(code[f.fn]) + 1) /\ f.ip \in 1..f.upto
    BY DEF Placed
  <1>. QED BY <1>1, <1>2, <1>3

\* A frame above one that waits runs a body whose place is known.
LEMMA BodyOfTop ==
  ASSUME NEW code, IsCode(code), NEW s, Stacked(code, s), Len(s) > 0,
         s[Len(s)].kind \notin {"main", "call"}
  PROVE  /\ Len(s) - 1 \in 1..Len(s) /\ s[Len(s)].fn = s[Len(s) - 1].fn
         /\ s[Len(s) - 1].ip \in DOMAIN code[s[Len(s)].fn]
  <1> DEFINE n == Len(s)
             f == s[n]
  <1>1. PICK S : s \in Seq(S)
    BY DEF Stacked, IsStack
  <1>0. n # 1
    BY TopIsPlaced
  <1>. HIDE DEF n
  <1>2. n \in Nat /\ n > 0
    BY <1>1 DEF n
  <1>3. n > 1 /\ n - 1 \in 1..n
    BY <1>0, <1>2
  <1>4. Under(code, s[n - 1], f) /\ Placed(code, s[n - 1])
    BY <1>3, TopIsPlaced DEF Stacked, n
  <1>5. s[n - 1].ip < s[n - 1].upto /\ f.fn = s[n - 1].fn
    BY <1>4 DEF Under, n
  <1>6. s[n - 1].ip \in DOMAIN code[s[n - 1].fn]
    BY <1>4, <1>5, AtIsInCode
  <1>. QED BY <1>3, <1>5, <1>6 DEF n

\* A frame goes on in the code it runs.
LEMMA AheadIsFree ==
  ASSUME NEW code, IsCode(code), NEW s, Stacked(code, s), Len(s) > 0,
         NEW y \in Int, s[Len(s)].ip <= y, y <= s[Len(s)].upto
  PROVE  Free(code, s, y)
  <1> DEFINE n == Len(s)
             f == s[n]
  <1>1. Placed(code, f) /\ Free(code, s, f.ip)
    BY TopIsPlaced
  <1>2. f.ip \in Int /\ f.upto \in Int /\ y \in 1..f.upto
    BY <1>1 DEF Placed
  <1>3. ASSUME f.kind \notin {"main", "call"}
        PROVE  Stays(code, s[n - 1].ip, f, y)
    <2>1. PICK b \in Bodies(code[f.fn], s[n - 1].ip) : f.upto = b[2] /\ f.ip \in b[1]..b[2]
      BY <1>1, <1>3 DEF Free, Stays
    <2>2. b[1] \in Int /\ b[2] \in Int
      <3>1. WellFormed(code[f.fn]) /\ s[n - 1].ip \in DOMAIN code[f.fn]
        BY <1>3, TopIsPlaced, BodyOfTop
      <3>. QED BY <2>1, <3>1, BodiesFollow
    <2>3. y \in b[1]..b[2]
      BY <1>2, <2>1, <2>2
    <2>. QED BY <2>1, <2>3 DEF Stays
  <1>. QED BY <1>2, <1>3 DEF Free

\* A jump lands in the code of the frame that makes it.
LEMMA JumpIsFree ==
  ASSUME NEW code, IsCode(code), NEW s, Stacked(code, s), Ready(s),
         code[s[Len(s)].fn][s[Len(s)].ip].op \in Jumping
  PROVE  Free(code, s, s[Len(s)].ip + code[s[Len(s)].fn][s[Len(s)].ip].len)
  <1> DEFINE n == Len(s)
             f == s[n]
             c == code[f.fn]
             y == f.ip + c[f.ip].len
  <1>1. Len(s) > 0 /\ f.ip < f.upto
    BY DEF Ready
  <1>2. Placed(code, f) /\ Free(code, s, f.ip) /\ WellFormed(c)
    BY <1>1, TopIsPlaced
  <1>3. f.ip \in DOMAIN c /\ f.ip \in Nat /\ f.upto \in Nat
    BY <1>1, <1>2, AtIsInCode
  <1>4. CASE f.kind \in {"main", "call"}
    <2>1. Lands(c, f.ip, 1, Len(c) + 1)
      BY <1>2, <1>3 DEF WellFormed
    <2>2. y \in 1..f.upto
      BY <1>2, <1>4, <2>1 DEF Lands, Jumping, Placed
    <2>. QED BY <1>4, <2>2 DEF Free
  <1>5. CASE f.kind \notin {"main", "call"}
    <2>1. PICK k : k = s[n - 1].ip /\ k \in DOMAIN c
      BY <1>1, <1>5, BodyOfTop
    <2>2. PICK b \in Bodies(c, k) : f.upto = b[2] /\ f.ip \in b[1]..b[2]
      BY <1>2, <1>5, <2>1 DEF Free, Stays
    <2>0. k \in Nat
      BY <1>2, <2>1 DEF WellFormed
    <2>3. b[1] \in Nat /\ b[2] \in Nat /\ b[1] \in (k + 1)..b[2] /\ k \in Nat
      BY <1>2, <2>0, <2>1, BodiesFollow
    <2>4. f.ip \in b[1]..(b[2] - 1)
      BY <1>1, <1>3, <2>2, <2>3
    <2>5. Lands(c, f.ip, b[1], b[2])
      BY <1>2, <1>3, <2>1, <2>4 DEF WellFormed
    <2>6. y \in b[1]..b[2]
      BY <2>5 DEF Lands, Jumping
    <2>7. Stays(code, k, f, y)
      BY <2>2, <2>6 DEF Stays
    <2>8. y \in 1..f.upto
      BY <2>2, <2>3, <2>6
    <2>. QED BY <2>1, <2>7, <2>8 DEF Free
  <1>. QED BY <1>4, <1>5

-----------------------------------------------------------------------------
(* The operand stack.                                                      *)

LEMMA StackAppend ==
  ASSUME NEW s, IsStack(s), NEW v
  PROVE  IsStack(Append(s, v)) /\ Len(Append(s, v)) = Len(s) + 1 /\ Len(s) \in Nat
  <1>1. PICK S : s \in Seq(S)
    BY DEF IsStack
  <1>2. s \in Seq(S \cup {v})
    BY <1>1
  <1>3. Append(s, v) \in Seq(S \cup {v})
    BY <1>2
  <1>. QED BY <1>1, <1>3 DEF IsStack

LEMMA StackCut ==
  ASSUME NEW s, IsStack(s), NEW m \in Int, m <= Len(s)
  PROVE  IsStack(SubSeq(s, 1, m)) /\ Len(s) \in Nat
  <1>1. PICK S : s \in Seq(S)
    BY DEF IsStack
  <1>2. SubSeq(s, 1, m) \in Seq(S)
    BY <1>1
  <1>. QED BY <1>1, <1>2 DEF IsStack

LEMMA CutIsStack ==
  ASSUME NEW s, IsStack(s), NEW m \in Int
  PROVE  IsStack(Cut(s, m)) /\ Len(s) \in Nat
  <1>1. PICK S : s \in Seq(S)
    BY DEF IsStack
  <1>. QED BY <1>1, StackCut DEF Cut

LEMMA PoppedIsStack ==
  ASSUME IsStack(stack), NEW n \in Nat
  PROVE  IsStack(Popped(n))
  <1>1. Len(stack) \in Nat
    BY StackAppend
  <1>2. Len(stack) - n \in Int /\ Len(stack) - n <= Len(stack)
    BY <1>1
  <1>. QED BY <1>2, StackCut DEF Popped

\* What an instruction makes of the operands: it takes n of them, and gives one
\* or none.
Restacked ==
  \E n \in Nat : stack' = Popped(n) \/ \E v : stack' = Append(Popped(n), v)

LEMMA RestackedIsStack ==
  ASSUME IsStack(stack),
         Restacked \/ stack' = stack \/ \E v : stack' = Append(stack, v)
  PROVE  IsStack(stack')
  <1>1. CASE Restacked
    <2>1. PICK n \in Nat : stack' = Popped(n) \/ \E v : stack' = Append(Popped(n), v)
      BY <1>1 DEF Restacked
    <2>2. IsStack(Popped(n))
      BY PoppedIsStack
    <2>. QED BY <2>1, <2>2, StackAppend
  <1>2. CASE stack' = stack
    BY <1>2
  <1>3. CASE \E v : stack' = Append(stack, v)
    BY <1>3, StackAppend
  <1>. QED BY <1>1, <1>2, <1>3

-----------------------------------------------------------------------------
(* The inductive invariant.                                                *)

\* The frames are stacked as the code says, and callDepth counts the calls.
DepthsAgree == callDepth = Calls(frames) /\ callDepth <= MaxCallDepth

IInv ==
  /\ program \in Programs
  /\ Stacked(program.code, frames) /\ DepthsAgree
  /\ IsStack(stack)
  /\ executed \in 0..MaxInstructions
  /\ memory <= MaxMemory

LEMMA InitHolds ==
  ASSUME Init
  PROVE  IInv
  <1>1. PICK f : f = [kind |-> "main", fn |-> MainName, ip |-> 1,
                      upto |-> Len(program.code[MainName]) + 1, bases |-> <<>>, kept |-> <<>>]
    OBVIOUS
  <1>2. program \in Programs /\ frames = <<f>> /\ stack = <<>> /\ executed = 0 /\ memory = 0 /\ callDepth = 0
    BY <1>1 DEF Init
  <1>3. MainName \in DOMAIN program.code /\ WellFormed(program.code[MainName])
    BY <1>2, ProgramsAreWellFormed
  <1>4. IsStack(<<>>)
    <2>1. <<>> \in Seq({})
      OBVIOUS
    <2>. QED BY <2>1 DEF IsStack
  <1>5. Placed(program.code, f)
    <2>1. <<>> \in Seq(Int)
      OBVIOUS
    <2>2. IsFrame(f)
      BY <1>1, <1>4, <2>1 DEF IsFrame
    <2>3. Len(program.code[MainName]) \in Nat
      BY <1>3 DEF WellFormed
    <2>. QED BY <1>1, <1>3, <2>2, <2>3 DEF Placed, Kinds
  <1>6. frames \in Seq({f}) /\ Len(frames) = 1 /\ frames[1] = f
    BY <1>2
  <1>7. Stacked(program.code, frames)
    <2>1. \A i \in 1..Len(frames) :
            Placed(program.code, frames[i]) /\ (frames[i].kind = "main" <=> i = 1)
      BY <1>1, <1>5, <1>6
    <2>2. 2..Len(frames) = {}
      BY <1>6
    <2>. QED BY <1>6, <2>1, <2>2 DEF Stacked, IsStack
  <1>8. Calls(frames) = 0
    <2>1. CallsIn(frames) = {}
      BY <1>1, <1>6 DEF CallsIn
    <2>. QED BY <2>1, FS_EmptySet DEF Calls
  <1>. QED BY <1>2, <1>4, <1>7, <1>8, LimitsAreNumbers DEF IInv, DepthsAgree

LEMMA CodeIsWellFormed ==
  ASSUME IInv
  PROVE  IsCode(program.code) /\ DOMAIN program.params \subseteq DOMAIN program.code
  BY ProgramsAreWellFormed DEF IInv, IsCode

\* The instruction about to be executed.
LEMMA AtFacts ==
  ASSUME IInv, AtInstruction
  PROVE  /\ Ready(frames) /\ Len(frames) > 0 /\ Len(frames) \in Nat
         /\ Placed(program.code, Top) /\ Top.ip \in Nat /\ Top.upto \in Nat /\ Top.ip < Top.upto
         /\ Top.ip \in DOMAIN program.code[Top.fn] /\ WellFormed(program.code[Top.fn])
         /\ Inst.op \in Counts => Inst.len \in Nat
  <1>1. PICK S : frames \in Seq(S)
    BY DEF IInv, Stacked, IsStack
  <1>2. Len(frames) > 0 /\ Len(frames) \in Nat /\ Top.ip < Top.upto
    BY <1>1 DEF AtInstruction
  <1>3. Placed(program.code, Top)
    BY <1>2, CodeIsWellFormed, TopIsPlaced DEF IInv, Top
  <1>4. /\ Top.ip \in DOMAIN program.code[Top.fn] /\ Top.ip \in Nat /\ Top.upto \in Nat
        /\ WellFormed(program.code[Top.fn])
    BY <1>2, <1>3, CodeIsWellFormed, AtIsInCode
  <1>5. Inst.op \in Counts => Inst.len \in Nat
    BY <1>4 DEF WellFormed, Inst
  <1>. QED BY <1>2, <1>3, <1>4, <1>5 DEF Ready, Top

LEMMA ExecutedStays ==
  ASSUME IInv, ~ Ceiling
  PROVE  executed + 1 \in 0..MaxInstructions
  BY LimitsAreNumbers DEF IInv, Ceiling

\* The innermost frame goes to a place that is free.
LEMMA GoesStays ==
  ASSUME IInv, Len(frames) > 0, NEW by, Free(program.code, frames, Top.ip + by), Goes(by),
         callDepth' = callDepth, program' = program
  PROVE  Stacked(program'.code, frames') /\ DepthsAgree'
  <1>1. PICK g : g = [Top EXCEPT !.ip = Top.ip + by]
    OBVIOUS
  <1>2. frames' = [frames EXCEPT ![Len(frames)] = g]
    BY <1>1 DEF Goes, Top
  <1>3. IsFrame(Top)
    BY CodeIsWellFormed, TopIsPlaced DEF IInv, Top, Placed
  <1>4. IsFrame(g) /\ g.kind = Top.kind /\ g.fn = Top.fn /\ g.upto = Top.upto /\ g.ip = Top.ip + by
    BY <1>1, <1>3 DEF IsFrame
  <1>5. PICK y : y = Top.ip + by
    OBVIOUS
  <1>6. /\ Stacked(program.code, [frames EXCEPT ![Len(frames)] = g])
        /\ Calls([frames EXCEPT ![Len(frames)] = g]) = Calls(frames)
    BY <1>4, MovedStays DEF IInv, Top
  <1>. QED BY <1>2, <1>6 DEF IInv, DepthsAgree

LEMMA NoMoveStays ==
  ASSUME IInv, frames' = frames, callDepth' = callDepth, program' = program
  PROVE  Stacked(program'.code, frames') /\ DepthsAgree'
  BY DEF IInv, DepthsAgree

LEMMA NextStays ==
  ASSUME IInv, AtInstruction, Goes(1) \/ frames' = frames,
         callDepth' = callDepth, program' = program
  PROVE  Stacked(program'.code, frames') /\ DepthsAgree'
  <1>1. ASSUME Goes(1)
        PROVE  Stacked(program'.code, frames') /\ DepthsAgree'
    <2>1. Len(frames) > 0 /\ Top.ip + 1 \in Int /\ Top.ip <= Top.ip + 1 /\ Top.ip + 1 <= Top.upto
      BY AtFacts
    <2>2. Free(program.code, frames, Top.ip + 1)
      BY <2>1, CodeIsWellFormed, AheadIsFree DEF IInv, Top
    <2>. QED BY <1>1, <2>1, <2>2, GoesStays
  <1>. QED BY <1>1, NoMoveStays

-----------------------------------------------------------------------------
(* The instructions that leave the activations as they are: what they do to *)
(* the rest of the state.                                                   *)

\* A step that executes the instruction the innermost frame is at, and goes to
\* the next one or raises an error.
Plain ==
  /\ AtInstruction /\ ~ Ceiling /\ executed' = executed + 1
  /\ program' = program /\ callDepth' = callDepth
  /\ Goes(1) \/ frames' = frames
  /\ Restacked \/ stack' = stack \/ \E v : stack' = Append(stack, v)
  /\ memory' <= MaxMemory

LEMMA PlainStays ==
  ASSUME IInv, Plain
  PROVE  IInv'
  <1>1. Stacked(program'.code, frames') /\ DepthsAgree'
    BY NextStays DEF Plain
  <1>2. IsStack(stack')
    BY RestackedIsStack DEF Plain, IInv
  <1>3. executed' \in 0..MaxInstructions
    BY ExecutedStays DEF Plain
  <1>. QED BY <1>1, <1>2, <1>3 DEF IInv, Plain

LEMMA YieldsIsPlain ==
  ASSUME IInv, NEW op, Step(op), NEW n \in Nat, NEW answer, Yields(n, answer)
  PROVE  Plain
  <1>1. Restacked
    BY DEF Yields, Restacked
  <1>2. Goes(1) \/ frames' = frames
    BY DEF Yields, Raise
  <1>. QED BY <1>1, <1>2 DEF Step, Yields, Plain, IInv

LEMMA AllocatesIsPlain ==
  ASSUME IInv, NEW op, Step(op), NEW n \in Nat, NEW answer, NEW slots, Allocates(n, answer, slots)
  PROVE  Plain
  <1>1. Restacked
    BY DEF Allocates, Restacked
  <1>2. Goes(1) \/ frames' = frames
    BY DEF Allocates, Raise
  <1>3. memory' <= MaxMemory
    BY DEF Allocates, Charges, Affords, IInv
  <1>. QED BY <1>1, <1>2, <1>3 DEF Step, Allocates, Plain

\* What variables, constants, returns and exits do.
LEMMA VariablesArePlain ==
  ASSUME IInv, LoadConst \/ LoadVar \/ StoreVar \/ SetVar \/ ReturnOp \/ ExitOp
  PROVE  Plain
  <1>1. memory' <= MaxMemory /\ callDepth' = callDepth
    BY DEF IInv, LoadConst, LoadVar, StoreVar, SetVar, ReturnOp, ExitOp, Nothing
  <1>2. Goes(1) \/ frames' = frames
    BY DEF LoadConst, LoadVar, StoreVar, SetVar, ReturnOp, ExitOp, Raise
  <1>3. Restacked \/ stack' = stack \/ \E v : stack' = Append(stack, v)
    <2>1. CASE stack' = Popped(1)
      BY <2>1 DEF Restacked
    <2>2. CASE stack' # Popped(1)
      BY <2>2 DEF LoadConst, LoadVar, StoreVar, SetVar, ReturnOp, ExitOp
    <2>. QED BY <2>1, <2>2
  <1>4. \E op : Step(op)
    BY DEF LoadConst, LoadVar, StoreVar, SetVar, ReturnOp, ExitOp
  <1>. QED BY <1>1, <1>2, <1>3, <1>4 DEF Step, Plain

\* What the operations on one, two or no values do.
LEMMA OperationsArePlain ==
  ASSUME IInv, BinopOp \/ ConvertOp \/ ListLen \/ IsNil \/ StrJoin \/ ListGetOp
  PROVE  Plain
  <1>1. \E op, answer : \E n \in Nat : Step(op) /\ Yields(n, answer)
    BY DEF BinopOp, ConvertOp, ListLen, IsNil, StrJoin, ListGetOp
  <1>. QED BY <1>1, YieldsIsPlain

LEMMA AllocationsArePlain ==
  ASSUME IInv, MapKeys \/ StrSplit \/ MakeList \/ MakeDict
  PROVE  Plain
  <1>1. CASE MapKeys \/ StrSplit
    <2>1. \E op, answer, slots : \E n \in Nat : Step(op) /\ Allocates(n, answer, slots)
      BY <1>1 DEF MapKeys, StrSplit
    <2>. QED BY <2>1, AllocatesIsPlain
  <1>2. CASE MakeList
    <2>1. Step("MAKE_LIST") /\ Allocates(Needs, Fine(List(Operands(Inst.len))), Inst.len)
      BY <1>2 DEF MakeList
    <2>2. Inst.len \in Nat /\ Inst.op = "MAKE_LIST"
      BY <2>1, AtFacts DEF Step, Counts
    <2>3. Needs \in Nat
      BY <2>2 DEF Needs
    <2>. QED BY <2>1, <2>3, AllocatesIsPlain
  <1>3. CASE MakeDict
    <2>1. Inst.len \in Nat
      BY <1>3, AtFacts DEF MakeDict, Step, Counts
    <2>2. 2 * Inst.len \in Nat
      BY <2>1
    <2>3. Step("MAKE_DICT") /\ \E answer, slots : Allocates(2 * Inst.len, answer, slots)
      BY <1>3 DEF MakeDict
    <2>. QED BY <2>2, <2>3, AllocatesIsPlain
  <1>. QED BY <1>1, <1>2, <1>3

LEMMA PrintIsPlain ==
  ASSUME IInv, PrintOp
  PROVE  Plain
  <1>1. Inst.len \in Nat
    BY AtFacts DEF PrintOp, Step, Counts
  <1>2. Restacked
    BY <1>1 DEF PrintOp, Restacked
  <1>. QED BY <1>2 DEF PrintOp, Step, Plain, IInv

LEMMA MapGetIsPlain ==
  ASSUME IInv, MapGetOp
  PROVE  Plain
  <1>1. Step("MAP_GET") /\ \E answer : Yields(Needs, answer)
    BY DEF MapGetOp
  <1>2. Inst.op = "MAP_GET"
    BY <1>1 DEF Step
  <1>3. Needs \in Nat
    BY <1>2 DEF Needs
  <1>. QED BY <1>1, <1>3, YieldsIsPlain

LEMMA ChangesArePlain ==
  ASSUME IInv, AppendOp \/ MapSetOp \/ MapDeleteOp
  PROVE  Plain
  <1>1. CASE AppendOp
    <2>1. Step("APPEND") /\ stack' = Popped(1) /\ callDepth' = callDepth
      BY <1>1 DEF AppendOp
    <2>2. (Goes(1) \/ frames' = frames) /\ memory' <= MaxMemory
      BY <1>1 DEF AppendOp, Raise, Affords, IInv
    <2>. QED BY <2>1, <2>2 DEF Step, Restacked, Plain
  <1>2. CASE MapSetOp
    <2>1. Step("MAP_SET") /\ stack' = Popped(2) /\ callDepth' = callDepth
      BY <1>2 DEF MapSetOp
    <2>2. (Goes(1) \/ frames' = frames) /\ memory' <= MaxMemory
      BY <1>2 DEF MapSetOp, Raise, Affords, IInv
    <2>. QED BY <2>1, <2>2 DEF Step, Restacked, Plain
  <1>3. CASE MapDeleteOp
    <2>1. Step("MAP_DELETE") /\ stack' = Popped(1) /\ callDepth' = callDepth
      BY <1>3 DEF MapDeleteOp
    <2>2. (Goes(1) \/ frames' = frames) /\ memory' <= MaxMemory
      BY <1>3 DEF MapDeleteOp, Raise, IInv
    <2>. QED BY <2>1, <2>2 DEF Step, Restacked, Plain
  <1>. QED BY <1>1, <1>2, <1>3

-----------------------------------------------------------------------------
(* The instructions that go elsewhere, and those that start an activation. *)

LEMMA JumpsStay ==
  ASSUME IInv, JumpIfFalse \/ Jump
  PROVE  IInv'
  <1>1. /\ AtInstruction /\ ~ Ceiling /\ executed' = executed + 1
        /\ program' = program /\ callDepth' = callDepth /\ memory' = memory
        /\ Inst.op \in Jumping
        /\ Goes(Inst.len) \/ Goes(1) \/ frames' = frames
        /\ stack' = Popped(1) \/ stack' = stack
    BY DEF JumpIfFalse, Jump, Step, Raise, Nothing, Jumping
  <1>2. Stacked(program'.code, frames') /\ DepthsAgree'
    <2>1. CASE Goes(Inst.len)
      <3>1. Ready(frames) /\ Len(frames) > 0
        BY <1>1, AtFacts
      <3>2. Free(program.code, frames, Top.ip + Inst.len)
        BY <1>1, <3>1, CodeIsWellFormed, JumpIsFree DEF IInv, Top, Inst
      <3>. QED BY <1>1, <2>1, <3>1, <3>2, GoesStays
    <2>2. CASE Goes(1) \/ frames' = frames
      BY <1>1, <2>2, NextStays
    <2>. QED BY <1>1, <2>1, <2>2
  <1>3. IsStack(stack')
    BY <1>1, PoppedIsStack DEF IInv
  <1>4. executed' \in 0..MaxInstructions
    BY <1>1, ExecutedStays
  <1>. QED BY <1>1, <1>2, <1>3, <1>4 DEF IInv

\* The innermost frame goes to a place that is free, and enters or leaves a loop.
Loops(y, B) == frames' = [frames EXCEPT ![Len(frames)] = [Top EXCEPT !.ip = y, !.bases = B]]

LEMMA LoopingStays ==
  ASSUME IInv, Len(frames) > 0, NEW y, Free(program.code, frames, y),
         NEW B \in Seq(Int),
         Loops(y, B), callDepth' = callDepth, program' = program
  PROVE  Stacked(program'.code, frames') /\ DepthsAgree'
  <1>1. PICK g : g = [Top EXCEPT !.ip = y, !.bases = B]
    OBVIOUS
  <1>2. frames' = [frames EXCEPT ![Len(frames)] = g]
    BY <1>1 DEF Loops
  <1>3. IsFrame(Top)
    BY CodeIsWellFormed, TopIsPlaced DEF IInv, Top, Placed
  <1>4. IsFrame(g) /\ g.kind = Top.kind /\ g.fn = Top.fn /\ g.upto = Top.upto /\ g.ip = y
    BY <1>1, <1>3 DEF IsFrame
  <1>5. Stacked(program.code, frames)
    BY DEF IInv
  <1>6. /\ IsFrame(g) /\ g.kind = frames[Len(frames)].kind /\ g.fn = frames[Len(frames)].fn
        /\ g.upto = frames[Len(frames)].upto /\ g.ip = y
    BY <1>4 DEF Top
  <1>7. /\ Stacked(program.code, [frames EXCEPT ![Len(frames)] = g])
        /\ Calls([frames EXCEPT ![Len(frames)] = g]) = Calls(frames)
    BY <1>5, <1>6, MovedStays
  <1>. QED BY <1>2, <1>7 DEF IInv, DepthsAgree

LEMMA ForInitStays ==
  ASSUME IInv, ForInit
  PROVE  IInv'
  <1>1. /\ AtInstruction /\ ~ Ceiling /\ executed' = executed + 1
        /\ program' = program /\ callDepth' = callDepth /\ memory' = memory
    BY DEF ForInit, Step, Nothing
  <1>2. CASE frames' = frames /\ stack' = Popped(1)
    <2>1. Stacked(program'.code, frames') /\ DepthsAgree'
      BY <1>1, <1>2, NoMoveStays
    <2>2. IsStack(stack')
      BY <1>2, PoppedIsStack DEF IInv
    <2>3. executed' \in 0..MaxInstructions
      BY <1>1, ExecutedStays
    <2>. QED BY <1>1, <2>1, <2>2, <2>3 DEF IInv
  <1>3. CASE /\ stack' = Append(stack, Num(0))
             /\ frames' = [frames EXCEPT ![Len(frames)].ip = @ + 1,
                                         ![Len(frames)].bases = Append(@, Len(stack) - 1)]
    <2>1. /\ Len(frames) \in Nat /\ Len(frames) > 0
          /\ Top.ip \in Nat /\ Top.upto \in Nat /\ Top.ip < Top.upto /\ Placed(program.code, Top)
      BY <1>1, AtFacts
    <2>2. PICK y : y = Top.ip + 1
      OBVIOUS
    <2>3. Free(program.code, frames, y)
      BY <2>1, <2>2, CodeIsWellFormed, AheadIsFree DEF IInv, Top
    <2>4. PICK B : B = Append(Top.bases, Len(stack) - 1)
      OBVIOUS
    <2>5. B \in Seq(Int)
      <3>1. Top.bases \in Seq(Int)
        BY <2>1 DEF Placed, IsFrame
      <3>2. Len(stack) - 1 \in Int
        BY StackAppend DEF IInv
      <3>. QED BY <2>4, <3>1, <3>2
    <2>6. Loops(y, B)
      <3>1. PICK S : frames \in Seq(S)
        BY DEF IInv, Stacked, IsStack
      <3>2. Len(frames) \in DOMAIN frames
        BY <2>1, <3>1
      <3>3. "ip" \in DOMAIN Top /\ "bases" \in DOMAIN Top
        BY <2>1 DEF Placed, IsFrame
      <3>. QED BY <1>3, <2>2, <2>4, <3>1, <3>2, <3>3 DEF Top, Loops
    <2>7. Stacked(program'.code, frames') /\ DepthsAgree'
      BY <1>1, <2>1, <2>3, <2>5, <2>6, LoopingStays
    <2>8. IsStack(stack')
      BY <1>3, StackAppend DEF IInv
    <2>9. executed' \in 0..MaxInstructions
      BY <1>1, ExecutedStays
    <2>. QED BY <1>1, <2>7, <2>8, <2>9 DEF IInv
  <1>. QED BY <1>2, <1>3 DEF ForInit, Raise

LEMMA LoopStackIsStack ==
  ASSUME IInv, Placed(program.code, Top)
  PROVE  IsStack(LoopStack) /\ Len(LoopStack) \in Nat
  <1>1. Top.bases \in Seq(Int)
    BY DEF Placed, IsFrame
  <1>2. CASE Top.bases = <<>>
    BY <1>2, StackAppend DEF IInv, LoopStack
  <1>3. CASE Top.bases # <<>>
    <2>1. Top.bases[Len(Top.bases)] + 2 \in Int
      <3>1. Len(Top.bases) \in 1..Len(Top.bases)
        BY <1>1, <1>3
      <3>. QED BY <1>1, <3>1
    <2>2. IsStack(LoopStack)
      BY <1>3, <2>1, CutIsStack DEF IInv, LoopStack
    <2>. QED BY <2>2, StackAppend
  <1>. QED BY <1>2, <1>3

LEMMA ForNextStays ==
  ASSUME IInv, ForNext
  PROVE  IInv'
  <1>1. /\ AtInstruction /\ ~ Ceiling /\ executed' = executed + 1
        /\ program' = program /\ callDepth' = callDepth /\ memory' = memory /\ Inst.op \in Jumping
    BY DEF ForNext, Step, Jumping
  <1>2. executed' \in 0..MaxInstructions
    BY <1>1, ExecutedStays
  <1>3. /\ Ready(frames) /\ Len(frames) \in Nat /\ Len(frames) > 0 /\ Placed(program.code, Top)
    BY <1>1, AtFacts
  <1>4. IsStack(LoopStack) /\ Len(LoopStack) \in Nat
    BY <1>3, LoopStackIsStack
  <1>5. ASSUME NEW v, stack' = [LoopStack EXCEPT ![Len(LoopStack)] = v], Goes(1)
        PROVE  IInv'
    <2>1. Stacked(program'.code, frames') /\ DepthsAgree'
      BY <1>1, <1>5, NextStays
    <2>2. IsStack(stack')
      <3>1. PICK S : LoopStack \in Seq(S)
        BY <1>4 DEF IsStack
      <3>2. PICK l : l = LoopStack
        OBVIOUS
      <3>3. l \in Seq(S \cup {v})
        BY <3>1, <3>2
      <3>4. [l EXCEPT ![Len(l)] = v] \in Seq(S \cup {v})
        <4>1. CASE Len(l) \in 1..Len(l)
          BY <3>3, <4>1
        <4>2. CASE Len(l) \notin 1..Len(l)
          <5>1. [l EXCEPT ![Len(l)] = v] = l
            BY <3>3, <4>2
          <5>. QED BY <3>3, <5>1
        <4>. QED BY <4>1, <4>2
      <3>. QED BY <1>5, <3>2, <3>4 DEF IsStack
    <2>. QED BY <1>1, <1>2, <2>1, <2>2 DEF IInv
  <1>6. ASSUME stack' = Cut(LoopStack, Len(LoopStack) - 2), frames' = frames
        PROVE  IInv'
    <2>1. Stacked(program'.code, frames') /\ DepthsAgree'
      BY <1>1, <1>6, NoMoveStays
    <2>2. IsStack(stack')
      BY <1>4, <1>6, CutIsStack
    <2>. QED BY <1>1, <1>2, <2>1, <2>2 DEF IInv
  <1>7. ASSUME LoopEnds
        PROVE  IInv'
    <2>1. IsStack(stack')
      BY <1>4, <1>7, CutIsStack DEF LoopEnds
    <2>2. PICK y : y = Top.ip + Inst.len
      OBVIOUS
    <2>3. Free(program.code, frames, y)
      BY <1>1, <1>3, <2>2, CodeIsWellFormed, JumpIsFree DEF IInv, Top, Inst
    <2>4. PICK B : B = IF Top.bases = <<>> THEN Top.bases ELSE SubSeq(Top.bases, 1, Len(Top.bases) - 1)
      OBVIOUS
    <2>5. B \in Seq(Int)
      <3>1. Top.bases \in Seq(Int)
        BY <1>3 DEF Placed, IsFrame
      <3>. QED BY <2>4, <3>1
    <2>6. Loops(y, B)
      <3>1. PICK S : frames \in Seq(S)
        BY DEF IInv, Stacked, IsStack
      <3>2. Len(frames) \in DOMAIN frames
        BY <1>3, <3>1
      <3>3. "ip" \in DOMAIN Top /\ "bases" \in DOMAIN Top
        BY <1>3 DEF Placed, IsFrame
      <3>. QED BY <1>7, <2>2, <2>4, <3>1, <3>2, <3>3 DEF Top, LoopEnds, Loops
    <2>7. Stacked(program'.code, frames') /\ DepthsAgree'
      BY <1>1, <1>3, <2>3, <2>5, <2>6, LoopingStays
    <2>. QED BY <1>1, <1>2, <2>1, <2>7 DEF IInv
  <1>8. \/ stack' = Cut(LoopStack, Len(LoopStack) - 2) /\ frames' = frames
        \/ LoopEnds
        \/ \E v : stack' = [LoopStack EXCEPT ![Len(LoopStack)] = v] /\ Goes(1)
    BY DEF ForNext, Raise
  <1>. QED BY <1>5, <1>6, <1>7, <1>8

\* The lengths of an instruction fit in the code of the frame that is at it.
LEMMA LengthsFit ==
  ASSUME NEW code, IsCode(code), NEW g, Placed(code, g), g.ip < g.upto,
         NEW at, at = code[g.fn][g.ip], EndBy(code, g.fn, g.ip, g.upto)
  PROVE  /\ at.op = "TRY_LET" =>
              /\ at.len \in Nat /\ at.catch \in Nat /\ at.body \in Nat
              /\ g.ip + 1 + at.len + at.catch + at.body <= g.upto
         /\ at.op = "SPAWN_AGENT" => at.len \in Nat /\ g.ip + 1 + at.len <= g.upto
  <1>1. g.ip \in DOMAIN code[g.fn] /\ g.ip \in Nat /\ g.upto \in Nat /\ WellFormed(code[g.fn])
    BY AtIsInCode
  <1>2. ASSUME at.op = "TRY_LET"
        PROVE  /\ at.len \in Nat /\ at.catch \in Nat /\ at.body \in Nat
               /\ g.ip + 1 + at.len + at.catch + at.body <= g.upto
    <2>1. at.len \in Nat /\ at.catch \in Nat /\ at.body \in Nat
      BY <1>1, <1>2 DEF WellFormed
    <2>2. PICK b : b = <<g.ip + 1 + at.len + at.catch, g.ip + 1 + at.len + at.catch + at.body>>
      OBVIOUS
    <2>3. b \in Bodies(code[g.fn], g.ip)
      BY <1>2, <2>2 DEF Bodies
    <2>4. b[2] <= g.upto
      BY <2>3 DEF EndBy
    <2>. QED BY <2>1, <2>2, <2>4
  <1>3. ASSUME at.op = "SPAWN_AGENT"
        PROVE  at.len \in Nat /\ g.ip + 1 + at.len <= g.upto
    <2>1. at.len \in Nat
      BY <1>1, <1>3 DEF WellFormed, Counts
    <2>2. PICK b : b = <<g.ip + 1, g.ip + 1 + at.len>>
      OBVIOUS
    <2>3. b \in Bodies(code[g.fn], g.ip)
      BY <1>3, <2>2 DEF Bodies
    <2>4. b[2] <= g.upto
      BY <2>3 DEF EndBy
    <2>. QED BY <2>1, <2>2, <2>4
  <1>. QED BY <1>2, <1>3

\* A frame for a body of the instruction that g is at, if the bodies fit.
LEMMA BodyIsUnder ==
  ASSUME NEW code, IsCode(code), NEW g, Placed(code, g), g.ip < g.upto,
         EndBy(code, g.fn, g.ip, g.upto),
         NEW b \in Bodies(code[g.fn], g.ip),
         NEW e, IsFrame(e), e.fn = g.fn, e.ip = b[1], e.upto = b[2],
         e.kind \in {"value", "branch", "agent"},
         e.kind = "agent" => code[g.fn][g.ip].op = "SPAWN_AGENT",
         e.kind # "agent" => code[g.fn][g.ip].op = "TRY_LET"
  PROVE  Placed(code, e) /\ e.kind # "main" /\ Under(code, g, e)
  <1>1. g.ip \in DOMAIN code[g.fn] /\ g.ip \in Nat /\ g.upto \in Nat /\ WellFormed(code[g.fn])
    BY AtIsInCode
  <1>2. b[1] \in Nat /\ b[2] \in Nat /\ b[1] \in (g.ip + 1)..b[2] /\ b[2] <= g.upto
    BY <1>1, BodiesFollow DEF EndBy
  <1>3. g.fn \in DOMAIN code /\ g.upto \in 1..(Len(code[g.fn]) + 1)
    BY DEF Placed
  <1>4. Placed(code, e)
    <2>1. Len(code[g.fn]) \in Nat
      BY <1>1 DEF WellFormed
    <2>2. e.upto \in 1..(Len(code[e.fn]) + 1) /\ e.ip \in 1..e.upto
      BY <1>1, <1>2, <1>3, <2>1
    <2>. QED BY <1>3, <2>2 DEF Placed, Kinds
  <1>5. Stays(code, g.ip, e, e.ip)
    BY <1>2 DEF Stays
  <1>6. Under(code, g, e)
    BY <1>5 DEF Under
  <1>. QED BY <1>4, <1>6

LEMMA CallStays ==
  ASSUME IInv, CallOp
  PROVE  IInv'
  <1>1. /\ AtInstruction /\ ~ Ceiling /\ executed' = executed + 1
        /\ program' = program /\ memory' = memory /\ Inst.op = "CALL"
        /\ stack' = Popped(Needs)
    BY DEF CallOp, Step
  <1>2. executed' \in 0..MaxInstructions
    BY <1>1, ExecutedStays
  <1>3. /\ Len(frames) \in Nat /\ Len(frames) > 0 /\ Placed(program.code, Top)
        /\ Top.ip < Top.upto /\ Inst.len \in Nat
    BY <1>1, AtFacts DEF Counts
  <1>4. IsStack(stack')
    <2>1. Needs \in Nat
      BY <1>1, <1>3 DEF Needs
    <2>. QED BY <1>1, <2>1, PoppedIsStack DEF IInv
  <1>5. CASE CallFault # None
    <2>1. frames' = frames /\ callDepth' = callDepth
      BY <1>5 DEF CallOp, Raise
    <2>2. Stacked(program'.code, frames') /\ DepthsAgree'
      BY <1>1, <2>1, NoMoveStays
    <2>. QED BY <1>1, <1>2, <1>4, <2>2 DEF IInv
  <1>6. CASE CallFault = None
    <2>1. callDepth \in Nat /\ callDepth < MaxCallDepth /\ ~ Misses
      <3>1. callDepth \in Nat
        BY CallsAreFinite DEF IInv, DepthsAgree, Stacked, IsStack
      <3>2. ~ Misses
        BY <1>6 DEF CallFault, Error, None
      <3>3. ~ (callDepth >= MaxCallDepth)
        BY <1>6, <3>2 DEF CallFault, Error, None
      <3>. QED BY <3>1, <3>2, <3>3, LimitsAreNumbers
    <2>2. PICK e : e = [Frame("call", Inst.name, 1, Len(program.code[Inst.name]) + 1)
                        EXCEPT !.kept = Popped(Inst.len)]
      OBVIOUS
    <2>3. frames' = Append(frames, e) /\ callDepth' = callDepth + 1
      BY <1>6, <2>2 DEF CallOp
    <2>4. /\ DOMAIN e = {"kind", "fn", "ip", "upto", "bases", "kept"}
          /\ e.kind = "call" /\ e.fn = Inst.name /\ e.ip = 1
          /\ e.upto = Len(program.code[Inst.name]) + 1 /\ e.bases = <<>> /\ e.kept = Popped(Inst.len)
      BY <2>2 DEF Frame
    <2>5. Inst.name \in DOMAIN program.code /\ WellFormed(program.code[Inst.name])
      BY <2>1, CodeIsWellFormed DEF Misses, IsCode
    <2>6. Placed(program.code, e)
      <3>1. IsFrame(e)
        <4>1. IsStack(e.kept)
          BY <1>3, <2>4, PoppedIsStack DEF IInv
        <4>2. e.bases \in Seq(Int)
          BY <2>4
        <4>. QED BY <2>4, <4>1, <4>2 DEF IsFrame
      <3>2. Len(program.code[Inst.name]) \in Nat
        BY <2>5 DEF WellFormed
      <3>. QED BY <2>4, <2>5, <3>1, <3>2 DEF Placed, Kinds
    <2>7. e.kind # "main" /\ Under(program.code, frames[Len(frames)], e)
      BY <1>3, <2>4 DEF Under, Top
    <2>8. Stacked(program.code, Append(frames, e)) /\ Calls(Append(frames, e)) = Calls(frames) + 1
      BY <1>3, <2>4, <2>6, <2>7, PushedStays DEF IInv
    <2>9. Stacked(program'.code, frames') /\ DepthsAgree'
      BY <1>1, <2>1, <2>3, <2>8, LimitsAreNumbers DEF IInv, DepthsAgree
    <2>. QED BY <1>1, <1>2, <1>4, <2>9 DEF IInv
  <1>. QED BY <1>5, <1>6

LEMMA TryLetStays ==
  ASSUME IInv, TryLet
  PROVE  IInv'
  <1>1. /\ AtInstruction /\ ~ Ceiling /\ executed' = executed + 1
        /\ program' = program /\ memory' = memory /\ Inst.op = "TRY_LET"
        /\ stack' = stack /\ callDepth' = callDepth
    BY DEF TryLet, Step, Nothing
  <1>2. executed' \in 0..MaxInstructions
    BY <1>1, ExecutedStays
  <1>3. /\ Len(frames) \in Nat /\ Len(frames) > 0 /\ Placed(program.code, Top)
        /\ Top.ip < Top.upto /\ Top.ip \in Nat /\ Top.upto \in Nat
        /\ Top.ip \in DOMAIN program.code[Top.fn] /\ WellFormed(program.code[Top.fn])
    BY <1>1, AtFacts
  <1>4. CASE ~ Fits(Inst.len + Inst.catch + Inst.body)
    <2>1. frames' = frames
      BY <1>4 DEF TryLet, Raise
    <2>2. Stacked(program'.code, frames') /\ DepthsAgree'
      BY <1>1, <2>1, NoMoveStays
    <2>. QED BY <1>1, <1>2, <2>2 DEF IInv
  <1>5. CASE Fits(Inst.len + Inst.catch + Inst.body)
    <2>1. PICK e : e = Frame("value", Top.fn, Top.ip + 1, Top.ip + 1 + Inst.len)
      OBVIOUS
    <2>2. frames' = Append(frames, e)
      BY <1>5, <2>1 DEF TryLet
    <2>3. /\ DOMAIN e = {"kind", "fn", "ip", "upto", "bases", "kept"}
          /\ e.kind = "value" /\ e.fn = Top.fn /\ e.ip = Top.ip + 1
          /\ e.upto = Top.ip + 1 + Inst.len /\ e.bases = <<>> /\ e.kept = stack
      BY <2>1 DEF Frame
    <2>4. IsFrame(e)
      <3>1. e.bases \in Seq(Int) /\ IsStack(e.kept)
        BY <2>3 DEF IInv
      <3>. QED BY <2>3, <3>1 DEF IsFrame
    <2>5. Inst.len \in Nat /\ Inst.catch \in Nat /\ Inst.body \in Nat
      BY <1>1, <1>3 DEF WellFormed, Inst
    <2>6. EndBy(program.code, Top.fn, Top.ip, Top.upto)
      <3>1. Top.ip + 1 + Inst.len + Inst.catch + Inst.body <= Top.upto
        BY <1>3, <1>5, <2>5 DEF Fits
      <3>2. Bodies(program.code[Top.fn], Top.ip) =
              {<<Top.ip + 1, Top.ip + 1 + Inst.len>>,
               <<Top.ip + 1 + Inst.len, Top.ip + 1 + Inst.len + Inst.catch>>,
               <<Top.ip + 1 + Inst.len + Inst.catch, Top.ip + 1 + Inst.len + Inst.catch + Inst.body>>}
        BY <1>1 DEF Bodies, Inst
      <3>3. ASSUME NEW b \in Bodies(program.code[Top.fn], Top.ip)
            PROVE  b[2] <= Top.upto
        <4>1. PICK y \in Nat : y = Top.ip
          BY <1>3
        <4>2. PICK m \in Nat, n \in Nat, k \in Nat : m = Inst.len /\ n = Inst.catch /\ k = Inst.body
          BY <2>5
        <4>3. b[2] \in {y + 1 + m, y + 1 + m + n, y + 1 + m + n + k}
          BY <3>2, <4>1, <4>2
        <4>4. y + 1 + m + n + k <= Top.upto
          BY <3>1, <4>1, <4>2
        <4>. QED BY <1>3, <4>3, <4>4
      <3>. QED BY <3>3 DEF EndBy
    <2>7. PICK b : b = <<Top.ip + 1, Top.ip + 1 + Inst.len>>
      OBVIOUS
    <2>8. b \in Bodies(program.code[Top.fn], Top.ip)
      BY <1>1, <2>7 DEF Bodies, Inst
    <2>9. Placed(program.code, e) /\ e.kind # "main" /\ Under(program.code, Top, e)
      BY <1>1, <1>3, <2>3, <2>4, <2>6, <2>7, <2>8, CodeIsWellFormed, BodyIsUnder DEF Inst
    <2>10. Stacked(program.code, Append(frames, e)) /\ Calls(Append(frames, e)) = Calls(frames)
      BY <1>3, <2>3, <2>9, PushedStays DEF IInv, Top
    <2>11. Stacked(program'.code, frames') /\ DepthsAgree'
      BY <1>1, <2>2, <2>10 DEF IInv, DepthsAgree
    <2>. QED BY <1>1, <1>2, <2>11 DEF IInv
  <1>. QED BY <1>4, <1>5

LEMMA SpawnStays ==
  ASSUME IInv, SpawnAgent
  PROVE  IInv'
  <1>1. /\ AtInstruction /\ ~ Ceiling /\ executed' = executed + 1
        /\ program' = program /\ memory' = memory /\ Inst.op = "SPAWN_AGENT"
        /\ callDepth' = callDepth
    BY DEF SpawnAgent, Step
  <1>2. executed' \in 0..MaxInstructions
    BY <1>1, ExecutedStays
  <1>3. /\ Len(frames) \in Nat /\ Len(frames) > 0 /\ Placed(program.code, Top)
        /\ Top.ip < Top.upto /\ Top.ip \in Nat /\ Top.upto \in Nat
        /\ Top.ip \in DOMAIN program.code[Top.fn] /\ WellFormed(program.code[Top.fn])
        /\ Inst.len \in Nat
    BY <1>1, AtFacts DEF Counts
  <1>4. IsStack(Popped(1))
    BY PoppedIsStack DEF IInv
  <1>5. CASE AgentFault # None \/ Inst.len = 0
    <2>1. stack' = Popped(1) /\ (Goes(1) \/ frames' = frames)
      BY <1>5 DEF SpawnAgent, Raise
    <2>2. Stacked(program'.code, frames') /\ DepthsAgree'
      BY <1>1, <2>1, NextStays
    <2>. QED BY <1>1, <1>2, <1>4, <2>1, <2>2 DEF IInv
  <1>6. CASE ~ (AgentFault # None \/ Inst.len = 0)
    <2>1. Fits(Inst.len)
      <3>1. SpawnDepth \in Nat
        <4>1. PICK S : frames \in Seq(S)
          BY DEF IInv, Stacked, IsStack
        <4>2. DOMAIN frames = 1..Len(frames) /\ Len(frames) \in Int /\ 1 \in Int
          BY <4>1
        <4>3. IsFiniteSet(1..Len(frames))
          BY <4>2, FS_Interval
        <4>4. IsFiniteSet({i \in DOMAIN frames : frames[i].kind = "agent"})
          BY <4>2, <4>3, FS_Subset
        <4>. QED BY <4>4, FS_CardinalityType DEF SpawnDepth
      <3>2. AgentFault = None
        BY <1>6
      <3>3. IsText(Operand(1))
        BY <3>2 DEF AgentFault, Error, None
      <3>4. ~ (SpawnDepth >= MaxCallDepth)
        BY <3>2, <3>3 DEF AgentFault, Error, None
      <3>5. SpawnDepth < MaxCallDepth
        BY <3>1, <3>4, LimitsAreNumbers
      <3>. QED BY <3>2, <3>3, <3>5 DEF AgentFault, Error, None
    <2>2. PICK e : e = [Frame("agent", Top.fn, Top.ip + 1, Top.ip + 1 + Inst.len) EXCEPT !.kept = Popped(1)]
      OBVIOUS
    <2>3. frames' = Append(frames, e) /\ stack' = <<>>
      BY <1>6, <2>2 DEF SpawnAgent
    <2>4. /\ DOMAIN e = {"kind", "fn", "ip", "upto", "bases", "kept"}
          /\ e.kind = "agent" /\ e.fn = Top.fn /\ e.ip = Top.ip + 1
          /\ e.upto = Top.ip + 1 + Inst.len /\ e.bases = <<>> /\ e.kept = Popped(1)
      BY <2>2 DEF Frame
    <2>5. IsFrame(e) /\ IsStack(stack')
      <3>1. e.bases \in Seq(Int) /\ IsStack(e.kept)
        BY <1>4, <2>4
      <3>2. stack' \in Seq({})
        BY <2>3
      <3>. QED BY <2>4, <3>1, <3>2 DEF IsFrame, IsStack
    <2>6. EndBy(program.code, Top.fn, Top.ip, Top.upto)
      BY <1>1, <1>3, <2>1 DEF EndBy, Bodies, Inst, Fits
    <2>7. PICK b : b = <<Top.ip + 1, Top.ip + 1 + Inst.len>>
      OBVIOUS
    <2>8. b \in Bodies(program.code[Top.fn], Top.ip)
      BY <1>1, <2>7 DEF Bodies, Inst
    <2>9. Placed(program.code, e) /\ e.kind # "main" /\ Under(program.code, Top, e)
      BY <1>1, <1>3, <2>4, <2>5, <2>6, <2>7, <2>8, CodeIsWellFormed, BodyIsUnder DEF Inst
    <2>10. Stacked(program.code, Append(frames, e)) /\ Calls(Append(frames, e)) = Calls(frames)
      BY <1>3, <2>4, <2>9, PushedStays DEF IInv, Top
    <2>11. Stacked(program'.code, frames') /\ DepthsAgree'
      BY <1>1, <2>3, <2>10 DEF IInv, DepthsAgree
    <2>. QED BY <1>1, <1>2, <2>5, <2>11 DEF IInv
  <1>. QED BY <1>5, <1>6

\* What finds no operand, and what finds the limit of instructions or the
\* deadline in its way.
LEMMA StopsStay ==
  ASSUME IInv, Underflow \/ Refuse \/ Expire
  PROVE  IInv'
  <1>1. CASE Underflow
    <2>1. /\ AtInstruction /\ ~ Ceiling /\ executed' = executed + 1 /\ Short
          /\ program' = program /\ frames' = frames /\ callDepth' = callDepth /\ stack' = <<>>
          /\ memory' = IF Inst.op = "MAKE_LIST" THEN memory + Inst.len ELSE memory
      BY <1>1 DEF Underflow, Raise
    <2>2. Stacked(program'.code, frames') /\ DepthsAgree'
      BY <2>1, NoMoveStays
    <2>3. memory' <= MaxMemory
      <3>1. CASE Inst.op = "MAKE_LIST" /\ ~ Affords(Inst.len)
        <4>1. Needs = 0
          BY <3>1 DEF Needs
        <4>2. Len(stack) \in Nat
          BY StackAppend DEF IInv
        <4>. QED BY <2>1, <3>1, <4>1, <4>2 DEF Short
      <3>2. CASE Inst.op = "MAKE_LIST" /\ Affords(Inst.len)
        BY <2>1, <3>2 DEF Affords
      <3>3. CASE Inst.op # "MAKE_LIST"
        BY <2>1, <3>3 DEF IInv
      <3>. QED BY <3>1, <3>2, <3>3
    <2>4. stack' \in Seq({})
      BY <2>1
    <2>5. executed' \in 0..MaxInstructions
      BY <2>1, ExecutedStays
    <2>. QED BY <2>1, <2>2, <2>3, <2>4, <2>5 DEF IInv, IsStack
  <1>2. CASE Refuse \/ Expire
    <2>1. /\ program' = program /\ frames' = frames /\ callDepth' = callDepth /\ stack' = stack
          /\ executed' = executed /\ memory' = memory
      BY <1>2 DEF Refuse, Expire, Raise
    <2>. QED BY <2>1 DEF IInv, DepthsAgree
  <1>. QED BY <1>1, <1>2

-----------------------------------------------------------------------------
(* The ends of activations.                                                *)

LEMMA MainEndsStays ==
  ASSUME IInv, MainEnds
  PROVE  IInv'
  <1>1. /\ program' = program /\ callDepth' = callDepth /\ stack' = stack /\ executed' = executed
        /\ memory' = memory /\ frames' = <<>> /\ frames # <<>> /\ Top.kind = "main"
    BY DEF MainEnds, Done, Fails, Same
  <1>2. PICK S : frames \in Seq(S)
    BY DEF IInv, Stacked, IsStack
  <1>3. Len(frames) = 1
    BY <1>1, <1>2, CodeIsWellFormed, TopIsPlaced DEF IInv, Top
  <1>4. CallsIn(frames) = {}
    BY <1>1, <1>3 DEF CallsIn, Top
  <1>5. Stacked(program'.code, frames')
    <2>1. frames' \in Seq({}) /\ Len(frames') = 0
      BY <1>1
    <2>. QED BY <2>1 DEF Stacked, IsStack
  <1>6. CallsIn(frames') = {}
    BY <1>1 DEF CallsIn
  <1>. QED BY <1>1, <1>4, <1>5, <1>6 DEF IInv, DepthsAgree, Calls

\* The frames below the innermost one, which is not main's.
LEMMA BelowStays ==
  ASSUME IInv, frames # <<>>, Top.kind # "main"
  PROVE  /\ Len(Below) > 0 /\ Stacked(program.code, Below)
         /\ Under(program.code, Below[Len(Below)], Top)
         /\ Placed(program.code, Below[Len(Below)]) /\ Placed(program.code, Top)
         /\ Top.kind # "call" => Calls(Below) = Calls(frames)
         /\ Top.kind = "call" => Calls(Below) = Calls(frames) - 1
  <1>1. PICK S : frames \in Seq(S)
    BY DEF IInv, Stacked, IsStack
  <1>2. Len(frames) > 0 /\ Len(frames) \in Nat
    BY <1>1
  <1>3. PICK t : t = SubSeq(frames, 1, Len(frames) - 1)
    OBVIOUS
  <1>4. /\ Len(frames) > 1 /\ Len(t) = Len(frames) - 1 /\ t[Len(t)] = frames[Len(frames) - 1]
        /\ Stacked(program.code, t)
        /\ Under(program.code, t[Len(t)], frames[Len(frames)])
        /\ frames[Len(frames)].kind # "call" => Calls(t) = Calls(frames)
        /\ frames[Len(frames)].kind = "call" => Calls(t) = Calls(frames) - 1
    BY <1>2, <1>3, PoppedStays DEF IInv, Top
  <1>5. Len(t) > 0
    BY <1>2, <1>4
  <1>6. Placed(program.code, t[Len(t)]) /\ Placed(program.code, Top)
    BY <1>2, <1>4, <1>5, CodeIsWellFormed, TopIsPlaced DEF IInv, Top
  <1>. QED BY <1>3, <1>4, <1>5, <1>6 DEF Below, Top

\* The frame below goes on where there is room for it.
LEMMA ResumesStays ==
  ASSUME IInv, frames # <<>>, Top.kind # "main", NEW by \in Nat,
         Below[Len(Below)].ip + by <= Below[Len(Below)].upto, Resumes(by)
  PROVE  Stacked(program.code, frames') /\ Calls(frames') = Calls(Below)
  <1>1. /\ Len(Below) > 0 /\ Stacked(program.code, Below)
        /\ Placed(program.code, Below[Len(Below)])
    BY BelowStays
  <1>2. PICK s : s = Below
    OBVIOUS
  <1>3. PICK f : f = s[Len(s)]
    OBVIOUS
  <1>4. PICK g : g = [f EXCEPT !.ip = f.ip + by]
    OBVIOUS
  <1>5. frames' = [s EXCEPT ![Len(s)] = g]
    BY <1>2, <1>3, <1>4 DEF Resumes
  <1>6. f.ip \in Nat /\ f.upto \in Nat /\ IsFrame(f)
    BY <1>1, <1>2, <1>3 DEF Placed
  <1>7. IsFrame(g) /\ g.kind = f.kind /\ g.fn = f.fn /\ g.upto = f.upto /\ g.ip = f.ip + by
    BY <1>4, <1>6 DEF IsFrame
  <1>8. PICK y \in Nat : y = f.ip + by
    BY <1>6
  <1>9. Free(program.code, s, y)
    BY <1>1, <1>2, <1>3, <1>6, <1>8, CodeIsWellFormed, AheadIsFree
  <1>10. /\ Stacked(program.code, [s EXCEPT ![Len(s)] = g])
         /\ Calls([s EXCEPT ![Len(s)] = g]) = Calls(s)
    BY <1>1, <1>2, <1>3, <1>7, <1>8, <1>9, MovedStays
  <1>. QED BY <1>2, <1>5, <1>10

LEMMA CallEndsStays ==
  ASSUME IInv, CallEnds
  PROVE  IInv'
  <1>1. /\ program' = program /\ callDepth' = callDepth - 1 /\ executed' = executed /\ memory' = memory
        /\ frames # <<>> /\ Top.kind = "call"
    BY DEF CallEnds, Done, Fails, Same
  <1>2. /\ Under(program.code, Below[Len(Below)], Top) /\ Stacked(program.code, Below)
        /\ Placed(program.code, Below[Len(Below)]) /\ Placed(program.code, Top)
        /\ Calls(Below) = Calls(frames) - 1
    BY <1>1, BelowStays
  <1>3. \/ (\E v : Returns(v))
        \/ frames' = Below /\ stack' = stack
    BY DEF CallEnds
  <1>4. Stacked(program.code, frames') /\ Calls(frames') = Calls(Below)
    <2>1. ASSUME NEW v, Returns(v)
          PROVE  Stacked(program.code, frames') /\ Calls(frames') = Calls(Below)
      <3>1. Below[Len(Below)].ip + 1 <= Below[Len(Below)].upto
        BY <1>2 DEF Under, Placed
      <3>2. Resumes(1)
        BY <2>1 DEF Returns
      <3>. QED BY <1>1, <3>1, <3>2, ResumesStays
    <2>. QED BY <1>2, <1>3, <2>1
  <1>5. IsStack(stack')
    <2>1. ASSUME NEW v, Returns(v)
          PROVE  IsStack(stack')
      <3>1. Len(Top.kept) \in Int
        BY <1>2, StackAppend DEF Placed, IsFrame
      <3>2. IsStack(Restored)
        BY <3>1, CutIsStack DEF IInv, Restored
      <3>. QED BY <2>1, <3>2, StackAppend DEF Returns
    <2>. QED BY <1>3, <2>1 DEF IInv
  <1>6. callDepth' = Calls(frames') /\ callDepth' <= MaxCallDepth
    <2>1. Calls(frames) \in Nat
      BY CallsAreFinite DEF IInv, Stacked, IsStack
    <2>. QED BY <1>1, <1>2, <1>4, <2>1, LimitsAreNumbers DEF IInv, DepthsAgree
  <1>. QED BY <1>1, <1>4, <1>5, <1>6 DEF IInv, DepthsAgree

\* The branch that follows the value of a TRY_LET.
LEMMA BranchStays ==
  ASSUME IInv, frames # <<>>, Top.kind = "value",
         NEW s, IsStack(s), NEW from, NEW n, Branch(s, from, n),
         \/ /\ from = Below[Len(Below)].ip + 1 + Caller.len
            /\ n = Caller.catch
         \/ /\ from = Below[Len(Below)].ip + 1 + Caller.len + Caller.catch
            /\ n = Caller.body
  PROVE  Stacked(program.code, frames') /\ Calls(frames') = Calls(frames)
  <1>1. /\ Len(Below) > 0 /\ Stacked(program.code, Below)
        /\ Under(program.code, Below[Len(Below)], Top)
        /\ Placed(program.code, Below[Len(Below)])
        /\ Calls(Below) = Calls(frames)
    BY BelowStays
  <1>2. PICK g : g = Below[Len(Below)]
    OBVIOUS
  <1>3. PICK at : at = program.code[g.fn][g.ip]
    OBVIOUS
  <1>4. /\ g.ip < g.upto /\ at.op = "TRY_LET" /\ Top.fn = g.fn
        /\ EndBy(program.code, g.fn, g.ip, g.upto) /\ Caller = at
    BY <1>1, <1>2, <1>3 DEF Under, Caller
  <1>5. PICK e : e = [Frame("branch", Top.fn, from, from + n) EXCEPT !.kept = s]
    OBVIOUS
  <1>6. frames' = Append(Below, e)
    BY <1>5 DEF Branch
  <1>7. /\ DOMAIN e = {"kind", "fn", "ip", "upto", "bases", "kept"}
        /\ e.kind = "branch" /\ e.fn = Top.fn /\ e.ip = from /\ e.upto = from + n
        /\ e.bases = <<>> /\ e.kept = s
    BY <1>5 DEF Frame
  <1>8. IsFrame(e)
    <2>1. e.bases \in Seq(Int)
      BY <1>7
    <2>. QED BY <1>7, <2>1 DEF IsFrame
  <1>9. PICK b : b = <<from, from + n>>
    OBVIOUS
  <1>10. b \in Bodies(program.code[g.fn], g.ip)
    BY <1>2, <1>3, <1>4, <1>9 DEF Bodies
  <1>11. Placed(program.code, e) /\ e.kind # "main" /\ Under(program.code, g, e)
    BY <1>1, <1>2, <1>3, <1>4, <1>7, <1>8, <1>9, <1>10, CodeIsWellFormed, BodyIsUnder
  <1>12. Stacked(program.code, Append(Below, e)) /\ Calls(Append(Below, e)) = Calls(Below)
    BY <1>1, <1>2, <1>7, <1>11, PushedStays
  <1>. QED BY <1>1, <1>6, <1>12

LEMMA ValueStays ==
  ASSUME IInv, ValueEnds \/ ValueFails
  PROVE  IInv'
  <1>1. /\ program' = program /\ callDepth' = callDepth /\ executed' = executed /\ memory' = memory
        /\ frames # <<>> /\ Top.kind = "value"
    BY DEF ValueEnds, ValueFails, Done, Fails, Same
  <1>2. /\ Placed(program.code, Top) /\ Stacked(program.code, Below) /\ Calls(Below) = Calls(frames)
    BY <1>1, BelowStays
  <1>3. Len(Top.kept) \in Int
    BY <1>2, StackAppend DEF Placed, IsFrame
  <1>4. \/ frames' = Below /\ stack' = stack
        \/ /\ stack' = Cut(Popped(1), Len(Top.kept))
           /\ Branch(stack', Below[Len(Below)].ip + 1 + Caller.len + Caller.catch, Caller.body)
        \/ /\ stack' = Restored
           /\ Branch(stack', Below[Len(Below)].ip + 1 + Caller.len, Caller.catch)
    BY DEF ValueEnds, ValueFails
  <1>5. IsStack(stack')
    <2>1. IsStack(Cut(Popped(1), Len(Top.kept))) /\ IsStack(Restored)
      BY <1>3, CutIsStack, PoppedIsStack DEF IInv, Restored
    <2>. QED BY <1>4, <2>1 DEF IInv
  <1>6. PICK s : s = stack'
    OBVIOUS
  <1>7. Stacked(program.code, frames') /\ Calls(frames') = Calls(frames)
    BY <1>1, <1>2, <1>4, <1>5, <1>6, BranchStays
  <1>. QED BY <1>1, <1>5, <1>7 DEF IInv, DepthsAgree

LEMMA BranchEndsStays ==
  ASSUME IInv, BranchEnds
  PROVE  IInv'
  <1>1. /\ program' = program /\ callDepth' = callDepth /\ executed' = executed /\ memory' = memory
        /\ stack' = stack /\ frames # <<>> /\ Top.kind = "branch"
    BY DEF BranchEnds, Done, Fails, Same
  <1>2. PICK g : g = Below[Len(Below)]
    OBVIOUS
  <1>3. /\ Stacked(program.code, Below) /\ Calls(Below) = Calls(frames)
        /\ Under(program.code, g, Top) /\ Placed(program.code, g)
    BY <1>1, <1>2, BelowStays
  <1>4. PICK at : at = program.code[g.fn][g.ip]
    OBVIOUS
  <1>5. /\ g.ip < g.upto /\ at.op = "TRY_LET" /\ EndBy(program.code, g.fn, g.ip, g.upto) /\ Caller = at
    BY <1>1, <1>2, <1>3, <1>4 DEF Under, Caller
  <1>6. /\ at.len \in Nat /\ at.catch \in Nat /\ at.body \in Nat
        /\ g.ip + 1 + at.len + at.catch + at.body <= g.upto
    BY <1>3, <1>4, <1>5, CodeIsWellFormed, LengthsFit
  <1>7. g.ip \in Nat /\ g.upto \in Nat
    BY <1>3 DEF Placed
  <1>8. PICK by \in Nat : by = 1 + at.len + at.catch + at.body
    BY <1>6
  <1>9. Resumes(by) \/ frames' = Below
    BY <1>5, <1>8 DEF BranchEnds
  <1>10. g.ip + by <= g.upto
    BY <1>6, <1>7, <1>8
  <1>11. Stacked(program.code, frames') /\ Calls(frames') = Calls(frames)
    BY <1>1, <1>2, <1>3, <1>9, <1>10, ResumesStays
  <1>. QED BY <1>1, <1>11 DEF IInv, DepthsAgree

LEMMA AgentEndsStays ==
  ASSUME IInv, AgentEnds
  PROVE  IInv'
  <1>1. /\ program' = program /\ callDepth' = callDepth /\ executed' = executed /\ memory' = memory
        /\ stack' = Top.kept /\ frames # <<>> /\ Top.kind = "agent"
    BY DEF AgentEnds, Done, Fails, Same
  <1>2. PICK g : g = Below[Len(Below)]
    OBVIOUS
  <1>3. /\ Stacked(program.code, Below) /\ Calls(Below) = Calls(frames)
        /\ Under(program.code, g, Top) /\ Placed(program.code, g) /\ Placed(program.code, Top)
    BY <1>1, <1>2, BelowStays
  <1>4. PICK at : at = program.code[g.fn][g.ip]
    OBVIOUS
  <1>5. /\ g.ip < g.upto /\ at.op = "SPAWN_AGENT" /\ EndBy(program.code, g.fn, g.ip, g.upto) /\ Caller = at
    BY <1>1, <1>2, <1>3, <1>4 DEF Under, Caller
  <1>6. at.len \in Nat /\ g.ip + 1 + at.len <= g.upto
    BY <1>3, <1>4, <1>5, CodeIsWellFormed, LengthsFit
  <1>7. g.ip \in Nat /\ g.upto \in Nat
    BY <1>3 DEF Placed
  <1>8. PICK by \in Nat : by = 1 + at.len
    BY <1>6
  <1>9. Resumes(by) \/ frames' = Below
    BY <1>5, <1>8 DEF AgentEnds
  <1>10. g.ip + by <= g.upto
    BY <1>6, <1>7, <1>8
  <1>11. Stacked(program.code, frames') /\ Calls(frames') = Calls(frames)
    BY <1>1, <1>2, <1>3, <1>9, <1>10, ResumesStays
  <1>12. IsStack(stack')
    BY <1>1, <1>3 DEF Placed, IsFrame
  <1>. QED BY <1>1, <1>11, <1>12 DEF IInv, DepthsAgree

LEMMA StepStays ==
  ASSUME IInv, [Next]_vars
  PROVE  IInv'
  <1>1. CASE LoadConst \/ LoadVar \/ StoreVar \/ SetVar \/ ReturnOp \/ ExitOp
    BY <1>1, VariablesArePlain, PlainStays
  <1>2. CASE BinopOp \/ ConvertOp \/ ListLen \/ IsNil \/ StrJoin \/ ListGetOp
    BY <1>2, OperationsArePlain, PlainStays
  <1>3. CASE MapKeys \/ StrSplit \/ MakeList \/ MakeDict
    BY <1>3, AllocationsArePlain, PlainStays
  <1>4. CASE PrintOp \/ MapGetOp
    BY <1>4, PrintIsPlain, MapGetIsPlain, PlainStays
  <1>5. CASE AppendOp \/ MapSetOp \/ MapDeleteOp
    BY <1>5, ChangesArePlain, PlainStays
  <1>6. CASE JumpIfFalse \/ Jump
    BY <1>6, JumpsStay
  <1>7. CASE ForInit \/ ForNext
    BY <1>7, ForInitStays, ForNextStays
  <1>8. CASE CallOp \/ TryLet \/ SpawnAgent
    BY <1>8, CallStays, TryLetStays, SpawnStays
  <1>9. CASE Underflow \/ Refuse \/ Expire
    BY <1>9, StopsStay
  <1>10. CASE MainEnds \/ CallEnds \/ ValueEnds \/ ValueFails \/ BranchEnds \/ AgentEnds
    BY <1>10, MainEndsStays, CallEndsStays, ValueStays, BranchEndsStays, AgentEndsStays
  <1>11. CASE UNCHANGED vars
    BY <1>11 DEF vars, maps, IInv, DepthsAgree
  <1>. QED BY <1>1, <1>2, <1>3, <1>4, <1>5, <1>6, <1>7, <1>8, <1>9, <1>10, <1>11 DEF Next, Run

\* Activations are stacked as the instructions that wait for them say, callDepth
\* counts the calls among them, and no limit is exceeded.
THEOREM ActivationsStack == Spec => []IInv
  BY InitHolds, StepStays, PTL DEF Spec

\* Every activation stays in the code it was given to run, a jump out of the body
\* of a TRY_LET or an agent included, for any well-formed program.
THEOREM FramesStayInCode == Spec => []FramesInCode
  <1>1. ASSUME IInv
        PROVE  FramesInCode
    <2>1. PICK S : frames \in Seq(S)
      BY <1>1 DEF IInv, Stacked, IsStack
    <2>2. ASSUME NEW i \in DOMAIN frames
          PROVE  /\ frames[i].kind \in Kinds
                 /\ frames[i].kind = "main" <=> i = 1
                 /\ frames[i].fn \in DOMAIN program.code
                 /\ frames[i].upto \in 1..(Len(program.code[frames[i].fn]) + 1)
                 /\ InItsCode(i)
      <3>1. i \in 1..Len(frames)
        BY <2>1
      <3>2. Placed(program.code, frames[i]) /\ (frames[i].kind = "main" <=> i = 1)
        BY <1>1, <3>1 DEF IInv, Stacked
      <3>3. ASSUME frames[i].kind \notin {"main", "call"}
            PROVE  InItsCode(i)
        <4>1. i \in 2..Len(frames)
          BY <2>1, <3>1, <3>2, <3>3
        <4>2. Under(program.code, frames[i - 1], frames[i])
          BY <1>1, <4>1 DEF IInv, Stacked
        <4>. QED BY <3>3, <4>2 DEF Under, Stays, InItsCode
      <3>4. ASSUME frames[i].kind \in {"main", "call"}
            PROVE  InItsCode(i)
        BY <3>2, <3>4 DEF Placed, InItsCode
      <3>. QED BY <3>2, <3>3, <3>4 DEF Placed
    <2>. QED BY <2>2 DEF FramesInCode, Kinds
  <1>. QED BY <1>1, ActivationsStack, PTL

\* The instructions executed, the memory charged and the depth of calls stay
\* within their limits, for any limits.
THEOREM LimitsAreKept == Spec => []LimitsHold
  <1>1. ASSUME IInv
        PROVE  LimitsHold
    <2>1. callDepth \in Nat
      BY <1>1, CallsAreFinite DEF IInv, DepthsAgree, Stacked, IsStack
    <2>. QED BY <1>1, <2>1, LimitsAreNumbers DEF IInv, DepthsAgree, LimitsHold
  <1>. QED BY <1>1, ActivationsStack, PTL

\* The depth that is compared with the limit is the number of calls the program
\* is in, whatever ended the calls before: a return, an error that a TRY_LET
\* caught, an exit or the end of an agent.
THEOREM DepthsCount == Spec => []DepthIsCalls
  <1>1. ASSUME IInv
        PROVE  DepthIsCalls
    <2>1. PICK S : frames \in Seq(S)
      BY <1>1 DEF IInv, Stacked, IsStack
    <2>2. DOMAIN frames = 1..Len(frames)
      BY <2>1
    <2>. QED BY <1>1, <2>2 DEF IInv, DepthsAgree, DepthIsCalls, Calls, CallsIn
  <1>. QED BY <1>1, ActivationsStack, PTL

-----------------------------------------------------------------------------
(* Values.  A value is sound for a set K of places if the dictionaries it   *)
(* is made of, at any depth, are at places of K, and its lists and texts    *)
(* are sequences.                                                           *)

Made(u, U, K) ==
  /\ IsText(u) => IsStack(u[2])
  /\ IsList(u) => u[2] \in Seq(U)
  /\ IsDict(u) => u[2] \in K
Sound(v, K) == \E U : v \in U /\ \A u \in U : Made(u, U, K)
AllSound(s, K) == IsStack(s) /\ \A i \in 1..Len(s) : Sound(s[i], K)

LEMMA SoundParts ==
  ASSUME NEW K, NEW v, Sound(v, K)
  PROVE  /\ IsText(v) => IsStack(v[2])
         /\ IsDict(v) => v[2] \in K
         /\ IsList(v) => AllSound(v[2], K) /\ Len(v[2]) \in Nat /\ DOMAIN v[2] = 1..Len(v[2])
  <1>1. PICK U : v \in U /\ \A u \in U : Made(u, U, K)
    BY DEF Sound
  <1>2. ASSUME IsList(v)
        PROVE  AllSound(v[2], K) /\ Len(v[2]) \in Nat /\ DOMAIN v[2] = 1..Len(v[2])
    <2>1. PICK s : s = v[2] /\ s \in Seq(U)
      BY <1>1, <1>2 DEF Made
    <2>2. \A i \in 1..Len(s) : s[i] \in U
      BY <2>1
    <2>3. IsStack(s) /\ \A i \in 1..Len(s) : Sound(s[i], K)
      BY <1>1, <2>1, <2>2 DEF Sound, IsStack
    <2>. QED BY <2>1, <2>3 DEF AllSound
  <1>. QED BY <1>1, <1>2 DEF Made

LEMMA SoundGrows ==
  ASSUME NEW K, NEW L, K \subseteq L, NEW v, Sound(v, K)
  PROVE  Sound(v, L)
  <1>1. PICK U : v \in U /\ \A u \in U : Made(u, U, K)
    BY DEF Sound
  <1>2. \A u \in U : Made(u, U, L)
    BY <1>1 DEF Made
  <1>. QED BY <1>1, <1>2 DEF Sound

LEMMA AllSoundGrow ==
  ASSUME NEW K, NEW L, K \subseteq L, NEW s, AllSound(s, K)
  PROVE  AllSound(s, L)
  BY SoundGrows DEF AllSound

LEMMA SoundAlone ==
  ASSUME NEW K, NEW v, ~ IsList(v), IsText(v) => IsStack(v[2]), IsDict(v) => v[2] \in K
  PROVE  Sound(v, K)
  <1>1. Made(v, {v}, K)
    BY DEF Made
  <1>. QED BY <1>1 DEF Sound

LEMMA SoundList ==
  ASSUME NEW K, NEW s, AllSound(s, K)
  PROVE  Sound(List(s), K)
  <1> DEFINE U == [i \in 1..Len(s) |-> CHOOSE W : s[i] \in W /\ \A u \in W : Made(u, W, K)]
             All == UNION {U[i] : i \in 1..Len(s)}
             W == All \cup {List(s)}
  <1>1. \A i \in 1..Len(s) : s[i] \in U[i] /\ \A u \in U[i] : Made(u, U[i], K)
    BY DEF AllSound, Sound
  <1> HIDE DEF U
  <1>2. \A i \in 1..Len(s) : U[i] \subseteq W
    OBVIOUS
  <1>3. s \in Seq(W)
    <2>1. PICK S : s \in Seq(S)
      BY DEF AllSound, IsStack
    <2>2. \A i \in 1..Len(s) : s[i] \in W
      BY <1>1, <1>2
    <2> HIDE DEF W
    <2>. QED BY <2>1, <2>2
  <1>4. \A u \in All : Made(u, W, K)
    <2>1. ASSUME NEW i \in 1..Len(s), NEW u \in U[i]
          PROVE  Made(u, W, K)
      <3>1. Made(u, U[i], K) /\ U[i] \subseteq W
        BY <1>1, <1>2
      <3> HIDE DEF W
      <3>2. Seq(U[i]) \subseteq Seq(W)
        BY <3>1
      <3>. QED BY <3>1, <3>2 DEF Made
    <2>. QED BY <2>1
  <1>5. Made(List(s), W, K)
    <2> HIDE DEF W
    <2>. QED BY <1>3 DEF Made, List, IsText, IsList, IsDict
  <1>6. List(s) \in W /\ \A u \in W : Made(u, W, K)
    BY <1>4, <1>5
  <1> HIDE DEF W
  <1>. QED BY <1>6 DEF Sound

LEMMA SoundScalars ==
  ASSUME NEW K
  PROVE  /\ Sound(Nil, K)
         /\ \A n : Sound(Num(n), K)
         /\ \A b : Sound(Bool(b), K)
         /\ \A s : IsStack(s) => Sound(Text(s), K)
         /\ \A p \in K : Sound(Dict(p), K)
  BY SoundAlone DEF Nil, Num, Bool, Text, Dict, IsText, IsList, IsDict

-----------------------------------------------------------------------------
(* Sequences of sound values.                                              *)

LEMMA AllSoundAppend ==
  ASSUME NEW K, NEW s, AllSound(s, K), NEW v, Sound(v, K)
  PROVE  AllSound(Append(s, v), K)
  <1>1. PICK S : s \in Seq(S)
    BY DEF AllSound, IsStack
  <1>2. s \in Seq(S \cup {v})
    BY <1>1
  <1>3. PICK t : t = Append(s, v)
    OBVIOUS
  <1>4. t \in Seq(S \cup {v}) /\ Len(t) = Len(s) + 1 /\ Len(s) \in Nat
        /\ \A i \in 1..Len(t) : t[i] = IF i = Len(s) + 1 THEN v ELSE s[i]
    BY <1>2, <1>3
  <1>5. \A i \in 1..Len(t) : Sound(t[i], K)
    BY <1>4 DEF AllSound
  <1>. QED BY <1>3, <1>4, <1>5 DEF AllSound, IsStack

LEMMA AllSoundPart ==
  ASSUME NEW K, NEW s, AllSound(s, K), NEW m \in Nat \ {0}, NEW n \in Int, n <= Len(s)
  PROVE  /\ AllSound(SubSeq(s, m, n), K)
         /\ Len(SubSeq(s, m, n)) = IF m <= n THEN n - m + 1 ELSE 0
  <1>1. PICK S : s \in Seq(S)
    BY DEF AllSound, IsStack
  <1>2. PICK t : t = SubSeq(s, m, n)
    OBVIOUS
  <1>3. /\ t \in Seq(S) /\ Len(t) = IF m <= n THEN n - m + 1 ELSE 0
        /\ \A i \in 1..Len(t) : t[i] = s[m + i - 1] /\ m + i - 1 \in 1..Len(s)
    BY <1>1, <1>2
  <1>4. \A i \in 1..Len(t) : Sound(t[i], K)
    BY <1>3 DEF AllSound
  <1>. QED BY <1>2, <1>3, <1>4 DEF AllSound, IsStack

LEMMA AllSoundCut ==
  ASSUME NEW K, NEW s, AllSound(s, K), NEW n \in Int
  PROVE  AllSound(Cut(s, n), K)
  <1>1. Len(s) \in Nat
    BY StackAppend DEF AllSound
  <1>. QED BY <1>1, AllSoundPart DEF Cut

LEMMA AllSoundEmpty ==
  ASSUME NEW K
  PROVE  AllSound(<<>>, K)
  <1>1. <<>> \in Seq({}) /\ Len(<<>>) = 0
    OBVIOUS
  <1>. QED BY <1>1 DEF AllSound, IsStack

\* The operands of an instruction that finds as many as it needs.
LEMMA OperandsAreSound ==
  ASSUME NEW K, AllSound(stack, K), NEW n \in Nat, n <= Len(stack)
  PROVE  /\ AllSound(Popped(n), K) /\ AllSound(Operands(n), K) /\ Len(Operands(n)) = n
         /\ \A k \in 1..n : Sound(Operand(k), K)
  <1>1. Len(stack) \in Nat
    BY StackAppend DEF AllSound
  <1>2. AllSound(Popped(n), K)
    <2>1. Len(stack) - n \in Int /\ Len(stack) - n <= Len(stack)
      BY <1>1
    <2>. QED BY <2>1, AllSoundPart DEF Popped
  <1>3. AllSound(Operands(n), K) /\ Len(Operands(n)) = n
    <2>1. /\ Len(stack) - n + 1 \in Nat \ {0} /\ Len(stack) \in Int /\ Len(stack) <= Len(stack)
      BY <1>1
    <2>2. /\ AllSound(Operands(n), K)
          /\ Len(Operands(n)) = IF Len(stack) - n + 1 <= Len(stack) THEN Len(stack) - (Len(stack) - n + 1) + 1 ELSE 0
      BY <2>1, AllSoundPart DEF Operands
    <2>. QED BY <1>1, <2>2
  <1>4. \A k \in 1..n : Sound(Operand(k), K)
    <2>1. \A k \in 1..n : Len(stack) + 1 - k \in 1..Len(stack)
      BY <1>1
    <2>. QED BY <2>1 DEF AllSound, Operand
  <1>. QED BY <1>2, <1>3, <1>4

-----------------------------------------------------------------------------
(* What the operations on values make of them.                             *)

Ends(p, K) == p.kind \in {"none", "error", "return", "exit"} /\ Sound(p.val, K)
Answers(a, K) == Ends(a.fault, K) /\ Sound(a.val, K)

LEMMA StackOfOne ==
  ASSUME NEW x
  PROVE  IsStack(<<x>>)
  <1>1. <<x>> \in Seq({x})
    OBVIOUS
  <1>. QED BY <1>1 DEF IsStack

LEMMA StackConcat ==
  ASSUME NEW s, NEW t, IsStack(s), IsStack(t)
  PROVE  IsStack(s \o t)
  <1>1. PICK S, T : s \in Seq(S) /\ t \in Seq(T)
    BY DEF IsStack
  <1>2. s \in Seq(S \cup T) /\ t \in Seq(S \cup T)
    BY <1>1
  <1>3. s \o t \in Seq(S \cup T)
    BY <1>2
  <1>. QED BY <1>3 DEF IsStack

\* A sequence is what has an interval for its domain.
LEMMA StackOfMany ==
  ASSUME NEW n \in Nat, NEW s, DOMAIN s = 1..n, s = [i \in 1..n |-> s[i]]
  PROVE  IsStack(s) /\ Len(s) = n
  <1>1. PICK S : s \in [1..n -> S]
    <2>1. s \in [1..n -> {s[i] : i \in 1..n}]
      OBVIOUS
    <2>. QED BY <2>1
  <1>2. s \in Seq(S)
    BY <1>1
  <1>3. PICK k : k = Len(s)
    OBVIOUS
  <1>4. k \in Nat /\ 1..k = 1..n
    BY <1>2, <1>3
  <1>5. k = n
    <2>1. k <= n
      <3>1. k = 0 \/ k \in 1..k
        BY <1>4
      <3>. QED BY <1>4, <3>1
    <2>2. n <= k
      <3>1. n = 0 \/ n \in 1..n
        OBVIOUS
      <3>. QED BY <1>4, <3>1
    <2>. QED BY <1>4, <2>1, <2>2
  <1>. QED BY <1>2, <1>3, <1>5 DEF IsStack

LEMMA EndingsAreSound ==
  ASSUME NEW K
  PROVE  /\ Ends(None, K)
         /\ \A code : Ends(Error(code), K)
         /\ \A v : Sound(v, K) => Ends(Return(v), K) /\ Ends(Exit(v), K)
         /\ \A v : Sound(v, K) => Answers(Fine(v), K)
         /\ \A code : Answers(Faulty(code), K)
         /\ \A ok, code, v : Sound(v, K) => Answers(Checked(ok, code, v), K)
  <1>1. Ends(None, K) /\ Sound(Nil, K)
    BY SoundScalars DEF Ends, None
  <1>2. \A code : Ends(Error(code), K)
    <2>1. ASSUME NEW code
          PROVE  Ends(Error(code), K)
      <3>1. PICK e : e = Error(code)
        OBVIOUS
      <3>2. e.kind = "error" /\ e.val = Text(<<code>>)
        BY <3>1 DEF Error
      <3>3. IsStack(<<code>>)
        BY StackOfOne
      <3>4. Sound(e.val, K)
        BY <3>2, <3>3, SoundScalars
      <3>5. Ends(e, K)
        BY <3>2, <3>4 DEF Ends
      <3>. QED BY <3>1, <3>5
    <2>. QED BY <2>1
  <1>3. \A v : Sound(v, K) => Ends(Return(v), K) /\ Ends(Exit(v), K)
    BY DEF Ends, Return, Exit
  <1>4. \A v : Sound(v, K) => Answers(Fine(v), K)
    BY <1>1 DEF Answers, Fine
  <1>5. \A code : Answers(Faulty(code), K)
    BY <1>1, <1>2 DEF Answers, Faulty
  <1>. QED BY <1>1, <1>2, <1>3, <1>4, <1>5 DEF Checked

LEMMA SprintIsText ==
  ASSUME NEW K, NEW v, Sound(v, K)
  PROVE  IsStack(Sprint(v)) /\ IsStack(TextOf(v))
  <1>1. \A n : IsStack(Decimal(n))
    <2>1. ASSUME NEW n
          PROVE  IsStack(Decimal(n))
      <3>1. \A x, y : IsStack(<<x, y>>)
        <4>1. \A x, y : <<x, y>> \in Seq({x, y})
          OBVIOUS
        <4>. QED BY <4>1 DEF IsStack
      <3>. QED BY <3>1, StackOfOne DEF Decimal
    <2>. QED BY <2>1
  <1>2. IsStack(<<>>)
    BY AllSoundEmpty DEF AllSound
  <1>3. IsStack(Sprint(v))
    <2>1. CASE IsText(v)
      <3>1. IsStack(v[2])
        BY <2>1, SoundParts
      <3>2. ~ IsInt(v) /\ ~ IsBool(v) /\ v # Nil
        BY <2>1 DEF IsText, IsInt, IsBool, Nil
      <3>. QED BY <2>1, <3>1, <3>2 DEF Sprint
    <2>2. CASE IsInt(v)
      <3>1. ~ IsText(v)
        BY <2>2 DEF IsText, IsInt
      <3>2. Sprint(v) = IF v[2] < 0 THEN <<"-">> \o Decimal(-v[2]) ELSE Decimal(v[2])
        BY <2>2, <3>1 DEF Sprint, IsText, IsInt, IsBool, Nil
      <3>3. IsStack(<<"-">> \o Decimal(-v[2]))
        BY <1>1, StackOfOne, StackConcat
      <3>. QED BY <1>1, <3>2, <3>3
    <2>3. CASE ~ IsText(v) /\ ~ IsInt(v)
      BY <2>3, StackOfOne DEF Sprint
    <2>. QED BY <2>1, <2>2, <2>3
  <1>. QED BY <1>2, <1>3 DEF TextOf

LEMMA BinopIsSound ==
  ASSUME NEW K, NEW op, NEW a, NEW b, Sound(a, K), Sound(b, K)
  PROVE  Answers(Binop(op, a, b), K)
  <1>1. CASE op \in {"and", "or", "==", "!="}
    BY <1>1, SoundScalars, EndingsAreSound DEF Binop
  <1>2. CASE op = "+" /\ IsText(a) /\ IsText(b)
    <2>1. IsStack(a[2] \o b[2])
      BY <1>2, SoundParts, StackConcat
    <2>. QED BY <1>2, <2>1, SoundScalars, EndingsAreSound DEF Binop
  <1>3. CASE op \in {"<", ">", "<=", ">="}
    BY <1>3, SoundScalars, EndingsAreSound DEF Binop
  <1>4. CASE ~(op = "+" /\ IsText(a) /\ IsText(b)) /\ op \notin {"and", "or", "==", "!=", "<", ">", "<=", ">="}
    <2>1. Binop(op, a, b) =
            IF ~(IsInt(a) /\ IsInt(b)) THEN Faulty("TYPE_ERROR")
            ELSE Checked(~Overflows(op, a[2], b[2]), "RUNTIME_ERROR", Num(Arithmetic(op, a[2], b[2])))
      BY <1>4 DEF Binop
    <2>. QED BY <2>1, SoundScalars, EndingsAreSound
  <1>. QED BY <1>1, <1>2, <1>3, <1>4

LEMMA ConvertedIsSound ==
  ASSUME NEW K, NEW target, NEW v, Sound(v, K)
  PROVE  Answers(Converted(target, v), K)
  BY SprintIsText, SoundScalars, EndingsAreSound DEF Converted

LEMMA LengthIsSound ==
  ASSUME NEW K, NEW v
  PROVE  Answers(Length(v), K)
  BY SoundScalars, EndingsAreSound DEF Length

LEMMA ElementIsSound ==
  ASSUME NEW K, NEW v, Sound(v, K), IsList(v), NEW s
  PROVE  Sound(Element(v[2], s), K)
  <1>1. AllSound(v[2], K) /\ Len(v[2]) \in Nat
    BY SoundParts
  <1>2. Sound(Text(<<>>), K)
    BY SoundScalars, AllSoundEmpty DEF AllSound
  <1>3. CASE Parsed(s) \in 0..(Len(v[2]) - 1)
    <2>1. PICK i \in 0..(Len(v[2]) - 1) : i = Parsed(s)
      BY <1>3
    <2>2. i + 1 \in 1..Len(v[2])
      BY <1>1
    <2>3. Element(v[2], s) = v[2][i + 1]
      BY <1>3, <2>1 DEF Element
    <2>. QED BY <1>1, <2>2, <2>3 DEF AllSound
  <1>. QED BY <1>2, <1>3 DEF Element

-----------------------------------------------------------------------------
(* The operations on texts and dictionaries, of values of any length.      *)

LEMMA LeastNatural ==
  ASSUME NEW T \in SUBSET Nat, T # {}
  PROVE  \E n \in T : \A m \in T : n <= m
  <1>1. PICK n \in T : \A m \in T : <<m, n>> \notin OpToRel(<, Nat)
    BY NatLessThanWellFounded, WFMin
  <1>2. \A m, k \in Nat : <<m, k>> \in OpToRel(<, Nat) <=> m < k
    BY DEF OpToRel
  <1>3. \A m \in T : ~(m < n)
    BY <1>1, <1>2
  <1>. QED BY <1>3

LEMMA GreatestNatural ==
  ASSUME NEW n \in Nat, NEW T \in SUBSET (1..n), T # {}
  PROVE  \E m \in T : \A k \in T : k <= m
  <1> DEFINE R == {n - k : k \in T}
  <1>1. R \in SUBSET Nat /\ R # {}
    <2>1. \A k \in T : n - k \in Nat
      OBVIOUS
    <2>. QED BY <2>1
  <1>2. PICK r \in R : \A q \in R : r <= q
    BY <1>1, LeastNatural
  <1>3. PICK m \in T : r = n - m
    OBVIOUS
  <1>4. \A k \in T : n - k \in R
    OBVIOUS
  <1>5. \A k \in T : n - m <= n - k
    BY <1>2, <1>3, <1>4
  <1>. QED BY <1>5

\* A finite set of numbers is numbered in order.
LEMMA RankIsOnto ==
  ASSUME NEW S \in SUBSET Nat, IsFiniteSet(S)
  PROVE  /\ Cardinality(S) \in Nat
         /\ \A k \in 1..Cardinality(S) : \E i \in S : Cardinality({j \in S : j <= i}) = k
  <1> DEFINE upTo(i) == {j \in S : j <= i}
             rank == [i \in S |-> Cardinality(upTo(i))]
             n == Cardinality(S)
  <1>1. n \in Nat
    BY FS_CardinalityType
  <1>2. ASSUME NEW i \in S
        PROVE  IsFiniteSet(upTo(i)) /\ Cardinality(upTo(i)) \in 1..n
    <2>1. upTo(i) \in SUBSET S
      OBVIOUS
    <2>2. IsFiniteSet(upTo(i)) /\ Cardinality(upTo(i)) <= n
      BY <2>1, FS_Subset
    <2>3. Cardinality(upTo(i)) \in Nat /\ (Cardinality(upTo(i)) = 0 <=> upTo(i) = {})
      BY <2>2, FS_CardinalityType, FS_EmptySet
    <2>4. i \in upTo(i)
      OBVIOUS
    <2>5. Cardinality(upTo(i)) # 0
      BY <2>3, <2>4
    <2> HIDE DEF upTo
    <2>. QED BY <1>1, <2>2, <2>3, <2>5
  <1>3. rank \in [S -> 1..n]
    BY <1>2
  <1>4. ASSUME NEW i \in S, NEW j \in S, i < j
        PROVE  rank[i] # rank[j]
    <2>1. upTo(i) \in SUBSET upTo(j)
      <3>1. \A x \in S : x <= i => x <= j
        BY <1>4
      <3>. QED BY <3>1
    <2>2. IsFiniteSet(upTo(j))
      BY <1>2
    <2>3. j \in upTo(j) /\ j \notin upTo(i)
      BY <1>4
    <2>4. upTo(i) # upTo(j)
      BY <2>3
    <2>5. Cardinality(upTo(i)) # Cardinality(upTo(j))
      BY <2>1, <2>2, <2>4, FS_Subset
    <2>. QED BY <2>5
  <1>5. rank \in Injection(S, 1..n)
    <2>1. \A i, j \in S : rank[i] = rank[j] => i = j
      BY <1>4
    <2> HIDE DEF rank
    <2>. QED BY <1>3, <2>1 DEF Injection, IsInjective
  <1>6. IsFiniteSet(1..n) /\ Cardinality(1..n) = n
    BY <1>1, FS_Interval
  <1>7. rank \in Surjection(S, 1..n)
    BY <1>5, <1>6, FS_Injection
  <1>8. \A k \in 1..n : \E i \in S : rank[i] = k
    BY <1>7 DEF Surjection
  <1>. QED BY <1>1, <1>8

LEMMA PartIsStack ==
  ASSUME NEW s, IsStack(s), NEW m \in Nat \ {0}, NEW n \in Int, n <= Len(s)
  PROVE  IsStack(SubSeq(s, m, n))
  <1>1. PICK S : s \in Seq(S)
    BY DEF IsStack
  <1>2. SubSeq(s, m, n) \in Seq(S)
    BY <1>1
  <1>. QED BY <1>2 DEF IsStack

LEMMA SplitIsSound ==
  ASSUME NEW K, NEW s, IsStack(s), NEW sep
  PROVE  AllSound(Split(s, sep), K) /\ Len(Split(s, sep)) \in Nat
  <1>0. Len(s) \in Nat
    BY StackAppend
  <1>1. CASE sep = <<>>
    <2>1. PICK t : t = [i \in 1..Len(s) |-> Text(<<s[i]>>)]
      OBVIOUS
    <2>2. IsStack(t) /\ Len(t) = Len(s)
      BY <1>0, <2>1, StackOfMany
    <2>3. \A i \in 1..Len(t) : Sound(t[i], K)
      BY <2>1, <2>2, StackOfOne, SoundScalars
    <2>4. Split(s, sep) = t
      BY <1>1, <2>1 DEF Split
    <2>. QED BY <1>0, <2>2, <2>3, <2>4 DEF AllSound
  <1>2. CASE sep # <<>>
    <2> DEFINE cuts == {i \in 1..Len(s) : s[i] = sep[1]} \cup {Len(s) + 1}
               end(k) == CHOOSE i \in cuts : Cardinality({j \in cuts : j <= i}) = k
               start(k) == IF k = 1 THEN 1 ELSE end(k - 1) + 1
               n == Cardinality(cuts)
    <2>1. PICK t : t = [k \in 1..n |-> Text(SubSeq(s, start(k), end(k) - 1))]
      OBVIOUS
    <2>2. Split(s, sep) = t
      BY <1>2, <2>1 DEF Split
    <2>3. cuts \in SUBSET (1..(Len(s) + 1)) /\ cuts \in SUBSET Nat
      BY <1>0
    <2>4. IsFiniteSet(cuts)
      <3>1. IsFiniteSet(1..(Len(s) + 1))
        BY <1>0, FS_Interval
      <3> HIDE DEF cuts
      <3>. QED BY <2>3, <3>1, FS_Subset
    <2> HIDE DEF cuts
    <2>5. n \in Nat /\ \A k \in 1..n : \E i \in cuts : Cardinality({j \in cuts : j <= i}) = k
      BY <2>3, <2>4, RankIsOnto
    <2>6. \A k \in 1..n : end(k) \in cuts
      BY <2>5
    <2> HIDE DEF end
    <2>7. ASSUME NEW k \in 1..n
          PROVE  Sound(Text(SubSeq(s, start(k), end(k) - 1)), K)
      <3>1. end(k) - 1 \in Int /\ end(k) - 1 <= Len(s)
        <4>1. end(k) \in 1..(Len(s) + 1)
          BY <2>3, <2>6
        <4>. QED BY <1>0, <4>1
      <3>2. start(k) \in Nat \ {0}
        <4>1. CASE k = 1
          BY <4>1
        <4>2. CASE k # 1
          <5>1. k - 1 \in 1..n
            BY <2>5, <4>2
          <5>2. end(k - 1) \in Nat
            BY <2>3, <2>6, <5>1
          <5>. QED BY <4>2, <5>2
        <4>. QED BY <4>1, <4>2
      <3> HIDE DEF start
      <3>3. IsStack(SubSeq(s, start(k), end(k) - 1))
        BY <3>1, <3>2, PartIsStack
      <3>. QED BY <3>3, SoundScalars
    <2> HIDE DEF start, n
    <2>8. DOMAIN t = 1..n /\ t = [k \in 1..n |-> t[k]] /\ \A k \in 1..n : t[k] = Text(SubSeq(s, start(k), end(k) - 1))
      BY <2>1
    <2>9. IsStack(t) /\ Len(t) = n
      BY <2>5, <2>8, StackOfMany
    <2>. QED BY <2>2, <2>5, <2>7, <2>8, <2>9 DEF AllSound
  <1>. QED BY <1>1, <1>2

\* The texts of a list one after the other, however many there are.
LEMMA JoinedIsText ==
  ASSUME NEW texts, IsStack(texts), \A i \in 1..Len(texts) : IsStack(texts[i]),
         NEW sep, IsStack(sep)
  PROVE  IsStack(Joined(texts, sep))
  <1> DEFINE n == Len(texts)
             From(f, i) == IF i = 1 THEN texts[1] ELSE f[i - 1] \o sep \o texts[i]
             Whole(f, m) == DOMAIN f = 1..m /\ \A i \in 1..m : f[i] = From(f, i)
  <1>1. n \in Nat
    BY StackAppend
  <1>2. \A m \in 0..n : \E f : Whole(f, m)
    <2> SUFFICES ASSUME {m \in 0..n : ~ \E f : Whole(f, m)} # {}
                 PROVE  FALSE
      OBVIOUS
    <2> DEFINE T == {m \in 0..n : ~ \E f : Whole(f, m)}
    <2>1. T \in SUBSET Nat /\ T # {}
      OBVIOUS
    <2> HIDE DEF T
    <2>2. PICK m \in T : \A k \in T : m <= k
      BY <2>1, LeastNatural
    <2>3. m \in 0..n /\ ~ \E f : Whole(f, m)
      BY DEF T
    <2>4. CASE m = 0
      <3>1. Whole([i \in 1..0 |-> 0], 0)
        OBVIOUS
      <3>. QED BY <2>3, <2>4, <3>1
    <2>5. CASE m # 0
      <3>1. m - 1 \in 0..n /\ m - 1 \notin T
        BY <1>1, <2>2, <2>3, <2>5
      <3>2. PICK f : Whole(f, m - 1)
        BY <3>1 DEF T
      <3>3. PICK g : g = [i \in 1..m |-> IF i = m THEN From(f, m) ELSE f[i]]
        OBVIOUS
      <3>4. DOMAIN g = 1..m /\ g[m] = From(f, m) /\ \A i \in 1..(m - 1) : g[i] = f[i] /\ f[i] = From(f, i)
        <4> HIDE DEF From
        <4>1. \A i \in 1..(m - 1) : f[i] = From(f, i)
          BY <3>2
        <4>2. m \in 1..m /\ \A i \in 1..(m - 1) : i \in 1..m /\ i # m
          BY <1>1, <2>3, <2>5
        <4>. QED BY <3>3, <4>1, <4>2
      <3>5. ASSUME NEW i \in 1..m
            PROVE  g[i] = From(g, i)
        <4>0. g[i] = From(f, i)
          <5>1. i = m \/ i \in 1..(m - 1)
            BY <1>1, <2>3
          <5> HIDE DEF From
          <5>. QED BY <3>4, <5>1
        <4>1. CASE i = 1
          BY <4>0, <4>1
        <4>2. CASE i # 1
          <5>1. i - 1 \in 1..(m - 1)
            BY <2>3, <4>2
          <5>2. g[i - 1] = f[i - 1]
            BY <3>4, <5>1
          <5>. QED BY <4>0, <4>2, <5>2
        <4>. QED BY <4>1, <4>2
      <3> HIDE DEF From
      <3>6. Whole(g, m)
        BY <3>4, <3>5
      <3>. QED BY <2>3, <3>6
    <2>. QED BY <2>4, <2>5
  <1>3. ASSUME NEW f, Whole(f, n)
        PROVE  \A i \in 1..n : IsStack(f[i])
    <2> SUFFICES ASSUME {i \in 1..n : ~ IsStack(f[i])} # {}
                 PROVE  FALSE
      OBVIOUS
    <2> DEFINE T == {i \in 1..n : ~ IsStack(f[i])}
    <2>1. T \in SUBSET Nat /\ T # {}
      OBVIOUS
    <2> HIDE DEF T
    <2>2. PICK i \in T : \A k \in T : i <= k
      BY <2>1, LeastNatural
    <2>3. i \in 1..n /\ ~ IsStack(f[i])
      BY DEF T
    <2>4. f[i] = From(f, i)
      BY <1>3, <2>3
    <2>5. CASE i = 1
      BY <2>3, <2>4, <2>5
    <2>6. CASE i # 1
      <3>1. i - 1 \in 1..n /\ i - 1 \notin T
        BY <1>1, <2>2, <2>3, <2>6
      <3>2. IsStack(f[i - 1]) /\ IsStack(texts[i])
        BY <2>3, <3>1 DEF T
      <3>3. IsStack(f[i - 1] \o sep \o texts[i])
        BY <3>2, StackConcat
      <3>. QED BY <2>3, <2>4, <2>6, <3>3
    <2>. QED BY <2>5, <2>6
  <1>4. CASE texts = <<>>
    BY <1>4, AllSoundEmpty DEF AllSound, Joined
  <1>5. CASE texts # <<>>
    <2> DEFINE whole[i \in 1..n] == From(whole, i)
    <2>1. \E f : f = [i \in 1..n |-> From(f, i)]
      <3>1. PICK f : Whole(f, n)
        BY <1>1, <1>2
      <3>2. PICK g : g = [i \in 1..n |-> f[i]]
        OBVIOUS
      <3>3. \A i \in 1..n : i - 1 \in 1..n \/ i = 1
        BY <1>1
      <3>4. \A i \in 1..n : g[i] = f[i] /\ f[i] = From(f, i) /\ (i # 1 => g[i - 1] = f[i - 1])
        BY <3>1, <3>2, <3>3
      <3>5. \A i \in 1..n : From(g, i) = From(f, i)
        BY <3>4
      <3> HIDE DEF From
      <3>6. [i \in 1..n |-> From(g, i)] = [i \in 1..n |-> f[i]]
        BY <3>4, <3>5
      <3>. QED BY <3>2, <3>6
    <2>2. whole = [i \in 1..n |-> From(whole, i)]
      BY <2>1
    <2>3. Joined(texts, sep) = whole[n]
      BY <1>5 DEF Joined
    <2> HIDE DEF whole, From
    <2>4. Whole(whole, n)
      <3>1. DOMAIN [i \in 1..n |-> From(whole, i)] = 1..n
        OBVIOUS
      <3>2. \A i \in 1..n : [k \in 1..n |-> From(whole, k)][i] = From(whole, i)
        OBVIOUS
      <3>. QED BY <2>2, <3>1, <3>2
    <2>5. n \in 1..n
      <3>1. PICK S : texts \in Seq(S)
        BY DEF IsStack
      <3>. QED BY <1>5, <3>1
    <2> HIDE DEF n, Whole
    <2>6. \A i \in 1..n : IsStack(whole[i])
      BY <1>3, <2>4
    <2>. QED BY <2>3, <2>5, <2>6
  <1>. QED BY <1>4, <1>5

\* A dictionary of values that are sound for K.
IsDictionary(d, K) == IsFiniteSet(DOMAIN d) /\ \A k \in DOMAIN d : IsStack(k) /\ Sound(d[k], K)

\* The keys in order are the keys of the dictionary, each once.
LEMMA KeysAreSound ==
  ASSUME NEW K, NEW L, NEW d, IsDictionary(d, L)
  PROVE  /\ AllSound(SortedKeys(d), K)
         /\ Len(SortedKeys(d)) \in Nat /\ DOMAIN SortedKeys(d) = 1..Len(SortedKeys(d))
         /\ {SortedKeys(d)[i][2] : i \in DOMAIN SortedKeys(d)} = DOMAIN d
         /\ \A i, j \in DOMAIN SortedKeys(d) : i # j => SortedKeys(d)[i][2] # SortedKeys(d)[j][2]
  <1> DEFINE S == DOMAIN d
             n == Cardinality(S)
             orders == Seqs!SetToSeqs(S)
             sorted == {ks \in orders : \A i, j \in DOMAIN ks : i < j => Before(ks[i], ks[j])}
             keys == CHOOSE ks \in orders : sorted = {} \/ ks \in sorted
  <1>1. n \in Nat /\ ExistsBijection(1..n, S) /\ \A k \in S : IsStack(k)
    <2>1. IsFiniteSet(S) /\ \A k \in S : IsStack(k)
      BY DEF IsDictionary
    <2> HIDE DEF S
    <2>. QED BY <2>1, FS_CardinalityType
  <1>2. orders = {f \in [1..n -> S] : \A i, j \in 1..n : i # j => f[i] # f[j]}
    BY DEF Seqs!SetToSeqs, Seqs!Cardinality, Cardinality
  <1>3. orders # {}
    <2>1. PICK f : f \in [1..n -> S] /\ \A i, j \in 1..n : f[i] = f[j] => i = j
      BY <1>1 DEF ExistsBijection, Bijection, Injection, IsInjective
    <2> HIDE DEF orders, n
    <2>. QED BY <1>2, <2>1
  <1>4. keys \in orders
    <2> HIDE DEF orders
    <2>1. sorted \subseteq orders
      OBVIOUS
    <2>2. CASE sorted = {}
      BY <1>3, <2>2
    <2>3. CASE sorted # {}
      <3>1. \E ks \in orders : ks \in sorted
        BY <2>1, <2>3
      <3> HIDE DEF sorted
      <3>. QED BY <3>1
    <2>. QED BY <2>2, <2>3
  <1>5. SortedKeys(d) = [i \in DOMAIN keys |-> Text(keys[i])]
    BY DEF SortedKeys
  <1> HIDE DEF keys, orders, n, S
  <1>6. keys \in [1..n -> S] /\ \A i, j \in 1..n : i # j => keys[i] # keys[j]
    BY <1>2, <1>4
  <1>7. \A k \in S : \E i \in 1..n : keys[i] = k
    <2>1. keys \in Injection(1..n, S)
      BY <1>6 DEF Injection, IsInjective
    <2>2. IsFiniteSet(S) /\ n = Cardinality(S)
      BY DEF S, n, IsDictionary
    <2>3. Cardinality(1..n) = n
      BY <1>1, FS_Interval
    <2>4. keys \in Surjection(1..n, S)
      BY <2>1, <2>2, <2>3, FS_Injection
    <2>. QED BY <2>4 DEF Surjection
  <1>8. PICK t : t = [i \in DOMAIN keys |-> Text(keys[i])]
    OBVIOUS
  <1>9. DOMAIN t = 1..n /\ t = [i \in 1..n |-> t[i]] /\ \A i \in 1..n : t[i] = Text(keys[i]) /\ keys[i] \in S
    BY <1>6, <1>8
  <1>10. IsStack(t) /\ Len(t) = n
    BY <1>1, <1>9, StackOfMany
  <1>11. \A i \in 1..n : Sound(t[i], K)
    BY <1>1, <1>9, SoundScalars
  <1>12. \A i \in 1..n : t[i][2] = keys[i]
    BY <1>9 DEF Text
  <1>13. {t[i][2] : i \in DOMAIN t} = S
    <2>1. \A i \in 1..n : t[i][2] \in S
      BY <1>9, <1>12
    <2>2. \A k \in S : \E i \in 1..n : t[i][2] = k
      BY <1>7, <1>12
    <2>3. DOMAIN t = 1..n
      BY <1>9
    <2>. QED BY <2>1, <2>2, <2>3
  <1>14. \A i, j \in DOMAIN t : i # j => t[i][2] # t[j][2]
    BY <1>6, <1>9, <1>12
  <1>. QED BY <1>1, <1>5, <1>8, <1>9, <1>10, <1>11, <1>13, <1>14 DEF AllSound, S

LEMMA WithIsDictionary ==
  ASSUME NEW K, NEW d, IsDictionary(d, K), NEW k, IsStack(k), NEW v, Sound(v, K)
  PROVE  IsDictionary(With(d, k, v), K) /\ IsDictionary(Without(d, k), K)
  <1>1. IsFiniteSet(DOMAIN d \cup {k}) /\ IsFiniteSet(DOMAIN d \ {k})
    BY FS_AddElement, FS_RemoveElement DEF IsDictionary
  <1>2. PICK e : e = With(d, k, v)
    OBVIOUS
  <1>3. DOMAIN e = DOMAIN d \cup {k} /\ \A x \in DOMAIN e : e[x] = IF x = k THEN v ELSE d[x]
    BY <1>2 DEF With
  <1>4. PICK f : f = Without(d, k)
    OBVIOUS
  <1>5. DOMAIN f = DOMAIN d \ {k} /\ \A x \in DOMAIN f : f[x] = d[x]
    BY <1>4 DEF Without
  <1>6. IsDictionary(e, K)
    BY <1>1, <1>3 DEF IsDictionary
  <1>7. IsDictionary(f, K)
    BY <1>1, <1>5 DEF IsDictionary
  <1>. QED BY <1>2, <1>4, <1>6, <1>7

LEMMA HeldIsSound ==
  ASSUME NEW K, NEW d, IsDictionary(d, K), NEW k
  PROVE  Sound(Held(d, k), K)
  BY SoundScalars DEF IsDictionary, Held

LEMMA PairsAreDictionary ==
  ASSUME NEW K, NEW vs, AllSound(vs, K)
  PROVE  IsDictionary(FromPairs(vs), K)
  <1> DEFINE n == Len(vs) \div 2
             key(i) == Sprint(vs[2 * i - 1])
             last(k) == CHOOSE i \in 1..n : key(i) = k /\ \A j \in 1..n : key(j) = k => j <= i
             ks == {key(i) : i \in 1..n}
  <1>1. Len(vs) \in Nat
    BY StackAppend DEF AllSound
  <1>2. n \in Nat /\ \A i \in 1..n : 2 * i - 1 \in 1..Len(vs) /\ 2 * i \in 1..Len(vs)
    BY <1>1
  <1>3. PICK d : d = FromPairs(vs)
    OBVIOUS
  <1>4. d = [k \in ks |-> vs[2 * last(k)]]
    BY <1>3 DEF FromPairs
  <1> HIDE DEF n
  <1>5. IsFiniteSet(ks)
    <2>1. [i \in 1..n |-> key(i)] \in Surjection(1..n, ks)
      BY DEF Surjection
    <2>2. IsFiniteSet(1..n)
      BY <1>2, FS_Interval
    <2> HIDE DEF key, ks
    <2>. QED BY <2>1, <2>2, FS_Surjection
  <1>6. \A i \in 1..n : IsStack(key(i))
    <2>1. \A i \in 1..n : Sound(vs[2 * i - 1], K)
      BY <1>2 DEF AllSound
    <2>. QED BY <2>1, SprintIsText
  <1>7. ASSUME NEW k \in ks
        PROVE  IsStack(k) /\ Sound(vs[2 * last(k)], K)
    <2> HIDE DEF key
    <2>1. PICK i \in 1..n : k = key(i)
      OBVIOUS
    <2>2. {j \in 1..n : key(j) = k} \in SUBSET (1..n) /\ {j \in 1..n : key(j) = k} # {}
      BY <2>1
    <2>3. PICK m \in {j \in 1..n : key(j) = k} : \A j \in {j \in 1..n : key(j) = k} : j <= m
      BY <1>2, <2>2, GreatestNatural
    <2>4. last(k) \in 1..n
      BY <2>3
    <2> HIDE DEF last
    <2>. QED BY <1>2, <1>6, <2>1, <2>4 DEF AllSound
  <1> HIDE DEF last, ks
  <1>8. DOMAIN d = ks /\ \A k \in ks : d[k] = vs[2 * last(k)]
    BY <1>4
  <1>. QED BY <1>3, <1>5, <1>7, <1>8 DEF IsDictionary

\* The constants of a program.
LEMMA ConstantIsSound ==
  ASSUME NEW K, NEW v, IsConstant(v)
  PROVE  Sound(v, K)
  <1>1. CASE IsList(v)
    <2>1. v[2] = <<>>
      BY <1>1 DEF IsConstant
    <2>2. Made(v, {v}, K)
      <3>1. v[2] \in Seq({v})
        BY <2>1
      <3>. QED BY <1>1, <3>1 DEF Made, IsText, IsList, IsDict
    <2>. QED BY <2>2 DEF Sound
  <1>2. CASE ~ IsList(v)
    <2>1. IsText(v) => IsStack(v[2])
      BY DEF IsConstant, IsStack
    <2>. QED BY <1>2, <2>1, SoundAlone DEF IsConstant
  <1>. QED BY <1>1, <1>2

-----------------------------------------------------------------------------
(* Where the dictionaries of an agent are.  h numbers the place of each     *)
(* dictionary by the scope that started the agent it was made for, and 1    *)
(* for the program that is in none.                                         *)

Region(h, n, c) == {p \in 1..n : h[p] = c}

\* The dictionaries made since keep to what was said of the ones before.
Grows(h, n, g, k) == n \in Nat /\ k \in Nat /\ n <= k /\ \A p \in 1..n : g[p] = h[p]

HeapIsSound(H, h) == IsStack(H) /\ \A p \in 1..Len(H) : IsDictionary(H[p], Region(h, Len(H), h[p]))

\* m says which activation each scope but the first is of.
Entered(f) == f.kind \in {"call", "agent"}
Matches(m, fs, es) ==
  /\ \A d \in 2..Len(es) : m[d] \in 1..Len(fs) /\ fs[m[d]].kind = IF es[d].clone THEN "agent" ELSE "call"
  /\ \A c, d \in 2..Len(es) : c < d => m[c] < m[d]
  /\ \A i \in 1..Len(fs) : Entered(fs[i]) => \E d \in 2..Len(es) : m[d] = i

AreScopes(es) ==
  /\ IsStack(es) /\ Len(es) > 0 /\ es[1].clone
  /\ \A d \in 1..Len(es) : DOMAIN es[d] = {"bound", "clone"}

\* c is the cloned scope that the scope d is in.
Inside(es, c, d) == c \in 1..d /\ es[c].clone /\ \A k \in (c + 1)..d : ~ es[k].clone

ScopesAreSound(es, h, n) ==
  \A d \in 1..Len(es) : \A c : Inside(es, c, d) =>
    \A x \in DOMAIN es[d].bound : Sound(es[d].bound[x], Region(h, n, c))

\* What the spawner of an agent has on its stack.
KeptIsSound(m, fs, es, h, n) ==
  \A d \in 2..Len(es) : es[d].clone =>
    \A c : Inside(es, c, d - 1) => AllSound(fs[m[d]].kept, Region(h, n, c))

\* What the innermost activation computes with.
HereIsSound(es, s, p, h, n) ==
  \A c : Inside(es, c, Len(es)) => AllSound(s, Region(h, n, c)) /\ Ends(p, Region(h, n, c))

LedgerKnows(l, h, n) == l.complete => \A p \in 1..n : h[p] = 1 <=> Known(l, p)

Apart(h, m) ==
  /\ HeapIsSound(heap, h)
  /\ AreScopes(envs) /\ Matches(m, frames, envs)
  /\ ScopesAreSound(envs, h, Len(heap))
  /\ KeptIsSound(m, frames, envs, h, Len(heap))
  /\ HereIsSound(envs, stack, panic, h, Len(heap))
  /\ LedgerKnows(ledger, h, Len(heap))

LEMMA RegionGrows ==
  ASSUME NEW h, NEW n, NEW g, NEW k, Grows(h, n, g, k), NEW c
  PROVE  Region(h, n, c) \subseteq Region(g, k, c)
  BY DEF Region, Grows

LEMMA DictionaryGrows ==
  ASSUME NEW K, NEW L, K \subseteq L, NEW d, IsDictionary(d, K)
  PROVE  IsDictionary(d, L)
  BY SoundGrows DEF IsDictionary

LEMMA EndsGrow ==
  ASSUME NEW K, NEW L, K \subseteq L, NEW p, Ends(p, K)
  PROVE  Ends(p, L)
  BY SoundGrows DEF Ends

\* There is a cloned scope that a scope is in, and it is the only one.
LEMMA OneClone ==
  ASSUME NEW es, AreScopes(es), NEW d \in 1..Len(es)
  PROVE  \E c : Inside(es, c, d) /\ \A b : Inside(es, b, d) => b = c
  <1> DEFINE T == {c \in 1..d : es[c].clone}
  <1>1. Len(es) \in Nat
    BY StackAppend DEF AreScopes
  <1>2. d \in Nat /\ T \in SUBSET (1..d) /\ 1 \in T
    BY <1>1 DEF AreScopes
  <1>3. PICK c \in T : \A k \in T : k <= c
    BY <1>2, GreatestNatural
  <1>4. Inside(es, c, d)
    BY <1>2, <1>3 DEF Inside
  <1>5. ASSUME NEW b, Inside(es, b, d)
        PROVE  b = c
    <2>1. b \in T /\ b <= c
      BY <1>3, <1>5 DEF Inside
    <2>2. CASE b < c
      <3>1. c \in (b + 1)..d
        BY <1>2, <1>3, <2>1, <2>2
      <3>. QED BY <1>4, <1>5, <3>1 DEF Inside
    <2>. QED BY <1>2, <1>3, <2>1, <2>2
  <1>. QED BY <1>4, <1>5

\* The activations with a scope of their own are where they were.
SameScopes(fs, gs) ==
  \A i : /\ (i \in 1..Len(fs) /\ Entered(fs[i])) <=> (i \in 1..Len(gs) /\ Entered(gs[i]))
         /\ i \in 1..Len(fs) /\ Entered(fs[i]) => gs[i].kind = fs[i].kind /\ gs[i].kept = fs[i].kept

\* es with the value v for x in the scope i.
Rebound(es, ds, i, x, v) ==
  /\ i \in 1..Len(es) /\ ds = [es EXCEPT ![i].bound = With(@, x, v)]
  /\ \A k \in (i + 1)..Len(es) : ~ es[k].clone

LEMMA ReboundScopes ==
  ASSUME NEW es, AreScopes(es), NEW ds, NEW i, NEW x, NEW v, Rebound(es, ds, i, x, v)
  PROVE  /\ AreScopes(ds) /\ Len(ds) = Len(es)
         /\ \A d \in 1..Len(es) : ds[d].clone = es[d].clone
         /\ \A d \in 1..Len(es) : d # i => ds[d] = es[d]
         /\ DOMAIN ds[i].bound = DOMAIN es[i].bound \cup {x}
         /\ \A y \in DOMAIN ds[i].bound : ds[i].bound[y] = IF y = x THEN v ELSE es[i].bound[y]
  <1>1. PICK S : es \in Seq(S)
    BY DEF AreScopes, IsStack
  <1>2. PICK b : b = With(es[i].bound, x, v)
    OBVIOUS
  <1>3. DOMAIN b = DOMAIN es[i].bound \cup {x} /\ \A y \in DOMAIN b : b[y] = IF y = x THEN v ELSE es[i].bound[y]
    BY <1>2 DEF With
  <1>4. PICK r : r = [es[i] EXCEPT !.bound = b]
    OBVIOUS
  <1>5. i \in 1..Len(es) /\ DOMAIN es[i] = {"bound", "clone"}
    BY DEF Rebound, AreScopes
  <1>6. r.bound = b /\ r.clone = es[i].clone /\ DOMAIN r = {"bound", "clone"}
    BY <1>4, <1>5
  <1>7. ds = [es EXCEPT ![i] = r]
    BY <1>2, <1>4 DEF Rebound
  <1>8. es \in Seq(S \cup {r})
    BY <1>1
  <1>9. ds \in Seq(S \cup {r}) /\ Len(ds) = Len(es)
    BY <1>5, <1>7, <1>8
  <1>10. \A d \in 1..Len(es) : ds[d] = IF d = i THEN r ELSE es[d]
    BY <1>1, <1>5, <1>7
  <1>11. \A d \in 1..Len(es) : ds[d].clone = es[d].clone /\ DOMAIN ds[d] = {"bound", "clone"}
    BY <1>6, <1>10 DEF AreScopes
  <1>12. AreScopes(ds)
    <2>1. Len(es) \in Nat /\ 1 \in 1..Len(es)
      BY <1>1 DEF AreScopes
    <2>. QED BY <1>9, <1>11, <2>1 DEF AreScopes, IsStack
  <1>. QED BY <1>3, <1>5, <1>6, <1>9, <1>10, <1>11, <1>12

LEMMA InsideSame ==
  ASSUME NEW es, NEW ds, Len(es) \in Nat, Len(es) <= Len(ds), Len(ds) \in Nat,
         \A d \in 1..Len(es) : ds[d].clone = es[d].clone,
         NEW d \in 1..Len(es), NEW c
  PROVE  Inside(es, c, d) <=> Inside(ds, c, d)
  <1>1. \A k \in 1..d : ds[k].clone = es[k].clone
    OBVIOUS
  <1>2. \A b \in 1..d : \A k \in (b + 1)..d : k \in 1..d
    OBVIOUS
  <1>. QED BY <1>1, <1>2 DEF Inside

LEMMA MatchesFrames ==
  ASSUME NEW m, NEW fs, NEW es, Matches(m, fs, es), NEW gs, SameScopes(fs, gs)
  PROVE  /\ Matches(m, gs, es)
         /\ \A d \in 2..Len(es) : gs[m[d]].kept = fs[m[d]].kept
  <1>1. ASSUME NEW d \in 2..Len(es)
        PROVE  /\ m[d] \in 1..Len(gs) /\ gs[m[d]].kind = fs[m[d]].kind
               /\ gs[m[d]].kept = fs[m[d]].kept
               /\ gs[m[d]].kind = IF es[d].clone THEN "agent" ELSE "call"
    <2>1. m[d] \in 1..Len(fs) /\ fs[m[d]].kind = IF es[d].clone THEN "agent" ELSE "call"
      BY DEF Matches
    <2>2. Entered(fs[m[d]])
      BY <2>1 DEF Entered
    <2>. QED BY <2>1, <2>2 DEF SameScopes
  <1>2. ASSUME NEW i \in 1..Len(gs), Entered(gs[i])
        PROVE  \E d \in 2..Len(es) : m[d] = i
    BY <1>2 DEF SameScopes, Matches
  <1>3. \A c, d \in 2..Len(es) : c < d => m[c] < m[d]
    BY DEF Matches
  <1>. QED BY <1>1, <1>2, <1>3 DEF Matches

\* The activations that have a scope are those of scopes in number and kind as
\* they were.
LEMMA MatchesSame ==
  ASSUME NEW m, NEW fs, NEW es, Matches(m, fs, es), NEW gs, SameScopes(fs, gs),
         NEW ds, Len(ds) = Len(es), Len(es) \in Nat, \A d \in 1..Len(es) : ds[d].clone = es[d].clone
  PROVE  /\ Matches(m, gs, ds)
         /\ \A d \in 2..Len(es) : gs[m[d]].kept = fs[m[d]].kept
  <1>1. /\ Matches(m, gs, es)
        /\ \A d \in 2..Len(es) : gs[m[d]].kept = fs[m[d]].kept
    BY MatchesFrames
  <1>2. \A d \in 2..Len(es) : ds[d].clone = es[d].clone
    OBVIOUS
  <1>. QED BY <1>1, <1>2 DEF Matches

LEMMA KeptGrows ==
  ASSUME NEW m, NEW fs, NEW es, NEW h, NEW n, KeptIsSound(m, fs, es, h, n), Len(es) \in Nat,
         NEW gs, NEW ds, Len(ds) = Len(es), \A d \in 1..Len(es) : ds[d].clone = es[d].clone,
         \A d \in 2..Len(es) : gs[m[d]].kept = fs[m[d]].kept,
         NEW g, NEW k, Grows(h, n, g, k)
  PROVE  KeptIsSound(m, gs, ds, g, k)
  <1>1. ASSUME NEW d \in 2..Len(es), ds[d].clone, NEW c, Inside(ds, c, d - 1)
        PROVE  AllSound(gs[m[d]].kept, Region(g, k, c))
    <2>1. d - 1 \in 1..Len(es) /\ d \in 1..Len(es)
      OBVIOUS
    <2>2. Inside(es, c, d - 1)
      BY <1>1, <2>1, InsideSame
    <2>3. AllSound(fs[m[d]].kept, Region(h, n, c))
      BY <1>1, <2>1, <2>2 DEF KeptIsSound
    <2>4. Region(h, n, c) \subseteq Region(g, k, c)
      BY RegionGrows
    <2>. QED BY <2>3, <2>4, AllSoundGrow
  <1>. QED BY <1>1 DEF KeptIsSound

\* A value put where a scope may have it.
LEMMA ScopesGrow ==
  ASSUME NEW es, AreScopes(es), NEW h, NEW n, ScopesAreSound(es, h, n),
         NEW g, NEW k, Grows(h, n, g, k),
         NEW ds, \/ ds = es
                 \/ \E i, x, v : /\ Rebound(es, ds, i, x, v)
                                 /\ \A c : Inside(es, c, Len(es)) => Sound(v, Region(g, k, c))
  PROVE  /\ AreScopes(ds) /\ Len(ds) = Len(es) /\ Len(es) \in Nat
         /\ \A d \in 1..Len(es) : ds[d].clone = es[d].clone
         /\ ScopesAreSound(ds, g, k)
  <1>0. Len(es) \in Nat
    BY StackAppend DEF AreScopes
  <1>1. ASSUME NEW d \in 1..Len(es), NEW c, Inside(es, c, d), NEW x \in DOMAIN es[d].bound
        PROVE  Sound(es[d].bound[x], Region(g, k, c))
    <2>1. Sound(es[d].bound[x], Region(h, n, c))
      BY <1>1 DEF ScopesAreSound
    <2>2. Region(h, n, c) \subseteq Region(g, k, c)
      BY RegionGrows
    <2>. QED BY <2>1, <2>2, SoundGrows
  <1>2. CASE ds = es
    BY <1>0, <1>1, <1>2 DEF ScopesAreSound
  <1>3. ASSUME NEW i, NEW x, NEW v, Rebound(es, ds, i, x, v),
               \A c : Inside(es, c, Len(es)) => Sound(v, Region(g, k, c))
        PROVE  /\ AreScopes(ds) /\ Len(ds) = Len(es)
               /\ \A d \in 1..Len(es) : ds[d].clone = es[d].clone
               /\ ScopesAreSound(ds, g, k)
    <2>1. /\ AreScopes(ds) /\ Len(ds) = Len(es)
          /\ \A d \in 1..Len(es) : ds[d].clone = es[d].clone
          /\ \A d \in 1..Len(es) : d # i => ds[d] = es[d]
          /\ DOMAIN ds[i].bound = DOMAIN es[i].bound \cup {x}
          /\ \A y \in DOMAIN ds[i].bound : ds[i].bound[y] = IF y = x THEN v ELSE es[i].bound[y]
      BY <1>3, ReboundScopes
    <2>2. ASSUME NEW d \in 1..Len(es), NEW c, Inside(ds, c, d), NEW y \in DOMAIN ds[d].bound
          PROVE  Sound(ds[d].bound[y], Region(g, k, c))
      <3>1. Inside(es, c, d)
        BY <1>0, <2>1, <2>2, InsideSame
      <3>2. CASE d # i
        BY <1>1, <2>1, <3>1, <3>2
      <3>3. CASE d = i
        <4>1. CASE y # x
          BY <1>1, <2>1, <3>1, <3>3, <4>1
        <4>2. CASE y = x
          <5>1. Inside(es, c, Len(es))
            BY <1>0, <1>3, <3>1, <3>3 DEF Inside, Rebound
          <5>. QED BY <1>3, <2>1, <3>3, <4>2, <5>1
        <4>. QED BY <4>1, <4>2
      <3>. QED BY <3>2, <3>3
    <2>. QED BY <2>1, <2>2 DEF ScopesAreSound
  <1>. QED BY <1>0, <1>2, <1>3

\* An activation with a scope of its own starts.
Reached(m, fs, es) == [d \in 2..(Len(es) + 1) |-> IF d = Len(es) + 1 THEN Len(fs) + 1 ELSE m[d]]

Starts(fs, gs, f, es, ds, e) ==
  /\ IsStack(fs) /\ gs = Append(fs, f) /\ ds = Append(es, e)
  /\ DOMAIN e = {"bound", "clone"} /\ f.kind = IF e.clone THEN "agent" ELSE "call"

LEMMA PushScopes ==
  ASSUME NEW fs, NEW es, AreScopes(es), NEW m, Matches(m, fs, es),
         NEW f, NEW e, NEW ds, NEW gs, Starts(fs, gs, f, es, ds, e), NEW q, q = Reached(m, fs, es)
  PROVE  /\ AreScopes(ds) /\ Len(ds) = Len(es) + 1 /\ Len(es) \in Nat /\ ds[Len(es) + 1] = e
         /\ \A d \in 1..Len(es) : ds[d] = es[d]
         /\ Matches(q, gs, ds) /\ gs[q[Len(es) + 1]] = f
         /\ \A d \in 2..Len(es) : gs[q[d]] = fs[m[d]]
  <1>1. PICK S : es \in Seq(S)
    BY DEF AreScopes, IsStack
  <1>2. PICK F : fs \in Seq(F)
    BY DEF Starts, IsStack
  <1>3. /\ gs = Append(fs, f) /\ ds = Append(es, e)
        /\ DOMAIN e = {"bound", "clone"} /\ f.kind = IF e.clone THEN "agent" ELSE "call"
    BY DEF Starts
  <1>5. es \in Seq(S \cup {e}) /\ fs \in Seq(F \cup {f})
    BY <1>1, <1>2
  <1>6. /\ ds \in Seq(S \cup {e}) /\ Len(ds) = Len(es) + 1 /\ Len(es) \in Nat /\ ds[Len(es) + 1] = e
        /\ \A d \in 1..Len(es) : ds[d] = es[d]
    BY <1>3, <1>5
  <1>7. /\ Len(gs) = Len(fs) + 1 /\ Len(fs) \in Nat /\ gs[Len(fs) + 1] = f
        /\ \A i \in 1..Len(fs) : gs[i] = fs[i]
    BY <1>3, <1>5
  <1>8. AreScopes(ds)
    <2>1. \A d \in 1..Len(ds) : DOMAIN ds[d] = {"bound", "clone"}
      BY <1>3, <1>6 DEF AreScopes
    <2>. QED BY <1>6, <2>1 DEF AreScopes, IsStack
  <1>10. q[Len(es) + 1] = Len(fs) + 1 /\ \A d \in 2..Len(es) : q[d] = m[d]
    <2>1. Len(es) + 1 \in 2..(Len(es) + 1) /\ \A d \in 2..Len(es) : d \in 2..(Len(es) + 1) /\ d # Len(es) + 1
      BY <1>6 DEF AreScopes
    <2>. QED BY <2>1 DEF Reached
  <1>11. \A d \in 2..Len(es) : m[d] \in 1..Len(fs) /\ gs[m[d]] = fs[m[d]]
    BY <1>7 DEF Matches
  <1>12. Matches(q, gs, ds)
    <2>1. ASSUME NEW d \in 2..Len(ds)
          PROVE  q[d] \in 1..Len(gs) /\ gs[q[d]].kind = IF ds[d].clone THEN "agent" ELSE "call"
      <3>1. CASE d = Len(es) + 1
        BY <1>3, <1>6, <1>7, <1>10, <3>1
      <3>2. CASE d # Len(es) + 1
        <4>1. d \in 2..Len(es) /\ d \in 1..Len(es)
          BY <1>6, <3>2
        <4>2. m[d] \in 1..Len(fs) /\ fs[m[d]].kind = IF es[d].clone THEN "agent" ELSE "call"
          BY <4>1 DEF Matches
        <4>. QED BY <1>6, <1>7, <1>10, <1>11, <4>1, <4>2
      <3>. QED BY <3>1, <3>2
    <2>2. ASSUME NEW c \in 2..Len(ds), NEW d \in 2..Len(ds), c < d
          PROVE  q[c] < q[d]
      <3>1. c \in 2..Len(es)
        BY <1>6, <2>2
      <3>2. CASE d = Len(es) + 1
        BY <1>7, <1>10, <1>11, <3>1, <3>2
      <3>3. CASE d # Len(es) + 1
        <4>1. d \in 2..Len(es)
          BY <1>6, <3>3
        <4>. QED BY <1>10, <2>2, <3>1, <4>1 DEF Matches
      <3>. QED BY <3>2, <3>3
    <2>3. ASSUME NEW i \in 1..Len(gs), Entered(gs[i])
          PROVE  \E d \in 2..Len(ds) : q[d] = i
      <3>1. CASE i = Len(fs) + 1
        <4>1. Len(es) + 1 \in 2..Len(ds)
          BY <1>6 DEF AreScopes
        <4>. QED BY <1>10, <3>1, <4>1
      <3>2. CASE i # Len(fs) + 1
        <4>1. i \in 1..Len(fs) /\ Entered(fs[i])
          BY <1>7, <2>3, <3>2
        <4>2. PICK d \in 2..Len(es) : m[d] = i
          BY <4>1 DEF Matches
        <4>3. d \in 2..Len(ds)
          BY <1>6
        <4>. QED BY <1>10, <4>2, <4>3
      <3>. QED BY <3>1, <3>2
    <2>. QED BY <2>1, <2>2, <2>3 DEF Matches
  <1>. QED BY <1>6, <1>7, <1>8, <1>10, <1>11, <1>12

\* All of a sequence but its last.
IsFront(t, s) == t = SubSeq(s, 1, Len(s) - 1)

LEMMA FrontParts ==
  ASSUME NEW s, IsStack(s), Len(s) > 0, NEW t, IsFront(t, s)
  PROVE  /\ IsStack(t) /\ Len(s) \in Nat /\ Len(t) = Len(s) - 1
         /\ \A i \in 1..Len(t) : t[i] = s[i] /\ i \in 1..Len(s)
  <1>1. PICK S : s \in Seq(S)
    BY DEF IsStack
  <1>2. t \in Seq(S) /\ Len(t) = Len(s) - 1 /\ Len(s) \in Nat
    <2>1. PICK n \in Int : n = Len(s) - 1
      BY <1>1
    <2>2. SubSeq(s, 1, n) \in Seq(S) /\ Len(SubSeq(s, 1, n)) = IF 1 <= n THEN n - 1 + 1 ELSE 0
      BY <1>1, <2>1
    <2>3. Len(s) \in Nat
      BY <1>1
    <2>. QED BY <2>1, <2>2, <2>3 DEF IsFront
  <1>3. \A i \in 1..(Len(s) - 1) : t[i] = s[i] /\ i \in 1..Len(s)
    BY <1>1 DEF IsFront
  <1>. QED BY <1>2, <1>3 DEF IsStack

\* An activation with a scope of its own is over: the scope is the last.
LEMMA PopScopes ==
  ASSUME NEW fs, IsStack(fs), Len(fs) > 0, Entered(fs[Len(fs)]),
         NEW es, AreScopes(es), NEW m, Matches(m, fs, es),
         NEW ds, IsFront(ds, es),
         NEW bs, IsFront(bs, fs), NEW gs, SameScopes(bs, gs)
  PROVE  /\ Len(es) \in Nat /\ Len(es) > 1 /\ m[Len(es)] = Len(fs)
         /\ es[Len(es)].clone <=> fs[Len(fs)].kind = "agent"
         /\ AreScopes(ds) /\ Len(ds) = Len(es) - 1
         /\ \A d \in 1..Len(ds) : ds[d] = es[d]
         /\ Matches(m, gs, ds)
         /\ \A d \in 2..Len(ds) : gs[m[d]].kept = fs[m[d]].kept
  <1>1. PICK S : es \in Seq(S)
    BY DEF AreScopes, IsStack
  <1>2. PICK F : fs \in Seq(F)
    BY DEF IsStack
  <1>3. Len(fs) \in Nat /\ Len(es) \in Nat /\ Len(fs) \in 1..Len(fs)
    BY <1>1, <1>2
  <1>4. PICK d \in 2..Len(es) : m[d] = Len(fs)
    BY <1>3 DEF Matches
  <1>5. d = Len(es)
    <2>1. CASE d < Len(es)
      <3>1. Len(es) \in 2..Len(es)
        BY <1>3, <1>4
      <3>2. m[d] < m[Len(es)] /\ m[Len(es)] \in 1..Len(fs)
        BY <2>1, <3>1 DEF Matches
      <3>. QED BY <1>3, <1>4, <3>2
    <2>. QED BY <1>3, <2>1
  <1>6. Len(es) > 1 /\ m[Len(es)] = Len(fs)
    BY <1>3, <1>4, <1>5
  <1>7. es[Len(es)].clone <=> fs[Len(fs)].kind = "agent"
    <2>1. fs[Len(fs)].kind = IF es[Len(es)].clone THEN "agent" ELSE "call"
      BY <1>4, <1>5 DEF Matches
    <2>. QED BY <2>1
  <1>8. IsStack(ds) /\ Len(ds) = Len(es) - 1 /\ \A k \in 1..Len(ds) : ds[k] = es[k] /\ k \in 1..Len(es)
    BY <1>6, FrontParts DEF AreScopes
  <1>9. AreScopes(ds)
    <2>1. 1 \in 1..Len(ds) /\ Len(ds) > 0
      BY <1>3, <1>6, <1>8
    <2>2. ds[1].clone /\ \A k \in 1..Len(ds) : DOMAIN ds[k] = {"bound", "clone"}
      BY <1>8, <2>1 DEF AreScopes
    <2>. QED BY <1>8, <2>1, <2>2 DEF AreScopes
  <1>11. Len(bs) = Len(fs) - 1 /\ \A i \in 1..Len(bs) : bs[i] = fs[i] /\ i \in 1..Len(fs)
    BY FrontParts
  <1>12. Matches(m, bs, ds)
    <2>1. ASSUME NEW k \in 2..Len(ds)
          PROVE  m[k] \in 1..Len(bs) /\ bs[m[k]].kind = IF ds[k].clone THEN "agent" ELSE "call"
      <3>1. k \in 2..Len(es) /\ k < Len(es) /\ Len(es) \in 2..Len(es) /\ k \in 1..Len(ds)
        BY <1>3, <1>6, <1>8
      <3>2. m[k] < Len(fs) /\ m[k] \in 1..Len(fs) /\ fs[m[k]].kind = IF es[k].clone THEN "agent" ELSE "call"
        BY <1>6, <3>1 DEF Matches
      <3>3. m[k] \in 1..Len(bs)
        BY <1>3, <1>11, <3>2
      <3>. QED BY <1>8, <1>11, <3>1, <3>2, <3>3
    <2>2. \A c, k \in 2..Len(ds) : c < k => m[c] < m[k]
      <3>1. \A k \in 2..Len(ds) : k \in 2..Len(es)
        BY <1>3, <1>8
      <3>. QED BY <3>1 DEF Matches
    <2>3. ASSUME NEW i \in 1..Len(bs), Entered(bs[i])
          PROVE  \E k \in 2..Len(ds) : m[k] = i
      <3>1. i \in 1..Len(fs) /\ Entered(fs[i]) /\ i # Len(fs)
        <4>1. bs[i] = fs[i] /\ i \in 1..Len(fs) /\ i \in 1..(Len(fs) - 1)
          BY <1>11
        <4>. QED BY <1>3, <2>3, <4>1
      <3>2. PICK k \in 2..Len(es) : m[k] = i
        BY <3>1 DEF Matches
      <3>3. k # Len(es)
        BY <1>6, <3>1, <3>2
      <3>4. k \in 2..Len(ds)
        BY <1>3, <1>8, <3>2, <3>3
      <3>. QED BY <3>2, <3>4
    <2>. QED BY <2>1, <2>2, <2>3 DEF Matches
  <1>13. /\ Matches(m, gs, ds)
         /\ \A k \in 2..Len(ds) : gs[m[k]].kept = bs[m[k]].kept
    BY <1>12, MatchesFrames
  <1>14. \A k \in 2..Len(ds) : bs[m[k]] = fs[m[k]]
    BY <1>11, <1>12 DEF Matches
  <1>. QED BY <1>3, <1>6, <1>7, <1>8, <1>9, <1>13, <1>14

-----------------------------------------------------------------------------
(* Steps that keep the dictionaries of agents apart.                       *)

\* A step inside an activation.
LEMMA WorkApart ==
  ASSUME NEW h, NEW m, Apart(h, m), NEW g, Grows(h, Len(heap), g, Len(heap')),
         HeapIsSound(heap', g), SameScopes(frames, frames'),
         \/ envs' = envs
         \/ \E i, x, v : /\ Rebound(envs, envs', i, x, v)
                         /\ \A c : Inside(envs, c, Len(envs)) => Sound(v, Region(g, Len(heap'), c)),
         HereIsSound(envs, stack', panic', g, Len(heap')),
         LedgerKnows(ledger', g, Len(heap'))
  PROVE  Apart(g, m)'
  <1>1. /\ AreScopes(envs) /\ Matches(m, frames, envs)
        /\ ScopesAreSound(envs, h, Len(heap)) /\ KeptIsSound(m, frames, envs, h, Len(heap))
    BY DEF Apart
  <1>2. PICK ds : ds = envs'
    OBVIOUS
  <1>3. PICK gs : gs = frames'
    OBVIOUS
  <1>4. PICK k : k = Len(heap')
    OBVIOUS
  <1>5. /\ AreScopes(ds) /\ Len(ds) = Len(envs) /\ Len(envs) \in Nat
        /\ \A d \in 1..Len(envs) : ds[d].clone = envs[d].clone
        /\ ScopesAreSound(ds, g, k)
    BY <1>1, <1>2, <1>4, ScopesGrow
  <1>6. Matches(m, gs, ds) /\ \A d \in 2..Len(envs) : gs[m[d]].kept = frames[m[d]].kept
    BY <1>1, <1>3, <1>5, MatchesSame
  <1>7. KeptIsSound(m, gs, ds, g, k)
    BY <1>1, <1>4, <1>5, <1>6, KeptGrows
  <1>8. HereIsSound(ds, stack', panic', g, k)
    <2>1. Len(envs) \in 1..Len(envs)
      BY <1>1, <1>5 DEF AreScopes
    <2>2. \A c : Inside(envs, c, Len(envs)) <=> Inside(ds, c, Len(ds))
      BY <1>5, <2>1, InsideSame
    <2>. QED BY <1>4, <2>2 DEF HereIsSound
  <1>. QED BY <1>2, <1>3, <1>4, <1>5, <1>6, <1>7, <1>8 DEF Apart

\* An activation with a scope of its own starts.
LEMMA EnterApart ==
  ASSUME NEW h, NEW m, Apart(h, m), NEW g, Grows(h, Len(heap), g, Len(heap')),
         HeapIsSound(heap', g), NEW f, NEW e, Starts(frames, frames', f, envs, envs', e),
         \A c : (IF e.clone THEN c = Len(envs) + 1 ELSE Inside(envs, c, Len(envs))) =>
           /\ \A x \in DOMAIN e.bound : Sound(e.bound[x], Region(g, Len(heap'), c))
           /\ AllSound(stack', Region(g, Len(heap'), c)) /\ Ends(panic', Region(g, Len(heap'), c)),
         e.clone => \A c : Inside(envs, c, Len(envs)) => AllSound(f.kept, Region(g, Len(heap'), c)),
         LedgerKnows(ledger', g, Len(heap'))
  PROVE  \E q : Apart(g, q)'
  <1>1. /\ AreScopes(envs) /\ Matches(m, frames, envs)
        /\ ScopesAreSound(envs, h, Len(heap)) /\ KeptIsSound(m, frames, envs, h, Len(heap))
    BY DEF Apart
  <1>2. PICK ds : ds = envs'
    OBVIOUS
  <1>3. PICK gs : gs = frames'
    OBVIOUS
  <1>4. PICK k : k = Len(heap')
    OBVIOUS
  <1>5. PICK q : q = Reached(m, frames, envs)
    OBVIOUS
  <1>6. PICK n : n = Len(envs)
    OBVIOUS
  <1>7. /\ AreScopes(ds) /\ Len(ds) = n + 1 /\ n \in Nat /\ ds[n + 1] = e
        /\ \A d \in 1..n : ds[d] = envs[d]
        /\ Matches(q, gs, ds) /\ gs[q[n + 1]] = f
        /\ \A d \in 2..n : gs[q[d]] = frames[m[d]]
    <2>1. Starts(frames, gs, f, envs, ds, e)
      BY <1>2, <1>3
    <2>. QED BY <1>1, <1>5, <1>6, <2>1, PushScopes
  <1>8. n > 0
    BY <1>1, <1>6 DEF AreScopes
  <1>9. \A d \in 1..n : \A c : Inside(ds, c, d) <=> Inside(envs, c, d)
    <2>1. Len(envs) <= Len(ds) /\ Len(envs) \in Nat /\ Len(ds) \in Nat
          /\ \A d \in 1..Len(envs) : ds[d].clone = envs[d].clone
      BY <1>6, <1>7
    <2>. QED BY <1>6, <2>1, InsideSame
  <1>10. \A c : Inside(ds, c, n + 1) => IF e.clone THEN c = n + 1 ELSE Inside(envs, c, n)
    <2>1. ASSUME NEW c, Inside(ds, c, n + 1), e.clone
          PROVE  c = n + 1
      <3>1. c \in 1..(n + 1) /\ \A j \in (c + 1)..(n + 1) : ~ ds[j].clone
        BY <2>1 DEF Inside
      <3>2. c # n + 1 => n + 1 \in (c + 1)..(n + 1)
        BY <1>7, <3>1
      <3>. QED BY <1>7, <2>1, <3>1, <3>2
    <2>2. ASSUME NEW c, Inside(ds, c, n + 1), ~ e.clone
          PROVE  Inside(envs, c, n)
      <3>1. c \in 1..(n + 1) /\ ds[c].clone /\ \A j \in (c + 1)..(n + 1) : ~ ds[j].clone
        BY <2>2 DEF Inside
      <3>2. c # n + 1
        BY <1>7, <2>2, <3>1
      <3>3. c \in 1..n /\ \A j \in (c + 1)..n : j \in (c + 1)..(n + 1) /\ j \in 1..n
        BY <1>7, <3>1, <3>2
      <3>. QED BY <1>7, <3>1, <3>3 DEF Inside
    <2>. QED BY <2>1, <2>2
  <1>11. ScopesAreSound(ds, g, k)
    <2>1. ScopesAreSound(envs, g, k)
      BY <1>1, <1>4, ScopesGrow
    <2>2. ASSUME NEW d \in 1..Len(ds), NEW c, Inside(ds, c, d), NEW x \in DOMAIN ds[d].bound
          PROVE  Sound(ds[d].bound[x], Region(g, k, c))
      <3>1. CASE d = n + 1
        BY <1>4, <1>6, <1>7, <1>10, <2>2, <3>1
      <3>2. CASE d # n + 1
        <4>1. d \in 1..n
          BY <1>7, <3>2
        <4>2. Inside(envs, c, d) /\ ds[d] = envs[d]
          BY <1>7, <1>9, <2>2, <4>1
        <4>. QED BY <1>6, <2>1, <2>2, <4>1, <4>2 DEF ScopesAreSound
      <3>. QED BY <3>1, <3>2
    <2>. QED BY <2>2 DEF ScopesAreSound
  <1>12. KeptIsSound(q, gs, ds, g, k)
    <2>1. ASSUME NEW d \in 2..Len(ds), ds[d].clone, NEW c, Inside(ds, c, d - 1)
          PROVE  AllSound(gs[q[d]].kept, Region(g, k, c))
      <3>1. d - 1 \in 1..n /\ (d # n + 1 => d \in 2..n)
        BY <1>7
      <3>2. Inside(envs, c, d - 1)
        BY <1>9, <2>1, <3>1
      <3>3. CASE d = n + 1
        <4>1. d - 1 = n
          BY <1>7, <3>3
        <4>. QED BY <1>4, <1>6, <1>7, <2>1, <3>2, <3>3, <4>1
      <3>4. CASE d # n + 1
        <4>1. d \in 2..n /\ d \in 1..n /\ envs[d].clone
          BY <1>7, <2>1, <3>1, <3>4
        <4>2. AllSound(frames[m[d]].kept, Region(h, Len(heap), c))
          BY <1>1, <1>6, <3>2, <4>1 DEF KeptIsSound
        <4>3. Region(h, Len(heap), c) \subseteq Region(g, k, c)
          BY <1>4, RegionGrows
        <4>. QED BY <1>7, <4>1, <4>2, <4>3, AllSoundGrow
      <3>. QED BY <3>3, <3>4
    <2>. QED BY <2>1 DEF KeptIsSound
  <1>13. HereIsSound(ds, stack', panic', g, k)
    BY <1>4, <1>6, <1>7, <1>10 DEF HereIsSound
  <1>14. Apart(g, q)'
    BY <1>2, <1>3, <1>4, <1>7, <1>11, <1>12, <1>13 DEF Apart
  <1>. QED BY <1>14

\* An activation with a scope of its own is over.
LEMMA LeaveApart ==
  ASSUME NEW h, NEW m, Apart(h, m), IsStack(frames), Len(frames) > 0, Entered(Top),
         NEW bs, IsFront(bs, frames), SameScopes(bs, frames'),
         NEW ds, IsFront(ds, envs), envs' = ds, heap' = heap, ledger' = ledger,
         HereIsSound(ds, stack', panic', h, Len(heap))
  PROVE  Apart(h, m)'
  <1>1. /\ AreScopes(envs) /\ Matches(m, frames, envs) /\ HeapIsSound(heap, h)
        /\ ScopesAreSound(envs, h, Len(heap)) /\ KeptIsSound(m, frames, envs, h, Len(heap))
        /\ LedgerKnows(ledger, h, Len(heap))
    BY DEF Apart
  <1>2. PICK gs : gs = frames'
    OBVIOUS
  <1>3. PICK k : k = Len(heap)
    OBVIOUS
  <1>4. /\ Len(envs) \in Nat /\ AreScopes(ds) /\ Len(ds) = Len(envs) - 1
        /\ \A d \in 1..Len(ds) : ds[d] = envs[d]
        /\ Matches(m, gs, ds)
        /\ \A d \in 2..Len(ds) : gs[m[d]].kept = frames[m[d]].kept
    BY <1>1, <1>2, PopScopes DEF Top
  <1>5. Len(ds) \in Nat /\ \A d \in 1..Len(ds) : d \in 1..Len(envs)
    <2>1. Len(ds) \in Nat
      BY <1>4, StackAppend DEF AreScopes
    <2>. QED BY <1>4, <2>1
  <1>6. \A d \in 1..Len(ds) : \A c : Inside(ds, c, d) <=> Inside(envs, c, d)
    <2>1. Len(ds) <= Len(envs) /\ Len(envs) \in Nat /\ Len(ds) \in Nat
          /\ \A d \in 1..Len(ds) : envs[d].clone = ds[d].clone
      BY <1>4, <1>5
    <2>. QED BY <2>1, InsideSame
  <1>7. ScopesAreSound(ds, h, k)
    BY <1>1, <1>3, <1>4, <1>5, <1>6 DEF ScopesAreSound
  <1>8. KeptIsSound(m, gs, ds, h, k)
    <2>1. ASSUME NEW d \in 2..Len(ds), ds[d].clone, NEW c, Inside(ds, c, d - 1)
          PROVE  AllSound(gs[m[d]].kept, Region(h, k, c))
      <3>1. d \in 2..Len(envs) /\ d \in 1..Len(ds) /\ d - 1 \in 1..Len(ds)
        BY <1>4, <1>5
      <3>2. Inside(envs, c, d - 1) /\ envs[d].clone
        BY <1>4, <1>6, <2>1, <3>1
      <3>. QED BY <1>1, <1>3, <1>4, <3>1, <3>2 DEF KeptIsSound
    <2>. QED BY <2>1 DEF KeptIsSound
  <1>. QED BY <1>1, <1>2, <1>3, <1>4, <1>7, <1>8 DEF Apart

-----------------------------------------------------------------------------
(* What an instruction finds.                                              *)

\* The innermost activation runs in the cloned scope c, and computes with the
\* dictionaries of c alone.
Here(h, c) ==
  LET K == Region(h, Len(heap), c) IN
  /\ Inside(envs, c, Len(envs)) /\ \A b : Inside(envs, b, Len(envs)) => b = c
  /\ AllSound(stack, K) /\ Ends(panic, K)
  /\ \A x : Holders(x) # {} =>
       /\ Holder(x) \in 1..Len(envs) /\ \A k \in (Holder(x) + 1)..Len(envs) : ~ envs[k].clone
       /\ Sound(Lookup(x), K)

LEMMA HereIs ==
  ASSUME NEW h, NEW m, Apart(h, m)
  PROVE  \E c : Here(h, c)
  <1>1. /\ AreScopes(envs) /\ ScopesAreSound(envs, h, Len(heap))
        /\ HereIsSound(envs, stack, panic, h, Len(heap))
    BY DEF Apart
  <1>2. Len(envs) \in 1..Len(envs) /\ Len(envs) \in Nat /\ DOMAIN envs = 1..Len(envs)
    <2>1. PICK S : envs \in Seq(S)
      BY <1>1 DEF AreScopes, IsStack
    <2>. QED BY <1>1, <2>1 DEF AreScopes
  <1>3. PICK c : Inside(envs, c, Len(envs)) /\ \A b : Inside(envs, b, Len(envs)) => b = c
    BY <1>1, <1>2, OneClone
  <1>4. PICK K : K = Region(h, Len(heap), c)
    OBVIOUS
  <1>5. AllSound(stack, K) /\ Ends(panic, K)
    BY <1>1, <1>3, <1>4 DEF HereIsSound
  <1>6. ASSUME NEW x, Holders(x) # {}
        PROVE  /\ Holder(x) \in 1..Len(envs) /\ \A k \in (Holder(x) + 1)..Len(envs) : ~ envs[k].clone
               /\ Sound(Lookup(x), K)
    <2>1. Holders(x) \in SUBSET (1..Len(envs))
      BY <1>2 DEF Holders, Visible
    <2>2. PICK i \in Holders(x) : \A j \in Holders(x) : j <= i
      BY <1>2, <1>6, <2>1, GreatestNatural
    <2>3. Holder(x) \in Holders(x)
      BY <2>2 DEF Holder
    <2>4. PICK j : j = Holder(x)
      OBVIOUS
    <2>5. /\ j \in 1..Len(envs) /\ x \in DOMAIN envs[j].bound
          /\ \A k \in (j + 1)..Len(envs) : ~ envs[k].clone
      <3>1. j \in DOMAIN envs /\ x \in DOMAIN envs[j].bound /\ \A k \in DOMAIN envs : k > j => ~ envs[k].clone
        BY <2>3, <2>4 DEF Holders, Visible
      <3>. QED BY <1>2, <3>1
    <2>6. Inside(envs, c, j)
      <3>1. c \in 1..Len(envs) /\ envs[c].clone /\ \A k \in (c + 1)..Len(envs) : ~ envs[k].clone
        BY <1>3 DEF Inside
      <3>2. c <= j
        BY <1>2, <2>5, <3>1
      <3>3. c \in 1..j /\ \A k \in (c + 1)..j : k \in (c + 1)..Len(envs)
        BY <1>2, <2>5, <3>1, <3>2
      <3>. QED BY <3>1, <3>3 DEF Inside
    <2>7. Sound(envs[j].bound[x], K)
      BY <1>1, <1>4, <2>5, <2>6 DEF ScopesAreSound
    <2>. QED BY <2>4, <2>5, <2>7 DEF Lookup
  <1>. QED BY <1>3, <1>4, <1>5, <1>6 DEF Here

\* What a step does that leaves the heap and the ledger as they are: it gives
\* the stack, the ending and one variable at most values of this scope.
Computes(K) ==
  /\ SameScopes(frames, frames') /\ AllSound(stack', K) /\ Ends(panic', K)
Binds(K) ==
  envs' = envs \/ \E i, x, v : Rebound(envs, envs', i, x, v) /\ Sound(v, K)

LEMMA QuietApart ==
  ASSUME NEW h, NEW m, Apart(h, m), NEW c, Here(h, c), heap' = heap, ledger' = ledger,
         Computes(Region(h, Len(heap), c)), Binds(Region(h, Len(heap), c))
  PROVE  Apart(h, m)'
  <1>1. PICK K : K = Region(h, Len(heap), c)
    OBVIOUS
  <1>2. HeapIsSound(heap, h) /\ LedgerKnows(ledger, h, Len(heap)) /\ Len(heap) \in Nat
    BY StackAppend DEF Apart, HeapIsSound
  <1>3. \A b : Inside(envs, b, Len(envs)) => Region(h, Len(heap), b) = K
    BY <1>1 DEF Here
  <1>4. Grows(h, Len(heap), h, Len(heap'))
    BY <1>2 DEF Grows
  <1>5. HereIsSound(envs, stack', panic', h, Len(heap'))
    BY <1>1, <1>3 DEF HereIsSound, Computes
  <1>6. \/ envs' = envs
        \/ \E i, x, v : /\ Rebound(envs, envs', i, x, v)
                        /\ \A b : Inside(envs, b, Len(envs)) => Sound(v, Region(h, Len(heap'), b))
    BY <1>1, <1>3 DEF Binds
  <1>7. SameScopes(frames, frames')
    BY DEF Computes
  <1>. QED BY <1>2, <1>4, <1>5, <1>6, <1>7, WorkApart

-----------------------------------------------------------------------------
(* Where the innermost frame goes, and the activations below it stay.      *)

LEMMA SameIsSame ==
  ASSUME frames' = frames
  PROVE  SameScopes(frames, frames')
  BY DEF SameScopes

LEMMA ReplacedIsSame ==
  ASSUME NEW fs, IsStack(fs), Len(fs) > 0, NEW g, g.kind = fs[Len(fs)].kind, g.kept = fs[Len(fs)].kept,
         NEW gs, gs = [fs EXCEPT ![Len(fs)] = g]
  PROVE  SameScopes(fs, gs)
  <1>1. PICK S : fs \in Seq(S)
    BY DEF IsStack
  <1>2. Len(fs) \in 1..Len(fs) /\ Len(gs) = Len(fs) /\ \A i \in 1..Len(fs) : gs[i] = IF i = Len(fs) THEN g ELSE fs[i]
    BY <1>1
  <1>3. \A i \in 1..Len(fs) : gs[i].kind = fs[i].kind /\ gs[i].kept = fs[i].kept
    BY <1>2
  <1>. QED BY <1>2, <1>3 DEF SameScopes, Entered

\* A frame that has no scope of its own starts.
LEMMA AppendedIsSame ==
  ASSUME NEW fs, IsStack(fs), NEW f, ~ Entered(f), NEW gs, gs = Append(fs, f)
  PROVE  SameScopes(fs, gs)
  <1>1. PICK S : fs \in Seq(S)
    BY DEF IsStack
  <1>2. fs \in Seq(S \cup {f})
    BY <1>1
  <1>3. Len(gs) = Len(fs) + 1 /\ Len(fs) \in Nat /\ gs[Len(fs) + 1] = f /\ \A i \in 1..Len(fs) : gs[i] = fs[i]
    BY <1>2
  <1>4. \A i : (i \in 1..Len(gs) /\ Entered(gs[i])) => i \in 1..Len(fs)
    <2>1. ASSUME NEW i \in 1..Len(gs), Entered(gs[i])
          PROVE  i \in 1..Len(fs)
      <3>1. i # Len(fs) + 1
        BY <1>3, <2>1
      <3>. QED BY <1>3, <3>1
    <2>. QED BY <2>1
  <1>5. \A i \in 1..Len(fs) : i \in 1..Len(gs)
    BY <1>3
  <1>. QED BY <1>3, <1>4, <1>5 DEF SameScopes

\* A frame that has no scope of its own is over.
LEMMA FrontIsSame ==
  ASSUME NEW fs, IsStack(fs), Len(fs) > 0, ~ Entered(fs[Len(fs)]), NEW gs, IsFront(gs, fs)
  PROVE  SameScopes(fs, gs)
  <1>1. Len(fs) \in Nat /\ Len(gs) = Len(fs) - 1 /\ \A i \in 1..Len(gs) : gs[i] = fs[i] /\ i \in 1..Len(fs)
    BY FrontParts
  <1>2. \A i \in 1..Len(fs) : Entered(fs[i]) => i \in 1..Len(gs)
    <2>1. ASSUME NEW i \in 1..Len(fs), Entered(fs[i])
          PROVE  i \in 1..Len(gs)
      <3>1. i # Len(fs)
        BY <2>1
      <3>. QED BY <1>1, <3>1
    <2>. QED BY <2>1
  <1>. QED BY <1>1, <1>2 DEF SameScopes

LEMMA SameTwice ==
  ASSUME NEW fs, NEW gs, NEW hs, SameScopes(fs, gs), SameScopes(gs, hs)
  PROVE  SameScopes(fs, hs)
  BY DEF SameScopes

LEMMA MovesAreSame ==
  ASSUME IInv, AtInstruction,
         \/ frames' = frames \/ (\E by : Goes(by)) \/ \E y, B : Loops(y, B)
  PROVE  SameScopes(frames, frames')
  <1>1. Len(frames) > 0 /\ IsFrame(Top) /\ IsStack(frames)
    BY AtFacts DEF Placed, IInv, Stacked
  <1>2. CASE \E by : Goes(by)
    <2>1. PICK y : frames' = [frames EXCEPT ![Len(frames)] = [Top EXCEPT !.ip = y]]
      BY <1>2 DEF Goes, Top
    <2>2. PICK g : g = [Top EXCEPT !.ip = y]
      OBVIOUS
    <2>3. g.kind = frames[Len(frames)].kind /\ g.kept = frames[Len(frames)].kept
      BY <1>1, <2>2 DEF IsFrame, Top
    <2>4. frames' = [frames EXCEPT ![Len(frames)] = g]
      BY <2>1, <2>2
    <2>. QED BY <1>1, <2>3, <2>4, ReplacedIsSame
  <1>3. CASE \E y, B : Loops(y, B)
    <2>1. PICK y, B : frames' = [frames EXCEPT ![Len(frames)] = [Top EXCEPT !.ip = y, !.bases = B]]
      BY <1>3 DEF Loops
    <2>2. PICK g : g = [Top EXCEPT !.ip = y, !.bases = B]
      OBVIOUS
    <2>3. g.kind = frames[Len(frames)].kind /\ g.kept = frames[Len(frames)].kept
      BY <1>1, <2>2 DEF IsFrame, Top
    <2>4. frames' = [frames EXCEPT ![Len(frames)] = g]
      BY <2>1, <2>2
    <2>. QED BY <1>1, <2>3, <2>4, ReplacedIsSame
  <1>. QED BY <1>2, <1>3, SameIsSame

-----------------------------------------------------------------------------
(* The instructions that leave the heap as it is.                          *)

\* The operands an instruction takes are there.
LEMMA NeedsAreThere ==
  ASSUME NEW K, AllSound(stack, K), NEW op, Step(op)
  PROVE  /\ Len(stack) \in Nat
         /\ op \in {"STORE_VAR", "SET_VAR", "JUMP_IF_FALSE", "FOR_INIT", "RETURN", "EXIT", "SPAWN_AGENT",
                    "APPEND", "MAP_DELETE", "LIST_GET", "LIST_LEN", "MAP_KEYS", "IS_NIL", "CONVERT"} =>
              1 <= Len(stack)
         /\ op \in {"BINOP", "MAP_SET", "STR_SPLIT", "STR_JOIN"} => 2 <= Len(stack)
         /\ op = "MAP_GET" => 1 <= Len(stack) /\ (Inst.name = Name("") => 2 <= Len(stack))
         /\ ~ (Len(stack) < Needs)
  <1>1. Len(stack) \in Nat
    BY StackAppend DEF AllSound
  <1>2. Inst.op = op /\ ~ Short
    BY DEF Step
  <1>3. ~ (Len(stack) < Needs)
    BY <1>2 DEF Short
  <1>4. op \in {"STORE_VAR", "SET_VAR", "JUMP_IF_FALSE", "FOR_INIT", "RETURN", "EXIT", "SPAWN_AGENT",
                "APPEND", "MAP_DELETE", "LIST_GET", "LIST_LEN", "MAP_KEYS", "IS_NIL", "CONVERT"} => Needs = 1
    BY <1>2 DEF Needs
  <1>5. op \in {"BINOP", "MAP_SET", "STR_SPLIT", "STR_JOIN"} => Needs = 2
    BY <1>2 DEF Needs
  <1>6. op = "MAP_GET" => Needs = IF Inst.name = Name("") THEN 2 ELSE 1
    BY <1>2 DEF Needs
  <1>7. PICK l, n : l = Len(stack) /\ n = Needs
    OBVIOUS
  <1>8. l \in Nat /\ ~ (l < n)
    BY <1>1, <1>3, <1>7
  <1>9. n = 1 => 1 <= l
    BY <1>8
  <1>10. n = 2 => 1 <= l /\ 2 <= l
    BY <1>8
  <1>11. op = "MAP_GET" => 1 <= l /\ (Inst.name = Name("") => 2 <= l)
    BY <1>6, <1>7, <1>9, <1>10
  <1>12. op \in {"BINOP", "MAP_SET", "STR_SPLIT", "STR_JOIN"} => 2 <= l
    BY <1>5, <1>7, <1>10
  <1>13. op \in {"STORE_VAR", "SET_VAR", "JUMP_IF_FALSE", "FOR_INIT", "RETURN", "EXIT", "SPAWN_AGENT",
                 "APPEND", "MAP_DELETE", "LIST_GET", "LIST_LEN", "MAP_KEYS", "IS_NIL", "CONVERT"} => 1 <= l
    BY <1>4, <1>7, <1>9
  <1>. QED BY <1>3, <1>7, <1>8, <1>11, <1>12, <1>13

LEMMA NoFault ==
  \A code : Error(code) # None
  BY DEF Error, None

LEMMA CountsAreNeeded ==
  /\ Inst.op = "MAKE_DICT" => Needs = 2 * Inst.len
  /\ Inst.op = "PRINT" => Needs = Inst.len
  /\ Inst.op = "CALL" /\ ~ Misses => Needs = Inst.len
  /\ Inst.op = "CALL" /\ Misses => Needs = 0
  /\ Inst.op = "MAKE_LIST" /\ Affords(Inst.len) => Needs = Inst.len
  /\ Inst.op = "MAKE_LIST" /\ ~ Affords(Inst.len) => Needs = 0
  <1>1. Inst.op = "MAKE_DICT" => Needs = 2 * Inst.len
    BY DEF Needs
  <1>2. Inst.op = "PRINT" => Needs = Inst.len
    BY DEF Needs
  <1>3. Inst.op = "CALL" /\ ~ Misses => Needs = Inst.len
    BY DEF Needs
  <1>4. Inst.op = "CALL" /\ Misses => Needs = 0
    BY DEF Needs
  <1>5. Inst.op = "MAKE_LIST" /\ Affords(Inst.len) => Needs = Inst.len
    BY DEF Needs
  <1>6. Inst.op = "MAKE_LIST" /\ ~ Affords(Inst.len) => Needs = 0
    BY DEF Needs
  <1>. QED BY <1>1, <1>2, <1>3, <1>4, <1>5, <1>6

\* An instruction that gives a value or an error.
LEMMA YieldsComputes ==
  ASSUME IInv, NEW K, AllSound(stack, K), AtInstruction, NEW n \in Nat, n <= Len(stack),
         NEW answer, Answers(answer, K), Yields(n, answer)
  PROVE  Computes(K) /\ Binds(K)
  <1>1. AllSound(Popped(n), K)
    BY OperandsAreSound
  <1>2. AllSound(Append(Popped(n), answer.val), K)
    BY <1>1, AllSoundAppend DEF Answers
  <1>3. AllSound(stack', K)
    BY <1>1, <1>2 DEF Yields
  <1>4. Ends(panic', K)
    BY EndingsAreSound DEF Yields, Goes, Raise, Answers
  <1>5. SameScopes(frames, frames')
    BY MovesAreSame DEF Yields, Raise
  <1>. QED BY <1>3, <1>4, <1>5 DEF Computes, Binds, Yields

LEMMA AllocatesComputes ==
  ASSUME IInv, memory \in Nat, NEW K, AllSound(stack, K), AtInstruction, NEW n \in Nat, NEW slots \in Nat,
         Affords(slots) => n <= Len(stack),
         ~ Affords(slots) => n <= Len(stack) \/ n = 0,
         NEW answer, Affords(slots) => Answers(answer, K), Allocates(n, answer, slots)
  PROVE  Computes(K) /\ Binds(K) /\ memory' \in Nat
  <1>0. n <= Len(stack)
    BY StackAppend DEF IInv
  <1>1. AllSound(Popped(n), K)
    BY <1>0, OperandsAreSound
  <1>2. PICK given : given = Within(slots, answer)
    OBVIOUS
  <1>3. Answers(given, K)
    BY <1>2, EndingsAreSound DEF Within
  <1>4. AllSound(Append(Popped(n), given.val), K)
    BY <1>1, <1>3, AllSoundAppend DEF Answers
  <1>5. /\ stack' = IF given.fault = None THEN Append(Popped(n), given.val) ELSE Popped(n)
        /\ IF given.fault = None THEN Goes(1) ELSE Raise(given.fault)
        /\ Charges(slots) /\ envs' = envs
    BY <1>2 DEF Allocates
  <1>6. AllSound(stack', K)
    BY <1>1, <1>4, <1>5
  <1>7. Ends(panic', K)
    BY <1>3, <1>5, EndingsAreSound DEF Goes, Raise, Answers
  <1>8. SameScopes(frames, frames')
    BY <1>5, MovesAreSame DEF Raise
  <1>9. memory' \in Nat
    BY <1>5 DEF Charges
  <1>. QED BY <1>5, <1>6, <1>7, <1>8, <1>9 DEF Computes, Binds

\* A variable is given a value: in the innermost scope, or where it is.
LEMMA StoreBinds ==
  ASSUME NEW h, NEW m, Apart(h, m), NEW c, Here(h, c), NEW K, NEW x, NEW v, Sound(v, K),
         \/ Store(Len(envs), x, v)
         \/ Holders(x) # {} /\ Store(Holder(x), x, v)
  PROVE  Binds(K)
  <1>1. Len(envs) \in 1..Len(envs) /\ \A k \in (Len(envs) + 1)..Len(envs) : ~ envs[k].clone
    <2>1. Len(envs) \in Nat /\ Len(envs) > 0
      BY StackAppend DEF Apart, AreScopes
    <2>. QED BY <2>1
  <1>2. CASE Store(Len(envs), x, v)
    <2>1. Rebound(envs, envs', Len(envs), x, v)
      BY <1>1, <1>2 DEF Store, Rebound
    <2>. QED BY <2>1 DEF Binds
  <1>3. CASE Holders(x) # {} /\ Store(Holder(x), x, v)
    <2>1. PICK i : i = Holder(x)
      OBVIOUS
    <2>2. Rebound(envs, envs', i, x, v)
      BY <1>3, <2>1 DEF Store, Rebound, Here
    <2>. QED BY <2>2 DEF Binds
  <1>. QED BY <1>2, <1>3

LEMMA VariablesCompute ==
  ASSUME IInv, NEW h, NEW m, Apart(h, m), NEW c, Here(h, c), NEW K, K = Region(h, Len(heap), c),
         LoadConst \/ LoadVar \/ StoreVar \/ SetVar
  PROVE  Computes(K) /\ Binds(K) /\ heap' = heap /\ ledger' = ledger /\ memory' = memory
  <1>1. AllSound(stack, K)
    BY DEF Here
  <1>2. AtInstruction /\ heap' = heap /\ ledger' = ledger /\ memory' = memory
    BY DEF LoadConst, LoadVar, StoreVar, SetVar, Step, Nothing, maps
  <1>3. SameScopes(frames, frames')
    BY <1>2, MovesAreSame DEF LoadConst, LoadVar, StoreVar, SetVar, Raise
  <1>4. Ends(panic', K)
    BY EndingsAreSound DEF LoadConst, LoadVar, StoreVar, SetVar, Raise, Goes
  <1>5. CASE LoadConst
    <2>1. Sound(Inst.val, K)
      <3>1. Inst.op = "LOAD_CONST" /\ Inst = program.code[Top.fn][Top.ip]
        BY <1>5 DEF LoadConst, Step, Inst
      <3>2. Top.fn \in DOMAIN program.code /\ Top.ip \in DOMAIN program.code[Top.fn] /\ program \in Programs
        BY <1>2, AtFacts DEF Placed, IInv
      <3>3. IsConstant(Inst.val)
        BY <3>1, <3>2, ConstantsAreLiterals
      <3>. QED BY <3>3, ConstantIsSound
    <2>2. AllSound(stack', K) /\ envs' = envs
      BY <1>1, <1>5, <2>1, AllSoundAppend DEF LoadConst, Nothing
    <2>. QED BY <1>2, <1>3, <1>4, <2>2 DEF Computes, Binds
  <1>6. CASE LoadVar
    <2>1. AllSound(stack', K) /\ envs' = envs
      BY <1>1, <1>6, AllSoundAppend DEF LoadVar, Nothing, Here
    <2>. QED BY <1>2, <1>3, <1>4, <2>1 DEF Computes, Binds
  <1>7. CASE StoreVar \/ SetVar
    <2>1. 1 <= Len(stack)
      BY <1>1, <1>7, NeedsAreThere DEF StoreVar, SetVar
    <2>2. AllSound(Popped(1), K) /\ Sound(Operand(1), K)
      BY <1>1, <2>1, OperandsAreSound
    <2>3. AllSound(stack', K)
      BY <1>7, <2>2 DEF StoreVar, SetVar
    <2>4. Binds(K)
      <3>1. \/ envs' = envs
            \/ Store(Len(envs), Inst.name, Operand(1))
            \/ Holders(Inst.name) # {} /\ Store(Holder(Inst.name), Inst.name, Operand(1))
        BY <1>7 DEF StoreVar, SetVar
      <3>2. CASE envs' = envs
        BY <3>2 DEF Binds
      <3>3. PICK x, v : x = Inst.name /\ v = Operand(1)
        OBVIOUS
      <3>. QED BY <2>2, <3>1, <3>2, <3>3, StoreBinds
    <2>. QED BY <1>2, <1>3, <1>4, <2>3, <2>4 DEF Computes
  <1>. QED BY <1>5, <1>6, <1>7

LEMMA JumpsCompute ==
  ASSUME IInv, NEW K, AllSound(stack, K), JumpIfFalse \/ Jump \/ ReturnOp \/ ExitOp
  PROVE  Computes(K) /\ Binds(K) /\ heap' = heap /\ ledger' = ledger /\ memory' = memory
  <1>1. AtInstruction /\ heap' = heap /\ ledger' = ledger /\ memory' = memory /\ envs' = envs
    BY DEF JumpIfFalse, Jump, ReturnOp, ExitOp, Step, Nothing, maps
  <1>2. SameScopes(frames, frames')
    BY <1>1, MovesAreSame DEF JumpIfFalse, Jump, ReturnOp, ExitOp, Raise
  <1>3. CASE JumpIfFalse \/ ReturnOp \/ ExitOp
    <2>1. 1 <= Len(stack)
      BY <1>3, NeedsAreThere DEF JumpIfFalse, ReturnOp, ExitOp
    <2>2. AllSound(Popped(1), K) /\ Sound(Operand(1), K)
      BY <2>1, OperandsAreSound
    <2>3. Ends(panic', K)
      BY <1>3, <2>2, EndingsAreSound DEF JumpIfFalse, ReturnOp, ExitOp, Raise, Goes
    <2>4. AllSound(stack', K)
      BY <1>3, <2>2 DEF JumpIfFalse, ReturnOp, ExitOp
    <2>. QED BY <1>1, <1>2, <2>3, <2>4 DEF Computes, Binds
  <1>4. CASE Jump
    <2>1. Ends(panic', K) /\ stack' = stack
      BY <1>4, EndingsAreSound DEF Jump, Goes
    <2>. QED BY <1>1, <1>2, <2>1 DEF Computes, Binds
  <1>. QED BY <1>3, <1>4

LEMMA ForInitComputes ==
  ASSUME IInv, NEW K, AllSound(stack, K), ForInit
  PROVE  Computes(K) /\ Binds(K) /\ heap' = heap /\ ledger' = ledger /\ memory' = memory
  <1>1. AtInstruction /\ heap' = heap /\ ledger' = ledger /\ memory' = memory /\ envs' = envs
    BY DEF ForInit, Step, Nothing, maps
  <1>2. 1 <= Len(stack)
    BY NeedsAreThere DEF ForInit
  <1>3. AllSound(Popped(1), K)
    BY <1>2, OperandsAreSound
  <1>4. AllSound(stack', K)
    <2>1. AllSound(Append(stack, Num(0)), K)
      BY SoundScalars, AllSoundAppend
    <2>. QED BY <1>3, <2>1 DEF ForInit
  <1>5. Ends(panic', K)
    BY EndingsAreSound DEF ForInit, Raise
  <1>6. SameScopes(frames, frames')
    <2>1. CASE frames' = frames
      BY <2>1, SameIsSame
    <2>2. CASE frames' = [frames EXCEPT ![Len(frames)].ip = @ + 1,
                                        ![Len(frames)].bases = Append(@, Len(stack) - 1)]
      <3>1. /\ Len(frames) \in Nat /\ Len(frames) > 0 /\ Placed(program.code, Top)
        BY <1>1, AtFacts
      <3>2. PICK y, B : y = Top.ip + 1 /\ B = Append(Top.bases, Len(stack) - 1)
        OBVIOUS
      <3>3. PICK S : frames \in Seq(S)
        BY DEF IInv, Stacked, IsStack
      <3>4. Len(frames) \in DOMAIN frames
        BY <3>1, <3>3
      <3>5. "ip" \in DOMAIN Top /\ "bases" \in DOMAIN Top
        BY <3>1 DEF Placed, IsFrame
      <3>6. Loops(y, B)
        BY <2>2, <3>2, <3>3, <3>4, <3>5 DEF Top, Loops
      <3>. QED BY <1>1, <3>6, MovesAreSame
    <2>. QED BY <2>1, <2>2 DEF ForInit, Raise
  <1>. QED BY <1>1, <1>4, <1>5, <1>6 DEF Computes, Binds

\* A value replaces another.
LEMMA AllSoundReplaced ==
  ASSUME NEW K, NEW s, AllSound(s, K), NEW i, i \in 1..Len(s), NEW v, Sound(v, K)
  PROVE  AllSound([s EXCEPT ![i] = v], K)
  <1>1. PICK S : s \in Seq(S)
    BY DEF AllSound, IsStack
  <1>2. PICK t : t = [s EXCEPT ![i] = v]
    OBVIOUS
  <1>3. s \in Seq(S \cup {v})
    BY <1>1
  <1>4. t \in Seq(S \cup {v}) /\ Len(t) = Len(s) /\ \A j \in 1..Len(s) : t[j] = IF j = i THEN v ELSE s[j]
    BY <1>2, <1>3
  <1>. QED BY <1>2, <1>4 DEF AllSound, IsStack

LEMMA NoLoopFault ==
  ASSUME NEW items, NEW index, LoopFault(items, index) = None
  PROVE  IsList(items) /\ IsInt(index) /\ index[2] \in 0..Len(items[2])
  <1>1. IsList(items) /\ IsInt(index)
    BY NoFault DEF LoopFault
  <1>2. index[2] \in 0..Len(items[2])
    BY <1>1, NoFault DEF LoopFault
  <1>. QED BY <1>1, <1>2

LEMMA ForNextComputes ==
  ASSUME IInv, NEW h, NEW m, Apart(h, m), NEW c, Here(h, c), NEW K, K = Region(h, Len(heap), c), ForNext
  PROVE  Computes(K) /\ Binds(K) /\ heap' = heap /\ ledger' = ledger /\ memory' = memory
  <1>1. AtInstruction /\ heap' = heap /\ ledger' = ledger /\ memory' = memory /\ Inst.op = "FOR_NEXT" /\ ~ Short
    BY DEF ForNext, Step, maps
  <1>2. Placed(program.code, Top) /\ Top.bases \in Seq(Int) /\ IsFrame(Top)
    BY <1>1, AtFacts DEF Placed, IsFrame
  <1>3. AllSound(LoopStack, K)
    <2>1. AllSound(stack, K)
      BY DEF Here
    <2>2. CASE Top.bases # <<>>
      <3>1. PICK n \in Int : n = Top.bases[Len(Top.bases)] + 2
        <4>1. Len(Top.bases) \in 1..Len(Top.bases)
          BY <1>2, <2>2
        <4>. QED BY <1>2, <4>1
      <3>2. AllSound(Cut(stack, n), K)
        BY <2>1, AllSoundCut
      <3>. QED BY <2>2, <3>1, <3>2 DEF LoopStack
    <2>. QED BY <2>1, <2>2 DEF LoopStack
  <1>4. PICK s : s = LoopStack
    OBVIOUS
  <1>5. PICK items, index, fault : items = s[Len(s) - 1] /\ index = s[Len(s)] /\ fault = LoopFault(items, index)
    OBVIOUS
  <1>6. Len(s) \in Nat /\ Len(s) >= 2
    <2>1. Len(s) \in Nat
      BY <1>3, <1>4, StackAppend DEF AllSound
    <2>2. ~ (Len(s) < 2)
      BY <1>1, <1>4 DEF Short
    <2>. QED BY <2>1, <2>2
  <1>7. AllSound(s, K) /\ Sound(items, K)
    <2>1. Len(s) - 1 \in 1..Len(s)
      BY <1>6
    <2>. QED BY <1>3, <1>4, <1>5, <2>1 DEF AllSound
  <1>8. AllSound(Cut(s, Len(s) - 2), K)
    <2>1. Len(s) - 2 \in Int
      BY <1>6
    <2>. QED BY <1>7, <2>1, AllSoundCut
  <1>9. \/ Raise(fault) /\ stack' = Cut(s, Len(s) - 2) /\ envs' = envs /\ fault # None
        \/ LoopEnds
        \/ /\ fault = None /\ index[2] # Len(items[2])
           /\ Store(Len(envs), Inst.name, items[2][index[2] + 1])
           /\ stack' = [s EXCEPT ![Len(s)] = Num(index[2] + 1)]
           /\ Goes(1)
    BY <1>4, <1>5 DEF ForNext
  <1>10. CASE Raise(fault) /\ stack' = Cut(s, Len(s) - 2) /\ envs' = envs
    <2>1. Ends(panic', K)
      BY <1>5, <1>10, EndingsAreSound DEF LoopFault, Raise
    <2>2. SameScopes(frames, frames')
      BY <1>10, SameIsSame DEF Raise
    <2>. QED BY <1>1, <1>8, <1>10, <2>1, <2>2 DEF Computes, Binds
  <1>11. CASE LoopEnds
    <2>1. Ends(panic', K) /\ stack' = Cut(s, Len(s) - 2) /\ envs' = envs
      BY <1>4, <1>11, EndingsAreSound DEF LoopEnds
    <2>2. PICK y, B : y = Top.ip + Inst.len /\ B = IF Top.bases = <<>> THEN Top.bases ELSE SubSeq(Top.bases, 1, Len(Top.bases) - 1)
      OBVIOUS
    <2>3. Loops(y, B)
      <3>1. PICK S : frames \in Seq(S)
        BY DEF IInv, Stacked, IsStack
      <3>2. Len(frames) \in DOMAIN frames
        BY <1>1, <3>1, AtFacts
      <3>3. "ip" \in DOMAIN Top /\ "bases" \in DOMAIN Top
        BY <1>2 DEF IsFrame
      <3>. QED BY <1>11, <2>2, <3>1, <3>2, <3>3 DEF Top, LoopEnds, Loops
    <2>4. SameScopes(frames, frames')
      BY <1>1, <2>3, MovesAreSame
    <2>. QED BY <1>1, <1>8, <2>1, <2>4 DEF Computes, Binds
  <1>12. CASE /\ fault = None /\ index[2] # Len(items[2])
              /\ Store(Len(envs), Inst.name, items[2][index[2] + 1])
              /\ stack' = [s EXCEPT ![Len(s)] = Num(index[2] + 1)]
              /\ Goes(1)
    <2>1. IsList(items) /\ index[2] \in 0..Len(items[2])
      BY <1>5, <1>12, NoLoopFault
    <2>2. AllSound(items[2], K) /\ Len(items[2]) \in Nat
      BY <1>7, <2>1, SoundParts
    <2>3. PICK n : n = index[2]
      OBVIOUS
    <2>4. n + 1 \in 1..Len(items[2])
      BY <1>12, <2>1, <2>2, <2>3
    <2>5. PICK v : v = items[2][n + 1]
      OBVIOUS
    <2>6. Sound(v, K)
      BY <2>2, <2>4, <2>5 DEF AllSound
    <2>7. Store(Len(envs), Inst.name, v)
      BY <1>12, <2>3, <2>5
    <2>8. Binds(K)
      BY <2>6, <2>7, StoreBinds
    <2>9. AllSound(stack', K)
      <3>1. Len(s) \in 1..Len(s)
        BY <1>6
      <3>2. PICK k, v0 : k = n + 1 /\ v0 = Num(k)
        OBVIOUS
      <3>3. Sound(v0, K) /\ stack' = [s EXCEPT ![Len(s)] = v0]
        BY <1>12, <2>3, <3>2, SoundScalars
      <3>4. AllSound([s EXCEPT ![Len(s)] = v0], K)
        BY <1>7, <3>1, <3>3, AllSoundReplaced
      <3>. QED BY <3>3, <3>4
    <2>10. Ends(panic', K)
      BY <1>12, EndingsAreSound DEF Goes
    <2>11. SameScopes(frames, frames')
      BY <1>1, <1>12, MovesAreSame
    <2>. QED BY <1>1, <2>8, <2>9, <2>10, <2>11 DEF Computes
  <1>. QED BY <1>9, <1>10, <1>11, <1>12

LEMMA TwoOperands ==
  ASSUME NEW K, AllSound(stack, K), NEW n \in {1, 2}, n <= Len(stack)
  PROVE  Sound(Operand(1), K) /\ (n = 2 => Sound(Operand(2), K))
  <1>1. n \in Nat /\ 1 \in 1..n /\ (n = 2 => 2 \in 1..n)
    OBVIOUS
  <1>. QED BY <1>1, OperandsAreSound

\* What an instruction on a variable finds.
LEMMA VariableIsSound ==
  ASSUME NEW h, NEW c, Here(h, c), NEW K, K = Region(h, Len(heap), c), NEW holds
  PROVE  /\ Ends(VariableFault(holds), K)
         /\ VariableFault(holds) = None => holds /\ Holders(Inst.name) # {} /\ Sound(Lookup(Inst.name), K)
  <1>1. Ends(VariableFault(holds), K)
    BY EndingsAreSound DEF VariableFault
  <1>2. ASSUME VariableFault(holds) = None
        PROVE  holds /\ Holders(Inst.name) # {}
    <2>1. Holders(Inst.name) # {}
      BY <1>2, NoFault DEF VariableFault
    <2>2. CASE ~ holds
      BY <1>2, <2>1, <2>2, NoFault DEF VariableFault
    <2>. QED BY <2>1, <2>2
  <1>. QED BY <1>1, <1>2 DEF Here

\* The instructions on one or two operands that make no dictionary.
LEMMA OperationsCompute ==
  ASSUME IInv, NEW h, NEW m, Apart(h, m), NEW c, Here(h, c), NEW K, K = Region(h, Len(heap), c),
         BinopOp \/ ConvertOp \/ ListLen \/ IsNil \/ StrJoin \/ ListGetOp
  PROVE  Computes(K) /\ Binds(K) /\ heap' = heap /\ ledger' = ledger /\ memory' = memory
  <1>1. AllSound(stack, K)
    BY DEF Here
  <1>2. AtInstruction /\ heap' = heap /\ ledger' = ledger /\ memory' = memory
    BY DEF BinopOp, ConvertOp, ListLen, IsNil, StrJoin, ListGetOp, Step, Yields, maps
  <1>3. CASE BinopOp
    <2>1. 2 <= Len(stack)
      BY <1>1, <1>3, NeedsAreThere DEF BinopOp
    <2>2. PICK answer : answer = Binop(Inst.name[1], Operand(2), Operand(1)) /\ Yields(2, answer)
      BY <1>3 DEF BinopOp
    <2>3. Answers(answer, K)
      BY <1>1, <2>1, <2>2, TwoOperands, BinopIsSound
    <2>. QED BY <1>1, <1>2, <2>1, <2>2, <2>3, YieldsComputes
  <1>4. CASE ConvertOp
    <2>1. 1 <= Len(stack)
      BY <1>1, <1>4, NeedsAreThere DEF ConvertOp
    <2>2. PICK answer : answer = Converted(Inst.name[1], Operand(1)) /\ Yields(1, answer)
      BY <1>4 DEF ConvertOp
    <2>3. Answers(answer, K)
      BY <1>1, <2>1, <2>2, TwoOperands, ConvertedIsSound
    <2>. QED BY <1>1, <1>2, <2>1, <2>2, <2>3, YieldsComputes
  <1>5. CASE ListLen
    <2>1. 1 <= Len(stack)
      BY <1>1, <1>5, NeedsAreThere DEF ListLen
    <2>2. PICK answer : answer = Length(Operand(1)) /\ Yields(1, answer)
      BY <1>5 DEF ListLen
    <2>3. Answers(answer, K)
      BY <2>2, LengthIsSound
    <2>. QED BY <1>1, <1>2, <2>1, <2>2, <2>3, YieldsComputes
  <1>6. CASE IsNil
    <2>1. 1 <= Len(stack)
      BY <1>1, <1>6, NeedsAreThere DEF IsNil
    <2>2. PICK answer : answer = Fine(Bool(Operand(1) = Nil)) /\ Yields(1, answer)
      BY <1>6 DEF IsNil
    <2>3. Answers(answer, K)
      BY <2>2, SoundScalars, EndingsAreSound
    <2>. QED BY <1>1, <1>2, <2>1, <2>2, <2>3, YieldsComputes
  <1>7. CASE StrJoin
    <2>1. 2 <= Len(stack)
      BY <1>1, <1>7, NeedsAreThere DEF StrJoin
    <2>2. PICK v, s : v = Operand(2) /\ s = Operand(1)
      OBVIOUS
    <2>3. Sound(v, K) /\ Sound(s, K)
      BY <1>1, <2>1, <2>2, TwoOperands
    <2>4. PICK texts : texts = [i \in DOMAIN v[2] |-> TextOf(v[2][i])]
      OBVIOUS
    <2>5. PICK answer : /\ answer = IF IsList(v) /\ IsText(s) THEN Fine(Text(Joined(texts, s[2]))) ELSE Faulty("TYPE_ERROR")
                        /\ Yields(2, answer)
      BY <1>7, <2>2, <2>4 DEF StrJoin
    <2>6. ASSUME IsList(v), IsText(s)
          PROVE  Sound(Text(Joined(texts, s[2])), K)
      <3>1. AllSound(v[2], K) /\ Len(v[2]) \in Nat /\ DOMAIN v[2] = 1..Len(v[2]) /\ IsStack(s[2])
        BY <2>3, <2>6, SoundParts
      <3>2. PICK n \in Nat : n = Len(v[2])
        BY <3>1
      <3>3. DOMAIN texts = 1..n /\ texts = [i \in 1..n |-> texts[i]] /\ \A i \in 1..n : texts[i] = TextOf(v[2][i])
        BY <2>4, <3>1, <3>2
      <3>4. IsStack(texts) /\ Len(texts) = n
        BY <3>3, StackOfMany
      <3>5. \A i \in 1..n : IsStack(texts[i])
        <4>1. ASSUME NEW i \in 1..n
              PROVE  IsStack(texts[i])
          <5>1. PICK u : u = v[2][i]
            OBVIOUS
          <5>2. Sound(u, K)
            BY <3>1, <3>2, <5>1 DEF AllSound
          <5>3. IsStack(TextOf(u))
            BY <5>2, SprintIsText
          <5>. QED BY <3>3, <5>1, <5>3
        <4>. QED BY <4>1
      <3>6. IsStack(Joined(texts, s[2]))
        BY <3>1, <3>4, <3>5, JoinedIsText
      <3>. QED BY <3>6, SoundScalars
    <2>7. Answers(answer, K)
      BY <2>5, <2>6, EndingsAreSound
    <2>. QED BY <1>1, <1>2, <2>1, <2>5, <2>7, YieldsComputes
  <1>8. CASE ListGetOp
    <2>1. 1 <= Len(stack)
      BY <1>1, <1>8, NeedsAreThere DEF ListGetOp
    <2>2. PICK index, v, fault : /\ index = Sprint(Operand(1)) /\ v = Lookup(Inst.name)
                                 /\ fault = IF ~ Parses(index) THEN Error("TYPE_ERROR") ELSE VariableFault(HoldsList)
      OBVIOUS
    <2>3. PICK answer : /\ answer = IF fault = None THEN Fine(Element(v[2], index)) ELSE [fault |-> fault, val |-> Nil]
                        /\ Yields(1, answer)
      BY <1>8, <2>2 DEF ListGetOp
    <2>4. Ends(fault, K) /\ (fault = None => IsList(v) /\ Sound(v, K))
      BY <2>2, VariableIsSound, EndingsAreSound, NoFault DEF HoldsList
    <2>5. Answers(answer, K)
      <3>1. CASE fault = None
        BY <2>3, <2>4, <3>1, ElementIsSound, EndingsAreSound
      <3>2. CASE fault # None
        BY <2>3, <2>4, <3>2, SoundScalars DEF Answers
      <3>. QED BY <3>1, <3>2
    <2>. QED BY <1>1, <1>2, <2>1, <2>3, <2>5, YieldsComputes
  <1>. QED BY <1>3, <1>4, <1>5, <1>6, <1>7, <1>8

\* The instructions that need memory for what they make, and make no dictionary.
LEMMA AllocationsCompute ==
  ASSUME IInv, memory \in Nat, NEW h, NEW m, Apart(h, m), NEW c, Here(h, c), NEW K, K = Region(h, Len(heap), c),
         MapKeys \/ StrSplit \/ MakeList
  PROVE  Computes(K) /\ Binds(K) /\ heap' = heap /\ ledger' = ledger /\ memory' \in Nat
  <1>1. AllSound(stack, K) /\ HeapIsSound(heap, h)
    BY DEF Here, Apart
  <1>2. AtInstruction /\ heap' = heap /\ ledger' = ledger
    BY DEF MapKeys, StrSplit, MakeList, Step, maps
  <1>3. CASE MapKeys
    <2>1. 1 <= Len(stack)
      BY <1>1, <1>3, NeedsAreThere DEF MapKeys
    <2>2. PICK v, keys : /\ v = Operand(1)
                         /\ keys = IF IsDict(v) THEN Fine(List(SortedKeys(heap[v[2]]))) ELSE Faulty("TYPE_ERROR")
      OBVIOUS
    <2>3. Allocates(1, keys, Entries(keys))
      BY <1>3, <2>2 DEF MapKeys
    <2>4. Answers(keys, K) /\ Entries(keys) \in Nat
      <3>1. CASE IsDict(v)
        <4>1. Sound(v, K)
          BY <1>1, <2>1, <2>2, TwoOperands
        <4>2. v[2] \in 1..Len(heap)
          BY <3>1, <4>1, SoundParts DEF Region
        <4>3. PICK ks : ks = SortedKeys(heap[v[2]])
          OBVIOUS
        <4>4. AllSound(ks, K) /\ Len(ks) \in Nat
          BY <1>1, <4>2, <4>3, KeysAreSound DEF HeapIsSound
        <4>5. keys = Fine(List(ks))
          BY <2>2, <3>1, <4>3
        <4>6. Answers(keys, K)
          BY <4>4, <4>5, SoundList, EndingsAreSound
        <4>7. Entries(keys) = Len(ks)
          BY <4>5 DEF Entries, Fine, List
        <4>. QED BY <4>4, <4>6, <4>7
      <3>2. CASE ~ IsDict(v)
        <4>1. keys = Faulty("TYPE_ERROR")
          BY <2>2, <3>2
        <4>2. Entries(keys) = 0
          BY <4>1, NoFault DEF Entries, Faulty
        <4>. QED BY <4>1, <4>2, EndingsAreSound
      <3>. QED BY <3>1, <3>2
    <2>. QED BY <1>1, <1>2, <2>1, <2>3, <2>4, AllocatesComputes
  <1>4. CASE StrSplit
    <2>1. 2 <= Len(stack)
      BY <1>1, <1>4, NeedsAreThere DEF StrSplit
    <2>2. PICK v, s, parts : /\ v = Operand(2) /\ s = Operand(1)
                             /\ parts = IF IsText(s) /\ IsText(v) THEN Fine(List(Split(v[2], s[2]))) ELSE Faulty("TYPE_ERROR")
      OBVIOUS
    <2>3. Allocates(2, parts, Entries(parts))
      BY <1>4, <2>2 DEF StrSplit
    <2>4. Answers(parts, K) /\ Entries(parts) \in Nat
      <3>1. CASE IsText(s) /\ IsText(v)
        <4>1. Sound(v, K)
          BY <1>1, <2>1, <2>2, TwoOperands
        <4>2. IsStack(v[2])
          BY <3>1, <4>1, SoundParts
        <4>3. PICK ps : ps = Split(v[2], s[2])
          OBVIOUS
        <4>4. AllSound(ps, K) /\ Len(ps) \in Nat
          BY <4>2, <4>3, SplitIsSound
        <4>5. parts = Fine(List(ps))
          BY <2>2, <3>1, <4>3
        <4>6. Answers(parts, K)
          BY <4>4, <4>5, SoundList, EndingsAreSound
        <4>7. Entries(parts) = Len(ps)
          BY <4>5 DEF Entries, Fine, List
        <4>. QED BY <4>4, <4>6, <4>7
      <3>2. CASE ~ (IsText(s) /\ IsText(v))
        <4>1. parts = Faulty("TYPE_ERROR")
          BY <2>2, <3>2
        <4>2. Entries(parts) = 0
          BY <4>1, NoFault DEF Entries, Faulty
        <4>. QED BY <4>1, <4>2, EndingsAreSound
      <3>. QED BY <3>1, <3>2
    <2>. QED BY <1>1, <1>2, <2>1, <2>3, <2>4, AllocatesComputes
  <1>5. CASE MakeList
    <2>1. PICK n, answer : n = Inst.len /\ answer = Fine(List(Operands(n))) /\ Allocates(Needs, answer, n)
      BY <1>5 DEF MakeList
    <2>2. n \in Nat /\ Inst.op = "MAKE_LIST" /\ Len(stack) \in Nat /\ ~ (Len(stack) < Needs)
      BY <1>1, <1>2, <1>5, <2>1, AtFacts, NeedsAreThere DEF MakeList, Step, Counts
    <2>3. Needs = IF Affords(n) THEN n ELSE 0
      BY <2>1, <2>2, CountsAreNeeded
    <2>4. PICK k : k = Needs
      OBVIOUS
    <2>5. k \in Nat /\ k <= Len(stack)
      BY <2>2, <2>3, <2>4
    <2>6. ASSUME Affords(n)
          PROVE  Answers(answer, K)
      <3>1. AllSound(Operands(n), K)
        BY <1>1, <2>2, <2>3, <2>4, <2>5, <2>6, OperandsAreSound
      <3>. QED BY <2>1, <3>1, SoundList, EndingsAreSound
    <2>7. Allocates(k, answer, n)
      BY <2>1, <2>4
    <2>. QED BY <1>1, <1>2, <2>2, <2>5, <2>6, <2>7, AllocatesComputes
  <1>. QED BY <1>3, <1>4, <1>5

LEMMA AppendComputes ==
  ASSUME IInv, memory \in Nat, NEW h, NEW m, Apart(h, m), NEW c, Here(h, c), NEW K, K = Region(h, Len(heap), c),
         AppendOp
  PROVE  Computes(K) /\ Binds(K) /\ heap' = heap /\ ledger' = ledger /\ memory' \in Nat
  <1>1. AllSound(stack, K)
    BY DEF Here
  <1>2. AtInstruction /\ heap' = heap /\ ledger' = ledger /\ stack' = Popped(1)
    BY DEF AppendOp, Step, maps
  <1>3. 1 <= Len(stack)
    BY <1>1, NeedsAreThere DEF AppendOp
  <1>4. Sound(Operand(1), K) /\ AllSound(stack', K)
    BY <1>1, <1>2, <1>3, TwoOperands, OperandsAreSound
  <1>5. PICK v, fault, slots : v = Lookup(Inst.name) /\ fault = VariableFault(HoldsList) /\ slots = Len(v[2]) + 1
    OBVIOUS
  <1>6. Ends(fault, K) /\ (fault = None => IsList(v) /\ Sound(v, K) /\ Holders(Inst.name) # {})
    BY <1>5, VariableIsSound DEF HoldsList
  <1>7. \/ Raise(fault) /\ envs' = envs /\ memory' = memory
        \/ Raise(Error("LIMIT_EXCEEDED")) /\ envs' = envs /\ memory' = memory
        \/ /\ fault = None /\ Goes(1) /\ memory' = memory + slots
           /\ Store(Holder(Inst.name), Inst.name, List(Append(v[2], Operand(1))))
    BY <1>5 DEF AppendOp
  <1>8. SameScopes(frames, frames') /\ Ends(panic', K)
    <2>1. SameScopes(frames, frames')
      BY <1>2, <1>7, MovesAreSame DEF Raise
    <2>2. Ends(panic', K)
      BY <1>6, <1>7, EndingsAreSound DEF Goes, Raise
    <2>. QED BY <2>1, <2>2
  <1>9. CASE envs' = envs /\ memory' = memory
    BY <1>2, <1>4, <1>8, <1>9 DEF Computes, Binds
  <1>10. CASE /\ fault = None /\ memory' = memory + slots
              /\ Store(Holder(Inst.name), Inst.name, List(Append(v[2], Operand(1))))
    <2>1. AllSound(v[2], K) /\ Len(v[2]) \in Nat
      BY <1>6, <1>10, SoundParts
    <2>2. PICK u, x : u = List(Append(v[2], Operand(1))) /\ x = Inst.name
      OBVIOUS
    <2>3. Sound(u, K)
      <3>1. PICK s, w : s = v[2] /\ w = Operand(1)
        OBVIOUS
      <3>2. AllSound(Append(s, w), K)
        BY <1>4, <2>1, <3>1, AllSoundAppend
      <3>. QED BY <2>2, <3>1, <3>2, SoundList
    <2>4. Binds(K)
      BY <1>6, <1>10, <2>2, <2>3, StoreBinds
    <2>5. memory' \in Nat
      BY <1>5, <1>10, <2>1
    <2>. QED BY <1>2, <1>4, <1>8, <2>4, <2>5 DEF Computes
  <1>. QED BY <1>7, <1>9, <1>10

\* What prints, starts a TRY_LET, or goes no further.
LEMMA StopsCompute ==
  ASSUME IInv, memory \in Nat, NEW K, AllSound(stack, K), Ends(panic, K),
         PrintOp \/ TryLet \/ Underflow \/ Refuse \/ Expire
  PROVE  Computes(K) /\ Binds(K) /\ heap' = heap /\ ledger' = ledger /\ memory' \in Nat
  <1>1. heap' = heap /\ ledger' = ledger /\ envs' = envs
    BY DEF PrintOp, TryLet, Underflow, Refuse, Expire, Nothing, maps
  <1>2. CASE PrintOp
    <2>1. AtInstruction /\ Inst.op = "PRINT" /\ stack' = Popped(Inst.len) /\ Goes(1) /\ memory' = memory
      BY <1>2 DEF PrintOp, Step
    <2>2. PICK n : n = Inst.len
      OBVIOUS
    <2>3. n \in Nat /\ n <= Len(stack)
      <3>1. n \in Nat /\ Len(stack) \in Nat /\ ~ (Len(stack) < Needs) /\ Needs = n
        BY <1>2, <2>1, <2>2, AtFacts, NeedsAreThere, CountsAreNeeded DEF PrintOp, Counts
      <3>. QED BY <3>1
    <2>4. AllSound(stack', K)
      BY <2>1, <2>2, <2>3, OperandsAreSound
    <2>5. SameScopes(frames, frames') /\ Ends(panic', K)
      BY <2>1, MovesAreSame, EndingsAreSound DEF Goes
    <2>. QED BY <1>1, <2>1, <2>4, <2>5 DEF Computes, Binds
  <1>3. CASE TryLet
    <2>1. AtInstruction /\ stack' = stack /\ memory' = memory
      BY <1>3 DEF TryLet, Step, Nothing
    <2>2. \/ frames' = Append(frames, Frame("value", Top.fn, Top.ip + 1, Top.ip + 1 + Inst.len)) /\ panic' = panic
          \/ Raise(Error("RUNTIME_ERROR"))
      BY <1>3 DEF TryLet
    <2>3. CASE Raise(Error("RUNTIME_ERROR"))
      BY <1>1, <2>1, <2>3, SameIsSame, EndingsAreSound DEF Raise, Computes, Binds
    <2>4. CASE frames' = Append(frames, Frame("value", Top.fn, Top.ip + 1, Top.ip + 1 + Inst.len)) /\ panic' = panic
      <3>1. PICK f : f = Frame("value", Top.fn, Top.ip + 1, Top.ip + 1 + Inst.len)
        OBVIOUS
      <3>2. ~ Entered(f)
        BY <3>1 DEF Entered, Frame
      <3>3. SameScopes(frames, frames')
        BY <2>4, <3>1, <3>2, AppendedIsSame DEF IInv, Stacked
      <3>. QED BY <1>1, <2>1, <2>4, <3>3 DEF Computes, Binds
    <2>. QED BY <2>2, <2>3, <2>4
  <1>4. CASE Underflow
    <2>1. /\ AtInstruction /\ Raise(Error("STACK_UNDERFLOW")) /\ stack' = <<>>
          /\ memory' = IF Inst.op = "MAKE_LIST" THEN memory + Inst.len ELSE memory
      BY <1>4 DEF Underflow
    <2>2. Inst.op = "MAKE_LIST" => Inst.len \in Nat
      BY <2>1, AtFacts DEF Counts
    <2>3. memory' \in Nat
      BY <2>1, <2>2
    <2>. QED BY <1>1, <2>1, <2>3, SameIsSame, EndingsAreSound, AllSoundEmpty DEF Raise, Computes, Binds
  <1>5. CASE Refuse
    <2>1. stack' = stack /\ memory' = memory /\ frames' = frames /\ \E code : panic' = Error(code)
      BY <1>5 DEF Refuse, Raise
    <2>. QED BY <1>1, <2>1, SameIsSame, EndingsAreSound DEF Computes, Binds
  <1>6. CASE Expire
    BY <1>1, <1>6, SameIsSame DEF Expire, Computes, Binds
  <1>. QED BY <1>2, <1>3, <1>4, <1>5, <1>6

-----------------------------------------------------------------------------
(* The ends of activations.                                                *)

LEMMA BelowIsFront ==
  ASSUME IInv, frames # <<>>, Top.kind # "main",
         frames' = Below \/ (\E by : Resumes(by)) \/ \E s, from, n : Branch(s, from, n)
  PROVE  /\ IsStack(frames) /\ Len(frames) > 0 /\ IsFront(Below, frames) /\ SameScopes(Below, frames')
         /\ ~ Entered(Top) => SameScopes(frames, frames')
  <1>1. PICK t : t = Below
    OBVIOUS
  <1>2. /\ Len(t) > 0 /\ Stacked(program.code, t) /\ IsStack(t) /\ IsFrame(t[Len(t)])
    BY <1>1, BelowStays DEF Stacked, Placed
  <1>3. IsStack(frames) /\ Len(frames) > 0 /\ IsFront(t, frames)
    <2>1. PICK S : frames \in Seq(S)
      BY DEF IInv, Stacked, IsStack
    <2>. QED BY <1>1, <2>1 DEF IsStack, IsFront, Below
  <1>4. SameScopes(t, frames')
    <2>1. CASE frames' = t
      BY <2>1 DEF SameScopes
    <2>2. CASE \E by : Resumes(by)
      <3>1. PICK y : frames' = [t EXCEPT ![Len(t)] = [t[Len(t)] EXCEPT !.ip = y]]
        BY <1>1, <2>2 DEF Resumes
      <3>2. PICK g : g = [t[Len(t)] EXCEPT !.ip = y]
        OBVIOUS
      <3>3. g.kind = t[Len(t)].kind /\ g.kept = t[Len(t)].kept
        BY <1>2, <3>2 DEF IsFrame
      <3>4. frames' = [t EXCEPT ![Len(t)] = g]
        BY <3>1, <3>2
      <3>. QED BY <1>2, <3>3, <3>4, ReplacedIsSame
    <2>3. CASE \E s, from, n : Branch(s, from, n)
      <3>1. PICK s, from, n : frames' = Append(t, [Frame("branch", Top.fn, from, from + n) EXCEPT !.kept = s])
        BY <1>1, <2>3 DEF Branch
      <3>2. PICK f : f = [Frame("branch", Top.fn, from, from + n) EXCEPT !.kept = s]
        OBVIOUS
      <3>3. ~ Entered(f)
        BY <3>2 DEF Frame, Entered
      <3>. QED BY <1>2, <3>1, <3>2, <3>3, AppendedIsSame
    <2>. QED BY <1>1, <2>1, <2>2, <2>3
  <1>5. ~ Entered(Top) => SameScopes(frames, frames')
    BY <1>3, <1>4, FrontIsSame, SameTwice DEF Top
  <1>. QED BY <1>1, <1>3, <1>4, <1>5

LEMMA BranchesCompute ==
  ASSUME IInv, NEW h, NEW m, Apart(h, m), NEW c, Here(h, c), NEW K, K = Region(h, Len(heap), c),
         ValueEnds \/ ValueFails \/ BranchEnds
  PROVE  Computes(K) /\ Binds(K) /\ heap' = heap /\ ledger' = ledger /\ memory' = memory
  <1>1. AllSound(stack, K) /\ Ends(panic, K)
    BY DEF Here
  <1>2. heap' = heap /\ ledger' = ledger /\ memory' = memory /\ frames # <<>> /\ Top.kind \in {"value", "branch"}
    BY DEF ValueEnds, ValueFails, BranchEnds, Same, maps, Done, Fails
  <1>3. SameScopes(frames, frames')
    <2>1. frames' = Below \/ (\E by : Resumes(by)) \/ \E s, from, n : Branch(s, from, n)
      BY DEF ValueEnds, ValueFails, BranchEnds
    <2>. QED BY <1>2, <2>1, BelowIsFront DEF Entered
  <1>4. PICK k : k = Len(Top.kept) /\ k \in Int
    <2>1. IsStack(Top.kept)
      BY <1>2, BelowStays DEF Placed, IsFrame
    <2>. QED BY <2>1, StackAppend
  <1>5. AllSound(Restored, K)
    BY <1>1, <1>4, AllSoundCut DEF Restored
  <1>6. CASE ValueEnds
    <2>1. CASE stack = <<>>
      <3>1. panic' = Error("STACK_UNDERFLOW") /\ stack' = stack /\ envs' = envs
        BY <1>6, <2>1 DEF ValueEnds
      <3>. QED BY <1>1, <1>2, <1>3, <3>1, EndingsAreSound DEF Computes, Binds
    <2>2. CASE stack # <<>>
      <3>1. 1 <= Len(stack)
        <4>1. PICK S : stack \in Seq(S)
          BY DEF IInv, IsStack
        <4>. QED BY <2>2, <4>1
      <3>2. Sound(Operand(1), K) /\ AllSound(Popped(1), K)
        BY <1>1, <3>1, TwoOperands, OperandsAreSound
      <3>3. PICK x, v : x = Caller.name /\ v = Operand(1) /\ Store(Len(envs), x, v)
        BY <1>6, <2>2 DEF ValueEnds
      <3>4. Binds(K)
        BY <3>2, <3>3, StoreBinds
      <3>5. stack' = Cut(Popped(1), k) /\ panic' = panic
        BY <1>4, <1>6, <2>2 DEF ValueEnds
      <3>6. AllSound(stack', K)
        BY <1>4, <3>2, <3>5, AllSoundCut
      <3>. QED BY <1>1, <1>2, <1>3, <3>4, <3>5, <3>6 DEF Computes
    <2>. QED BY <2>1, <2>2
  <1>7. CASE ValueFails
    <2>1. CASE Catchable
      <3>1. PICK x, v : x = Caller.err /\ v = panic.val /\ Store(Len(envs), x, v)
        BY <1>7, <2>1 DEF ValueFails
      <3>2. Sound(v, K)
        BY <1>1, <3>1 DEF Ends
      <3>3. Binds(K)
        BY <3>1, <3>2, StoreBinds
      <3>4. stack' = Restored /\ panic' = None
        BY <1>7, <2>1 DEF ValueFails
      <3>. QED BY <1>2, <1>3, <1>5, <3>3, <3>4, EndingsAreSound DEF Computes
    <2>2. CASE ~ Catchable
      <3>1. stack' = stack /\ envs' = envs /\ panic' = panic
        BY <1>7, <2>2 DEF ValueFails
      <3>. QED BY <1>1, <1>2, <1>3, <3>1 DEF Computes, Binds
    <2>. QED BY <2>1, <2>2
  <1>8. CASE BranchEnds
    <2>1. stack' = stack /\ envs' = envs /\ (panic' = None \/ panic' = panic)
      BY <1>8 DEF BranchEnds, Resumes
    <2>. QED BY <1>1, <1>2, <1>3, <2>1, EndingsAreSound DEF Computes, Binds
  <1>. QED BY <1>6, <1>7, <1>8

\* The program is over: no other scope is left.
LEMMA MainEndsApart ==
  ASSUME IInv, NEW h, NEW m, Apart(h, m), MainEnds
  PROVE  Apart(h, m)' /\ memory' = memory
  <1>1. /\ frames' = <<>> /\ stack' = stack /\ envs' = envs /\ panic' = panic /\ heap' = heap /\ ledger' = ledger
        /\ memory' = memory /\ frames # <<>> /\ Top.kind = "main"
    BY DEF MainEnds, Done, Fails, Same, maps
  <1>2. Len(frames) = 1
    <2>1. PICK S : frames \in Seq(S)
      BY DEF IInv, Stacked, IsStack
    <2>. QED BY <1>1, <2>1, CodeIsWellFormed, TopIsPlaced DEF IInv, Top
  <1>3. Matches(m, frames, envs) /\ Len(envs) \in Nat
    BY StackAppend DEF Apart, AreScopes
  <1>4. \A d \in 2..Len(envs) : FALSE
    <2>1. ASSUME NEW d \in 2..Len(envs)
          PROVE  FALSE
      <3>1. m[d] \in 1..Len(frames) /\ frames[m[d]].kind = IF envs[d].clone THEN "agent" ELSE "call"
        BY <1>3 DEF Matches
      <3>2. m[d] = Len(frames)
        BY <1>2, <3>1
      <3>. QED BY <1>1, <3>1, <3>2 DEF Top
    <2>. QED BY <2>1
  <1>5. Matches(m, <<>>, envs)
    BY <1>4 DEF Matches
  <1>6. KeptIsSound(m, <<>>, envs, h, Len(heap))
    BY <1>4 DEF KeptIsSound
  <1>. QED BY <1>1, <1>5, <1>6 DEF Apart

LEMMA CallEndsApart ==
  ASSUME IInv, NEW h, NEW m, Apart(h, m), CallEnds
  PROVE  Apart(h, m)' /\ memory' = memory
  <1>1. /\ heap' = heap /\ ledger' = ledger /\ memory' = memory /\ frames # <<>> /\ Top.kind = "call"
        /\ envs' = OuterEnvs
    BY DEF CallEnds, Done, Fails, Same, maps
  <1>2. frames' = Below \/ \E by : Resumes(by)
    BY DEF CallEnds, Returns
  <1>3. /\ IsStack(frames) /\ Len(frames) > 0 /\ IsFront(Below, frames) /\ SameScopes(Below, frames')
    BY <1>1, <1>2, BelowIsFront
  <1>4. PICK c : Here(h, c)
    BY HereIs
  <1>5. PICK K : K = Region(h, Len(heap), c)
    OBVIOUS
  <1>6. AllSound(stack, K) /\ Ends(panic, K)
    BY <1>4, <1>5 DEF Here
  <1>7. AllSound(stack', K) /\ Ends(panic', K)
    <2>1. PICK k : k = Len(Top.kept) /\ k \in Int
      <3>1. IsStack(Top.kept)
        BY <1>1, BelowStays DEF Placed, IsFrame
      <3>. QED BY <3>1, StackAppend
    <2>2. AllSound(Restored, K)
      BY <1>6, <2>1, AllSoundCut DEF Restored
    <2>3. ASSUME NEW v, Returns(v), Sound(v, K)
          PROVE  AllSound(stack', K) /\ Ends(panic', K)
      <3>1. AllSound(Append(Restored, v), K)
        BY <2>2, <2>3, AllSoundAppend
      <3>. QED BY <2>3, <3>1, EndingsAreSound DEF Returns, Resumes
    <2>4. Sound(Nil, K) /\ Sound(panic.val, K)
      BY <1>6, SoundScalars DEF Ends
    <2>. QED BY <1>6, <2>3, <2>4 DEF CallEnds
  <1>8. PICK ds : ds = envs' /\ IsFront(ds, envs)
    BY <1>1 DEF OuterEnvs, IsFront
  <1>9. /\ AreScopes(envs) /\ Matches(m, frames, envs) /\ Entered(Top)
    BY <1>1 DEF Apart, Entered
  <1>10. /\ Len(envs) \in Nat /\ Len(envs) > 1 /\ ~ envs[Len(envs)].clone
         /\ Len(ds) = Len(envs) - 1 /\ \A d \in 1..Len(ds) : ds[d] = envs[d]
    <2>1. /\ Len(envs) \in Nat /\ Len(envs) > 1
          /\ envs[Len(envs)].clone <=> frames[Len(frames)].kind = "agent"
          /\ Len(ds) = Len(envs) - 1 /\ \A d \in 1..Len(ds) : ds[d] = envs[d]
      BY <1>3, <1>8, <1>9, PopScopes DEF Top
    <2>. QED BY <1>1, <2>1 DEF Top
  <1>11. HereIsSound(ds, stack', panic', h, Len(heap))
    <2>1. ASSUME NEW b, Inside(ds, b, Len(ds))
          PROVE  b = c
      <3>1. b \in 1..Len(ds) /\ ds[b].clone /\ \A k \in (b + 1)..Len(ds) : ~ ds[k].clone
        BY <2>1 DEF Inside
      <3>2. b \in 1..Len(envs) /\ envs[b].clone
        BY <1>10, <3>1
      <3>3. \A k \in (b + 1)..Len(envs) : ~ envs[k].clone
        <4>1. ASSUME NEW k \in (b + 1)..Len(envs)
              PROVE  ~ envs[k].clone
          <5>1. CASE k = Len(envs)
            BY <1>10, <5>1
          <5>2. CASE k # Len(envs)
            <6>1. k \in (b + 1)..Len(ds) /\ k \in 1..Len(ds)
              BY <1>10, <3>1, <5>2
            <6>. QED BY <1>10, <3>1, <6>1
          <5>. QED BY <5>1, <5>2
        <4>. QED BY <4>1
      <3>. QED BY <1>4, <3>2, <3>3 DEF Inside, Here
    <2>. QED BY <1>5, <1>7, <2>1 DEF HereIsSound
  <1>. QED BY <1>1, <1>3, <1>8, <1>9, <1>11, LeaveApart

\* The spawner of an agent has its own stack again.
LEMMA AgentEndsApart ==
  ASSUME IInv, NEW h, NEW m, Apart(h, m), AgentEnds
  PROVE  Apart(h, m)' /\ memory' = memory
  <1>1. /\ heap' = heap /\ ledger' = ledger /\ memory' = memory /\ frames # <<>> /\ Top.kind = "agent"
        /\ envs' = OuterEnvs /\ stack' = Top.kept
        /\ panic' = None \/ panic' = Error("LIMIT_EXCEEDED")
    BY DEF AgentEnds, Done, Fails, Same, maps, Resumes
  <1>2. frames' = Below \/ \E by : Resumes(by)
    BY DEF AgentEnds
  <1>3. /\ IsStack(frames) /\ Len(frames) > 0 /\ IsFront(Below, frames) /\ SameScopes(Below, frames')
    BY <1>1, <1>2, BelowIsFront
  <1>4. PICK ds : ds = envs' /\ IsFront(ds, envs)
    BY <1>1 DEF OuterEnvs, IsFront
  <1>5. /\ AreScopes(envs) /\ Matches(m, frames, envs) /\ Entered(Top) /\ KeptIsSound(m, frames, envs, h, Len(heap))
    BY <1>1 DEF Apart, Entered
  <1>6. /\ Len(envs) \in Nat /\ Len(envs) > 1 /\ envs[Len(envs)].clone /\ m[Len(envs)] = Len(frames)
        /\ Len(ds) = Len(envs) - 1 /\ \A d \in 1..Len(ds) : ds[d] = envs[d]
    <2>1. /\ Len(envs) \in Nat /\ Len(envs) > 1 /\ m[Len(envs)] = Len(frames)
          /\ envs[Len(envs)].clone <=> frames[Len(frames)].kind = "agent"
          /\ Len(ds) = Len(envs) - 1 /\ \A d \in 1..Len(ds) : ds[d] = envs[d]
      BY <1>3, <1>4, <1>5, PopScopes DEF Top
    <2>. QED BY <1>1, <2>1 DEF Top
  <1>7. HereIsSound(ds, stack', panic', h, Len(heap))
    <2>1. ASSUME NEW b, Inside(ds, b, Len(ds))
          PROVE  AllSound(stack', Region(h, Len(heap), b)) /\ Ends(panic', Region(h, Len(heap), b))
      <3>1. b \in 1..Len(ds) /\ ds[b].clone /\ \A k \in (b + 1)..Len(ds) : ~ ds[k].clone
        BY <2>1 DEF Inside
      <3>2. \A k \in (b + 1)..Len(ds) : k \in 1..Len(ds)
        BY <1>6, <3>1
      <3>3. Inside(envs, b, Len(ds))
        BY <1>6, <3>1, <3>2 DEF Inside
      <3>4. Len(envs) \in 2..Len(envs) /\ Len(ds) = Len(envs) - 1
        BY <1>6
      <3>5. AllSound(frames[m[Len(envs)]].kept, Region(h, Len(heap), b))
        BY <1>5, <1>6, <3>3, <3>4 DEF KeptIsSound
      <3>. QED BY <1>1, <1>6, <3>5, EndingsAreSound DEF Top
    <2>. QED BY <2>1 DEF HereIsSound
  <1>. QED BY <1>1, <1>3, <1>4, <1>5, <1>7, LeaveApart

-----------------------------------------------------------------------------
(* The map ledger.                                                         *)

\* A ledger that is complete knows each dictionary once, and its events are of
\* dictionaries it knows.
LedgerTyped(l, n) ==
  /\ DOMAIN l = {"complete", "events", "known", "versions"} /\ l.complete \in BOOLEAN
  /\ l.complete =>
       /\ IsStack(l.known) /\ IsStack(l.events)
       /\ \A i \in 1..Len(l.known) : l.known[i] \in 1..n
       /\ \A i, j \in 1..Len(l.known) : l.known[i] = l.known[j] => i = j
       /\ \A j \in 1..Len(l.events) : l.events[j].id \in 1..Len(l.known)

\* r is the ledger l with the events evs of the dictionary at a place added.
Adds(l, place, evs, r) ==
  /\ DOMAIN r = {"complete", "events", "known", "versions"} /\ r.complete \in BOOLEAN
  /\ r.complete =>
       /\ r.events = l.events \o evs
       /\ r.known = IF Known(l, place) THEN l.known ELSE Append(l.known, place)

LEMMA RecordedAdds ==
  ASSUME NEW l, NEW n, LedgerTyped(l, n), l.complete, NEW place,
         NEW reg, reg = Registered(l, place), NEW evs,
         NEW r, \/ ~ reg.complete /\ r = reg
                \/ r = Recorded(reg, evs)
                \/ \E w : r = Recorded([reg EXCEPT !.versions = w], evs)
  PROVE  Adds(l, place, evs, r)
  <1>1. /\ DOMAIN reg = {"complete", "events", "known", "versions"} /\ reg.complete \in BOOLEAN
        /\ reg.events = l.events
        /\ reg.complete => reg.known = IF Known(l, place) THEN l.known ELSE Append(l.known, place)
    BY DEF Registered, LedgerTyped
  <1>2. ASSUME NEW q, DOMAIN q = {"complete", "events", "known", "versions"}, q.complete \in BOOLEAN,
               q.events = l.events, q.known = reg.known, q.complete = reg.complete, r = Recorded(q, evs)
        PROVE  Adds(l, place, evs, r)
    <2>1. \/ r = [q EXCEPT !.complete = FALSE, !.events = <<>>]
          \/ r = [q EXCEPT !.events = q.events \o evs]
      BY <1>2 DEF Recorded
    <2>2. CASE r = [q EXCEPT !.complete = FALSE, !.events = <<>>]
      BY <1>2, <2>2 DEF Adds
    <2>3. CASE r = [q EXCEPT !.events = q.events \o evs]
      BY <1>1, <1>2, <2>3 DEF Adds
    <2>. QED BY <2>1, <2>2, <2>3
  <1>3. CASE ~ reg.complete /\ r = reg
    BY <1>1, <1>3 DEF Adds
  <1>4. CASE r = Recorded(reg, evs)
    BY <1>1, <1>2, <1>4
  <1>5. CASE \E w : r = Recorded([reg EXCEPT !.versions = w], evs)
    <2>1. PICK w : r = Recorded([reg EXCEPT !.versions = w], evs)
      BY <1>5
    <2>2. PICK q : q = [reg EXCEPT !.versions = w]
      OBVIOUS
    <2>3. /\ DOMAIN q = {"complete", "events", "known", "versions"} /\ q.complete = reg.complete
          /\ q.events = reg.events /\ q.known = reg.known
      BY <1>1, <2>2
    <2>. QED BY <1>1, <1>2, <2>1, <2>2, <2>3
  <1>. QED BY <1>3, <1>4, <1>5

LEMMA KnownIn ==
  ASSUME NEW l, NEW n, LedgerTyped(l, n), l.complete, NEW p
  PROVE  /\ Known(l, p) <=> \E i \in 1..Len(l.known) : l.known[i] = p
         /\ Known(l, p) => p \in 1..n /\ Number(l, p) \in 1..Len(l.known) /\ l.known[Number(l, p)] = p
         /\ Len(l.known) \in Nat /\ DOMAIN l.known = 1..Len(l.known)
  <1>1. PICK S : l.known \in Seq(S)
    BY DEF LedgerTyped, IsStack
  <1>2. PICK k : k = l.known
    OBVIOUS
  <1>3. DOMAIN k = 1..Len(k) /\ Len(k) \in Nat
    BY <1>1, <1>2
  <1>4. Known(l, p) <=> \E i \in 1..Len(k) : k[i] = p
    BY <1>2, <1>3 DEF Known
  <1>5. Known(l, p) => p \in 1..n /\ Number(l, p) \in 1..Len(k) /\ k[Number(l, p)] = p
    BY <1>2, <1>3, <1>4 DEF Number, LedgerTyped
  <1>. QED BY <1>2, <1>3, <1>4, <1>5

\* The places a ledger knows once events of one have been added.
LEMMA AddsKnows ==
  ASSUME NEW l, NEW n \in Nat, LedgerTyped(l, n), l.complete, NEW k \in Nat, n <= k, NEW place \in 1..k,
         NEW evs, IsStack(evs), NEW r, Adds(l, place, evs, r),
         r.complete => \A j \in 1..Len(evs) : evs[j].id = Number(r, place)
  PROVE  /\ LedgerTyped(r, k)
         /\ r.complete => \A p : Known(r, p) <=> Known(l, p) \/ p = place
         /\ r.complete /\ ~ Known(l, place) => Number(r, place) = Len(l.known) + 1
         /\ r.complete => \A i \in 1..Len(l.known) : i \in 1..Len(r.known) /\ r.known[i] = l.known[i]
         /\ r.complete => r.known[Number(r, place)] = place /\ Number(r, place) \in 1..Len(r.known)
  <1>0. DOMAIN r = {"complete", "events", "known", "versions"} /\ r.complete \in BOOLEAN
    BY DEF Adds
  <1>1. CASE ~ r.complete
    BY <1>0, <1>1 DEF LedgerTyped
  <1>2. CASE r.complete
    <2>1. PICK S : l.known \in Seq(S)
      BY DEF LedgerTyped, IsStack
    <2>2. PICK a, b : a = l.known /\ b = r.known
      OBVIOUS
    <2>3. b = IF Known(l, place) THEN a ELSE Append(a, place)
      BY <1>2, <2>2 DEF Adds
    <2>4. a \in Seq(S \cup {place}) /\ Len(a) \in Nat
      BY <2>1, <2>2
    <2>5. /\ b \in Seq(S \cup {place})
          /\ Len(b) = IF Known(l, place) THEN Len(a) ELSE Len(a) + 1
          /\ \A i \in 1..Len(a) : b[i] = a[i]
          /\ ~ Known(l, place) => b[Len(a) + 1] = place
      BY <2>3, <2>4
    <2>6. DOMAIN b = 1..Len(b) /\ Len(b) \in Nat /\ \A i \in 1..Len(a) : i \in 1..Len(b)
      BY <2>4, <2>5
    <2>7. /\ \A i \in 1..Len(a) : a[i] \in 1..n
          /\ \A i, j \in 1..Len(a) : a[i] = a[j] => i = j
          /\ \A p : Known(l, p) <=> \E i \in 1..Len(a) : a[i] = p
      <3>1. \A p : Known(l, p) <=> \E i \in 1..Len(a) : a[i] = p
        BY <2>2, KnownIn
      <3>2. /\ \A i \in 1..Len(a) : a[i] \in 1..n
            /\ \A i, j \in 1..Len(a) : a[i] = a[j] => i = j
        BY <2>2 DEF LedgerTyped
      <3>. QED BY <3>1, <3>2
    <2>8. \A p : Known(r, p) <=> \E i \in 1..Len(b) : b[i] = p
      BY <2>2, <2>6 DEF Known
    <2>9. \A i \in 1..Len(b) : i \in 1..Len(a) \/ (i = Len(a) + 1 /\ ~ Known(l, place))
      BY <2>4, <2>5
    <2>10. \A p : Known(r, p) <=> Known(l, p) \/ p = place
      <3>1. ASSUME NEW p, Known(r, p)
            PROVE  Known(l, p) \/ p = place
        <4>1. PICK i \in 1..Len(b) : b[i] = p
          BY <2>8, <3>1
        <4>. QED BY <2>5, <2>7, <2>9, <4>1
      <3>2. ASSUME NEW p, Known(l, p)
            PROVE  Known(r, p)
        BY <2>5, <2>6, <2>7, <2>8, <3>2
      <3>3. Known(r, place)
        <4>1. CASE Known(l, place)
          BY <3>2, <4>1
        <4>2. CASE ~ Known(l, place)
          <5>1. Len(a) + 1 \in 1..Len(b)
            BY <2>4, <2>5, <4>2
          <5>. QED BY <2>5, <2>8, <4>2, <5>1
        <4>. QED BY <4>1, <4>2
      <3>. QED BY <3>1, <3>2, <3>3
    <2>11. \A i, j \in 1..Len(b) : b[i] = b[j] => i = j
      <3>1. ASSUME NEW i \in 1..Len(b), NEW j \in 1..Len(b), b[i] = b[j]
            PROVE  i = j
        <4>1. CASE i \in 1..Len(a) /\ j \in 1..Len(a)
          BY <2>5, <2>7, <3>1, <4>1
        <4>2. CASE i \notin 1..Len(a)
          BY <2>5, <2>7, <2>9, <3>1, <4>2
        <4>3. CASE j \notin 1..Len(a)
          BY <2>5, <2>7, <2>9, <3>1, <4>3
        <4>. QED BY <4>1, <4>2, <4>3
      <3>. QED BY <3>1
    <2>12. \A i \in 1..Len(b) : b[i] \in 1..k
      <3>1. ASSUME NEW i \in 1..Len(b)
            PROVE  b[i] \in 1..k
        <4>1. CASE i \in 1..Len(a)
          <5>1. b[i] \in 1..n
            BY <2>5, <2>7, <4>1
          <5>. QED BY <5>1
        <4>2. CASE i \notin 1..Len(a)
          BY <2>5, <2>9, <4>2
        <4>. QED BY <4>1, <4>2
      <3>. QED BY <3>1
    <2>13. Number(r, place) \in 1..Len(b) /\ b[Number(r, place)] = place
      <3>1. PICK i \in 1..Len(b) : b[i] = place
        BY <2>8, <2>10
      <3>2. \E j \in DOMAIN r.known : r.known[j] = place
        BY <2>2, <2>6, <3>1
      <3>. QED BY <2>2, <2>6, <3>2 DEF Number
    <2>14. ~ Known(l, place) => Number(r, place) = Len(a) + 1
      <3>1. ASSUME ~ Known(l, place)
            PROVE  Len(a) + 1 \in 1..Len(b)
        BY <2>4, <2>5, <3>1
      <3>. QED BY <2>5, <2>11, <2>13, <3>1
    <2>15. PICK es, fs : es = l.events /\ fs = r.events
      OBVIOUS
    <2>16. fs = es \o evs /\ IsStack(es) /\ \A j \in 1..Len(es) : es[j].id \in 1..Len(a)
      BY <1>2, <2>2, <2>15 DEF Adds, LedgerTyped
    <2>17. PICK T, U : es \in Seq(T) /\ evs \in Seq(U)
      BY <2>16 DEF IsStack
    <2>18. es \in Seq(T \cup U) /\ evs \in Seq(T \cup U)
      BY <2>17
    <2>19. fs \in Seq(T \cup U) /\ Len(fs) = Len(es) + Len(evs) /\ Len(es) \in Nat /\ Len(evs) \in Nat
           /\ \A j \in 1..Len(fs) : fs[j] = IF j <= Len(es) THEN es[j] ELSE evs[j - Len(es)]
      BY <2>16, <2>18
    <2>20. \A j \in 1..Len(fs) : fs[j].id \in 1..Len(b)
      <3>1. ASSUME NEW j \in 1..Len(fs)
            PROVE  fs[j].id \in 1..Len(b)
        <4>1. CASE j <= Len(es)
          BY <2>6, <2>16, <2>19, <4>1
        <4>2. CASE ~ (j <= Len(es))
          <5>1. j - Len(es) \in 1..Len(evs)
            BY <2>19, <4>2
          <5>2. fs[j] = evs[j - Len(es)]
            BY <2>19, <4>2
          <5>. QED BY <1>2, <2>13, <5>1, <5>2
        <4>. QED BY <4>1, <4>2
      <3>. QED BY <3>1
    <2>21. LedgerTyped(r, k)
      BY <1>0, <1>2, <2>2, <2>5, <2>11, <2>12, <2>15, <2>19, <2>20 DEF LedgerTyped, IsStack
    <2>. QED BY <2>2, <2>5, <2>6, <2>10, <2>13, <2>14, <2>21
  <1>. QED BY <1>0, <1>1, <1>2

-----------------------------------------------------------------------------
(* The instructions that start an activation with a scope of its own.      *)

\* A call: its scope is part of the caller's.
LEMMA CallApart ==
  ASSUME IInv, NEW h, NEW m, Apart(h, m), CallOp
  PROVE  (\E q : Apart(h, q)') /\ memory' = memory
  <1>1. /\ AtInstruction /\ Step("CALL") /\ heap' = heap /\ ledger' = ledger /\ memory' = memory
        /\ Inst.op = "CALL" /\ stack' = Popped(Needs)
    BY DEF CallOp, Step, maps
  <1>2. PICK c : Here(h, c)
    BY HereIs
  <1>3. PICK K : K = Region(h, Len(heap), c)
    OBVIOUS
  <1>4. AllSound(stack, K) /\ Ends(panic, K)
    BY <1>2, <1>3 DEF Here
  <1>5. Inst.len \in Nat /\ Len(stack) \in Nat /\ ~ (Len(stack) < Needs)
    BY <1>1, <1>4, AtFacts, NeedsAreThere DEF Counts
  <1>6. PICK n \in Nat : n = Needs /\ n <= Len(stack)
    <2>1. Needs \in Nat
      BY <1>1, <1>5, CountsAreNeeded
    <2>. QED BY <1>5, <2>1
  <1>7. AllSound(stack', K) /\ AllSound(Operands(n), K) /\ Len(Operands(n)) = n
    BY <1>1, <1>4, <1>6, OperandsAreSound
  <1>8. CASE CallFault # None
    <2>1. Raise(CallFault) /\ envs' = envs
      BY <1>8 DEF CallOp
    <2>2. Ends(CallFault, K)
      BY EndingsAreSound DEF CallFault
    <2>3. SameScopes(frames, frames')
      BY <2>1, SameIsSame DEF Raise
    <2>4. Computes(K) /\ Binds(K)
      BY <1>7, <2>1, <2>2, <2>3 DEF Computes, Binds, Raise
    <2>. QED BY <1>1, <1>2, <1>3, <2>4, QuietApart
  <1>9. CASE CallFault = None
    <2>1. ~ Misses
      BY <1>9, NoFault DEF CallFault
    <2>2. n = Inst.len
      BY <1>1, <1>6, <2>1, CountsAreNeeded
    <2>3. PICK params, args : params = program.params[Inst.name] /\ args = Operands(n)
      OBVIOUS
    <2>4. Len(params) = n /\ DOMAIN params = 1..n
      <3>1. Inst.name \in DOMAIN program.params /\ Len(params) = Inst.len
        BY <2>1, <2>3 DEF Misses
      <3>2. DOMAIN params = 1..Len(params)
        BY <2>3, <3>1, ProgramsAreWellFormed DEF IInv
      <3>. QED BY <2>2, <3>1, <3>2
    <2>5. PICK b : b = [x \in {params[i] : i \in DOMAIN params} |->
                          args[CHOOSE i \in DOMAIN params : params[i] = x]]
      OBVIOUS
    <2>6. PICK e : e = [bound |-> b, clone |-> FALSE]
      OBVIOUS
    <2>7. PICK f : f = [Frame("call", Inst.name, 1, Len(program.code[Inst.name]) + 1) EXCEPT !.kept = Popped(Inst.len)]
      OBVIOUS
    <2>8. frames' = Append(frames, f) /\ envs' = Append(envs, e) /\ panic' = panic
      <3>1. frames' = Append(frames, f) /\ panic' = panic
        BY <1>9, <2>7, ZenonT(60) DEF CallOp
      <3>2. args = Operands(Inst.len)
        BY <2>2, <2>3
      <3>3. params = program.params[Inst.name]
        BY <2>3
      <3>4. envs' = Append(envs, [bound |-> [x \in {params[i] : i \in DOMAIN params} |->
                                               args[CHOOSE i \in DOMAIN params : params[i] = x]],
                                  clone |-> FALSE])
        BY <1>9, <3>2, <3>3, SMTT(90) DEF CallOp
      <3>. QED BY <2>5, <2>6, <3>1, <3>4
    <2>9. f.kind = "call" /\ DOMAIN e = {"bound", "clone"} /\ ~ e.clone /\ e.bound = b
      BY <2>6, <2>7 DEF Frame
    <2>10. Starts(frames, frames', f, envs, envs', e)
      BY <2>8, <2>9 DEF Starts, IInv, Stacked
    <2>11. ASSUME NEW x \in DOMAIN b
           PROVE  Sound(b[x], K)
      <3>1. \E i \in 1..n : params[i] = x
        BY <2>4, <2>5
      <3>2. PICK i : i = CHOOSE j \in 1..n : params[j] = x
        OBVIOUS
      <3>3. i \in 1..n
        BY <3>1, <3>2
      <3>4. b[x] = args[i]
        BY <2>4, <2>5, <3>2
      <3>. QED BY <1>7, <2>3, <3>3, <3>4 DEF AllSound
    <2>12. HeapIsSound(heap', h) /\ LedgerKnows(ledger', h, Len(heap')) /\ Grows(h, Len(heap), h, Len(heap'))
      <3>1. HeapIsSound(heap, h) /\ LedgerKnows(ledger, h, Len(heap)) /\ Len(heap) \in Nat
        BY StackAppend DEF Apart, HeapIsSound
      <3>. QED BY <1>1, <3>1 DEF Grows
    <2>13. \A d : Inside(envs, d, Len(envs)) => Region(h, Len(heap'), d) = K
      BY <1>1, <1>2, <1>3 DEF Here
    <2>14. \A d : (IF e.clone THEN d = Len(envs) + 1 ELSE Inside(envs, d, Len(envs))) =>
             /\ \A x \in DOMAIN e.bound : Sound(e.bound[x], Region(h, Len(heap'), d))
             /\ AllSound(stack', Region(h, Len(heap'), d)) /\ Ends(panic', Region(h, Len(heap'), d))
      BY <1>4, <1>7, <2>8, <2>9, <2>11, <2>13
    <2>15. e.clone => \A d : Inside(envs, d, Len(envs)) => AllSound(f.kept, Region(h, Len(heap'), d))
      BY <2>9
    <2>. QED BY <1>1, <2>10, <2>12, <2>14, <2>15, EnterApart
  <1>. QED BY <1>8, <1>9

\* What the copy of a scope has to be: the dictionaries there were stay as they
\* are, and what the agent is given is made of dictionaries added after them.
CopyIsWhole ==
  LET made == Snapshot.heap
      fresh == (Len(heap) + 1)..Len(made)
  IN /\ IsStack(made) /\ Len(heap) <= Len(made) /\ \A p \in 1..Len(heap) : made[p] = heap[p]
     /\ \A p \in fresh : IsDictionary(made[p], fresh)
     /\ \A x \in DOMAIN Snapshot.bound : Sound(Snapshot.bound[x], fresh)

\* The heap of the step keeps every place there was.
HeapGrows == Len(heap) <= Len(heap') /\ \A p \in 1..Len(heap) : heap'[p] = heap[p]

\* A larger heap, of the same ledger.
LEMMA TypedGrows ==
  ASSUME NEW l, NEW n \in Nat, LedgerTyped(l, n), NEW k \in Nat, n <= k
  PROVE  LedgerTyped(l, k)
  <1>1. 1..n \subseteq 1..k
    OBVIOUS
  <1>. QED BY <1>1 DEF LedgerTyped

\* The start of an agent: its scope is a copy, and its stack its own.
LEMMA SpawnApart ==
  ASSUME IInv, NEW h, NEW m, Apart(h, m), LedgerTyped(ledger, Len(heap)), SpawnAgent, CopyIsWhole
  PROVE  /\ \E g, q : Apart(g, q)'
         /\ memory' = memory /\ ledger' = ledger /\ HeapGrows
  <1>1. /\ AtInstruction /\ Step("SPAWN_AGENT") /\ ledger' = ledger /\ memory' = memory
    BY DEF SpawnAgent, Step
  <1>2. PICK c : Here(h, c)
    BY HereIs
  <1>3. PICK K : K = Region(h, Len(heap), c)
    OBVIOUS
  <1>4. AllSound(stack, K) /\ Ends(panic, K)
    BY <1>2, <1>3 DEF Here
  <1>5. 1 <= Len(stack) /\ Len(heap) \in Nat /\ HeapIsSound(heap, h) /\ LedgerKnows(ledger, h, Len(heap))
    <2>1. 1 <= Len(stack)
      BY <1>1, <1>4, NeedsAreThere
    <2>. QED BY <2>1, StackAppend DEF Apart, HeapIsSound
  <1>6. AllSound(Popped(1), K)
    BY <1>4, <1>5, OperandsAreSound
  <1>7. ASSUME stack' = Popped(1), envs' = envs, heap' = heap, Goes(1) \/ Raise(AgentFault)
        PROVE  (\E g, q : Apart(g, q)') /\ HeapGrows
    <2>1. Ends(AgentFault, K)
      BY EndingsAreSound DEF AgentFault
    <2>2. Ends(panic', K)
      BY <1>7, <2>1, EndingsAreSound DEF Goes, Raise
    <2>3. SameScopes(frames, frames')
      BY <1>1, <1>7, MovesAreSame DEF Raise
    <2>4. Computes(K) /\ Binds(K)
      BY <1>6, <1>7, <2>2, <2>3 DEF Computes, Binds
    <2>5. Apart(h, m)'
      BY <1>1, <1>2, <1>3, <1>7, <2>4, QuietApart
    <2>. QED BY <1>5, <1>7, <2>5 DEF HeapGrows
  <1>8. CASE AgentFault # None
    <2>1. stack' = Popped(1) /\ envs' = envs /\ heap' = heap /\ Raise(AgentFault)
      BY <1>8 DEF SpawnAgent
    <2>. QED BY <1>1, <1>7, <2>1
  <1>9. CASE AgentFault = None /\ Inst.len = 0
    <2>1. stack' = Popped(1) /\ envs' = envs /\ heap' = heap /\ Goes(1)
      BY <1>9 DEF SpawnAgent
    <2>. QED BY <1>1, <1>7, <2>1
  <1>10. CASE AgentFault = None /\ Inst.len # 0
    <2>1. PICK f : f = [Frame("agent", Top.fn, Top.ip + 1, Top.ip + 1 + Inst.len) EXCEPT !.kept = Popped(1)]
      OBVIOUS
    <2>2. PICK b : b = Snapshot.bound
      OBVIOUS
    <2>3. PICK e : e = [bound |-> b, clone |-> TRUE]
      OBVIOUS
    <2>4. PICK H : H = Snapshot.heap
      OBVIOUS
    <2>5. /\ frames' = Append(frames, f) /\ envs' = Append(envs, e) /\ panic' = panic
          /\ stack' = <<>> /\ heap' = H
      BY <1>10, <2>1, <2>2, <2>3, <2>4 DEF SpawnAgent
    <2>6. f.kind = "agent" /\ f.kept = Popped(1)
      <3>1. PICK d : d = Frame("agent", Top.fn, Top.ip + 1, Top.ip + 1 + Inst.len)
        OBVIOUS
      <3>2. DOMAIN d = {"kind", "fn", "ip", "upto", "bases", "kept"} /\ d.kind = "agent"
        BY <3>1 DEF Frame
      <3>3. f = [d EXCEPT !.kept = Popped(1)]
        BY <2>1, <3>1
      <3>. QED BY <3>2, <3>3
    <2>7. DOMAIN e = {"bound", "clone"} /\ e.clone /\ e.bound = b
      BY <2>3
    <2>8. Starts(frames, frames', f, envs, envs', e)
      BY <2>5, <2>6, <2>7 DEF Starts, IInv, Stacked
    <2>9. PICK n, k : n = Len(heap) /\ k = Len(H)
      OBVIOUS
    <2>10. PICK fresh : fresh = (n + 1)..k
      OBVIOUS
    <2>11. /\ IsStack(H) /\ n <= k /\ \A p \in 1..n : H[p] = heap[p]
           /\ \A p \in fresh : IsDictionary(H[p], fresh)
           /\ \A x \in DOMAIN b : Sound(b[x], fresh)
      BY <2>2, <2>4, <2>9, <2>10 DEF CopyIsWhole
    <2>12. n \in Nat /\ k \in Nat
      BY <1>5, <2>9, <2>11, StackAppend
    <2>13. PICK z \in Nat : z = Len(envs) + 1 /\ z > 1
      <3>1. Len(envs) \in Nat /\ Len(envs) > 0
        BY StackAppend DEF Apart, AreScopes
      <3>. QED BY <3>1
    <2>14. PICK g : g = [p \in 1..k |-> IF p > n THEN z ELSE h[p]]
      OBVIOUS
    <2>15. (\A p \in 1..n : p \in 1..k /\ g[p] = h[p]) /\ \A p \in fresh : p \in 1..k /\ g[p] = z
      <3>1. \A p \in 1..n : p \in 1..k /\ ~ (p > n)
        BY <2>11, <2>12
      <3>2. \A p \in fresh : p \in 1..k /\ p > n
        BY <2>10, <2>12
      <3>. QED BY <2>14, <3>1, <3>2
    <2>16. Grows(h, n, g, k)
      BY <2>11, <2>12, <2>15 DEF Grows
    <2>17. fresh \subseteq Region(g, k, z)
      BY <2>15 DEF Region
    <2>18. \A p \in 1..k : p \in 1..n \/ p \in fresh
      BY <2>10, <2>12
    <2>19. HeapIsSound(H, g)
      <3>1. ASSUME NEW p \in 1..k
            PROVE  IsDictionary(H[p], Region(g, k, g[p]))
        <4>1. CASE p \in 1..n
          <5>1. IsDictionary(heap[p], Region(h, n, h[p]))
            BY <1>5, <2>9, <4>1 DEF HeapIsSound
          <5>2. Region(h, n, h[p]) \subseteq Region(g, k, h[p])
            BY <2>16, RegionGrows
          <5>. QED BY <2>11, <2>15, <4>1, <5>1, <5>2, DictionaryGrows
        <4>2. CASE p \in fresh
          BY <2>11, <2>15, <2>17, <4>2, DictionaryGrows
        <4>. QED BY <2>18, <4>1, <4>2
      <3>. QED BY <2>9, <2>11, <3>1 DEF HeapIsSound
    <2>20. LedgerKnows(ledger, g, k)
      <3>1. ASSUME ledger.complete, NEW p \in 1..k
            PROVE  g[p] = 1 <=> Known(ledger, p)
        <4>1. CASE p \in 1..n
          BY <1>5, <2>9, <2>15, <3>1, <4>1 DEF LedgerKnows
        <4>2. CASE p \in fresh
          <5>1. g[p] # 1
            BY <2>13, <2>15, <4>2
          <5>2. p \notin 1..n
            BY <2>10, <2>12, <4>2
          <5>. QED BY <2>9, <3>1, <5>1, <5>2, KnownIn
        <4>. QED BY <2>18, <4>1, <4>2
      <3>. QED BY <3>1 DEF LedgerKnows
    <2>21. Region(h, n, c) \subseteq Region(g, k, c)
      BY <2>16, RegionGrows
    <2>22. AllSound(Popped(1), Region(g, k, c))
      BY <1>3, <1>6, <2>9, <2>21, AllSoundGrow
    <2>23. \A d : Inside(envs, d, Len(envs)) => d = c
      BY <1>2 DEF Here
    <2>24. \A x \in DOMAIN b : Sound(b[x], Region(g, k, z))
      BY <2>11, <2>17, SoundGrows
    <2>25. AllSound(<<>>, Region(g, k, z))
      BY AllSoundEmpty
    <2>26. Ends(panic, Region(g, k, z))
      BY <1>1, EndingsAreSound DEF AtInstruction
    <2>27. Len(heap') = k
      BY <2>5, <2>9
    <2>28. \A d : (IF e.clone THEN d = Len(envs) + 1 ELSE Inside(envs, d, Len(envs))) =>
             /\ \A x \in DOMAIN e.bound : Sound(e.bound[x], Region(g, Len(heap'), d))
             /\ AllSound(stack', Region(g, Len(heap'), d)) /\ Ends(panic', Region(g, Len(heap'), d))
      BY <2>5, <2>7, <2>13, <2>24, <2>25, <2>26, <2>27
    <2>29. e.clone => \A d : Inside(envs, d, Len(envs)) => AllSound(f.kept, Region(g, Len(heap'), d))
      BY <2>6, <2>22, <2>23, <2>27
    <2>30. /\ Grows(h, Len(heap), g, Len(heap')) /\ HeapIsSound(heap', g)
           /\ LedgerKnows(ledger', g, Len(heap'))
      BY <1>1, <2>5, <2>9, <2>16, <2>19, <2>20, <2>27
    <2>31. \E q : Apart(g, q)'
      BY <2>8, <2>28, <2>29, <2>30, EnterApart
    <2>32. HeapGrows
      BY <2>5, <2>9, <2>11 DEF HeapGrows
    <2>. QED BY <1>1, <2>31, <2>32
  <1>. QED BY <1>8, <1>9, <1>10

-----------------------------------------------------------------------------
(* What the events of a ledger say.                                        *)

IsChange(e, id, key) == e.id = id /\ e.key = <<key>> /\ e.op # "GET"

Agree(es, fs, n) == \A j \in 1..n : fs[j] = es[j]
Silent(fs, n, k, id, key) == \A j \in (n + 1)..k : ~ IsChange(fs[j], id, key)

\* Events that are no change of a key say nothing of it.
LEMMA SaysStays ==
  ASSUME NEW es, NEW fs, NEW n \in Nat, NEW k \in Nat, n <= k, Agree(es, fs, n),
         NEW id, NEW key, Silent(fs, n, k, id, key)
  PROVE  Says(fs, id, key, k) = Says(es, id, key, n)
  <1>1. PICK js : js = Changes(es, id, key, n)
    OBVIOUS
  <1>2. Changes(fs, id, key, k) = js
    <2>1. \A j \in 1..n : j \in 1..k /\ (IsChange(fs[j], id, key) <=> IsChange(es[j], id, key))
      BY DEF Agree
    <2>2. \A j \in 1..k : j \in 1..n \/ ~ IsChange(fs[j], id, key)
      <3>1. \A j \in 1..k : j \in 1..n \/ j \in (n + 1)..k
        OBVIOUS
      <3>. QED BY <3>1 DEF Silent
    <2>. QED BY <1>1, <2>1, <2>2 DEF Changes, IsChange
  <1>3. CASE js = {}
    BY <1>1, <1>2, <1>3 DEF Says
  <1>4. CASE js # {}
    <2>1. js \in SUBSET (1..n)
      BY <1>1 DEF Changes
    <2>2. PICK j \in js : \A i \in js : i <= j
      BY <1>4, <2>1, GreatestNatural
    <2>3. LastOf(js) \in js
      BY <2>2 DEF LastOf
    <2>4. PICK q \in 1..n : q = LastOf(js)
      BY <2>1, <2>3
    <2>5. fs[q] = es[q]
      BY <2>4 DEF Agree
    <2>. QED BY <1>1, <1>2, <2>4, <2>5 DEF Says
  <1>. QED BY <1>3, <1>4

\* The last change of a key says what it is.
LEMMA SaysChanged ==
  ASSUME NEW fs, NEW k \in Nat \ {0}, NEW id, NEW key, IsChange(fs[k], id, key)
  PROVE  Says(fs, id, key, k) = IF fs[k].op = "DELETE" THEN [there |-> FALSE, val |-> <<"none">>]
                                ELSE [there |-> TRUE, val |-> fs[k].val]
  <1>1. PICK js : js = Changes(fs, id, key, k)
    OBVIOUS
  <1>2. js \in SUBSET (1..k) /\ k \in js
    BY <1>1 DEF Changes, IsChange
  <1>3. LastOf(js) = k
    <2>1. \A i \in js : i <= k
      BY <1>2
    <2>2. \A j \in js : (\A i \in js : i <= j) => j = k
      BY <1>2, <2>1
    <2>. QED BY <1>2, <2>1, <2>2 DEF LastOf
  <1>. QED BY <1>1, <1>2, <1>3 DEF Says

\* The events say what the dictionary d holds; the reads among them what there was.
DictTells(es, n, id, d) ==
  \A key : Tells(Says(es, id, key, n), key \in DOMAIN d, IF key \in DOMAIN d THEN d[key] ELSE Nil)
ReadsTell(es, n) ==
  \A j \in 1..n : es[j].op \in {"GET", "DELETE"} => Says(es, es[j].id, es[j].key[1], j - 1).there = es[j].existed
LedgerTells(l, H) ==
  l.complete => /\ \A i \in 1..Len(l.known) : DictTells(l.events, Len(l.events), i, H[l.known[i]])
                /\ ReadsTell(l.events, Len(l.events))

LEMMA ReadsStay ==
  ASSUME NEW es, NEW fs, NEW n \in Nat, ReadsTell(es, n), Agree(es, fs, n)
  PROVE  ReadsTell(fs, n)
  <1>1. ASSUME NEW j \in 1..n, fs[j].op \in {"GET", "DELETE"}
        PROVE  Says(fs, fs[j].id, fs[j].key[1], j - 1).there = fs[j].existed
    <2>1. PICK i \in Nat : i = j - 1
      OBVIOUS
    <2>2. Agree(es, fs, i) /\ \A x \in (i + 1)..i : FALSE
      BY <2>1 DEF Agree
    <2>3. PICK id, key : id = es[j].id /\ key = es[j].key[1]
      OBVIOUS
    <2>4. Says(fs, id, key, i) = Says(es, id, key, i)
      <3>1. Silent(fs, i, i, id, key) /\ i <= i
        BY <2>2 DEF Silent
      <3>. QED BY <2>2, <3>1, SaysStays
    <2>5. fs[j] = es[j]
      BY DEF Agree
    <2>6. Says(es, id, key, i).there = es[j].existed
      BY <1>1, <2>1, <2>3, <2>5 DEF ReadsTell
    <2>. QED BY <2>1, <2>3, <2>4, <2>5, <2>6
  <1>. QED BY <1>1 DEF ReadsTell

LEMMA DictStays ==
  ASSUME NEW es, NEW fs, NEW n \in Nat, NEW k \in Nat, n <= k, Agree(es, fs, n),
         NEW id, \A j \in (n + 1)..k : fs[j].id # id, NEW d, DictTells(es, n, id, d)
  PROVE  DictTells(fs, k, id, d)
  <1>1. ASSUME NEW key
        PROVE  Says(fs, id, key, k) = Says(es, id, key, n)
    <2>1. Silent(fs, n, k, id, key)
      BY DEF Silent, IsChange
    <2>. QED BY <2>1, SaysStays
  <1>. QED BY <1>1 DEF DictTells

\* A heap that keeps the dictionaries the ledger knows.
LEMMA TellsSame ==
  ASSUME NEW l, NEW H, LedgerTells(l, H), NEW G, \A i \in 1..Len(l.known) : G[l.known[i]] = H[l.known[i]]
  PROVE  LedgerTells(l, G)
  BY DEF LedgerTells

IsMore(fs, es, evs) == fs = es \o evs

LEMMA OneMore ==
  ASSUME NEW es, IsStack(es), NEW e, NEW fs, IsMore(fs, es, <<e>>)
  PROVE  /\ Len(es) \in Nat /\ Len(fs) = Len(es) + 1 /\ fs[Len(es) + 1] = e
         /\ Agree(es, fs, Len(es))
  <1>1. PICK S : es \in Seq(S)
    BY DEF IsStack
  <1>2. es \in Seq(S \cup {e}) /\ <<e>> \in Seq(S \cup {e})
    BY <1>1
  <1>. QED BY <1>2 DEF IsMore, Agree

\* A change of a key, or a read of it: e is its event, and G the heap it leaves.
Notes(l, H, id, key, e, G) ==
  LET d == G[l.known[id]]
      b == H[l.known[id]]
  IN /\ id \in 1..Len(l.known) /\ e.id = id /\ e.key = <<key>>
     /\ e.op \in {"GET", "DELETE"} => e.existed = (key \in DOMAIN b)
     /\ \A i \in 1..Len(l.known) : i # id => G[l.known[i]] = H[l.known[i]]
     /\ \A x : x # key => (x \in DOMAIN d <=> x \in DOMAIN b) /\ (x \in DOMAIN d => d[x] = b[x])
     /\ \/ e.op = "GET" /\ d = b
        \/ e.op = "DELETE" /\ key \notin DOMAIN d
        \/ e.op = "SET" /\ key \in DOMAIN d /\ e.val = Fingerprint(d[key])

LEMMA EventTells ==
  ASSUME NEW l, NEW n, LedgerTyped(l, n), l.complete, NEW H, LedgerTells(l, H),
         NEW id, NEW key, NEW e, NEW G, Notes(l, H, id, key, e, G),
         NEW r, r.complete, r.known = l.known, IsMore(r.events, l.events, <<e>>)
  PROVE  LedgerTells(r, G)
  <1>0. PICK d, b : d = G[l.known[id]] /\ b = H[l.known[id]]
    OBVIOUS
  <1>1. PICK es, fs : es = l.events /\ fs = r.events
    OBVIOUS
  <1>2. PICK k : k = Len(es)
    OBVIOUS
  <1>3. k \in Nat /\ Len(fs) = k + 1 /\ fs[k + 1] = e /\ Agree(es, fs, k)
    BY <1>1, <1>2, OneMore DEF LedgerTyped
  <1>4. PICK q \in Nat \ {0} : q = k + 1
    BY <1>3
  <1>5. /\ k <= q /\ q \in Nat /\ fs[q] = e /\ Len(fs) = q /\ (\A j \in (k + 1)..q : j = q)
        /\ \A j \in 1..q : j \in 1..k \/ j = q
    BY <1>3, <1>4
  <1>6. ReadsTell(es, k) /\ \A i \in 1..Len(l.known) : DictTells(es, k, i, H[l.known[i]])
    BY <1>1, <1>2 DEF LedgerTells
  <1>7. /\ e.id = id /\ e.key = <<key>> /\ id \in 1..Len(l.known)
        /\ \A x : IsChange(e, id, x) => x = key
    BY DEF IsChange, Notes
  <1>8. \A i : i # id => (DictTells(es, k, i, H[l.known[i]]) => DictTells(fs, q, i, H[l.known[i]]))
    <2>1. ASSUME NEW i, i # id, NEW c, DictTells(es, k, i, c)
          PROVE  DictTells(fs, q, i, c)
      <3>1. \A j \in (k + 1)..q : fs[j].id # i
        BY <1>5, <1>7, <2>1
      <3>. QED BY <1>3, <1>5, <2>1, <3>1, DictStays
    <2>. QED BY <2>1
  <1>12. ASSUME NEW x, ~ IsChange(e, id, x)
         PROVE  Says(fs, id, x, q) = Says(es, id, x, k)
    <2>1. k \in Nat /\ k <= q /\ Agree(es, fs, k)
      BY <1>3, <1>5
    <2>2. Silent(fs, k, q, id, x)
      BY <1>5, <1>12 DEF Silent
    <2>. QED BY <2>1, <2>2, SaysStays
  <1>9. DictTells(fs, q, id, d)
    <2>1. ASSUME NEW x, x # key \/ e.op = "GET"
          PROVE  Tells(Says(fs, id, x, q), x \in DOMAIN d, IF x \in DOMAIN d THEN d[x] ELSE Nil)
      <3>1. ~ IsChange(e, id, x)
        BY <1>7, <2>1 DEF IsChange
      <3>2. Says(fs, id, x, q) = Says(es, id, x, k)
        BY <1>12, <3>1
      <3>3. Tells(Says(es, id, x, k), x \in DOMAIN b, IF x \in DOMAIN b THEN b[x] ELSE Nil)
        BY <1>0, <1>6, <1>7 DEF DictTells
      <3>4. (x \in DOMAIN d <=> x \in DOMAIN b) /\ (x \in DOMAIN d => d[x] = b[x])
        BY <1>0, <2>1 DEF Notes
      <3>5. CASE x \in DOMAIN d
        BY <3>2, <3>3, <3>4, <3>5 DEF Tells
      <3>6. CASE x \notin DOMAIN d
        BY <3>2, <3>3, <3>4, <3>6 DEF Tells
      <3>. QED BY <3>5, <3>6
    <2>2. ASSUME e.op # "GET"
          PROVE  Tells(Says(fs, id, key, q), key \in DOMAIN d, IF key \in DOMAIN d THEN d[key] ELSE Nil)
      <3>1. IsChange(fs[q], id, key)
        BY <1>5, <1>7, <2>2 DEF IsChange
      <3>2. Says(fs, id, key, q) = IF e.op = "DELETE" THEN [there |-> FALSE, val |-> <<"none">>]
                                   ELSE [there |-> TRUE, val |-> e.val]
        BY <1>5, <3>1, SaysChanged
      <3>3. CASE e.op = "DELETE" /\ key \notin DOMAIN d
        <4>1. PICK s : s = Says(fs, id, key, q)
          OBVIOUS
        <4>2. s.there = FALSE
          BY <3>2, <3>3, <4>1
        <4>3. (key \in DOMAIN d) = FALSE
          BY <3>3
        <4>. QED BY <3>3, <4>1, <4>2, <4>3, Zenon DEF Tells
      <3>4. CASE e.op = "SET" /\ key \in DOMAIN d /\ e.val = Fingerprint(d[key])
        <4>1. PICK s : s = Says(fs, id, key, q)
          OBVIOUS
        <4>2. s.there = TRUE /\ s.val = Fingerprint(d[key])
          BY <3>2, <3>4, <4>1
        <4>3. (key \in DOMAIN d) = TRUE
          BY <3>4
        <4>. QED BY <3>4, <4>1, <4>2, <4>3, Zenon DEF Tells
      <3>. QED BY <1>0, <2>2, <3>3, <3>4 DEF Notes
    <2>. QED BY <2>1, <2>2 DEF DictTells
  <1>10. ReadsTell(fs, q)
    <2>1. ReadsTell(fs, k)
      BY <1>3, <1>6, ReadsStay
    <2>2. ASSUME e.op \in {"GET", "DELETE"}
          PROVE  Says(fs, id, key, k).there = e.existed
      <3>1. Silent(fs, k, k, id, key) /\ k \in Nat /\ k <= k
        BY <1>3 DEF Silent
      <3>2. Says(fs, id, key, k) = Says(es, id, key, k)
        BY <1>3, <3>1, SaysStays
      <3>3. Says(es, id, key, k).there = (key \in DOMAIN b)
        BY <1>0, <1>6, <1>7 DEF DictTells, Tells
      <3>4. e.existed = (key \in DOMAIN b)
        BY <1>0, <2>2 DEF Notes
      <3>. QED BY <3>2, <3>3, <3>4
    <2>3. ASSUME NEW j \in 1..q, fs[j].op \in {"GET", "DELETE"}
          PROVE  Says(fs, fs[j].id, fs[j].key[1], j - 1).there = fs[j].existed
      <3>1. CASE j \in 1..k
        BY <2>1, <2>3, <3>1 DEF ReadsTell
      <3>2. CASE j = q
        <4>1. j - 1 = k /\ fs[j] = e /\ e.key[1] = key
          BY <1>3, <1>4, <1>5, <1>7, <3>2
        <4>. QED BY <1>7, <2>2, <2>3, <4>1
      <3>. QED BY <1>5, <3>1, <3>2
    <2>. QED BY <2>3 DEF ReadsTell
  <1>11. ASSUME NEW i \in 1..Len(r.known)
         PROVE  DictTells(fs, q, i, G[r.known[i]])
    <2>1. CASE i = id
      BY <1>0, <1>9, <2>1
    <2>2. CASE i # id
      <3>1. G[l.known[i]] = H[l.known[i]] /\ i \in 1..Len(l.known)
        BY <1>11, <2>2 DEF Notes
      <3>. QED BY <1>6, <1>8, <2>2, <3>1
    <2>. QED BY <2>1, <2>2
  <1>. QED BY <1>1, <1>5, <1>10, <1>11 DEF LedgerTells

\* The events of a dictionary that is new.
Begins(evs, id, d) ==
  /\ IsStack(evs)
  /\ \A j \in 1..Len(evs) : evs[j].id = id /\ evs[j].op = "INIT" /\ evs[j].val = <<"none">>
  /\ \A key : key \in DOMAIN d <=> \E j \in 1..Len(evs) : evs[j].key = <<key>>

LEMMA InitBegins ==
  ASSUME NEW l, NEW id, NEW K, NEW d, IsDictionary(d, K)
  PROVE  Begins(InitEvents(l, id, SortedKeys(d)), id, d)
  <1>1. PICK keys : keys = SortedKeys(d)
    OBVIOUS
  <1>2. PICK n \in Nat : n = Len(keys) /\ DOMAIN keys = 1..n
    BY <1>1, KeysAreSound
  <1>3. \A key : key \in DOMAIN d <=> \E i \in 1..n : keys[i][2] = key
    <2>1. {keys[i][2] : i \in DOMAIN keys} = DOMAIN d
      BY <1>1, KeysAreSound
    <2>. QED BY <1>2, <2>1
  <1>4. PICK a, b : /\ a = Event(id, "INIT", <<>>, <<"none">>, 0, 0, FALSE)
                    /\ b = [i \in 1..n |-> Event(id, "INIT", <<keys[i][2]>>, <<"none">>, 0, 0, FALSE)]
    OBVIOUS
  <1>5. PICK evs : evs = InitEvents(l, id, keys)
    OBVIOUS
  <1>6. evs = <<a>> \o b
    BY <1>2, <1>4, <1>5 DEF InitEvents
  <1>7. a.id = id /\ a.op = "INIT" /\ a.val = <<"none">> /\ a.key = <<>>
    BY <1>4 DEF Event
  <1>8. \A i \in 1..n : b[i].id = id /\ b[i].op = "INIT" /\ b[i].val = <<"none">> /\ b[i].key = <<keys[i][2]>>
    BY <1>4 DEF Event
  <1>9. IsStack(b) /\ Len(b) = n
    <2>1. DOMAIN b = 1..n /\ b = [i \in 1..n |-> b[i]]
      BY <1>4
    <2>. QED BY <2>1, StackOfMany
  <1>10. PICK S : b \in Seq(S)
    BY <1>9 DEF IsStack
  <1>11. <<a>> \in Seq(S \cup {a}) /\ b \in Seq(S \cup {a})
    BY <1>10
  <1>12. /\ evs \in Seq(S \cup {a}) /\ Len(evs) = n + 1 /\ evs[1] = a
         /\ \A i \in 1..n : evs[i + 1] = b[i]
    BY <1>6, <1>9, <1>11
  <1>13. \A j \in 1..Len(evs) : j = 1 \/ (j - 1 \in 1..n /\ evs[j] = b[j - 1])
    <2>1. ASSUME NEW j \in 1..Len(evs), j # 1
          PROVE  j - 1 \in 1..n /\ evs[j] = b[j - 1]
      <3>1. PICK i \in 1..n : j = i + 1
        BY <1>12, <2>1
      <3>. QED BY <1>12, <3>1
    <2>. QED BY <2>1
  <1>14. \A j \in 1..Len(evs) : evs[j].id = id /\ evs[j].op = "INIT" /\ evs[j].val = <<"none">>
    BY <1>7, <1>8, <1>12, <1>13
  <1>15. ASSUME NEW key
         PROVE  key \in DOMAIN d <=> \E j \in 1..Len(evs) : evs[j].key = <<key>>
    <2>1. ASSUME key \in DOMAIN d
          PROVE  \E j \in 1..Len(evs) : evs[j].key = <<key>>
      <3>1. PICK i \in 1..n : keys[i][2] = key
        BY <1>3, <2>1
      <3>2. i + 1 \in 1..Len(evs) /\ evs[i + 1].key = <<key>>
        BY <1>8, <1>12, <3>1
      <3>. QED BY <3>2
    <2>2. ASSUME NEW j \in 1..Len(evs), evs[j].key = <<key>>
          PROVE  key \in DOMAIN d
      <3>0. Len(<<>>) # Len(<<key>>)
        OBVIOUS
      <3>1. j # 1
        <4>1. j = 1 => <<key>> = <<>>
          BY <1>7, <1>12, <2>2
        <4>. QED BY <3>0, <4>1
      <3>2. PICK i \in 1..n : evs[j] = b[i]
        BY <1>13, <3>1
      <3>3. keys[i][2] = key
        BY <1>8, <2>2, <3>2
      <3>. QED BY <1>3, <3>3
    <2>. QED BY <2>1, <2>2
  <1>. QED BY <1>1, <1>5, <1>12, <1>14, <1>15 DEF Begins, IsStack

LEMMA ManyMore ==
  ASSUME NEW es, IsStack(es), NEW evs, IsStack(evs), NEW fs, IsMore(fs, es, evs)
  PROVE  /\ Len(es) \in Nat /\ Len(evs) \in Nat /\ Len(fs) = Len(es) + Len(evs) /\ Agree(es, fs, Len(es))
         /\ \A i \in 1..Len(evs) : fs[Len(es) + i] = evs[i]
  <1>1. PICK S, T : es \in Seq(S) /\ evs \in Seq(T)
    BY DEF IsStack
  <1>2. es \in Seq(S \cup T) /\ evs \in Seq(S \cup T)
    BY <1>1
  <1>. QED BY <1>2 DEF IsMore, Agree

\* A ledger numbers a new dictionary and records its keys.
Opens(l, H, place, d, evs, id, G, r) ==
  /\ id = Len(l.known) + 1
  /\ Begins(evs, id, d)
  /\ G[place] = d
  /\ \A i \in 1..Len(l.known) : G[l.known[i]] = H[l.known[i]]
  /\ r.known = Append(l.known, place)
  /\ IsMore(r.events, l.events, evs)

\* The start of a dictionary.
LEMMA InitTells ==
  ASSUME NEW l, NEW n, LedgerTyped(l, n), l.complete, NEW H, LedgerTells(l, H),
         NEW place, NEW d, NEW evs, NEW id, NEW G, NEW r, r.complete, Opens(l, H, place, d, evs, id, G, r)
  PROVE  LedgerTells(r, G)
  <1>. id = Len(l.known) + 1
    BY DEF Opens
  <1>. Begins(evs, id, d)
    BY DEF Opens
  <1>. G[place] = d
    BY DEF Opens
  <1>. \A i \in 1..Len(l.known) : G[l.known[i]] = H[l.known[i]]
    BY DEF Opens
  <1>. r.known = Append(l.known, place)
    BY DEF Opens
  <1>. IsMore(r.events, l.events, evs)
    BY DEF Opens
  <1>1. PICK es, fs : es = l.events /\ fs = r.events
    OBVIOUS
  <1>2. PICK k, q : k = Len(es) /\ q = Len(fs)
    OBVIOUS
  <1>3. /\ k \in Nat /\ Len(evs) \in Nat /\ q = k + Len(evs) /\ Agree(es, fs, k)
        /\ \A i \in 1..Len(evs) : fs[k + i] = evs[i]
    <2>1. IsStack(es) /\ IsStack(evs) /\ IsMore(fs, es, evs)
      BY <1>1 DEF LedgerTyped, Begins
    <2>2. /\ Len(es) \in Nat /\ Len(evs) \in Nat /\ Len(fs) = Len(es) + Len(evs) /\ Agree(es, fs, Len(es))
          /\ \A i \in 1..Len(evs) : fs[Len(es) + i] = evs[i]
      BY <2>1, ManyMore
    <2>. QED BY <1>2, <2>2
  <1>4. q \in Nat /\ k <= q /\ \A j \in 1..q : j \in 1..k \/ j \in (k + 1)..q
    BY <1>3
  <1>5. \A j \in (k + 1)..q : \E i \in 1..Len(evs) : fs[j] = evs[i]
    <2>1. ASSUME NEW j \in (k + 1)..q
          PROVE  \E i \in 1..Len(evs) : fs[j] = evs[i]
      <3>1. PICK i \in 1..Len(evs) : j = k + i
        <4>1. j - k \in 1..Len(evs) /\ j = k + (j - k)
          BY <1>3, <2>1
        <4>. QED BY <4>1
      <3>. QED BY <1>3, <3>1
    <2>. QED BY <2>1
  <1>6. /\ \A j \in (k + 1)..q : fs[j].id = id /\ fs[j].op = "INIT" /\ fs[j].val = <<"none">>
        /\ \A key : key \in DOMAIN d <=> \E j \in (k + 1)..q : fs[j].key = <<key>>
    <2>1. \A j \in 1..Len(evs) : evs[j].id = id /\ evs[j].op = "INIT" /\ evs[j].val = <<"none">>
      BY DEF Begins
    <2>2. ASSUME NEW key
          PROVE  key \in DOMAIN d <=> \E j \in (k + 1)..q : fs[j].key = <<key>>
      <3>1. key \in DOMAIN d <=> \E i \in 1..Len(evs) : evs[i].key = <<key>>
        BY DEF Begins
      <3>2. \A i \in 1..Len(evs) : k + i \in (k + 1)..q /\ fs[k + i] = evs[i]
        <4>1. PICK z \in Nat : z = Len(evs) /\ q = k + z
          BY <1>3
        <4>2. \A i \in 1..z : k + i \in (k + 1)..q
          BY <1>3, <4>1
        <4>. QED BY <1>3, <4>1, <4>2
      <3>3. ASSUME NEW j \in (k + 1)..q, fs[j].key = <<key>>
            PROVE  \E i \in 1..Len(evs) : evs[i].key = <<key>>
        <4>1. PICK i \in 1..Len(evs) : fs[j] = evs[i]
          BY <1>5
        <4>. QED BY <3>3, <4>1
      <3>4. ASSUME NEW i \in 1..Len(evs), evs[i].key = <<key>>
            PROVE  \E j \in (k + 1)..q : fs[j].key = <<key>>
        <4>1. PICK j \in (k + 1)..q : fs[j] = evs[i]
          BY <3>2
        <4>. QED BY <3>4, <4>1
      <3>. QED BY <3>1, <3>3, <3>4
    <2>. QED BY <1>5, <2>1, <2>2
  <1>7. /\ Len(l.known) \in Nat /\ id \notin 1..Len(l.known)
        /\ Len(r.known) = Len(l.known) + 1 /\ r.known[id] = place
        /\ \A i \in 1..Len(l.known) : r.known[i] = l.known[i]
        /\ \A j \in 1..k : fs[j] = es[j] /\ es[j].id \in 1..Len(l.known)
    <2>1. PICK S : l.known \in Seq(S)
      BY DEF LedgerTyped, IsStack
    <2>2. l.known \in Seq(S \cup {place})
      BY <2>1
    <2>3. \A j \in 1..k : fs[j] = es[j] /\ es[j].id \in 1..Len(l.known)
      BY <1>1, <1>2, <1>3 DEF LedgerTyped, Agree
    <2>4. Len(l.known) \in Nat /\ id \notin 1..Len(l.known)
      BY <2>1
    <2>. QED BY <2>2, <2>3, <2>4
  <1>8. ReadsTell(es, k) /\ \A i \in 1..Len(l.known) : DictTells(es, k, i, G[l.known[i]])
    BY <1>1, <1>2 DEF LedgerTells
  <1>9. ASSUME NEW i \in 1..Len(l.known)
        PROVE  DictTells(fs, q, i, G[r.known[i]])
    <2>1. \A j \in (k + 1)..q : fs[j].id # i
      BY <1>6, <1>7
    <2>2. PICK c : c = G[r.known[i]] /\ DictTells(es, k, i, c)
      BY <1>7, <1>8
    <2>3. DictTells(fs, q, i, c)
      BY <1>3, <1>4, <2>1, <2>2, DictStays
    <2>. QED BY <2>2, <2>3
  <1>10. ASSUME NEW key
         PROVE  Tells(Says(fs, id, key, q), key \in DOMAIN d, IF key \in DOMAIN d THEN d[key] ELSE Nil)
    <2>1. PICK js : js = Changes(fs, id, key, q)
      OBVIOUS
    <2>2. /\ js \in SUBSET (1..q) /\ \A j \in js : j \in (k + 1)..q /\ fs[j].key = <<key>>
      <3>1. \A j \in js : j \in 1..q /\ fs[j].id = id /\ fs[j].key = <<key>>
        BY <2>1 DEF Changes
      <3>. QED BY <1>4, <1>7, <3>1
    <2>3. \A j \in (k + 1)..q : fs[j].key = <<key>> => j \in js
      <3>1. \A j \in (k + 1)..q : j \in 1..q
        BY <1>3
      <3>. QED BY <1>6, <2>1, <3>1 DEF Changes
    <2>4. PICK s : s = Says(fs, id, key, q)
      OBVIOUS
    <2>5. CASE key \in DOMAIN d
      <3>1. js # {}
        BY <1>6, <2>3, <2>5
      <3>2. PICK j \in js : \A i \in js : i <= j
        BY <1>4, <2>2, <3>1, GreatestNatural
      <3>3. LastOf(js) \in js
        BY <3>2 DEF LastOf
      <3>4. PICK z : z = LastOf(js) /\ z \in js
        BY <3>3
      <3>5. fs[z].op = "INIT" /\ fs[z].val = <<"none">>
        BY <1>6, <2>2, <3>4
      <3>6. s.there = TRUE /\ s.val = <<"none">>
        BY <2>1, <2>4, <3>1, <3>4, <3>5 DEF Says
      <3>7. (key \in DOMAIN d) = TRUE
        BY <2>5
      <3>. QED BY <2>4, <3>6, <3>7, Zenon DEF Tells
    <2>6. CASE key \notin DOMAIN d
      <3>1. js = {}
        BY <1>6, <2>2, <2>6
      <3>2. s.there = FALSE
        BY <2>1, <2>4, <3>1 DEF Says
      <3>3. (key \in DOMAIN d) = FALSE
        BY <2>6
      <3>. QED BY <2>4, <2>6, <3>2, <3>3, Zenon DEF Tells
    <2>. QED BY <2>5, <2>6
  <1>11. DictTells(fs, q, id, d)
    BY <1>10 DEF DictTells
  <1>12. ReadsTell(fs, q)
    <2>1. ReadsTell(fs, k)
      BY <1>3, <1>8, ReadsStay
    <2>. QED BY <1>4, <1>6, <2>1 DEF ReadsTell
  <1>13. ASSUME NEW i \in 1..Len(r.known)
         PROVE  DictTells(fs, q, i, G[r.known[i]])
    <2>1. i \in 1..Len(l.known) \/ i = id
      BY <1>7
    <2>. QED BY <1>7, <1>9, <1>11, <2>1
  <1>. QED BY <1>1, <1>2, <1>12, <1>13 DEF LedgerTells

\* A step notes that a key of the dictionary at a place was read or changed.
Touches(H, G, n, place, key, e) ==
  LET d == G[place]
      b == H[place]
  IN /\ e.key = <<key>>
     /\ e.op \in {"GET", "DELETE"} => e.existed = (key \in DOMAIN b)
     /\ \A p \in 1..n : p # place => G[p] = H[p]
     /\ \A x : x # key => (x \in DOMAIN d <=> x \in DOMAIN b) /\ (x \in DOMAIN d => d[x] = b[x])
     /\ \/ e.op = "GET" /\ d = b
        \/ e.op = "DELETE" /\ key \notin DOMAIN d
        \/ e.op = "SET" /\ key \in DOMAIN d /\ e.val = Fingerprint(d[key])

LEMMA NotTyped ==
  ASSUME NEW r, DOMAIN r = {"complete", "events", "known", "versions"}, r.complete \in BOOLEAN, ~ r.complete,
         NEW n, NEW G, NEW h
  PROVE  LedgerTyped(r, n) /\ LedgerTells(r, G) /\ LedgerKnows(r, h, n)
  BY DEF LedgerTyped, LedgerTells, LedgerKnows

\* The ledger r is l with the event e of the dictionary at a place added, if it
\* is one of the program's.
Records(l, h, place, e, r) ==
  \E reg, counted :
    /\ reg = Registered(l, place) /\ e.id = Number(reg, place)
    /\ counted = reg \/ \E w : counted = [reg EXCEPT !.versions = w]
    /\ h[place] # 1 \/ ~ l.complete => r = l
    /\ h[place] = 1 /\ l.complete => r = IF ~ reg.complete THEN reg ELSE Recorded(counted, <<e>>)

LEMMA TouchLedger ==
  ASSUME NEW l, NEW n \in Nat, LedgerTyped(l, n), NEW H, LedgerTells(l, H), NEW h, LedgerKnows(l, h, n),
         NEW place \in 1..n, NEW G, NEW key, NEW e, Touches(H, G, n, place, key, e),
         NEW r, Records(l, h, place, e, r)
  PROVE  LedgerTyped(r, n) /\ LedgerTells(r, G) /\ LedgerKnows(r, h, n)
  <1>0. PICK reg, counted :
          /\ reg = Registered(l, place) /\ e.id = Number(reg, place)
          /\ counted = reg \/ \E w : counted = [reg EXCEPT !.versions = w]
          /\ h[place] # 1 \/ ~ l.complete => r = l
          /\ h[place] = 1 /\ l.complete => r = IF ~ reg.complete THEN reg ELSE Recorded(counted, <<e>>)
    BY DEF Records
  <1>. reg = Registered(l, place) /\ e.id = Number(reg, place)
    BY <1>0
  <1>. counted = reg \/ \E w : counted = [reg EXCEPT !.versions = w]
    BY <1>0
  <1>. h[place] # 1 \/ ~ l.complete => r = l
    BY <1>0
  <1>. h[place] = 1 /\ l.complete => r = IF ~ reg.complete THEN reg ELSE Recorded(counted, <<e>>)
    BY <1>0
  <1>1. CASE ~ l.complete
    <2>1. r = l /\ DOMAIN l = {"complete", "events", "known", "versions"} /\ l.complete \in BOOLEAN
      BY <1>1 DEF LedgerTyped
    <2>. QED BY <1>1, <2>1, NotTyped
  <1>2. CASE l.complete /\ h[place] # 1
    <2>1. ~ Known(l, place) /\ r = l
      BY <1>2 DEF LedgerKnows
    <2>2. ASSUME NEW i \in 1..Len(l.known)
          PROVE  G[l.known[i]] = H[l.known[i]]
      <3>1. l.known[i] \in 1..n
        BY <1>2 DEF LedgerTyped
      <3>2. l.known[i] # place
        BY <1>2, <2>1, KnownIn
      <3>. QED BY <3>1, <3>2 DEF Touches
    <2>. QED BY <2>1, <2>2, TellsSame
  <1>3. CASE l.complete /\ h[place] = 1
    <2>1. Known(l, place) /\ reg = l
      BY <1>3 DEF LedgerKnows, Registered
    <2>2. PICK id : id = Number(l, place)
      OBVIOUS
    <2>3. id \in 1..Len(l.known) /\ l.known[id] = place /\ e.id = id
      BY <1>3, <2>1, <2>2, KnownIn
    <2>4. r = Recorded(counted, <<e>>)
      BY <1>3, <2>1
    <2>5. Adds(l, place, <<e>>, r)
      <3>1. \/ r = Recorded(reg, <<e>>)
            \/ \E w : r = Recorded([reg EXCEPT !.versions = w], <<e>>)
        BY <2>4
      <3>. QED BY <1>3, <3>1, RecordedAdds
    <2>6. DOMAIN r = {"complete", "events", "known", "versions"} /\ r.complete \in BOOLEAN
      BY <2>5 DEF Adds
    <2>7. CASE ~ r.complete
      BY <2>6, <2>7, NotTyped
    <2>8. CASE r.complete
      <3>1. r.known = l.known /\ IsMore(r.events, l.events, <<e>>)
        BY <2>1, <2>5, <2>8 DEF Adds, IsMore
      <3>2. Number(r, place) = id
        BY <2>2, <3>1 DEF Number
      <3>3. IsStack(<<e>>) /\ \A j \in 1..Len(<<e>>) : <<e>>[j].id = Number(r, place)
        BY <2>3, <3>2, StackOfOne
      <3>4. PICK evs : evs = <<e>>
        OBVIOUS
      <3>5. n <= n /\ IsStack(evs) /\ (\A j \in 1..Len(evs) : evs[j].id = Number(r, place)) /\ Adds(l, place, evs, r)
        BY <2>5, <3>3, <3>4
      <3>6. LedgerTyped(r, n) /\ \A p : Known(r, p) <=> Known(l, p) \/ p = place
        BY <1>3, <2>8, <3>5, AddsKnows
      <3>7. LedgerKnows(r, h, n)
        BY <1>3, <3>6 DEF LedgerKnows
      <3>8. Notes(l, H, id, key, e, G)
        <4>1. ASSUME NEW i \in 1..Len(l.known), i # id
              PROVE  G[l.known[i]] = H[l.known[i]]
          <5>1. l.known[i] \in 1..n /\ l.known[i] # place
            BY <1>3, <2>3, <4>1 DEF LedgerTyped
          <5>. QED BY <5>1 DEF Touches
        <4>. QED BY <2>3, <4>1 DEF Notes, Touches
      <3>9. LedgerTells(r, G)
        BY <1>3, <2>8, <3>1, <3>8, EventTells
      <3>. QED BY <3>6, <3>7, <3>9
    <2>. QED BY <2>7, <2>8
  <1>. QED BY <1>1, <1>2, <1>3

\* A step notes that a dictionary was made.
LEMMA BeginLedger ==
  ASSUME NEW l, NEW n \in Nat, LedgerTyped(l, n), NEW H, LedgerTells(l, H), NEW h, LedgerKnows(l, h, n),
         NEW K, NEW d, IsDictionary(d, K), NEW place \in Nat, place = n + 1,
         NEW G, G[place] = d, \A p \in 1..n : G[p] = H[p],
         NEW c, NEW g, g[place] = c, \A p \in 1..n : g[p] = h[p],
         NEW reg, reg = Registered(l, place),
         NEW r, c # 1 \/ ~ l.complete => r = l,
         c = 1 /\ l.complete =>
           r = IF ~ reg.complete THEN reg ELSE Recorded(reg, InitEvents(reg, Number(reg, place), SortedKeys(d)))
  PROVE  LedgerTyped(r, place) /\ LedgerTells(r, G) /\ LedgerKnows(r, g, place)
  <1>0. n <= place /\ place \in 1..place /\ place \notin 1..n /\ \A p \in 1..place : p \in 1..n \/ p = place
    OBVIOUS
  <1>1. CASE ~ l.complete
    <2>1. r = l /\ DOMAIN l = {"complete", "events", "known", "versions"} /\ l.complete \in BOOLEAN
      BY <1>1 DEF LedgerTyped
    <2>. QED BY <1>1, <2>1, NotTyped
  <1>2. ASSUME l.complete
        PROVE  ~ Known(l, place) /\ \A i \in 1..Len(l.known) : l.known[i] \in 1..n /\ G[l.known[i]] = H[l.known[i]]
    <2>1. ~ Known(l, place)
      BY <1>0, <1>2, KnownIn
    <2>2. \A i \in 1..Len(l.known) : l.known[i] \in 1..n
      BY <1>2 DEF LedgerTyped
    <2>. QED BY <2>1, <2>2
  <1>3. CASE l.complete /\ c # 1
    <2>1. r = l
      BY <1>3
    <2>2. LedgerTyped(l, place)
      BY <1>0, TypedGrows
    <2>3. LedgerTells(l, G)
      BY <1>2, <1>3, TellsSame
    <2>4. ASSUME NEW p \in 1..place
          PROVE  g[p] = 1 <=> Known(l, p)
      <3>1. CASE p \in 1..n
        BY <1>3, <3>1 DEF LedgerKnows
      <3>2. CASE p = place
        BY <1>2, <1>3, <3>2
      <3>. QED BY <1>0, <3>1, <3>2
    <2>. QED BY <2>1, <2>2, <2>3, <2>4 DEF LedgerKnows
  <1>4. CASE l.complete /\ c = 1
    <2>1. PICK id, evs : id = Number(reg, place) /\ evs = InitEvents(reg, id, SortedKeys(d))
      OBVIOUS
    <2>2. (~ reg.complete /\ r = reg) \/ r = Recorded(reg, evs)
      BY <1>4, <2>1
    <2>3. Begins(evs, id, d)
      BY <2>1, InitBegins
    <2>4. Adds(l, place, evs, r)
      BY <1>4, <2>2, RecordedAdds
    <2>5. DOMAIN r = {"complete", "events", "known", "versions"} /\ r.complete \in BOOLEAN
      BY <2>4 DEF Adds
    <2>6. CASE ~ r.complete
      BY <2>5, <2>6, NotTyped
    <2>7. CASE r.complete
      <3>1. r.known = Append(l.known, place) /\ IsMore(r.events, l.events, evs)
        BY <1>2, <1>4, <2>4, <2>7 DEF Adds, IsMore
      <3>2. r.known = reg.known
        <4>1. CASE ~ reg.complete /\ r = reg
          BY <4>1
        <4>2. CASE r = Recorded(reg, evs)
          BY <2>7, <4>2, <1>4 DEF Recorded, Registered, LedgerTyped
        <4>. QED BY <2>2, <4>1, <4>2
      <3>3. Number(r, place) = id
        BY <2>1, <3>2 DEF Number
      <3>4. IsStack(evs) /\ \A j \in 1..Len(evs) : evs[j].id = Number(r, place)
        BY <2>3, <3>3 DEF Begins
      <3>5. /\ LedgerTyped(r, place)
            /\ \A p : Known(r, p) <=> Known(l, p) \/ p = place
            /\ Number(r, place) = Len(l.known) + 1
        BY <1>0, <1>2, <1>4, <2>4, <2>7, <3>4, AddsKnows
      <3>6. LedgerKnows(r, g, place)
        <4>1. ASSUME NEW p \in 1..place
              PROVE  g[p] = 1 <=> Known(r, p)
          <5>1. CASE p \in 1..n
            <6>1. p # place /\ (h[p] = 1 <=> Known(l, p))
              BY <1>0, <1>4, <5>1 DEF LedgerKnows
            <6>. QED BY <3>5, <5>1, <6>1
          <5>2. CASE p = place
            BY <1>4, <3>5, <5>2
          <5>. QED BY <1>0, <5>1, <5>2
        <4>. QED BY <4>1 DEF LedgerKnows
      <3>7. id = Len(l.known) + 1
        BY <3>3, <3>5
      <3>8. Opens(l, H, place, d, evs, id, G, r)
        BY <1>2, <1>4, <2>3, <3>1, <3>7 DEF Opens
      <3>9. LedgerTells(r, G)
        BY <1>4, <2>7, <3>8, InitTells
      <3>. QED BY <3>5, <3>6, <3>9
    <2>. QED BY <2>6, <2>7
  <1>. QED BY <1>1, <1>3, <1>4

-----------------------------------------------------------------------------
(* The instructions on dictionaries.                                       *)

\* The ledger is not given the steps of agents.
LEMMA UnrecordedInAgents ==
  ASSUME IInv, NEW h, NEW m, Apart(h, m), NEW c, Here(h, c)
  PROVE  Unrecorded <=> c # 1
  <1>1. AreScopes(envs) /\ Matches(m, frames, envs) /\ Inside(envs, c, Len(envs)) /\ Len(envs) \in Nat
    BY StackAppend DEF Apart, Here, AreScopes
  <1>2. DOMAIN frames = 1..Len(frames)
    <2>1. PICK S : frames \in Seq(S)
      BY DEF IInv, Stacked, IsStack
    <2>. QED BY <2>1
  <1>3. ASSUME NEW i \in DOMAIN frames, frames[i].kind = "agent"
        PROVE  c # 1
    <2>1. i \in 1..Len(frames) /\ Entered(frames[i])
      BY <1>2, <1>3 DEF Entered
    <2>2. PICK d \in 2..Len(envs) : m[d] = i
      BY <1>1, <2>1 DEF Matches
    <2>3. frames[m[d]].kind = IF envs[d].clone THEN "agent" ELSE "call"
      BY <1>1, <2>2 DEF Matches
    <2>4. envs[d].clone
      BY <1>3, <2>2, <2>3
    <2>5. d \notin (c + 1)..Len(envs)
      BY <1>1, <2>4 DEF Inside
    <2>. QED BY <1>1, <2>2, <2>5 DEF Inside
  <1>4. ASSUME c # 1
        PROVE  Unrecorded
    <2>1. c \in 2..Len(envs) /\ envs[c].clone
      BY <1>1, <1>4 DEF Inside
    <2>2. m[c] \in 1..Len(frames) /\ frames[m[c]].kind = IF envs[c].clone THEN "agent" ELSE "call"
      BY <1>1, <2>1 DEF Matches
    <2>. QED BY <1>2, <2>1, <2>2 DEF Unrecorded
  <1>. QED BY <1>3, <1>4 DEF Unrecorded

\* A step that changes or makes a dictionary of this scope.
LEMMA BusyApart ==
  ASSUME NEW h, NEW m, Apart(h, m), NEW c, Here(h, c), NEW g, Grows(h, Len(heap), g, Len(heap')),
         HeapIsSound(heap', g), LedgerKnows(ledger', g, Len(heap')),
         NEW L, L = Region(g, Len(heap'), c), Computes(L), Binds(L)
  PROVE  Apart(g, m)'
  <1>1. \A b : Inside(envs, b, Len(envs)) => Region(g, Len(heap'), b) = L
    BY DEF Here
  <1>2. HereIsSound(envs, stack', panic', g, Len(heap'))
    BY <1>1 DEF HereIsSound, Computes
  <1>3. \/ envs' = envs
        \/ \E i, x, v : /\ Rebound(envs, envs', i, x, v)
                        /\ \A b : Inside(envs, b, Len(envs)) => Sound(v, Region(g, Len(heap'), b))
    BY <1>1 DEF Binds
  <1>4. SameScopes(frames, frames')
    BY DEF Computes
  <1>. QED BY <1>2, <1>3, <1>4, WorkApart

\* A dictionary is put in the place of one.
Puts(H, place, d, G) == G = [H EXCEPT ![place] = d]

LEMMA HeapChanges ==
  ASSUME NEW H, NEW h, HeapIsSound(H, h), NEW place \in 1..Len(H),
         NEW d, IsDictionary(d, Region(h, Len(H), h[place])), NEW G, Puts(H, place, d, G)
  PROVE  /\ HeapIsSound(G, h) /\ Len(G) = Len(H) /\ Len(H) \in Nat
         /\ G[place] = d /\ \A p \in 1..Len(H) : p # place => G[p] = H[p]
  <1>1. PICK S : H \in Seq(S)
    BY DEF HeapIsSound, IsStack
  <1>2. H \in Seq(S \cup {d})
    BY <1>1
  <1>3. /\ G \in Seq(S \cup {d}) /\ Len(G) = Len(H) /\ Len(H) \in Nat
        /\ G[place] = d /\ \A p \in 1..Len(H) : p # place => G[p] = H[p]
    BY <1>2 DEF Puts
  <1>4. \A p \in 1..Len(H) : IsDictionary(G[p], Region(h, Len(H), h[p]))
    BY <1>3 DEF HeapIsSound
  <1>. QED BY <1>3, <1>4 DEF HeapIsSound, IsStack

\* A dictionary of the scope c is added.
Appends(H, h, d, c, place, G, g) ==
  place = Len(H) + 1 /\ G = Append(H, d) /\ g = [p \in 1..place |-> IF p = place THEN c ELSE h[p]]

LEMMA HeapAdds ==
  ASSUME NEW H, NEW h, HeapIsSound(H, h), NEW place \in Nat, NEW c,
         NEW d, IsDictionary(d, Region(h, Len(H), c)), NEW G, NEW g, Appends(H, h, d, c, place, G, g)
  PROVE  /\ HeapIsSound(G, g) /\ Len(G) = place /\ Len(H) \in Nat /\ Grows(h, Len(H), g, place)
         /\ G[place] = d /\ g[place] = c /\ place \in Region(g, place, c)
         /\ \A p \in 1..Len(H) : G[p] = H[p] /\ g[p] = h[p]
  <1>. place = Len(H) + 1
    BY DEF Appends
  <1>. G = Append(H, d)
    BY DEF Appends
  <1>. g = [p \in 1..place |-> IF p = place THEN c ELSE h[p]]
    BY DEF Appends
  <1>1. PICK S : H \in Seq(S)
    BY DEF HeapIsSound, IsStack
  <1>2. H \in Seq(S \cup {d})
    BY <1>1
  <1>3. /\ G \in Seq(S \cup {d}) /\ Len(G) = place /\ Len(H) \in Nat
        /\ G[place] = d /\ \A p \in 1..Len(H) : G[p] = H[p]
    BY <1>2
  <1>4. /\ place \in 1..place /\ \A p \in 1..place : p \in 1..Len(H) \/ p = place
        /\ \A p \in 1..Len(H) : p \in 1..place /\ p # place
    BY <1>3
  <1>5. g[place] = c /\ \A p \in 1..Len(H) : g[p] = h[p]
    BY <1>4
  <1>6. Grows(h, Len(H), g, place)
    BY <1>3, <1>5 DEF Grows
  <1>7. ASSUME NEW p \in 1..place
        PROVE  IsDictionary(G[p], Region(g, place, g[p]))
    <2>1. PICK b : b = g[p]
      OBVIOUS
    <2>2. Region(h, Len(H), b) \subseteq Region(g, place, b)
      BY <1>4, <1>5 DEF Region
    <2>3. IsDictionary(G[p], Region(h, Len(H), b))
      <3>1. CASE p \in 1..Len(H)
        BY <1>3, <1>5, <2>1, <3>1 DEF HeapIsSound
      <3>2. CASE p = place
        BY <1>3, <1>5, <2>1, <3>2
      <3>. QED BY <1>4, <3>1, <3>2
    <2>. QED BY <2>1, <2>2, <2>3, DictionaryGrows
  <1>8. HeapIsSound(G, g)
    BY <1>3, <1>7 DEF HeapIsSound, IsStack
  <1>9. place \in Region(g, place, c)
    BY <1>4, <1>5 DEF Region
  <1>. QED BY <1>3, <1>5, <1>6, <1>8, <1>9

\* What a step on the dictionaries keeps.
Carries ==
  /\ \E g, q : Apart(g, q)'
  /\ LedgerTyped(ledger, Len(heap))' /\ LedgerTells(ledger, heap)' /\ (memory \in Nat)'

LEMMA QuietCarries ==
  ASSUME NEW h, NEW m, Apart(h, m), NEW c, Here(h, c), heap' = heap, ledger' = ledger,
         NEW K, K = Region(h, Len(heap), c), Computes(K), Binds(K),
         LedgerTyped(ledger, Len(heap)), LedgerTells(ledger, heap), memory' \in Nat
  PROVE  Carries
  <1>1. Apart(h, m)'
    BY QuietApart
  <1>. QED BY <1>1 DEF Carries

\* MAKE_DICT.
LEMMA MakeDictCarries ==
  ASSUME IInv, memory \in Nat, NEW h, NEW m, Apart(h, m),
         LedgerTyped(ledger, Len(heap)), LedgerTells(ledger, heap), MakeDict
  PROVE  Carries
  <1>1. PICK c : Here(h, c)
    BY HereIs
  <1>2. PICK K : K = Region(h, Len(heap), c)
    OBVIOUS
  <1>3. AllSound(stack, K) /\ HeapIsSound(heap, h) /\ LedgerKnows(ledger, h, Len(heap)) /\ Len(heap) \in Nat
    BY <1>1, <1>2, StackAppend DEF Here, Apart, HeapIsSound
  <1>4. AtInstruction /\ Inst.op = "MAKE_DICT"
    BY DEF MakeDict, Step
  <1>5. PICK n : n = 2 * Inst.len
    OBVIOUS
  <1>6. n \in Nat /\ n <= Len(stack)
    <2>1. Inst.len \in Nat
      BY <1>4, AtFacts DEF Counts
    <2>2. Len(stack) \in Nat /\ ~ (Len(stack) < Needs) /\ Needs = n
      BY <1>3, <1>4, <1>5, NeedsAreThere, CountsAreNeeded DEF MakeDict
    <2>. QED BY <1>5, <2>1, <2>2
  <1>7. PICK d, place : d = FromPairs(Operands(n)) /\ place = Len(heap) + 1
    OBVIOUS
  <1>8. PICK slots : slots = 2 * Cardinality(DOMAIN d)
    OBVIOUS
  <1>9. IsDictionary(d, K)
    <2>1. AllSound(Operands(n), K)
      BY <1>3, <1>6, OperandsAreSound
    <2>. QED BY <1>7, <2>1, PairsAreDictionary
  <1>10. slots \in Nat /\ place \in Nat
    BY <1>3, <1>7, <1>8, <1>9, FS_CardinalityType DEF IsDictionary
  <1>11. Allocates(n, Fine(Dict(place)), slots)
    BY <1>5, <1>7, <1>8 DEF MakeDict
  <1>12. CASE ~ Affords(slots)
    <2>1. heap' = heap /\ ledger' = ledger
      BY <1>5, <1>7, <1>8, <1>12 DEF MakeDict, maps
    <2>2. Computes(K) /\ Binds(K) /\ memory' \in Nat
      BY <1>3, <1>4, <1>6, <1>10, <1>11, <1>12, AllocatesComputes
    <2>. QED BY <1>1, <1>2, <2>1, <2>2, QuietCarries
  <1>13. CASE Affords(slots)
    <2>1. heap' = Append(heap, d)
      BY <1>5, <1>7, <1>8, <1>13 DEF MakeDict
    <2>2. PICK reg : reg = Registered(ledger, place)
      OBVIOUS
    <2>3. ledger' = IF Unrecorded \/ ~ ledger.complete THEN ledger
                    ELSE IF ~ reg.complete THEN reg
                    ELSE Recorded(reg, InitEvents(reg, Number(reg, place), SortedKeys(d)))
      BY <1>5, <1>7, <1>8, <1>13, <2>2 DEF MakeDict, Noted
    <2>4. PICK g : g = [p \in 1..place |-> IF p = place THEN c ELSE h[p]]
      OBVIOUS
    <2>5. PICK G : G = heap'
      OBVIOUS
    <2>6. /\ HeapIsSound(G, g) /\ Len(G) = place /\ Grows(h, Len(heap), g, place)
          /\ G[place] = d /\ g[place] = c /\ place \in Region(g, place, c)
          /\ \A p \in 1..Len(heap) : G[p] = heap[p] /\ g[p] = h[p]
      <3>1. Appends(heap, h, d, c, place, G, g)
        BY <1>7, <2>1, <2>4, <2>5 DEF Appends
      <3>. QED BY <1>2, <1>3, <1>9, <1>10, <3>1, HeapAdds
    <2>7. PICK L : L = Region(g, place, c)
      OBVIOUS
    <2>8. K \subseteq L
      BY <1>2, <2>6, <2>7, RegionGrows
    <2>9. Computes(L) /\ Binds(L) /\ memory' \in Nat
      <3>1. AllSound(stack, L)
        BY <1>3, <2>8, AllSoundGrow
      <3>2. Answers(Fine(Dict(place)), L)
        BY <2>6, <2>7, SoundScalars, EndingsAreSound
      <3>. QED BY <1>4, <1>6, <1>10, <1>11, <1>13, <3>1, <3>2, AllocatesComputes
    <2>10. Unrecorded <=> c # 1
      BY <1>1, UnrecordedInAgents
    <2>11. PICK r : r = ledger'
      OBVIOUS
    <2>12. c # 1 \/ ~ ledger.complete => r = ledger
      BY <2>3, <2>10, <2>11
    <2>13. c = 1 /\ ledger.complete =>
             r = IF ~ reg.complete THEN reg ELSE Recorded(reg, InitEvents(reg, Number(reg, place), SortedKeys(d)))
      BY <2>3, <2>10, <2>11
    <2>14. LedgerTyped(r, place) /\ LedgerTells(r, G) /\ LedgerKnows(r, g, place)
      <3>1. PICK k : k = Len(heap)
        OBVIOUS
      <3>2. k \in Nat /\ place = k + 1 /\ LedgerTyped(ledger, k) /\ LedgerKnows(ledger, h, k)
        BY <1>3, <1>7, <3>1
      <3>3. (\A p \in 1..k : G[p] = heap[p]) /\ \A p \in 1..k : g[p] = h[p]
        BY <2>6, <3>1
      <3>. QED BY <1>9, <1>10, <2>2, <2>6, <2>12, <2>13, <3>2, <3>3, BeginLedger
    <2>15. Apart(g, m)'
      BY <1>1, <2>5, <2>6, <2>7, <2>9, <2>11, <2>14, BusyApart
    <2>. QED BY <2>5, <2>6, <2>9, <2>11, <2>14, <2>15 DEF Carries
  <1>. QED BY <1>12, <1>13

\* A step that changes or reads the dictionary at a place, and notes it.
Alters(place, d, key, e) ==
  LET b == heap[place] IN
  /\ heap' = [heap EXCEPT ![place] = d] \/ (heap' = heap /\ d = b)
  /\ e.key = <<key>>
  /\ e.op \in {"GET", "DELETE"} => e.existed = (key \in DOMAIN b)
  /\ \A x : x # key => (x \in DOMAIN d <=> x \in DOMAIN b) /\ (x \in DOMAIN d => d[x] = b[x])
  /\ \/ e.op = "GET" /\ d = b
     \/ e.op = "DELETE" /\ key \notin DOMAIN d
     \/ e.op = "SET" /\ key \in DOMAIN d /\ e.val = Fingerprint(d[key])
Noting(place, reg, counted, e) ==
  /\ reg = Registered(ledger, place) /\ e.id = Number(reg, place)
  /\ counted = reg \/ \E w : counted = [reg EXCEPT !.versions = w]
  /\ ledger' = IF Unrecorded \/ ~ ledger.complete THEN ledger
               ELSE IF ~ reg.complete THEN reg ELSE Recorded(counted, <<e>>)

LEMMA TouchCarries ==
  ASSUME IInv, NEW h, NEW m, Apart(h, m), NEW c, Here(h, c), NEW K, K = Region(h, Len(heap), c),
         LedgerTyped(ledger, Len(heap)), LedgerTells(ledger, heap), memory' \in Nat,
         NEW place \in K, NEW d, IsDictionary(d, K), NEW key, NEW e, Alters(place, d, key, e),
         NEW reg, NEW counted, Noting(place, reg, counted, e), Computes(K), Binds(K)
  PROVE  Carries
  <1>1. HeapIsSound(heap, h) /\ LedgerKnows(ledger, h, Len(heap)) /\ Len(heap) \in Nat
    BY StackAppend DEF Apart, HeapIsSound
  <1>2. PICK k, G, r : k = Len(heap) /\ G = heap' /\ r = ledger'
    OBVIOUS
  <1>0. G = [heap EXCEPT ![place] = d] \/ (G = heap /\ d = heap[place])
    BY <1>2 DEF Alters
  <1>3. place \in 1..k /\ h[place] = c
    BY <1>2 DEF Region
  <1>4. /\ HeapIsSound(G, h) /\ Len(G) = k /\ G[place] = d
        /\ \A p \in 1..k : p # place => G[p] = heap[p]
    <2>1. CASE G = [heap EXCEPT ![place] = d]
      <3>1. IsDictionary(d, Region(h, Len(heap), h[place])) /\ place \in 1..Len(heap)
        BY <1>2, <1>3
      <3>2. Puts(heap, place, d, G)
        BY <2>1 DEF Puts
      <3>. QED BY <1>1, <1>2, <3>1, <3>2, HeapChanges
    <2>2. CASE G = heap /\ d = heap[place]
      BY <1>1, <1>2, <2>2
    <2>. QED BY <1>0, <2>1, <2>2
  <1>5. Touches(heap, G, k, place, key, e)
    BY <1>4 DEF Touches, Alters
  <1>6. Unrecorded <=> c # 1
    BY UnrecordedInAgents
  <1>7. Records(ledger, h, place, e, r)
    <2>1. h[place] # 1 \/ ~ ledger.complete => r = ledger
      BY <1>2, <1>3, <1>6 DEF Noting
    <2>2. h[place] = 1 /\ ledger.complete => r = IF ~ reg.complete THEN reg ELSE Recorded(counted, <<e>>)
      BY <1>2, <1>3, <1>6 DEF Noting
    <2>. QED BY <2>1, <2>2 DEF Records, Noting
  <1>9. LedgerTyped(r, k) /\ LedgerTells(r, G) /\ LedgerKnows(r, h, k)
    <2>1. k \in Nat /\ LedgerTyped(ledger, k) /\ LedgerKnows(ledger, h, k)
      BY <1>1, <1>2
    <2>. QED BY <1>3, <1>5, <1>7, <2>1, TouchLedger
  <1>10. Apart(h, m)'
    <2>1. Grows(h, Len(heap), h, Len(heap'))
      BY <1>1, <1>2, <1>4 DEF Grows
    <2>2. HeapIsSound(heap', h) /\ LedgerKnows(ledger', h, Len(heap')) /\ K = Region(h, Len(heap'), c)
      BY <1>2, <1>4, <1>9
    <2>. QED BY <2>1, <2>2, BusyApart
  <1>. QED BY <1>2, <1>4, <1>9, <1>10 DEF Carries

\* MAP_SET.
LEMMA MapSetCarries ==
  ASSUME IInv, memory \in Nat, NEW h, NEW m, Apart(h, m),
         LedgerTyped(ledger, Len(heap)), LedgerTells(ledger, heap), MapSetOp
  PROVE  Carries
  <1>1. PICK c : Here(h, c)
    BY HereIs
  <1>2. PICK K : K = Region(h, Len(heap), c)
    OBVIOUS
  <1>3. AllSound(stack, K) /\ HeapIsSound(heap, h) /\ Len(heap) \in Nat
    BY <1>1, <1>2, StackAppend DEF Here, Apart, HeapIsSound
  <1>4. AtInstruction /\ stack' = Popped(2) /\ envs' = envs
    BY DEF MapSetOp, Step
  <1>5. 2 <= Len(stack)
    BY <1>3, NeedsAreThere DEF MapSetOp
  <1>6. PICK v, place, key, w : /\ v = Lookup(Inst.name) /\ place = v[2]
                                /\ key = Sprint(Operand(2)) /\ w = Operand(1)
    OBVIOUS
  <1>7. AllSound(stack', K) /\ Sound(w, K) /\ IsStack(key)
    <2>1. 2 \in {1, 2}
      OBVIOUS
    <2>2. Sound(Operand(1), K) /\ Sound(Operand(2), K)
      BY <1>3, <1>5, <2>1, TwoOperands
    <2>3. AllSound(Popped(2), K)
      BY <1>3, <1>5, OperandsAreSound
    <2>. QED BY <1>4, <1>6, <2>2, <2>3, SprintIsText
  <1>8. PICK fault, slots : /\ fault = VariableFault(HoldsDict)
                            /\ slots = IF key \in DOMAIN heap[place] THEN 0 ELSE 2
    OBVIOUS
  <1>9. Ends(fault, K) /\ (fault = None => IsDict(v) /\ Sound(v, K))
    BY <1>1, <1>2, <1>6, <1>8, VariableIsSound DEF HoldsDict
  <1>10. PICK reg, id, counted, e :
           /\ reg = Registered(ledger, place) /\ id = Number(reg, place)
           /\ counted = [reg EXCEPT !.versions[id] = @ + 1]
           /\ e = Event(id, "SET", <<key>>, Fingerprint(w), reg.versions[id], reg.versions[id] + 1, FALSE)
    OBVIOUS
  <1>11. \/ Raise(fault) /\ UNCHANGED <<maps, memory>>
         \/ Raise(Error("LIMIT_EXCEEDED")) /\ UNCHANGED <<maps, memory>>
         \/ /\ fault = None /\ Goes(1) /\ memory' = memory + slots
            /\ heap' = [heap EXCEPT ![place] = With(@, key, w)]
            /\ ledger' = IF Unrecorded \/ ~ ledger.complete THEN ledger
                         ELSE IF ~ reg.complete THEN reg ELSE Recorded(counted, <<e>>)
    BY <1>6, <1>8, <1>10 DEF MapSetOp, Mutated
  <1>12. Computes(K) /\ Binds(K)
    <2>1. SameScopes(frames, frames')
      BY <1>4, <1>11, MovesAreSame DEF Raise
    <2>2. Ends(panic', K)
      BY <1>9, <1>11, EndingsAreSound DEF Goes, Raise
    <2>. QED BY <1>4, <1>7, <2>1, <2>2 DEF Computes, Binds
  <1>13. CASE UNCHANGED <<maps, memory>>
    <2>1. heap' = heap /\ ledger' = ledger /\ memory' \in Nat
      BY <1>13 DEF maps
    <2>. QED BY <1>1, <1>2, <1>12, <2>1, QuietCarries
  <1>14. CASE /\ fault = None /\ memory' = memory + slots
              /\ heap' = [heap EXCEPT ![place] = With(@, key, w)]
              /\ ledger' = IF Unrecorded \/ ~ ledger.complete THEN ledger
                           ELSE IF ~ reg.complete THEN reg ELSE Recorded(counted, <<e>>)
    <2>1. place \in K /\ place \in 1..Len(heap) /\ h[place] = c
      <3>1. place \in K
        BY <1>6, <1>9, <1>14, SoundParts
      <3>. QED BY <1>2, <3>1 DEF Region
    <2>2. PICK b, d : b = heap[place] /\ d = With(b, key, w)
      OBVIOUS
    <2>3. IsDictionary(b, K) /\ IsDictionary(d, K)
      <3>1. IsDictionary(b, K)
        BY <1>2, <1>3, <2>1, <2>2 DEF HeapIsSound
      <3>. QED BY <1>7, <2>2, <3>1, WithIsDictionary
    <2>4. /\ key \in DOMAIN d /\ d[key] = w
          /\ \A x : x # key => (x \in DOMAIN d <=> x \in DOMAIN b) /\ (x \in DOMAIN d => d[x] = b[x])
      BY <2>2 DEF With
    <2>5. e.key = <<key>> /\ e.id = id /\ e.op = "SET" /\ e.val = Fingerprint(w)
      BY <1>10 DEF Event
    <2>6. \E z : counted = [reg EXCEPT !.versions = z]
      BY <1>10
    <2>7. heap' = [heap EXCEPT ![place] = d]
      BY <1>14, <2>2
    <2>8. memory' \in Nat
      BY <1>8, <1>14
    <2>9. Alters(place, d, key, e)
      BY <2>2, <2>4, <2>5, <2>7 DEF Alters
    <2>10. Noting(place, reg, counted, e)
      BY <1>10, <1>14, <2>5, <2>6 DEF Noting
    <2>. QED BY <1>1, <1>2, <1>12, <2>1, <2>3, <2>8, <2>9, <2>10, TouchCarries
  <1>. QED BY <1>11, <1>13, <1>14

\* MAP_DELETE.
LEMMA MapDeleteCarries ==
  ASSUME IInv, memory \in Nat, NEW h, NEW m, Apart(h, m),
         LedgerTyped(ledger, Len(heap)), LedgerTells(ledger, heap), MapDeleteOp
  PROVE  Carries
  <1>1. PICK c : Here(h, c)
    BY HereIs
  <1>2. PICK K : K = Region(h, Len(heap), c)
    OBVIOUS
  <1>3. AllSound(stack, K) /\ HeapIsSound(heap, h) /\ Len(heap) \in Nat
    BY <1>1, <1>2, StackAppend DEF Here, Apart, HeapIsSound
  <1>4. AtInstruction /\ stack' = Popped(1) /\ envs' = envs /\ memory' \in Nat
    BY DEF MapDeleteOp, Step
  <1>5. 1 <= Len(stack)
    BY <1>3, NeedsAreThere DEF MapDeleteOp
  <1>6. PICK v, place, key : v = Lookup(Inst.name) /\ place = v[2] /\ key = Sprint(Operand(1))
    OBVIOUS
  <1>7. AllSound(stack', K) /\ IsStack(key)
    <2>1. 1 \in {1, 2}
      OBVIOUS
    <2>2. Sound(Operand(1), K)
      BY <1>3, <1>5, <2>1, TwoOperands
    <2>3. AllSound(Popped(1), K)
      BY <1>3, <1>5, OperandsAreSound
    <2>. QED BY <1>4, <1>6, <2>2, <2>3, SprintIsText
  <1>8. PICK fault : fault = VariableFault(HoldsDict)
    OBVIOUS
  <1>9. Ends(fault, K) /\ (fault = None => IsDict(v) /\ Sound(v, K))
    BY <1>1, <1>2, <1>6, <1>8, VariableIsSound DEF HoldsDict
  <1>10. PICK reg, id, counted, e :
           /\ reg = Registered(ledger, place) /\ id = Number(reg, place)
           /\ counted = [reg EXCEPT !.versions[id] = @ + 1]
           /\ e = Event(id, "DELETE", <<key>>, Nil, reg.versions[id], reg.versions[id] + 1,
                        key \in DOMAIN heap[place])
    OBVIOUS
  <1>11. \/ Raise(fault) /\ UNCHANGED maps
         \/ /\ fault = None /\ Goes(1)
            /\ heap' = [heap EXCEPT ![place] = Without(@, key)]
            /\ ledger' = IF Unrecorded \/ ~ ledger.complete THEN ledger
                         ELSE IF ~ reg.complete THEN reg ELSE Recorded(counted, <<e>>)
    BY <1>6, <1>8, <1>10 DEF MapDeleteOp, Mutated
  <1>12. Computes(K) /\ Binds(K)
    <2>1. SameScopes(frames, frames')
      BY <1>4, <1>11, MovesAreSame DEF Raise
    <2>2. Ends(panic', K)
      BY <1>9, <1>11, EndingsAreSound DEF Goes, Raise
    <2>. QED BY <1>4, <1>7, <2>1, <2>2 DEF Computes, Binds
  <1>13. CASE UNCHANGED maps
    <2>1. heap' = heap /\ ledger' = ledger
      BY <1>13 DEF maps
    <2>. QED BY <1>1, <1>2, <1>4, <1>12, <2>1, QuietCarries
  <1>14. CASE /\ fault = None
              /\ heap' = [heap EXCEPT ![place] = Without(@, key)]
              /\ ledger' = IF Unrecorded \/ ~ ledger.complete THEN ledger
                           ELSE IF ~ reg.complete THEN reg ELSE Recorded(counted, <<e>>)
    <2>1. place \in K /\ place \in 1..Len(heap) /\ h[place] = c
      <3>1. place \in K
        BY <1>6, <1>9, <1>14, SoundParts
      <3>. QED BY <1>2, <3>1 DEF Region
    <2>2. PICK b, d : b = heap[place] /\ d = Without(b, key)
      OBVIOUS
    <2>3. IsDictionary(b, K) /\ IsDictionary(d, K)
      <3>1. IsDictionary(b, K)
        BY <1>2, <1>3, <2>1, <2>2 DEF HeapIsSound
      <3>2. Sound(Nil, K)
        BY SoundScalars
      <3>. QED BY <1>7, <2>2, <3>1, <3>2, WithIsDictionary
    <2>4. /\ key \notin DOMAIN d
          /\ \A x : x # key => (x \in DOMAIN d <=> x \in DOMAIN b) /\ (x \in DOMAIN d => d[x] = b[x])
      BY <2>2 DEF Without
    <2>5. /\ e.key = <<key>> /\ e.id = id /\ e.op = "DELETE"
          /\ e.existed = (key \in DOMAIN heap[place])
      BY <1>10 DEF Event
    <2>6. \E z : counted = [reg EXCEPT !.versions = z]
      BY <1>10
    <2>7. heap' = [heap EXCEPT ![place] = d]
      BY <1>14, <2>2
    <2>8. Alters(place, d, key, e)
      BY <2>2, <2>4, <2>5, <2>7 DEF Alters
    <2>9. Noting(place, reg, counted, e)
      BY <1>10, <1>14, <2>5, <2>6 DEF Noting
    <2>. QED BY <1>1, <1>2, <1>4, <1>12, <2>1, <2>3, <2>8, <2>9, TouchCarries
  <1>. QED BY <1>11, <1>13, <1>14

\* MAP_GET.
LEMMA MapGetCarries ==
  ASSUME IInv, memory \in Nat, NEW h, NEW m, Apart(h, m),
         LedgerTyped(ledger, Len(heap)), LedgerTells(ledger, heap), MapGetOp
  PROVE  Carries
  <1>1. PICK c : Here(h, c)
    BY HereIs
  <1>2. PICK K : K = Region(h, Len(heap), c)
    OBVIOUS
  <1>3. AllSound(stack, K) /\ HeapIsSound(heap, h) /\ Len(heap) \in Nat
    BY <1>1, <1>2, StackAppend DEF Here, Apart, HeapIsSound
  <1>4. AtInstruction /\ heap' = heap /\ memory' \in Nat /\ Inst.op = "MAP_GET"
    BY DEF MapGetOp, Step, Yields
  <1>5. PICK n : n = Needs
    OBVIOUS
  <1>6. /\ n = IF Inst.name = Name("") THEN 2 ELSE 1
        /\ n \in {1, 2} /\ n \in Nat /\ n <= Len(stack) /\ 1 <= Len(stack)
    <2>1. n = IF Inst.name = Name("") THEN 2 ELSE 1
      BY <1>4, <1>5 DEF Needs
    <2>2. 1 <= Len(stack) /\ (Inst.name = Name("") => 2 <= Len(stack))
      BY <1>3, NeedsAreThere DEF MapGetOp
    <2>. QED BY <2>1, <2>2
  <1>7. PICK v, place, key : /\ v = IF Inst.name # Name("") THEN Lookup(Inst.name) ELSE Operand(2)
                             /\ place = v[2] /\ key = Sprint(Operand(1))
    OBVIOUS
  <1>8. PICK fault, w : /\ fault = IF Inst.name # Name("") THEN VariableFault(HoldsDict)
                                   ELSE IF IsDict(v) THEN None ELSE Error("TYPE_ERROR")
                        /\ w = IF fault = None THEN Held(heap[place], Operand(1)) ELSE Nil
    OBVIOUS
  <1>9. Ends(fault, K) /\ (fault = None => IsDict(v) /\ Sound(v, K))
    <2>1. CASE Inst.name # Name("")
      <3>1. fault = VariableFault(HoldsDict) /\ v = Lookup(Inst.name)
        BY <1>7, <1>8, <2>1
      <3>. QED BY <1>1, <1>2, <3>1, VariableIsSound DEF HoldsDict
    <2>2. CASE Inst.name = Name("")
      <3>1. v = Operand(2) /\ fault = IF IsDict(v) THEN None ELSE Error("TYPE_ERROR")
        BY <1>7, <1>8, <2>2
      <3>2. Sound(v, K)
        BY <1>3, <1>6, <2>2, <3>1, TwoOperands
      <3>. QED BY <3>1, <3>2, EndingsAreSound, NoFault
    <2>. QED BY <2>1, <2>2
  <1>10. fault = None => place \in K /\ place \in 1..Len(heap) /\ h[place] = c /\ IsDictionary(heap[place], K)
    <2>1. ASSUME fault = None
          PROVE  place \in K
      BY <1>7, <1>9, <2>1, SoundParts
    <2>2. \A p \in K : p \in 1..Len(heap) /\ h[p] = c
      BY <1>2 DEF Region
    <2>. QED BY <1>2, <1>3, <2>1, <2>2 DEF HeapIsSound
  <1>11. PICK answer : answer = [fault |-> fault, val |-> w]
    OBVIOUS
  <1>12. Answers(answer, K)
    <2>1. Sound(w, K)
      BY <1>8, <1>10, HeldIsSound, SoundScalars
    <2>. QED BY <1>9, <1>11, <2>1 DEF Answers
  <1>13. PICK reg, id, e :
           /\ reg = Registered(ledger, place) /\ id = Number(reg, place)
           /\ e = Event(id, "GET", <<key>>, Fingerprint(w), reg.versions[id], reg.versions[id],
                        key \in DOMAIN heap[place])
    OBVIOUS
  <1>14. /\ Yields(n, answer)
         /\ IF fault = None
            THEN ledger' = IF Unrecorded \/ ~ ledger.complete THEN ledger
                           ELSE IF ~ reg.complete THEN reg ELSE Recorded(reg, <<e>>)
            ELSE ledger' = ledger
    BY <1>5, <1>7, <1>8, <1>11, <1>13 DEF MapGetOp, Noted
  <1>15. Computes(K) /\ Binds(K)
    BY <1>3, <1>4, <1>6, <1>12, <1>14, YieldsComputes
  <1>16. CASE fault # None
    BY <1>1, <1>2, <1>4, <1>14, <1>15, <1>16, QuietCarries
  <1>17. CASE fault = None
    <2>1. PICK d : d = heap[place]
      OBVIOUS
    <2>2. place \in K /\ IsDictionary(d, K)
      BY <1>10, <1>17, <2>1
    <2>3. /\ e.key = <<key>> /\ e.id = id /\ e.op = "GET"
          /\ e.existed = (key \in DOMAIN heap[place])
      BY <1>13 DEF Event
    <2>4. Alters(place, d, key, e)
      BY <1>4, <2>1, <2>3 DEF Alters
    <2>5. Noting(place, reg, reg, e)
      BY <1>13, <1>14, <1>17, <2>3 DEF Noting
    <2>. QED BY <1>1, <1>2, <1>4, <1>15, <2>2, <2>4, <2>5, TouchCarries
  <1>. QED BY <1>16, <1>17

-----------------------------------------------------------------------------
(* The invariant of the values.                                            *)

VInv ==
  /\ IInv /\ \E h, m : Apart(h, m)
  /\ memory \in Nat /\ late \in BOOLEAN /\ refused \in BOOLEAN
  /\ LedgerTyped(ledger, Len(heap)) /\ LedgerTells(ledger, heap)

LEMMA InitValues ==
  ASSUME Init
  PROVE  VInv
  <1>1. PICK e : e = [bound |-> [x \in {} |-> Nil], clone |-> TRUE]
    OBVIOUS
  <1>2. PICK f : f = [kind |-> "main", fn |-> MainName, ip |-> 1,
                      upto |-> Len(program.code[MainName]) + 1, bases |-> <<>>, kept |-> <<>>]
    OBVIOUS
  <1>3. /\ heap = <<>> /\ envs = <<e>> /\ frames = <<f>> /\ stack = <<>> /\ panic = None
        /\ ledger = [complete |-> TRUE, events |-> <<>>, known |-> <<>>, versions |-> <<>>]
        /\ memory = 0 /\ late = FALSE /\ refused = FALSE
    BY <1>1, <1>2 DEF Init
  <1>4. /\ <<>> \in Seq({}) /\ Len(<<>>) = 0 /\ 1..0 = {}
        /\ envs \in Seq({e}) /\ Len(envs) = 1 /\ envs[1] = e /\ 2..1 = {} /\ 1..1 = {1}
        /\ frames \in Seq({f}) /\ Len(frames) = 1 /\ frames[1] = f
    BY <1>3
  <1>5. PICK h, m : h = <<>> /\ m = <<>>
    OBVIOUS
  <1>6. HeapIsSound(heap, h)
    BY <1>3, <1>4 DEF HeapIsSound, IsStack
  <1>7. AreScopes(envs)
    <2>1. e.clone = TRUE /\ DOMAIN e = {"bound", "clone"}
      BY <1>1
    <2>. QED BY <1>4, <2>1 DEF AreScopes, IsStack
  <1>8. Matches(m, frames, envs)
    <2>1. ~ Entered(f)
      BY <1>2 DEF Entered
    <2>. QED BY <1>4, <2>1 DEF Matches
  <1>9. ScopesAreSound(envs, h, Len(heap))
    <2>1. DOMAIN e.bound = {}
      BY <1>1
    <2>. QED BY <1>4, <2>1 DEF ScopesAreSound
  <1>10. KeptIsSound(m, frames, envs, h, Len(heap))
    BY <1>4 DEF KeptIsSound
  <1>11. HereIsSound(envs, stack, panic, h, Len(heap))
    BY <1>3, AllSoundEmpty, EndingsAreSound DEF HereIsSound
  <1>12. LedgerKnows(ledger, h, Len(heap))
    BY <1>3, <1>4 DEF LedgerKnows
  <1>13. Apart(h, m)
    BY <1>6, <1>7, <1>8, <1>9, <1>10, <1>11, <1>12 DEF Apart
  <1>14. LedgerTyped(ledger, Len(heap))
    BY <1>3, <1>4 DEF LedgerTyped, IsStack
  <1>15. LedgerTells(ledger, heap)
    BY <1>3, <1>4 DEF LedgerTells, ReadsTell
  <1>16. memory \in Nat /\ late \in BOOLEAN /\ refused \in BOOLEAN
    BY <1>3
  <1>. QED BY <1>13, <1>14, <1>15, <1>16, InitHolds DEF VInv

\* The instructions that change no dictionary.
LEMMA QuietStep ==
  ASSUME IInv, memory \in Nat, NEW h, NEW m, Apart(h, m),
         LedgerTyped(ledger, Len(heap)), LedgerTells(ledger, heap),
         \/ LoadConst \/ LoadVar \/ StoreVar \/ SetVar \/ JumpIfFalse \/ Jump \/ ReturnOp \/ ExitOp
         \/ ForInit \/ ForNext \/ BinopOp \/ ConvertOp \/ ListLen \/ IsNil \/ StrJoin \/ ListGetOp
         \/ MapKeys \/ StrSplit \/ MakeList \/ AppendOp
         \/ PrintOp \/ TryLet \/ Underflow \/ Refuse \/ Expire \/ ValueEnds \/ ValueFails \/ BranchEnds
         \/ UNCHANGED vars
  PROVE  Carries
  <1>1. PICK c : Here(h, c)
    BY HereIs
  <1>2. PICK K : K = Region(h, Len(heap), c)
    OBVIOUS
  <1>3. AllSound(stack, K) /\ Ends(panic, K)
    BY <1>1, <1>2 DEF Here
  <1>4. Computes(K) /\ Binds(K) /\ heap' = heap /\ ledger' = ledger /\ memory' \in Nat
    <2>1. CASE LoadConst \/ LoadVar \/ StoreVar \/ SetVar
      BY <1>1, <1>2, <2>1, VariablesCompute
    <2>2. CASE JumpIfFalse \/ Jump \/ ReturnOp \/ ExitOp
      BY <1>3, <2>2, JumpsCompute
    <2>3. CASE ForInit
      BY <1>3, <2>3, ForInitComputes
    <2>4. CASE ForNext
      BY <1>1, <1>2, <2>4, ForNextComputes
    <2>5. CASE BinopOp \/ ConvertOp \/ ListLen \/ IsNil \/ StrJoin \/ ListGetOp
      BY <1>1, <1>2, <2>5, OperationsCompute
    <2>6. CASE MapKeys \/ StrSplit \/ MakeList
      BY <1>1, <1>2, <2>6, AllocationsCompute
    <2>7. CASE AppendOp
      BY <1>1, <1>2, <2>7, AppendComputes
    <2>8. CASE PrintOp \/ TryLet \/ Underflow \/ Refuse \/ Expire
      BY <1>3, <2>8, StopsCompute
    <2>9. CASE ValueEnds \/ ValueFails \/ BranchEnds
      BY <1>1, <1>2, <2>9, BranchesCompute
    <2>10. CASE UNCHANGED vars
      <3>1. /\ frames' = frames /\ stack' = stack /\ panic' = panic /\ envs' = envs
            /\ heap' = heap /\ ledger' = ledger /\ memory' = memory
        BY <2>10 DEF vars, maps
      <3>. QED BY <1>3, <3>1, SameIsSame DEF Computes, Binds
    <2>. QED BY <2>1, <2>2, <2>3, <2>4, <2>5, <2>6, <2>7, <2>8, <2>9, <2>10
  <1>. QED BY <1>1, <1>2, <1>4, QuietCarries

LEMMA ValuesStay ==
  ASSUME VInv, [Next]_vars, SpawnAgent => CopyIsWhole
  PROVE  VInv'
  <1>1. PICK h, m : Apart(h, m)
    BY DEF VInv
  <1>2. IInv /\ memory \in Nat /\ LedgerTyped(ledger, Len(heap)) /\ LedgerTells(ledger, heap)
    BY DEF VInv
  <1>3. Carries
    <2>1. CASE MakeDict
      BY <1>1, <1>2, <2>1, MakeDictCarries
    <2>2. CASE MapSetOp
      BY <1>1, <1>2, <2>2, MapSetCarries
    <2>3. CASE MapDeleteOp
      BY <1>1, <1>2, <2>3, MapDeleteCarries
    <2>4. CASE MapGetOp
      BY <1>1, <1>2, <2>4, MapGetCarries
    <2>5. CASE CallOp \/ MainEnds \/ CallEnds \/ AgentEnds
      <3>1. heap' = heap /\ ledger' = ledger
        BY <2>5 DEF CallOp, MainEnds, CallEnds, AgentEnds, Same, maps
      <3>2. (\E g, q : Apart(g, q)') /\ memory' = memory
        BY <1>1, <1>2, <2>5, CallApart, MainEndsApart, CallEndsApart, AgentEndsApart
      <3>. QED BY <1>2, <3>1, <3>2 DEF Carries
    <2>6. CASE SpawnAgent
      <3>1. (\E g, q : Apart(g, q)') /\ memory' = memory /\ ledger' = ledger /\ HeapGrows
        BY <1>1, <1>2, <2>6, SpawnApart
      <3>2. PICK k, n, G : k = Len(heap) /\ n = Len(heap') /\ G = heap'
        OBVIOUS
      <3>3. k \in Nat /\ n \in Nat /\ k <= n /\ \A p \in 1..k : G[p] = heap[p]
        <4>1. IsStack(heap) /\ IsStack(heap')
          BY <1>1, <3>1 DEF Apart, HeapIsSound
        <4>. QED BY <3>1, <3>2, <4>1, StackAppend DEF HeapGrows
      <3>4. LedgerTyped(ledger, n)
        BY <1>2, <3>2, <3>3, TypedGrows
      <3>5. LedgerTells(ledger, G)
        <4>1. CASE ledger.complete
          <5>1. \A i \in 1..Len(ledger.known) : G[ledger.known[i]] = heap[ledger.known[i]]
            BY <1>2, <3>2, <3>3, <4>1 DEF LedgerTyped
          <5>. QED BY <1>2, <5>1, TellsSame
        <4>2. CASE ~ ledger.complete
          BY <4>2 DEF LedgerTells
        <4>. QED BY <4>1, <4>2
      <3>. QED BY <1>2, <3>1, <3>2, <3>4, <3>5 DEF Carries
    <2>7. CASE ~ (MakeDict \/ MapSetOp \/ MapDeleteOp \/ MapGetOp \/ CallOp \/ MainEnds \/ CallEnds \/ AgentEnds
                  \/ SpawnAgent)
      BY <1>1, <1>2, <2>7, QuietStep DEF Next, Run
    <2>. QED BY <2>1, <2>2, <2>3, <2>4, <2>5, <2>6, <2>7
  <1>4. (late \in BOOLEAN /\ refused \in BOOLEAN)'
    <2>1. late \in BOOLEAN /\ refused \in BOOLEAN
      BY DEF VInv
    <2>2. late' \in {late, TRUE}
      BY DEF Next, Run, LoadConst, LoadVar, StoreVar, SetVar, JumpIfFalse, Jump, ForInit, ForNext, CallOp,
             ReturnOp, ExitOp, PrintOp, BinopOp, ConvertOp, ListLen, IsNil, StrSplit, StrJoin, MakeList, MakeDict,
             AppendOp, ListGetOp, MapKeys, MapSetOp, MapDeleteOp, MapGetOp, TryLet, SpawnAgent, Underflow, Refuse,
             MainEnds, CallEnds, ValueEnds, ValueFails, BranchEnds, AgentEnds, Expire, Step, Same, vars
    <2>3. refused' \in BOOLEAN
      BY <2>1 DEF Next, Run, LoadConst, LoadVar, StoreVar, SetVar, JumpIfFalse, Jump, ForInit, ForNext, CallOp,
             ReturnOp, ExitOp, PrintOp, BinopOp, ConvertOp, ListLen, IsNil, StrSplit, StrJoin, MakeList, MakeDict,
             AppendOp, ListGetOp, MapKeys, MapSetOp, MapDeleteOp, MapGetOp, TryLet, SpawnAgent, Underflow, Refuse,
             MainEnds, CallEnds, ValueEnds, ValueFails, BranchEnds, AgentEnds, Expire, Nothing, Same, vars,
             Yields, Allocates, Charges
    <2>. QED BY <2>1, <2>2, <2>3
  <1>5. IInv'
    BY <1>2, StepStays
  <1>. QED BY <1>3, <1>4, <1>5 DEF VInv, Carries

\* Each agent that starts is given a whole copy.  (cloneStoreValue of a dictionary
\* that holds itself does not come to an end, and starts no agent.)
CopiesAreWhole == [][SpawnAgent => CopyIsWhole]_vars

\* The dictionaries of the program and of each of its agents stay apart, and the
\* ledger says what the program did with its own, whatever the code, the limits and
\* the order of calls, try_let, agents and the deadline.
THEOREM ValuesStayApart == Spec /\ CopiesAreWhole => []VInv
  <1>1. ASSUME VInv, [Next]_vars, [SpawnAgent => CopyIsWhole]_vars
        PROVE  VInv'
    <2>1. CASE UNCHANGED vars
      <3>1. executed' = executed /\ executed \in Nat
        BY <1>1, <2>1 DEF vars, VInv, IInv
      <3>2. ~ SpawnAgent
        BY <3>1 DEF SpawnAgent, Step
      <3>. QED BY <1>1, <3>2, ValuesStay
    <2>2. CASE SpawnAgent => CopyIsWhole
      BY <1>1, <2>2, ValuesStay
    <2>. QED BY <1>1, <2>1, <2>2
  <1>. QED BY <1>1, InitValues, PTL DEF Spec, CopiesAreWhole

\* Every variable of the VM has its type: a panic is of a kind that run knows how to
\* pass on, and no memory charge is negative or lost.
THEOREM TypesAreKept == Spec /\ CopiesAreWhole => []TypeOK
  <1>1. ASSUME VInv, FramesInCode, LimitsHold
        PROVE  TypeOK
    <2>1. PICK h, m : Apart(h, m)
      BY <1>1 DEF VInv
    <2>2. PICK c : Here(h, c)
      BY <2>1, HereIs
    <2>3. panic.kind \in {"none", "error", "return", "exit"}
      BY <2>2 DEF Here, Ends
    <2>. QED BY <1>1, <2>3 DEF TypeOK, VInv
  <1>. QED BY <1>1, ValuesStayApart, FramesStayInCode, LimitsAreKept, PTL

\* A complete ledger tells what each dictionary it knows holds, and what each read
\* and delete found: the evidence of a run agrees with the run, for any program, any
\* limit of the ledger, and agents that make dictionaries beside it.
THEOREM LedgerIsTrue == Spec /\ CopiesAreWhole => []LedgerTellsTheMaps
  <1>1. ASSUME VInv
        PROVE  LedgerTellsTheMaps
    <2>1. CASE ~ ledger.complete
      BY <2>1 DEF LedgerTellsTheMaps
    <2>2. CASE ledger.complete
      <3>1. PICK es, ks : es = ledger.events /\ ks = ledger.known
        OBVIOUS
      <3>2. IsStack(es) /\ IsStack(ks)
        BY <1>1, <2>2, <3>1 DEF VInv, LedgerTyped
      <3>3. DOMAIN es = 1..Len(es) /\ DOMAIN ks = 1..Len(ks)
        <4>1. PICK S, T : es \in Seq(S) /\ ks \in Seq(T)
          BY <3>2 DEF IsStack
        <4>. QED BY <4>1
      <3>4. (\A i \in 1..Len(ks) : DictTells(es, Len(es), i, heap[ks[i]])) /\ ReadsTell(es, Len(es))
        BY <1>1, <2>2, <3>1 DEF VInv, LedgerTells
      <3>5. ASSUME NEW id \in DOMAIN ks, NEW key
            PROVE  Tells(Says(es, id, key, Len(es)), key \in DOMAIN heap[ks[id]],
                         IF key \in DOMAIN heap[ks[id]] THEN heap[ks[id]][key] ELSE Nil)
        <4>1. DictTells(es, Len(es), id, heap[ks[id]])
          BY <3>3, <3>4
        <4>. QED BY <4>1 DEF DictTells
      <3>6. ASSUME NEW j \in DOMAIN es, es[j].op \in {"GET", "DELETE"}
            PROVE  Says(es, es[j].id, es[j].key[1], j - 1).there = es[j].existed
        BY <3>3, <3>4, <3>6 DEF ReadsTell
      <3>. QED BY <3>1, <3>5, <3>6 DEF LedgerTellsTheMaps
    <2>. QED BY <2>1, <2>2
  <1>. QED BY <1>1, ValuesStayApart, PTL
=============================================================================
