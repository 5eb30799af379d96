------------------------------ MODULE ByteCode ------------------------------
(***************************************************************************)
(* The operand stack and the local variables of one frame, as the byte     *)
(* code handlers of Jvmrt.c work on them, next to what the instructions    *)
(* mean.  The code of the method is verified: an instruction is executed   *)
(* only if its operands, by the meaning of those before it, are there and  *)
(* of its types.  Words are the numbers below W, bytes those below B.      *)
(*                                                                         *)
(* JAVA_WORD and JVM_BYTE are unsigned and ju32OpStackTop starts at 0, so  *)
(* that the first word pushed is at index 1.  No handler looks whether an  *)
(* index is inside the stack.                                              *)
(***************************************************************************)
EXTENDS Integers, Sequences

CONSTANTS
  W, B,         \* words and bytes are those below; half of them are negative
  OpStackSize,  \* ju32OpStackSize: words allocated for the operand stack
  MaxStack,     \* max_stack of the method: words its code needs
  LocalCount,   \* local variables
  Values,       \* the constants in the code that are words, or halves of longs
  Doubles,      \* those that are doubles: their bits, and what is made of them
  MaxLength     \* bound: instructions executed

ASSUME ByteCodeAssumption ==
  /\ W \in Nat /\ B \in Nat /\ 1 < B /\ B <= W
  /\ MaxStack \in Nat /\ LocalCount \in Nat /\ MaxLength \in Nat
  /\ Values \subseteq 0 .. W - 1
  /\ Doubles \subseteq [bits : (0 .. W - 1) \X (0 .. W - 1), whole : (0 .. W - 1) \X (0 .. W - 1)]
  /\ OpStackSize \in Nat /\ MaxStack < OpStackSize

VARIABLES
  words,   \* pjawOpStackElements
  top,     \* ju32OpStackTop; -1 stands for 2^32 - 1, and so on downwards
  locals,  \* pjawLocals
  want,    \* the operand stack by the meaning of the instructions
  wantLoc, \* and the local variables
  sums,    \* sums and differences of longs so far
  dcmps,   \* comparisons of doubles so far
  skewed,  \* a negative operand has lost its sign, a double has been converted,
           \* a store has strayed, or so has a branch
  length,  \* instructions executed so far
  wild     \* memory outside the stack or the locals has been accessed, or
           \* execution has gone where the code does not say

vars == << words, top, locals, want, wantLoc, sums, dcmps, skewed, length, wild >>

Word == 0 .. W - 1
Byte == 0 .. B - 1
Index == 0 .. OpStackSize - 1
Local == 0 .. LocalCount - 1

\* A word by its meaning: an int, or half of a long, or half of a double.
Half == {"int", "longHi", "longLo", "doubleHi", "doubleLo"}
Cell(h, v) == [half |-> h, val |-> v]
AnInt(v) == Cell("int", v)
Long(hi, lo) == << Cell("longHi", hi), Cell("longLo", lo) >>
Double(hi, lo) == << Cell("doubleHi", hi), Cell("doubleLo", lo) >>
Lower == {"longLo", "doubleLo"}

Signed(v, n) == IF 2 * v < n THEN v ELSE v - n
SignExtended(b) == Signed(b, B) % W
LongOf(hi, lo) == hi * W + lo
Compare(a, b) == IF a > b THEN 1 ELSE IF a = b THEN 0 ELSE -1

Init ==
  /\ words = [i \in Index |-> 0]
  /\ top = 0
  /\ locals = [i \in Local |-> 0]
  /\ want = << >>
  /\ wantLoc = [i \in Local |-> AnInt(0)]
  /\ sums = 0 /\ dcmps = 0 /\ length = 0
  /\ skewed = FALSE /\ wild = FALSE

-----------------------------------------------------------------------------
(* What the handlers have in common.                                       *)

\* The n topmost words, the lowest first.
Operands(n) == [i \in 1 .. n |-> words[top - n + i]]

\* The n topmost words are read and replaced by out.
Inside(n, out) == top - n >= -1 /\ top - n + Len(out) < OpStackSize

Replace(n, out) ==
  LET base == top - n
  IN  /\ words' = [i \in Index |->
                     IF i \in base + 1 .. base + Len(out) THEN out[i - base] ELSE words[i]]
      /\ top' = base + Len(out)

\* By their meaning, the n topmost words are replaced by cells.
Means(n, cells) == want' = SubSeq(want, 1, Len(want) - n) \o cells

\* JvmByteCodeExecute calls one handler after the other.
OneMore == ~ wild /\ length < MaxLength /\ length' = length + 1

Depth(n, m) == n <= Len(want) /\ Len(want) - n + m <= MaxStack
Below(i) == want[Len(want) - i]
Halves(hs) ==
  /\ Len(hs) <= Len(want)
  /\ \A i \in 1 .. Len(hs) : want[Len(want) - Len(hs) + i].half = hs[i]
TwoLongs == << "longHi", "longLo", "longHi", "longLo" >>
TwoDoubles == << "doubleHi", "doubleLo", "doubleHi", "doubleLo" >>

\* An instruction that reads n words and leaves out, and means cells instead.
Executes(n, out, cells) ==
  /\ OneMore /\ Depth(n, Len(cells))
  /\ Means(n, cells)
  /\ IF Inside(n, out) THEN Replace(n, out) /\ UNCHANGED wild
     ELSE wild' = TRUE /\ UNCHANGED << words, top >>

-----------------------------------------------------------------------------
(* Constants.                                                              *)

\* iconst_n, lconst_n and, for what is not floating, ldc and ldc2_w.
PushInt(v) ==
  /\ Executes(0, << v >>, << AnInt(v) >>)
  /\ UNCHANGED << locals, wantLoc, sums, dcmps, skewed >>

PushLong(hi, lo) ==
  /\ Executes(0, << hi, lo >>, Long(hi, lo))
  /\ UNCHANGED << locals, wantLoc, sums, dcmps, skewed >>

\* dconst_n and ldc2_w convert a double to a whole number and push its words,
\* which are the words of the double itself for few values only.
PushDouble(d) ==
  /\ Executes(0, d.whole, Double(d.bits[1], d.bits[2]))
  /\ skewed' = (skewed \/ d.whole # d.bits)
  /\ UNCHANGED << locals, wantLoc, sums, dcmps >>

\* bipush and sipush: what the code has is unsigned and stays so.
PushByte(b) ==
  /\ Executes(0, << b >>, << AnInt(SignExtended(b)) >>)
  /\ skewed' = (skewed \/ b # SignExtended(b))
  /\ UNCHANGED << locals, wantLoc, sums, dcmps >>

-----------------------------------------------------------------------------
(* Local variables.                                                        *)

\* Whole(i, n): n local variables from i on exist.
Whole(i, n) == i + n - 1 < LocalCount

\* The locals from i on hold an int, or the two halves of one value.
Holds(i, n) ==
  /\ Whole(i, n)
  /\ IF n = 1 THEN wantLoc[i].half = "int"
     ELSE << wantLoc[i].half, wantLoc[i + 1].half >>
            \in {<< "longHi", "longLo" >>, << "doubleHi", "doubleLo" >>}

\* iload, lload, dload and their short forms: n = 1 or 2 words.
LoadLocal(i, n) ==
  /\ Holds(i, n)
  /\ Executes(0, [k \in 1 .. n |-> locals[i + k - 1]], [k \in 1 .. n |-> wantLoc[i + k - 1]])
  /\ UNCHANGED << locals, wantLoc, sums, dcmps, skewed >>

\* The n topmost words are one int or one value of two words.
OneValue(n) == IF n = 1 THEN Halves(<< "int" >>)
               ELSE Halves(<< "longHi", "longLo" >>) \/ Halves(<< "doubleHi", "doubleLo" >>)

Stored(f, i, vs) == [k \in Local |-> IF k \in i .. i + Len(vs) - 1 THEN vs[k - i + 1] ELSE f[k]]

\* A value stored over half of another one leaves the other half unusable.
StoredCells(i, vs) ==
  [k \in Local |->
     IF k \in i .. i + Len(vs) - 1 THEN vs[k - i + 1]
     ELSE IF k = i - 1 /\ wantLoc[i].half \in Lower THEN AnInt(wantLoc[k].val)
     ELSE IF k = i + Len(vs) /\ wantLoc[k].half \in Lower THEN AnInt(wantLoc[k].val)
     ELSE wantLoc[k]]

\* The words go to the locals from at on, but are meant for those from i on.
Store(i, at, n) ==
  /\ OneValue(n) /\ Whole(i, n)
  /\ Executes(n, << >>, << >>)
  /\ wantLoc' = StoredCells(i, SubSeq(want, Len(want) - n + 1, Len(want)))
  /\ locals' = IF Inside(n, << >>) THEN Stored(locals, at, Operands(n)) ELSE locals
  /\ UNCHANGED << sums, dcmps >>

\* istore, lstore, fstore and dstore.
StoreLocal(i, n) == Store(i, i, n) /\ UNCHANGED skewed

\* istore_n, lstore_n, fstore_n, dstore_n and astore_n take the index from the
\* byte behind the instruction, the next opcode, which may name any local.
StoreShort(i, n, at) ==
  /\ Whole(at, n)
  /\ Store(i, at, n)
  /\ skewed' = (skewed \/ at # i)

\* Or that opcode names none, and something else in memory is overwritten.
StoreOutside(i, n) ==
  /\ OneMore /\ OneValue(n) /\ Whole(i, n)
  /\ wild' = TRUE /\ skewed' = TRUE
  /\ UNCHANGED << words, top, locals, want, wantLoc, sums, dcmps >>

\* iinc: the constant is an unsigned byte.
Iinc(i, b) ==
  /\ OneMore /\ wantLoc[i].half = "int"
  /\ locals' = [locals EXCEPT ![i] = (@ + b) % W]
  /\ wantLoc' = [wantLoc EXCEPT ![i] = AnInt((@.val + SignExtended(b)) % W)]
  /\ skewed' = (skewed \/ b # SignExtended(b))
  /\ UNCHANGED << words, top, want, sums, dcmps, wild >>

-----------------------------------------------------------------------------
(* The stack instructions.                                                 *)

\* pop and pop2 only move the top.
Pop(n) ==
  /\ OneMore /\ Depth(n, 0)
  /\ Below(n - 1).half \notin Lower
  /\ Means(n, << >>)
  /\ top' = top - n
  /\ UNCHANGED << words, locals, wantLoc, sums, dcmps, skewed, wild >>

Shuffles == {"dup", "dup_x1", "dup_x2", "dup2", "dup2_x1", "dup2_x2"}

\* The words each of them takes, and how many of these it repeats.
Taken == [dup |-> 1, dup_x1 |-> 2, dup_x2 |-> 3, dup2 |-> 2, dup2_x1 |-> 3, dup2_x2 |-> 4]
Repeated == [dup |-> 1, dup_x1 |-> 1, dup_x2 |-> 1, dup2 |-> 2, dup2_x1 |-> 2, dup2_x2 |-> 2]

\* Faulty: dup_x2 leaves the words it went past in the order it read them.
ShuffledReversed(ins, r) ==
  CASE ins = "dup"     -> << r[1], r[1] >>
    [] ins = "dup_x1"  -> << r[2], r[1], r[2] >>
    [] ins = "dup_x2"  -> << r[3], r[2], r[1], r[3] >>
    [] ins = "dup2"    -> << r[1], r[2], r[1], r[2] >>
    [] ins = "dup2_x1" -> << r[2], r[3], r[1], r[2], r[3] >>
    [] ins = "dup2_x2" -> << r[3], r[4], r[1], r[2], r[3], r[4] >>

\* What each handler leaves, word by word as it assigns them.
Shuffled(ins, r) ==
  CASE ins = "dup"     -> << r[1], r[1] >>
    [] ins = "dup_x1"  -> << r[2], r[1], r[2] >>
    [] ins = "dup_x2"  -> << r[3], r[1], r[2], r[3] >>
    [] ins = "dup2"    -> << r[1], r[2], r[1], r[2] >>
    [] ins = "dup2_x1" -> << r[2], r[3], r[1], r[2], r[3] >>
    [] ins = "dup2_x2" -> << r[3], r[4], r[1], r[2], r[3], r[4] >>

\* No value of two words is cut n words below the top.
Uncut(n) == n = 0 \/ Below(n - 1).half \notin Lower

Shuffle(ins) ==
  LET n == Taken[ins]
      k == Repeated[ins]
      cells == SubSeq(want, Len(want) - n + 1, Len(want))
  IN  /\ n <= Len(want) /\ Uncut(n) /\ Uncut(k)
      /\ Executes(n, Shuffled(ins, Operands(n)), SubSeq(cells, n - k + 1, n) \o cells)
      /\ UNCHANGED << locals, wantLoc, sums, dcmps, skewed >>

Swap ==
  LET r == Operands(2)
  IN  /\ Halves(<< "int", "int" >>)
      /\ Executes(2, << r[2], r[1] >>, << Below(0), Below(1) >>)
      /\ UNCHANGED << locals, wantLoc, sums, dcmps, skewed >>

-----------------------------------------------------------------------------
(* Arithmetic, conversions and comparisons.  sign is 1 for a sum and -1    *)
(* for a difference.                                                       *)

\* iadd and isub.
SumInts(sign) ==
  LET r == Operands(2)
  IN  /\ Halves(<< "int", "int" >>)
      /\ Executes(2, << (r[1] + sign * r[2]) % W >>,
                     << AnInt((Below(1).val + sign * Below(0).val) % W) >>)
      /\ UNCHANGED << locals, wantLoc, sums, dcmps, skewed >>

\* Faulty: the top is on the lower word of the result.
TopOnLowerWord == top - 2

\* ladd and lsub count the top down once for each word they read but one, and
\* so once too often for the two words they leave.
TopAfterLongSum == top - 3

\* The two words of a long sum stay where the first operand was.
SumLongs(sign) ==
  LET r == Operands(4)
      s == (LongOf(r[1], r[2]) + sign * LongOf(r[3], r[4])) % (W * W)
      m == (LongOf(Below(3).val, Below(2).val) + sign * LongOf(Below(1).val, Below(0).val)) % (W * W)
  IN  /\ OneMore /\ Halves(TwoLongs) /\ Depth(4, 2)
      /\ Means(4, Long(m \div W, m % W))
      /\ IF top - 4 >= -1
         THEN /\ words' = [words EXCEPT ![top - 3] = s \div W, ![top - 2] = s % W]
              /\ top' = TopAfterLongSum
              /\ UNCHANGED wild
         ELSE wild' = TRUE /\ UNCHANGED << words, top >>
      /\ sums' = sums + 1
      /\ UNCHANGED << locals, wantLoc, dcmps, skewed >>

\* i2l: the upper word is 0, whatever the sign.
ExtendInt ==
  LET v == Below(0).val
      hi == IF Signed(v, W) < 0 THEN W - 1 ELSE 0
  IN  /\ Halves(<< "int" >>)
      /\ Executes(1, << 0, Operands(1)[1] >>, Long(hi, v))
      /\ skewed' = (skewed \/ hi # 0)
      /\ UNCHANGED << locals, wantLoc, sums, dcmps >>

\* i2b: to a signed byte and back.
NarrowInt ==
  /\ Halves(<< "int" >>)
  /\ Executes(1, << SignExtended(Operands(1)[1] % B) >>, << AnInt(SignExtended(Below(0).val % B)) >>)
  /\ UNCHANGED << locals, wantLoc, sums, dcmps, skewed >>

\* lcmp.
CompareLongs ==
  LET r == Operands(4)
      cmp(a, b, c, d) == Compare(LongOf(Signed(a, W), b), LongOf(Signed(c, W), d)) % W
  IN  /\ Halves(TwoLongs)
      /\ Executes(4, << cmp(r[1], r[2], r[3], r[4]) >>,
                     << AnInt(cmp(Below(3).val, Below(2).val, Below(1).val, Below(0).val)) >>)
      /\ UNCHANGED << locals, wantLoc, sums, dcmps, skewed >>

\* dcmpl and dcmpg compare the two topmost words as if each were a double.
\* What two doubles compare to is a data matter, and any outcome of it.
CompareDoubles(v) ==
  LET r == Operands(2)
  IN  /\ OneMore /\ Halves(TwoDoubles) /\ Depth(4, 1)
      /\ Means(4, << AnInt(v) >>)
      /\ IF Inside(2, << 0 >>)
         THEN Replace(2, << Compare(r[1], r[2]) % W >>) /\ UNCHANGED wild
         ELSE wild' = TRUE /\ UNCHANGED << words, top >>
      /\ dcmps' = dcmps + 1
      /\ UNCHANGED << locals, wantLoc, sums, skewed >>

-----------------------------------------------------------------------------
(* Branches.  Where they go is a matter of the code: what can be told here *)
(* is whether execution goes on where the instruction says, and then the   *)
(* next one is again one that the code has there.                          *)

\* What the comparison of a with b may be for a branch to be taken.
Conditions == {"eq", "ne", "lt", "le", "gt", "ge"}
Accepts == [eq |-> {0}, ne |-> {-1, 1}, lt |-> {-1}, le |-> {-1, 0}, gt |-> {1}, ge |-> {0, 1}]
Meets(a, cond, b) == Compare(Signed(a, W), Signed(b, W)) \in Accepts[cond]

\* A branch on n words; lost says that it does not go where it should.
Branches(n, lost) ==
  /\ OneMore /\ Depth(n, 0)
  /\ Means(n, << >>)
  /\ top' = top - n
  /\ wild' = (top - n < -1 \/ lost)
  /\ UNCHANGED << words, locals, wantLoc, sums, dcmps >>

\* ifeq and the like.  The offset is unsigned, so that a branch backwards
\* leaves the code of the method.
IfZero(cond, back) ==
  LET taken == Meets(Operands(1)[1], cond, 0)
      meant == Meets(Below(0).val, cond, 0)
  IN  /\ Halves(<< "int" >>)
      /\ Branches(1, taken # meant \/ (taken /\ back))
      /\ skewed' = (skewed \/ (meant /\ back))

\* if_icmpeq and the like.  The topmost word is compared with the one below,
\* not that one with it, and the offset is not added to the pc but replaces it.
IfCompare(cond) ==
  LET r == Operands(2)
      meant == Meets(Below(1).val, cond, Below(0).val)
      turned == Meets(Below(0).val, cond, Below(1).val)
  IN  /\ Halves(<< "int", "int" >>)
      /\ Branches(2, meant \/ Meets(r[2], cond, r[1]))
      /\ skewed' = (skewed \/ meant \/ turned)

Next ==
  \/ \E v \in Values : PushInt(v)
  \/ \E hi, lo \in Values : PushLong(hi, lo)
  \/ \E d \in Doubles : PushDouble(d)
  \/ \E b \in Byte : PushByte(b)
  \/ \E i \in Local, n \in 1 .. 2 : LoadLocal(i, n) \/ StoreLocal(i, n) \/ StoreOutside(i, n)
  \/ \E i, at \in Local, n \in 1 .. 2 : StoreShort(i, n, at)
  \/ \E i \in Local, b \in Byte : Iinc(i, b)
  \/ \E n \in 1 .. 2 : Pop(n)
  \/ \E ins \in Shuffles : Shuffle(ins)
  \/ Swap
  \/ \E sign \in {1, -1} : SumInts(sign) \/ SumLongs(sign)
  \/ ExtendInt \/ NarrowInt \/ CompareLongs
  \/ \E v \in Word : CompareDoubles(v)
  \/ \E cond \in Conditions, back \in BOOLEAN : IfZero(cond, back)
  \/ \E cond \in Conditions : IfCompare(cond)

Spec == Init /\ [][Next]_vars

-----------------------------------------------------------------------------
TypeOK ==
  /\ words \in [Index -> Word]
  /\ top \in Int /\ top < OpStackSize
  /\ locals \in [Local -> Word]
  /\ want \in Seq([half : Half, val : Word]) /\ Len(want) <= MaxStack
  /\ wantLoc \in [Local -> [half : Half, val : Word]]
  /\ sums \in Nat /\ dcmps \in Nat /\ length \in Nat
  /\ skewed \in BOOLEAN /\ wild \in BOOLEAN

(* As long as no instruction of a known few has been executed, stack, top  *)
(* and locals are what the instructions mean, whatever the sequence, and   *)
(* execution is where they say: those few are the sums of longs, the       *)
(* constants and comparisons of doubles, the short stores, what forgets    *)
(* the sign of a negative number, branches backwards, and comparisons of   *)
(* two ints that branch, or would with the operands the other way round.   *)
StackIsExact ==
  TypeOK /\ (sums = 0 /\ dcmps = 0 /\ ~ skewed =>
    /\ ~ wild
    /\ top = Len(want)
    /\ \A i \in 1 .. Len(want) : words[i] = want[i].val
    /\ \A i \in Local : locals[i] = wantLoc[i].val)

(* The top of the stack is a word too low for each sum or difference of    *)
(* longs so far, and two words too high for each comparison of doubles;    *)
(* nothing else moves it, and nothing ever puts it right.                  *)
TopDrifts == ~ wild => top = Len(want) - sums + 2 * dcmps
=============================================================================
