----------------------------- MODULE CallFrames -----------------------------
(***************************************************************************)
(* Method calls, returns and Java exceptions in the interpreter of         *)
(* Jvmrt.c: the stack frames of a thread, its execution environments and   *)
(* the loop of JvmByteCodeExecute.                                         *)
(*                                                                         *)
(* The loop reads the pc of the current frame; an instruction works on the *)
(* frame of the current environment.  After an exception caught further    *)
(* down these are two frames.                                              *)
(*                                                                         *)
(* A method is neither native nor synchronized, and the classes are loaded *)
(* and initialised.  Code is a sequence of bytes; only the first byte of   *)
(* an instruction counts.  Of an operand stack only the height is kept.    *)
(***************************************************************************)
EXTENDS Integers, Sequences, SequencesExt

CONSTANTS
  Programs,    \* the programs considered: a sequence of methods, main first
  OpStackSize, \* words allocated for the operand stack of each frame
  Block,       \* FRAME_BLOCK_SIZE
  MaxFrames    \* frames there is memory for

VARIABLES
  prog,     \* the program
  slots,    \* pjsfFrames: whatever has been written there last
  chain,    \* the numbers of the frames pjsfPrevFrame leads to from
            \* pjsfCurrFrame, which is the last one
  next,     \* juNextFrame
  envs,     \* pjeeCurrExecEnv, the last one, and those pjeePrev leads to
  alloc,    \* juAllocFrames
  stale,    \* pointers to slots up to this one lead to freed memory
  status,   \* "runs", "throws", "searches" or how the thread has ended
  lost      \* history: the highest frame of the chain that an exception has
            \* come down to

vars == << prog, slots, chain, next, envs, alloc, stale, status, lost >>

ASSUME CallFramesAssumption ==
  /\ OpStackSize \in Nat \ {0} /\ Block \in Nat \ {0} /\ MaxFrames \in Nat
  /\ Block <= MaxFrames

\* A byte of the code of program p: an instruction, a call of a method, a call
\* of an interface's method with the words it takes, or a byte of an index.
Bytes(p) ==
  {<< op >> : op \in {"nop", "push", "spin", "return", "areturn", "dreturn", "fault", "arg"}}
    \cup ({"call"} \X {"static", "special", "virtual"} \X DOMAIN p)
    \cup ({"interface"} \X (Nat \ {0}))

\* The tries are the handlers for the exceptions considered.
Methods(p) ==
  [args : Nat, ret : {"void", "reference", "double"}, code : Seq(Bytes(p)),
   tries : SUBSET [from : Nat, to : Nat, at : Nat]]

\* What the compiler sees to: an index is behind each call, no instruction that
\* goes on is the last one, and handlers are inside the code.
ASSUME ProgramsAssumption ==
  \A p \in Programs :
    /\ p \in Seq(Methods(p)) /\ p # << >>
    /\ \A m \in DOMAIN p :
         /\ p[m].code # << >>
         /\ \A k \in DOMAIN p[m].code :
              /\ p[m].code[k][1] \in {"nop", "push"} => k < Len(p[m].code)
              /\ p[m].code[k][1] = "call" =>
                   /\ k + 3 <= Len(p[m].code)
                   /\ p[m].code[k + 1] = << "arg" >> /\ p[m].code[k + 2] = << "arg" >>
         /\ \A h \in p[m].tries : h.at < Len(p[m].code)

\* A frame: its method, jawPC, ju32TopElementIndex and pjsfPrevFrame, and
\* whether its operand stack is allocated.  An environment: its frame and
\* ju32OpStackTop, which is -1 for the unsigned number below 0.
Frame(m, prev) == [method |-> m, pc |-> 0, idx |-> 0, prev |-> prev, held |-> TRUE]
Unused == [method |-> 1, pc |-> 0, idx |-> 0, prev |-> 0, held |-> FALSE]
Env(s) == [slot |-> s, top |-> 0]

\* main has been set up and JvmRtExecute entered.
Init ==
  /\ prog \in Programs
  /\ slots = [s \in 1 .. MaxFrames |-> IF s = 1 THEN Frame(1, 0) ELSE Unused]
  /\ chain = << 1 >>
  /\ next = 1
  /\ envs = << Env(1) >>
  /\ alloc = Block
  /\ stale = 0
  /\ status = "runs"
  /\ lost = 0

Depth == Len(chain)
Cur == chain[Depth]   \* the frame the loop looks at
EnvNo == Len(envs)
Used == envs[EnvNo].slot   \* the frame an instruction works on
Top == envs[EnvNo].top
Code(m) == prog[m].code
Executed == Code(slots[Cur].method)[slots[Cur].pc + 1]
Returned == prog[slots[Used].method].ret

AtOp(op) == status = "runs" /\ Executed[1] = op

\* The stack has a word with that index.
Fits(top) == top < OpStackSize

Ends(how) == status' = how /\ UNCHANGED << prog, slots, chain, next, envs, alloc, stale, lost >>

\* JVM_THROW_EXCEPTION, and JAVA_THROW_EXCEPTION behind JVM_CATCH_ALL_EXCEPTIONS.
Throws == Ends("throws")

\* The step of an instruction that takes n words off the operand stack; where
\* there is none it takes word 0 and lets the top go below it.
Taking(n, step) ==
  IF n = 0 THEN step
  ELSE IF ~ slots[Used].held THEN Ends("freed")
  ELSE IF n > Top + 1 THEN Ends("outside")
  ELSE step

\* The pc of the used frame is set.  That of a frame outside the chain is never
\* read again.
UsedAt(pc) == IF Used = Cur THEN [slots EXCEPT ![Cur].pc = pc] ELSE slots

-----------------------------------------------------------------------------
(* Instructions without calls.                                             *)

Nop ==
  /\ AtOp("nop")
  /\ slots' = UsedAt(slots[Cur].pc + 1)
  /\ UNCHANGED << prog, chain, next, envs, alloc, stale, status, lost >>

\* A constant: 0 as an int, or the null reference.
Push ==
  /\ AtOp("push")
  /\ IF ~ slots[Used].held THEN Ends("freed")
     ELSE IF ~ Fits(Top + 1) THEN Ends("outside")
     ELSE /\ slots' = UsedAt(slots[Cur].pc + 1)
          /\ envs' = [envs EXCEPT ![EnvNo].top = @ + 1]
          /\ UNCHANGED << prog, chain, next, alloc, stale, status, lost >>

\* imul to lxor, goto, ireturn and the other handlers that only say they were
\* called, and athrow, which only looks at its operand: the pc stays where it is
\* and the instruction is executed again and again.
Spin == AtOp("spin") /\ UNCHANGED vars

\* An instruction that throws before it takes an operand.
Fault == AtOp("fault") /\ Throws

-----------------------------------------------------------------------------
(* Calls.                                                                  *)

Callee == Executed[3]
Args == prog[Callee].args
Calls(kinds) == AtOp("call") /\ Executed[2] \in kinds

\* Faulty: the block grows while there is a slot left.
GrowsEarly == next + 1 >= alloc

\* JvmRtGetNextStackFrame needs a larger block.  mem_realloc always moves it.
Grows == next >= alloc

\* mem_realloc copies to a null pointer if there is no room for it.
NoRoom == Grows /\ alloc + Block > MaxFrames

\* JvmRtSetUpStackFrame and JvmRtSetUpExecEnv, over the slots and environments
\* the caller has left.
SetUp(left, leftEnvs) ==
  /\ slots' = [left EXCEPT ![next + 1] = Frame(Callee, Cur)]
  /\ chain' = Append(chain, next + 1)
  /\ next' = next + 1
  /\ envs' = Append(leftEnvs, Env(next + 1))
  /\ alloc' = IF Grows THEN alloc + Block ELSE alloc
  /\ stale' = IF Grows THEN next ELSE stale
  /\ UNCHANGED << prog, status, lost >>

\* Faulty: the caller goes on behind the call.
ResumesAfter == slots[Cur].pc + 3

\* The handlers reset the pc of the caller's frame, not that of the new one.
ResumesAt == 0

\* Faulty: the object and the arguments are taken off the caller's stack.
TakesArguments == Args

\* The handlers leave them there.
TakenWithObject == 0

\* The caller's operands once a call has taken n words.
Without(n) == [envs EXCEPT ![EnvNo].top = @ - n]

\* invokespecial reads the object and all words of the arguments but one,
\* invokevirtual all.  They use the caller's frame once more when the block may
\* have moved.
CallOnObject ==
  LET read == IF Executed[2] = "virtual" THEN Args + 1 ELSE IF Args = 0 THEN 1 ELSE Args
  IN  /\ Calls({"special", "virtual"})
      /\ Taking(read,
           IF NoRoom THEN Ends("crashed")
           ELSE IF Grows THEN Ends("freed")
           ELSE SetUp(UsedAt(ResumesAt), Without(TakenWithObject)))

\* invokeinterface insists on an abstract method, and has the new frame's stack
\* map made from the code that an abstract method does not have.
CallInterface ==
  /\ AtOp("interface")
  /\ Taking(Executed[2], Ends("crashed"))

\* invokestatic takes all words of the arguments but one.  It enters
\* JvmRtExecute once more, which goes on with whatever frame is the current one.
CallStatic ==
  LET taken == IF Args = 0 THEN 0 ELSE Args - 1
  IN  /\ Calls({"static"})
      /\ Taking(taken,
           IF NoRoom THEN Ends("crashed") ELSE SetUp(UsedAt(slots[Cur].pc + 3), Without(taken)))

-----------------------------------------------------------------------------
(* Returns.  They check the method of the frame they work on.              *)

\* JvmRtDestroyStackFrame, for the current frame, and JvmRtDestroyExecEnv;
\* JvmByteCodeExecute then looks at the method of the caller's frame.
GoesBack(left, leftEnvs) ==
  IF Depth = 1 THEN Ends("crashed")
  ELSE IF chain[Depth - 1] <= stale THEN Ends("freed")
  ELSE /\ slots' = [left EXCEPT ![Cur].held = FALSE]
       /\ chain' = Front(chain)
       /\ next' = next - 1
       /\ envs' = Front(leftEnvs)
       /\ lost' = IF lost = Cur THEN chain[Depth - 1] ELSE lost
       /\ UNCHANGED << prog, alloc, stale, status >>

Return ==
  /\ AtOp("return")
  /\ IF Returned # "void" THEN Throws ELSE GoesBack(slots, envs)

\* The step of a return that writes to the stack of the frame behind the used
\* one, up to the given index.
Writing(index, step) ==
  LET p == slots[Used].prev
  IN  IF p = 0 THEN Ends("crashed")
      ELSE IF p <= stale \/ ~ slots[p].held THEN Ends("freed")
      ELSE IF ~ Fits(index) THEN Ends("outside")
      ELSE step

\* Word 0, where nothing is pushed, holds garbage or an exception: it may not
\* be an object, or not one of the class it should be.
NoReference == Top = 0 /\ (Ends("outside") \/ Throws)

\* The type of a double names no class to load.
AReturn ==
  /\ AtOp("areturn")
  /\ IF Returned = "void" THEN Throws
     ELSE IF Returned = "double" THEN Ends("crashed")
     ELSE Taking(1,
            \/ NoReference
            \/ Writing(envs[EnvNo - 1].top + 1,
                 GoesBack(slots, [envs EXCEPT ![EnvNo - 1].top = @ + 1])))

\* The two words go where ju32TopElementIndex of the frame says.
DReturn ==
  LET p == slots[Used].prev
  IN  /\ AtOp("dreturn")
      /\ IF Returned # "double" THEN Throws
         ELSE Taking(2,
                Writing(slots[p].idx + 2, GoesBack([slots EXCEPT ![p].idx = @ + 2], envs)))

-----------------------------------------------------------------------------
(* JvmThrowRealJavaException.                                              *)

Searching == status \in {"throws", "searches"}

\* A handler of the current method covers the byte before its pc, the last one
\* of the range included.
Handlers ==
  {h \in prog[slots[Cur].method].tries : slots[Cur].pc - 1 >= h.from /\ slots[Cur].pc - 1 <= h.to}

\* Faulty: the environments that are left are those of the frames that are.
EnvsDownTo == SubSeq(envs, 1, Depth)

\* The environment is not changed: it still belongs to the frame that is gone.
EnvsCatching == envs

\* The current frame catches the exception.
Catch ==
  /\ Searching
  /\ \E h \in Handlers : slots' = [slots EXCEPT ![Cur].pc = h.at, ![Cur].idx = 0]
  /\ envs' = [EnvsCatching EXCEPT ![Len(EnvsCatching)].top = 0]
  /\ status' = "runs"
  /\ UNCHANGED << prog, chain, next, alloc, stale, lost >>

\* Faulty: only the current frame is left before the search goes on.
EachFrame == 1

\* JvmRtDestroyStackFrame makes the caller's frame the current one; the line
\* behind it does so once more.
FramesDown == 2

\* It does not catch it.  The thread is ended when there is no frame any more;
\* without a caller there is none to go down from the second time.
Unwind ==
  /\ Searching /\ Handlers = {}
  /\ IF Depth < FramesDown THEN Ends("crashed")
     ELSE IF Depth > 1 /\ chain[Depth - 1] <= stale THEN Ends("freed")
     ELSE IF Depth = FramesDown THEN Ends("exited")
     ELSE IF chain[Depth - FramesDown] <= stale THEN Ends("freed")
     ELSE /\ slots' = [slots EXCEPT ![Cur].held = FALSE]
          /\ chain' = SubSeq(chain, 1, Depth - FramesDown)
          /\ next' = next - 1
          /\ status' = "searches"
          /\ lost' = chain[Depth - FramesDown]
          /\ UNCHANGED << prog, envs, alloc, stale >>

\* A build with JVM_DEBUG asserts that the byte before the pc is not the first
\* one, and that nobody comes back to a search that has gone down.
AssertFails ==
  /\ Searching
  /\ slots[Cur].pc = 1 \/ (status = "searches" /\ Handlers # {})
  /\ Ends("crashed")

Step ==
  \/ Nop \/ Push \/ Spin \/ Fault
  \/ CallOnObject \/ CallInterface \/ CallStatic
  \/ Return \/ AReturn \/ DReturn
  \/ Catch \/ Unwind \/ AssertFails

\* The thread goes on by itself.
Spec == Init /\ [][Step]_vars /\ WF_vars(Step)

-----------------------------------------------------------------------------
Endings == {"crashed", "freed", "outside", "exited"}
Statuses == {"runs", "throws", "searches"} \cup Endings

TypeOK ==
  /\ prog \in Programs
  /\ \A s \in 1 .. MaxFrames : slots[s].method \in DOMAIN prog /\ slots[s].idx \in 0 .. OpStackSize - 1
  /\ Depth >= 1 /\ \A i \in 1 .. Depth : chain[i] \in 1 .. next /\ slots[chain[i]].held
  /\ next \in 1 .. alloc /\ alloc \in Block .. MaxFrames /\ stale \in 0 .. MaxFrames
  /\ \A i \in 1 .. EnvNo : envs[i].slot \in 1 .. MaxFrames /\ envs[i].top \in -1 .. OpStackSize - 1
  /\ status \in Statuses
  /\ lost \in 0 .. Cur

(* A thread uses a freed frame only once it has filled a whole block of    *)
(* frames, or an exception has come down to a frame from a call.           *)
FramesStayValid == TypeOK /\ (status = "freed" => next >= Block \/ stale >= Block \/ lost > 0)

\* The bytes of a frame's method before its pc.
Passed(f) == {Code(f.method)[k] : k \in 1 .. f.pc}

(* Nothing behind an invokespecial or an invokevirtual is ever executed,   *)
(* but for exception handlers: the method called returns to the start of   *)
(* its caller.                                                             *)
NeverPastACallOnObject ==
  \A s \in 1 .. MaxFrames :
    prog[slots[s].method].tries = {} =>
      ~ \E b \in Passed(slots[s]) : b[1] = "call" /\ b[2] \in {"special", "virtual"}

(* What an exception goes down from is never given back: for each frame    *)
(* the search has skipped the block is a slot short for good, and the      *)
(* thread keeps two environments more than it has frames.                  *)
FramesLeak == EnvNo - Depth = 2 * (next - Depth)

(* A frame that an exception has come down to, and every frame below it,   *)
(* executes the instruction its handler begins with and never gets past    *)
(* it: only another exception moves the pc of such a frame.                *)
StandsStill ==
  [][\A s \in 1 .. lost : slots'[s].pc # slots[s].pc => Searching]_vars

(* No thread runs to a good end: main returns to a frame that is not       *)
(* there, and before that calls may leave the memory of the stacks.  Only  *)
(* the handlers that do nothing can keep it from that, or an exception     *)
(* that comes down to a frame.                                             *)
Spins == \E m \in DOMAIN prog : \E k \in DOMAIN Code(m) : Code(m)[k][1] = "spin"
EveryRunEndsBadly == ~ Spins => <>(status \in Endings \/ lost > 0)
=============================================================================
