-------------------------- MODULE CallFramesProofs --------------------------
(***************************************************************************)
(* Invariance proofs for CallFrames: for any programs whose code is well   *)
(* formed, any height of the operand stacks and any block size, which      *)
(* frames stay valid, what is executed behind a call on an object, what an *)
(* exception leaves behind and which frames stand still after it.          *)
(***************************************************************************)
EXTENDS CallFrames, SequenceTheorems, TLAPS

OnObject(b) == b[1] = "call" /\ b[2] \in {"special", "virtual"}

\* The frames of program p that are about to execute a byte of their method,
\* and have none behind them that calls a method on an object, unless the
\* method has handlers.
FrameRecords(p) ==
  [method : DOMAIN p, pc : Nat, idx : 0 .. OpStackSize - 1, prev : 0 .. MaxFrames, held : BOOLEAN]

GoodFrames(p) ==
  {f \in FrameRecords(p) :
     /\ f.pc < Len(p[f.method].code)
     /\ p[f.method].tries = {} => \A k \in 1 .. f.pc : ~ OnObject(p[f.method].code[k])}

Envs == [slot : 1 .. MaxFrames, top : -1 .. OpStackSize - 1]

Typed ==
  /\ prog \in Programs
  /\ slots \in [1 .. MaxFrames -> GoodFrames(prog)]
  /\ chain \in Seq(1 .. MaxFrames) /\ Depth >= 1
  /\ envs \in Seq(Envs)
  /\ next \in Nat /\ next <= alloc /\ alloc \in Block .. MaxFrames
  /\ stale \in {0} \cup Block .. MaxFrames
  /\ status \in Statuses

\* The frames of the chain come one after the other in the block, none of them
\* is given back, and each leads to the one before it.
Rising == \A i, j \in 1 .. Depth : i < j => chain[i] < chain[j]
Chained ==
  /\ Rising
  /\ chain[Depth] <= next
  /\ \A i \in 1 .. Depth :
       /\ slots[chain[i]].held
       /\ slots[chain[i]].prev = IF i = 1 THEN 0 ELSE chain[i - 1]

\* Each frame that leaves with an exception leaves environments behind.
Leaves == Depth <= EnvNo /\ EnvNo + Depth = 2 * next

\* Counted from the top, each frame has its own environment, or one of a frame
\* that is gone if an exception has come down to it or past it.
EnvOf(i) == envs[EnvNo - Depth + i]
Aligned ==
  \A i \in 1 .. Depth :
    IF chain[i] > lost THEN EnvOf(i).slot = chain[i] ELSE EnvOf(i).slot > chain[i]

LostInChain == lost = 0 \/ \E i \in 1 .. Depth : lost = chain[i]

\* What it takes to use a freed frame.
MayDangle == next >= Block \/ stale >= Block \/ lost > 0

Inv ==
  /\ Typed /\ Chained /\ Leaves /\ Aligned /\ LostInChain
  /\ status = "freed" => MayDangle

-----------------------------------------------------------------------------
\* What is known of the code of a method.
LEMMA CodeOf ==
  ASSUME NEW p \in Programs, NEW m \in DOMAIN p
  PROVE  /\ p[m].args \in Nat
         /\ p[m].code \in Seq(Bytes(p)) /\ p[m].code # << >>
         /\ Len(p[m].code) \in Nat /\ Len(p[m].code) > 0
         /\ p[m].tries \in SUBSET [from : Nat, to : Nat, at : Nat]
         /\ \A h \in p[m].tries : h.at < Len(p[m].code)
<1>1. p \in Seq(Methods(p)) /\ p[m].code # << >> /\ \A h \in p[m].tries : h.at < Len(p[m].code)
  BY ProgramsAssumption
<1>2. p[m] \in Methods(p)
  BY <1>1, ElementOfSeq
<1>3. p[m].args \in Nat /\ p[m].code \in Seq(Bytes(p))
      /\ p[m].tries \in SUBSET [from : Nat, to : Nat, at : Nat]
  BY <1>2 DEF Methods
<1>4. Len(p[m].code) \in Nat /\ Len(p[m].code) > 0
  BY <1>1, <1>3, EmptySeq, LenProperties
<1> QED BY <1>1, <1>3, <1>4

\* A byte whose first component is "call" names a method.
LEMMA CalleeOf ==
  ASSUME NEW p, NEW b \in Bytes(p), b[1] = "call"
  PROVE  b[3] \in DOMAIN p
  BY DEF Bytes

LEMMA ProgramHasMain ==
  ASSUME NEW p \in Programs
  PROVE  1 \in DOMAIN p
<1>1. p \in Seq(Methods(p)) /\ p # << >>
  BY ProgramsAssumption
<1> QED BY <1>1, EmptySeq, LenProperties

\* A frame that goes on n bytes, none of which calls a method on an object.
LEMMA FrameGoesOn ==
  ASSUME NEW p \in Programs, NEW f \in GoodFrames(p), NEW n \in Nat,
         f.pc + n < Len(p[f.method].code),
         \A k \in f.pc + 1 .. f.pc + n : ~ OnObject(p[f.method].code[k])
  PROVE  [f EXCEPT !.pc = f.pc + n] \in GoodFrames(p)
<1>1. f \in FrameRecords(p) /\ f.pc \in Nat
  BY DEF GoodFrames, FrameRecords
<1>2. PICK g : g = [f EXCEPT !.pc = f.pc + n]
  OBVIOUS
<1>3. g \in FrameRecords(p) /\ g.pc = f.pc + n /\ g.method = f.method
  BY <1>1, <1>2 DEF FrameRecords
<1>4. ASSUME p[f.method].tries = {}, NEW k \in 1 .. f.pc + n
      PROVE  ~ OnObject(p[f.method].code[k])
  <2>1. CASE k <= f.pc
    <3>1. k \in 1 .. f.pc
      BY <1>1, <2>1
    <3> QED BY <1>4, <3>1 DEF GoodFrames
  <2>2. CASE ~ (k <= f.pc)
    <3>1. k \in f.pc + 1 .. f.pc + n
      BY <1>1, <2>2
    <3> QED BY <3>1
  <2> QED BY <2>1, <2>2
<1> QED BY <1>2, <1>3, <1>4 DEF GoodFrames

\* A frame at the start of its method.
LEMMA FrameAtStart ==
  ASSUME NEW p \in Programs, NEW f \in FrameRecords(p), f.pc = 0
  PROVE  f \in GoodFrames(p)
<1>1. f.method \in DOMAIN p
  BY DEF FrameRecords
<1> QED BY <1>1, CodeOf DEF GoodFrames

LEMMA NewFrame ==
  ASSUME NEW p \in Programs, NEW m \in DOMAIN p, NEW s \in 0 .. MaxFrames
  PROVE  Frame(m, s) \in GoodFrames(p)
<1>1. Frame(m, s) \in FrameRecords(p) /\ Frame(m, s).pc = 0
  BY CallFramesAssumption DEF Frame, FrameRecords
<1> QED BY <1>1, FrameAtStart

LEMMA UnusedFrame ==
  ASSUME NEW p \in Programs
  PROVE  Unused \in GoodFrames(p)
<1>1. Unused \in FrameRecords(p) /\ Unused.pc = 0
  BY ProgramHasMain, CallFramesAssumption DEF Unused, FrameRecords
<1> QED BY <1>1, FrameAtStart

LEMMA InitEstablishes == Init => Inv
<1> SUFFICES ASSUME Init PROVE Inv
  OBVIOUS
<1>1. OpStackSize \in Nat \ {0} /\ Block \in Nat \ {0} /\ MaxFrames \in Nat /\ Block <= MaxFrames
  BY CallFramesAssumption
<1>2. Frame(1, 0) \in GoodFrames(prog) /\ Unused \in GoodFrames(prog)
  BY <1>1, ProgramHasMain, NewFrame, UnusedFrame DEF Init
<1>3. Env(1) \in Envs /\ Env(1).slot = 1
  BY <1>1 DEF Env, Envs
<1>4. chain = << 1 >> /\ Depth = 1 /\ envs = << Env(1) >> /\ EnvNo = 1 /\ next = 1 /\ lost = 0
      /\ chain[1] = 1 /\ envs[1] = Env(1)
  BY DEF Init, Depth, EnvNo
<1>5. chain \in Seq(1 .. MaxFrames) /\ envs \in Seq(Envs)
  BY <1>1, <1>3, <1>4
<1>6. Typed
  BY <1>1, <1>2, <1>4, <1>5 DEF Init, Typed, Statuses
<1>7. slots[1].held /\ slots[1].prev = 0
  BY <1>1 DEF Init, Frame
<1>8. Chained
  BY <1>4, <1>7 DEF Chained, Rising
<1>9. Leaves /\ Aligned /\ LostInChain
  BY <1>3, <1>4 DEF Leaves, Aligned, EnvOf, LostInChain
<1> QED BY <1>6, <1>8, <1>9 DEF Init, Inv

-----------------------------------------------------------------------------
\* The ranges of what a step works with.
LEMMA Basics ==
  ASSUME Inv
  PROVE  /\ OpStackSize \in Nat \ {0} /\ Block \in Nat \ {0} /\ MaxFrames \in Nat
         /\ prog \in Programs
         /\ Depth \in Nat /\ Depth >= 1 /\ Len(chain) = Depth
         /\ EnvNo \in Nat /\ Depth <= EnvNo /\ Len(envs) = EnvNo
         /\ \A i \in 1 .. Depth : chain[i] \in 1 .. MaxFrames /\ chain[i] <= Cur
         /\ Cur \in 1 .. MaxFrames /\ Cur <= next /\ Cur \in Nat /\ next \in Nat
         /\ next <= alloc /\ alloc \in Block .. MaxFrames
         /\ stale \in {0} \cup Block .. MaxFrames
         /\ lost \in Nat /\ lost <= Cur
         /\ envs[EnvNo] \in Envs /\ Used \in 1 .. MaxFrames /\ Top \in -1 .. OpStackSize - 1
<1>1. OpStackSize \in Nat \ {0} /\ Block \in Nat \ {0} /\ MaxFrames \in Nat
  BY CallFramesAssumption
<1>2. chain \in Seq(1 .. MaxFrames) /\ Depth >= 1 /\ envs \in Seq(Envs) /\ Depth <= EnvNo
      /\ Rising /\ chain[Depth] <= next
  BY DEF Inv, Typed, Chained, Leaves
<1>3. Depth \in Nat /\ Len(chain) = Depth /\ EnvNo \in Nat /\ Len(envs) = EnvNo
  BY <1>2, LenProperties DEF Depth, EnvNo
<1>4. \A i \in 1 .. Depth : chain[i] \in 1 .. MaxFrames
  BY <1>2, <1>3, ElementOfSeq
<1>5. \A i \in 1 .. Depth : i < Depth => chain[i] < chain[Depth]
  BY <1>2, <1>3 DEF Rising
<1>6. \A i \in 1 .. Depth : chain[i] <= chain[Depth]
  <2>1. ASSUME NEW i \in 1 .. Depth PROVE chain[i] <= chain[Depth]
    <3>1. i = Depth \/ i < Depth
      BY <1>3
    <3>2. chain[i] \in Nat /\ chain[Depth] \in Nat
      BY <1>2, <1>3, <1>4
    <3> QED BY <1>2, <1>3, <1>5, <3>1, <3>2
  <2> QED BY <2>1
<1>7. Cur \in 1 .. MaxFrames /\ Cur <= next
  BY <1>2, <1>3, <1>4 DEF Cur
<1>8. lost \in Nat /\ lost <= Cur
  BY <1>2, <1>3, <1>4, <1>6 DEF Cur, Inv, LostInChain
<1>9. envs[EnvNo] \in Envs
  BY <1>2, <1>3, ElementOfSeq
<1>10. Used \in 1 .. MaxFrames /\ Top \in -1 .. OpStackSize - 1
  BY <1>9 DEF Envs, Used, Top
<1> QED BY <1>1, <1>2, <1>3, <1>4, <1>6, <1>7, <1>8, <1>9, <1>10 DEF Inv, Typed, Cur

\* While no exception has come down to it, an instruction works on the frame
\* the loop looks at; after that it never does.
LEMMA UsedIsCur ==
  ASSUME Inv
  PROVE  IF Cur > lost THEN Used = Cur ELSE Used > Cur
<1>1. EnvOf(Depth) = envs[EnvNo]
  BY Basics DEF EnvOf
<1>2. Depth \in 1 .. Depth
  BY Basics
<1> QED BY <1>1, <1>2 DEF Inv, Aligned, Used, Cur

\* A thread that ends leaves everything else as it is.
LEMMA EndsKeeps ==
  ASSUME Inv, NEW how \in Statuses, how = "freed" => MayDangle, Ends(how)
  PROVE  Inv'
<1>1. slots' = slots /\ chain' = chain /\ next' = next /\ envs' = envs /\ prog' = prog
      /\ alloc' = alloc /\ stale' = stale /\ lost' = lost /\ status' = how
  BY DEF Ends
<1>2. Typed'
  BY <1>1 DEF Inv, Typed, Depth
<1>3. Chained' /\ Leaves'
  BY <1>1 DEF Inv, Chained, Rising, Leaves, Depth, EnvNo
<1>4. Aligned' /\ LostInChain'
  BY <1>1 DEF Inv, Aligned, EnvOf, LostInChain, Depth, EnvNo
<1>5. (status = "freed" => MayDangle)'
  BY <1>1 DEF MayDangle
<1> QED BY <1>2, <1>3, <1>4, <1>5 DEF Inv

\* Slots and environments that differ from the present ones in nothing the
\* invariant is about.
LikeSlots(l) ==
  /\ l \in [1 .. MaxFrames -> GoodFrames(prog)]
  /\ \A s \in 1 .. MaxFrames : l[s].held = slots[s].held /\ l[s].prev = slots[s].prev
LikeEnvs(e) ==
  /\ e \in Seq(Envs) /\ Len(e) = EnvNo
  /\ \A k \in 1 .. EnvNo : e[k].slot = envs[k].slot

\* An environment counted from the top is one of those there are.
LEMMA EnvNumbers ==
  ASSUME Inv, NEW i \in 1 .. Depth
  PROVE  EnvNo - Depth + i \in 1 .. EnvNo
<1>1. Depth \in Nat /\ EnvNo \in Nat /\ Depth <= EnvNo
  BY Basics
<1> QED BY <1>1

\* A step that stays in the frame.
LEMMA StaysKeeps ==
  ASSUME Inv, LikeSlots(slots'), LikeEnvs(envs'), status' \in Statuses \ {"freed"},
         UNCHANGED << prog, chain, next, alloc, stale, lost >>
  PROVE  Inv'
<1>1. Depth' = Depth /\ EnvNo' = EnvNo
  BY DEF Depth, EnvNo, LikeEnvs
<1>2. Typed'
  BY <1>1 DEF Inv, Typed, LikeSlots, LikeEnvs
<1>3. Chained' /\ Leaves' /\ LostInChain'
  <2>1. \A i \in 1 .. Depth : chain[i] \in 1 .. MaxFrames
    BY Basics
  <2>2. \A i \in 1 .. Depth : slots'[chain[i]].held = slots[chain[i]].held
                              /\ slots'[chain[i]].prev = slots[chain[i]].prev
    BY <2>1 DEF LikeSlots
  <2>3. Chained'
    BY <1>1, <2>2 DEF Inv, Chained, Rising
  <2> QED BY <1>1, <2>3 DEF Inv, Leaves, LostInChain
<1>4. Aligned'
  <2>1. \A i \in 1 .. Depth : EnvOf(i)'.slot = EnvOf(i).slot
    BY <1>1, EnvNumbers DEF EnvOf, LikeEnvs
  <2> QED BY <1>1, <2>1 DEF Inv, Aligned
<1> QED BY <1>2, <1>3, <1>4 DEF Inv

\* A call: the new frame is behind every one in use, and within the block.
LEMMA SetUpKeeps ==
  ASSUME Inv, AtOp("call"), ~ NoRoom, Callee \in DOMAIN prog,
         NEW left, LikeSlots(left), NEW leftEnvs, LikeEnvs(leftEnvs), SetUp(left, leftEnvs)
  PROVE  Inv'
<1>0. /\ OpStackSize \in Nat \ {0} /\ Block \in Nat \ {0} /\ MaxFrames \in Nat
      /\ Depth \in Nat /\ Depth >= 1 /\ EnvNo \in Nat /\ Depth <= EnvNo
      /\ next \in Nat /\ Cur \in 1 .. MaxFrames /\ Cur <= next
      /\ alloc \in Block .. MaxFrames /\ next <= alloc
      /\ lost \in Nat /\ lost <= Cur /\ prog \in Programs
  BY Basics
<1>1. PICK new : new = next + 1
  OBVIOUS
<1>2. /\ slots' = [left EXCEPT ![new] = Frame(Callee, Cur)]
      /\ chain' = Append(chain, new) /\ next' = new /\ envs' = Append(leftEnvs, Env(new))
      /\ alloc' = IF Grows THEN alloc + Block ELSE alloc
      /\ stale' = IF Grows THEN next ELSE stale
      /\ prog' = prog /\ status' = status /\ lost' = lost
  BY <1>1 DEF SetUp
<1>3. alloc' \in Block .. MaxFrames /\ new <= alloc' /\ new \in 1 .. MaxFrames /\ Cur < new
  <2>1. CASE Grows
    BY <1>0, <1>1, <1>2, <2>1 DEF NoRoom, Grows
  <2>2. CASE ~ Grows
    BY <1>0, <1>1, <1>2, <2>2 DEF Grows
  <2> QED BY <2>1, <2>2
<1>4. stale' \in {0} \cup Block .. MaxFrames
  BY <1>0, <1>2 DEF Grows, Inv, Typed
<1>5. slots' \in [1 .. MaxFrames -> GoodFrames(prog)]
  <2>1. Frame(Callee, Cur) \in GoodFrames(prog)
    BY <1>0, NewFrame
  <2> QED BY <1>2, <2>1 DEF LikeSlots
<1>6. /\ chain' \in Seq(1 .. MaxFrames) /\ Len(chain') = Depth + 1 /\ chain'[Depth + 1] = new
      /\ \A i \in 1 .. Depth : chain'[i] = chain[i]
  <2>1. chain \in Seq(1 .. MaxFrames) /\ Len(chain) = Depth
    BY DEF Inv, Typed, Depth
  <2> QED BY <1>0, <1>2, <1>3, <2>1
<1>7. Env(new) \in Envs /\ Env(new).slot = new
  BY <1>0, <1>3 DEF Env, Envs
<1>8. /\ envs' \in Seq(Envs) /\ Len(envs') = EnvNo + 1 /\ envs'[EnvNo + 1] = Env(new)
      /\ \A k \in 1 .. EnvNo : envs'[k] = leftEnvs[k]
  <2>1. leftEnvs \in Seq(Envs) /\ Len(leftEnvs) = EnvNo
    BY DEF LikeEnvs
  <2> QED BY <1>0, <1>2, <1>7, <2>1
<1>9. Depth' = Depth + 1 /\ EnvNo' = EnvNo + 1
  BY <1>6, <1>8 DEF Depth, EnvNo
<1>10. Typed'
  BY <1>0, <1>1, <1>2, <1>3, <1>4, <1>5, <1>6, <1>8, <1>9 DEF Typed, Inv
<1>11. \A i \in 1 .. Depth + 1 : i \in 1 .. Depth \/ i = Depth + 1
  BY <1>0
<1>12. \A i \in 1 .. Depth : chain[i] \in 1 .. MaxFrames /\ chain[i] <= Cur /\ chain[i] < new
                             /\ chain[i] \in Nat
  <2>1. \A i \in 1 .. Depth : chain[i] \in 1 .. MaxFrames /\ chain[i] <= Cur
    BY Basics
  <2> QED BY <1>0, <1>3, <2>1
<1>13. Rising'
  <2>1. ASSUME NEW i \in 1 .. Depth + 1, NEW j \in 1 .. Depth + 1, i < j
        PROVE  chain'[i] < chain'[j]
    <3>1. i \in 1 .. Depth
      BY <1>0, <2>1
    <3>2. CASE j = Depth + 1
      BY <1>6, <1>12, <3>1, <3>2
    <3>3. CASE j \in 1 .. Depth
      BY <1>6, <2>1, <3>1, <3>3 DEF Inv, Chained, Rising
    <3> QED BY <1>11, <3>2, <3>3
  <2> QED BY <1>9, <2>1 DEF Rising
<1>14. \A i \in 1 .. Depth + 1 :
         /\ slots'[chain'[i]].held
         /\ slots'[chain'[i]].prev = IF i = 1 THEN 0 ELSE chain'[i - 1]
  <2>1. ASSUME NEW i \in 1 .. Depth
        PROVE  /\ slots'[chain'[i]].held
               /\ slots'[chain'[i]].prev = IF i = 1 THEN 0 ELSE chain'[i - 1]
    <3>1. slots'[chain[i]] = left[chain[i]]
      BY <1>2, <1>12 DEF LikeSlots
    <3>2. slots[chain[i]].held /\ slots[chain[i]].prev = IF i = 1 THEN 0 ELSE chain[i - 1]
      BY DEF Inv, Chained
    <3>3. left[chain[i]].held = slots[chain[i]].held /\ left[chain[i]].prev = slots[chain[i]].prev
      BY <1>12 DEF LikeSlots
    <3>4. i # 1 => chain'[i - 1] = chain[i - 1]
      <4>1. i # 1 => i - 1 \in 1 .. Depth
        BY <1>0
      <4> QED BY <1>6, <4>1
    <3> QED BY <1>6, <3>1, <3>2, <3>3, <3>4
  <2>2. slots'[chain'[Depth + 1]].held /\ slots'[chain'[Depth + 1]].prev = chain'[Depth]
    <3>1. slots'[new] = Frame(Callee, Cur)
      BY <1>2, <1>3 DEF LikeSlots
    <3>2. chain'[Depth] = Cur
      BY <1>0, <1>6 DEF Cur
    <3> QED BY <1>6, <3>1, <3>2 DEF Frame
  <2>3. Depth + 1 # 1 /\ (Depth + 1) - 1 = Depth
    BY <1>0
  <2> QED BY <1>11, <2>1, <2>2, <2>3
<1>15. Chained'
  <2>1. new <= next'
    BY <1>0, <1>1, <1>2
  <2> QED BY <1>6, <1>9, <1>13, <1>14, <2>1 DEF Chained
<1>16. Leaves'
  BY <1>0, <1>1, <1>2, <1>9 DEF Inv, Leaves
<1>17. Aligned'
  <2>1. ASSUME NEW i \in 1 .. Depth + 1
        PROVE  IF chain'[i] > lost' THEN envs'[EnvNo' - Depth' + i].slot = chain'[i]
               ELSE envs'[EnvNo' - Depth' + i].slot > chain'[i]
    <3>1. PICK k : k = EnvNo - Depth + i
      OBVIOUS
    <3>2. EnvNo' - Depth' + i = k
      BY <1>0, <1>9, <3>1
    <3>3. CASE i \in 1 .. Depth
      <4>1. k \in 1 .. EnvNo
        BY <3>1, <3>3, EnvNumbers
      <4>2. envs'[k].slot = envs[k].slot
        BY <1>8, <4>1 DEF LikeEnvs
      <4>3. IF chain[i] > lost THEN envs[k].slot = chain[i] ELSE envs[k].slot > chain[i]
        BY <3>1, <3>3 DEF Inv, Aligned, EnvOf
      <4> QED BY <1>2, <1>6, <3>2, <3>3, <4>2, <4>3
    <3>4. CASE i = Depth + 1
      <4>1. k = EnvNo + 1
        BY <1>0, <3>1, <3>4
      <4>2. envs'[k].slot = new /\ chain'[i] = new
        BY <1>6, <1>7, <1>8, <3>4, <4>1
      <4>3. new > lost'
        BY <1>0, <1>2, <1>3
      <4> QED BY <3>2, <4>2, <4>3
    <3> QED BY <1>11, <3>3, <3>4
  <2> QED BY <1>9, <2>1 DEF Aligned, EnvOf
<1>18. LostInChain'
  <2>1. \A i \in 1 .. Depth : i \in 1 .. Depth' /\ chain'[i] = chain[i]
    BY <1>0, <1>6, <1>9
  <2> QED BY <1>2, <2>1 DEF Inv, LostInChain
<1>19. status' = "runs"
  BY <1>2 DEF AtOp
<1> QED BY <1>10, <1>15, <1>16, <1>17, <1>18, <1>19 DEF Inv

LEMMA BeginOf ==
  ASSUME NEW S, NEW s \in Seq(S), NEW l \in Nat, l <= Len(s)
  PROVE  /\ SubSeq(s, 1, l) \in Seq(S) /\ Len(SubSeq(s, 1, l)) = l
         /\ \A i \in 1 .. l : SubSeq(s, 1, l)[i] = s[i]
  OBVIOUS

\* The frames left when the last one or two of the chain are gone: their slots
\* are below the one given back.
LEMMA ChainBack ==
  ASSUME Inv, NEW d \in 1 .. 2, Depth > d, NEW left, LikeSlots(left),
         slots' = [left EXCEPT ![Cur].held = FALSE],
         chain' = SubSeq(chain, 1, Depth - d), next' = next - 1, prog' = prog
  PROVE  /\ Depth' = Depth - d /\ chain' \in Seq(1 .. MaxFrames)
         /\ \A i \in 1 .. Depth - d : i \in 1 .. Depth /\ chain'[i] = chain[i]
         /\ slots' \in [1 .. MaxFrames -> GoodFrames(prog)]
         /\ next' \in Nat
         /\ Chained'
<1>0. /\ Depth \in Nat /\ Cur \in 1 .. MaxFrames /\ Cur <= next /\ next \in Nat /\ MaxFrames \in Nat
  BY Basics
<1>1. chain \in Seq(1 .. MaxFrames) /\ Len(chain) = Depth
  BY DEF Inv, Typed, Depth
<1>2. /\ chain' \in Seq(1 .. MaxFrames) /\ Len(chain') = Depth - d
      /\ \A i \in 1 .. Depth - d : chain'[i] = chain[i]
  <2>1. PICK l \in Nat : l = Depth - d /\ l <= Depth
    BY <1>0
  <2>2. chain' = SubSeq(chain, 1, l) /\ l <= Len(chain)
    BY <1>1, <2>1
  <2>3. /\ chain' \in Seq(1 .. MaxFrames) /\ Len(chain') = l
        /\ \A i \in 1 .. l : chain'[i] = chain[i]
    <3>1. /\ SubSeq(chain, 1, l) \in Seq(1 .. MaxFrames) /\ Len(SubSeq(chain, 1, l)) = l
          /\ \A i \in 1 .. l : SubSeq(chain, 1, l)[i] = chain[i]
      BY <1>1, <2>2, BeginOf, Zenon
    <3> QED BY <2>2, <3>1
  <2> QED BY <2>1, <2>3
<1>3. Depth' = Depth - d
  BY <1>2 DEF Depth
<1>4. \A i \in 1 .. Depth - d : i \in 1 .. Depth /\ i < Depth
  BY <1>0
<1>5. \A i \in 1 .. Depth - d : chain[i] < Cur /\ chain[i] \in 1 .. MaxFrames
  <2>1. Depth \in 1 .. Depth
    BY <1>0
  <2>2. \A i \in 1 .. Depth - d : chain[i] < chain[Depth]
    BY <1>4, <2>1 DEF Inv, Chained, Rising
  <2> QED BY <1>4, <2>2, Basics DEF Cur
<1>6. slots' \in [1 .. MaxFrames -> GoodFrames(prog)]
  <2>1. left[Cur] \in GoodFrames(prog)
    BY <1>0 DEF LikeSlots
  <2>2. PICK g : g = [left[Cur] EXCEPT !.held = FALSE]
    OBVIOUS
  <2>3. g \in GoodFrames(prog)
    BY <2>1, <2>2 DEF GoodFrames, FrameRecords
  <2>4. slots' = [left EXCEPT ![Cur] = g]
    BY <2>2
  <2> QED BY <2>3, <2>4 DEF LikeSlots
<1>7. next' \in Nat
  BY <1>0
<1>8. Rising'
  BY <1>2, <1>3, <1>4 DEF Inv, Chained, Rising
<1>9. chain'[Depth - d] <= next'
  <2>1. Depth - d \in 1 .. Depth - d
    BY <1>0
  <2>2. chain[Depth - d] < Cur /\ chain[Depth - d] \in Nat
    BY <1>5, <2>1
  <2> QED BY <1>0, <1>2, <2>1, <2>2
<1>10. ASSUME NEW i \in 1 .. Depth - d
       PROVE  /\ slots'[chain'[i]].held
              /\ slots'[chain'[i]].prev = IF i = 1 THEN 0 ELSE chain'[i - 1]
  <2>1. chain[i] # Cur /\ chain[i] \in 1 .. MaxFrames
    BY <1>0, <1>5
  <2>2. slots'[chain[i]] = left[chain[i]]
    BY <2>1 DEF LikeSlots
  <2>3. left[chain[i]].held = slots[chain[i]].held /\ left[chain[i]].prev = slots[chain[i]].prev
    BY <2>1 DEF LikeSlots
  <2>4. slots[chain[i]].held /\ slots[chain[i]].prev = IF i = 1 THEN 0 ELSE chain[i - 1]
    BY <1>4 DEF Inv, Chained
  <2>5. i # 1 => chain'[i - 1] = chain[i - 1]
    <3>1. i # 1 => i - 1 \in 1 .. Depth - d
      BY <1>0
    <3> QED BY <1>2, <3>1
  <2> QED BY <1>2, <2>2, <2>3, <2>4, <2>5
<1>11. Chained'
  BY <1>3, <1>8, <1>9, <1>10 DEF Chained
<1> QED BY <1>2, <1>3, <1>4, <1>6, <1>7, <1>11

\* The caller of a method that returns: its environment is the one below the
\* current one.
LEMMA GoesBackKeeps ==
  ASSUME Inv, status = "runs", NEW left, LikeSlots(left), NEW leftEnvs, LikeEnvs(leftEnvs),
         GoesBack(left, leftEnvs)
  PROVE  Inv'
<1>0. /\ Block \in Nat \ {0} /\ MaxFrames \in Nat /\ Depth \in Nat /\ Depth >= 1
      /\ EnvNo \in Nat /\ Depth <= EnvNo /\ next \in Nat /\ next <= alloc
      /\ alloc \in Block .. MaxFrames /\ stale \in {0} \cup Block .. MaxFrames
      /\ lost \in Nat /\ lost <= Cur /\ Cur \in Nat
      /\ \A i \in 1 .. Depth : chain[i] \in 1 .. MaxFrames
  BY Basics
<1>1. CASE Depth = 1
  BY <1>1, EndsKeeps DEF GoesBack, Statuses, Endings
<1>2. CASE Depth > 1 /\ chain[Depth - 1] <= stale
  <2>1. Depth - 1 \in 1 .. Depth
    BY <1>0, <1>2
  <2>2. stale >= Block
    BY <1>0, <1>2, <2>1
  <2>3. Ends("freed")
    BY <1>2 DEF GoesBack
  <2> QED BY <2>2, <2>3, EndsKeeps DEF MayDangle, Statuses, Endings
<1>3. CASE Depth > 1 /\ ~ (chain[Depth - 1] <= stale)
  <2>1. /\ slots' = [left EXCEPT ![Cur].held = FALSE] /\ chain' = SubSeq(chain, 1, Depth - 1)
        /\ next' = next - 1 /\ envs' = Front(leftEnvs)
        /\ lost' = IF lost = Cur THEN chain[Depth - 1] ELSE lost
        /\ prog' = prog /\ alloc' = alloc /\ stale' = stale /\ status' = status
    <3>1. Depth # 1
      BY <1>3
    <3>2. chain' = Front(chain) /\ Front(chain) = SubSeq(chain, 1, Depth - 1)
      BY <1>3, <3>1 DEF GoesBack, Front, Depth
    <3> QED BY <1>3, <3>1, <3>2 DEF GoesBack
  <2>2. /\ Depth' = Depth - 1 /\ chain' \in Seq(1 .. MaxFrames)
        /\ \A i \in 1 .. Depth - 1 : i \in 1 .. Depth /\ chain'[i] = chain[i]
        /\ slots' \in [1 .. MaxFrames -> GoodFrames(prog)]
        /\ next' \in Nat /\ Chained'
    <3>1. 1 \in 1 .. 2
      OBVIOUS
    <3> QED BY <1>3, <2>1, <3>1, ChainBack
  <2>3. /\ envs' \in Seq(Envs) /\ EnvNo' = EnvNo - 1
        /\ \A k \in 1 .. EnvNo - 1 : envs'[k].slot = envs[k].slot
    <3>1. leftEnvs \in Seq(Envs) /\ Len(leftEnvs) = EnvNo
      BY DEF LikeEnvs
    <3>2. /\ envs' \in Seq(Envs) /\ Len(envs') = EnvNo - 1
          /\ \A k \in 1 .. EnvNo - 1 : envs'[k] = leftEnvs[k]
      <4>1. PICK l \in Nat : l = EnvNo - 1 /\ l <= EnvNo
        BY <1>0, <1>3
      <4>2. envs' = SubSeq(leftEnvs, 1, l) /\ l <= Len(leftEnvs)
        BY <2>1, <3>1, <4>1 DEF Front
      <4>3. /\ SubSeq(leftEnvs, 1, l) \in Seq(Envs) /\ Len(SubSeq(leftEnvs, 1, l)) = l
            /\ \A k \in 1 .. l : SubSeq(leftEnvs, 1, l)[k] = leftEnvs[k]
        BY <3>1, <4>2, BeginOf, Zenon
      <4> QED BY <4>1, <4>2, <4>3
    <3>3. \A k \in 1 .. EnvNo - 1 : k \in 1 .. EnvNo
      BY <1>0
    <3> QED BY <3>2, <3>3 DEF LikeEnvs, EnvNo
  <2>4. Typed'
    <3>1. prog' = prog /\ alloc' = alloc /\ stale' = stale /\ status' = status /\ next' = next - 1
      BY <2>1
    <3>2. Depth' >= 1 /\ next' <= alloc'
      BY <1>0, <1>3, <2>2, <3>1
    <3> QED BY <2>2, <2>3, <3>1, <3>2 DEF Typed, Inv
  <2>5. Leaves'
    <3>1. next' = next - 1 /\ Depth' = Depth - 1 /\ EnvNo' = EnvNo - 1
      BY <2>1, <2>2, <2>3
    <3>2. EnvNo + Depth = 2 * next
      BY DEF Inv, Leaves
    <3>3. Depth' <= EnvNo' /\ EnvNo' + Depth' = 2 * next'
      BY <1>0, <3>1, <3>2
    <3> QED BY <3>3 DEF Leaves
  <2>6. \A i \in 1 .. Depth - 1 : chain[i] <= chain[Depth - 1] /\ chain[i] < Cur /\ chain[i] \in Nat
    <3>1. ASSUME NEW i \in 1 .. Depth - 1 PROVE chain[i] <= chain[Depth - 1]
      <4>1. i = Depth - 1 \/ i < Depth - 1
        BY <1>0
      <4>2. i \in 1 .. Depth /\ Depth - 1 \in 1 .. Depth
        BY <1>0, <1>3
      <4>3. i < Depth - 1 => chain[i] < chain[Depth - 1]
        BY <4>2 DEF Inv, Chained, Rising
      <4>4. chain[i] \in Nat /\ chain[Depth - 1] \in Nat
        BY <1>0, <4>2
      <4> QED BY <4>1, <4>3, <4>4
    <3>2. ASSUME NEW i \in 1 .. Depth - 1 PROVE chain[i] < Cur
      <4>1. i \in 1 .. Depth /\ Depth \in 1 .. Depth /\ i < Depth
        BY <1>0
      <4> QED BY <4>1 DEF Inv, Chained, Rising, Cur
    <3> QED BY <1>0, <2>2, <3>1, <3>2
  <2>7. LostInChain'
    <3>1. Depth - 1 \in 1 .. Depth - 1
      BY <1>0, <1>3
    <3>2. CASE lost = Cur
      BY <2>1, <2>2, <3>1, <3>2 DEF LostInChain
    <3>3. CASE lost = 0
      BY <1>0, <2>1, <2>2, <3>1, <3>3 DEF LostInChain
    <3>4. CASE lost # Cur /\ lost # 0
      <4>1. PICK i \in 1 .. Depth : lost = chain[i]
        BY <3>4 DEF Inv, LostInChain
      <4>2. i # Depth
        BY <3>4, <4>1 DEF Cur
      <4>3. i \in 1 .. Depth - 1
        BY <1>0, <4>2
      <4> QED BY <2>1, <2>2, <3>4, <4>1, <4>3 DEF LostInChain
    <3> QED BY <3>2, <3>3, <3>4
  <2>8. Aligned'
    <3>1. ASSUME NEW i \in 1 .. Depth - 1
          PROVE  IF chain'[i] > lost' THEN envs'[EnvNo' - Depth' + i].slot = chain'[i]
                 ELSE envs'[EnvNo' - Depth' + i].slot > chain'[i]
      <4>1. PICK k : k = EnvNo - Depth + i
        OBVIOUS
      <4>2. EnvNo' - Depth' + i = k /\ k \in 1 .. EnvNo - 1
        BY <1>0, <2>2, <2>3, <4>1
      <4>3. IF chain[i] > lost THEN envs[k].slot = chain[i] ELSE envs[k].slot > chain[i]
        BY <2>2, <4>1 DEF Inv, Aligned, EnvOf
      <4>4. chain'[i] > lost' <=> chain[i] > lost
        <5>1. chain'[i] = chain[i] /\ chain[i] <= chain[Depth - 1] /\ chain[i] < Cur
              /\ chain[i] \in Nat
          BY <2>2, <2>6
        <5>2. Depth - 1 \in 1 .. Depth
          BY <1>0, <1>3
        <5>3. chain[Depth - 1] \in Nat
          BY <1>0, <5>2
        <5>4. lost' = IF lost = Cur THEN chain[Depth - 1] ELSE lost
          BY <2>1
        <5>5. lost \in Nat /\ Cur \in Nat
          BY <1>0
        <5> QED BY <5>1, <5>3, <5>4, <5>5
      <4> QED BY <2>2, <2>3, <4>2, <4>3, <4>4
    <3> QED BY <2>2, <3>1 DEF Aligned, EnvOf
  <2> QED BY <2>1, <2>2, <2>4, <2>5, <2>7, <2>8 DEF Inv
<1> QED BY <1>0, <1>1, <1>2, <1>3

\* The search for a handler goes down two frames and leaves the environments.
LEMMA UnwindKeeps == ASSUME Inv, Unwind PROVE Inv'
<1>0. /\ Block \in Nat \ {0} /\ MaxFrames \in Nat /\ Depth \in Nat /\ Depth >= 1
      /\ EnvNo \in Nat /\ Depth <= EnvNo /\ next \in Nat /\ next <= alloc
      /\ alloc \in Block .. MaxFrames /\ stale \in {0} \cup Block .. MaxFrames
      /\ Cur \in 1 .. MaxFrames
      /\ \A i \in 1 .. Depth : chain[i] \in 1 .. MaxFrames /\ chain[i] <= Cur
  BY Basics
<1>1. CASE Depth < 2
  BY <1>1, EndsKeeps DEF Unwind, FramesDown, Statuses, Endings
<1>2. CASE ~ (Depth < 2) /\ Depth > 1 /\ chain[Depth - 1] <= stale
  <2>1. Depth - 1 \in 1 .. Depth
    BY <1>0, <1>2
  <2>2. stale >= Block
    BY <1>0, <1>2, <2>1
  <2>3. Ends("freed")
    BY <1>2 DEF Unwind, FramesDown
  <2> QED BY <2>2, <2>3, EndsKeeps DEF MayDangle, Statuses, Endings
<1>3. CASE Depth = 2 /\ ~ (chain[Depth - 1] <= stale)
  <2>1. Ends("exited")
    BY <1>3 DEF Unwind, FramesDown
  <2> QED BY <2>1, EndsKeeps DEF Statuses, Endings
<1>4. CASE Depth > 2 /\ ~ (chain[Depth - 1] <= stale) /\ chain[Depth - 2] <= stale
  <2>1. Depth - 2 \in 1 .. Depth
    BY <1>0, <1>4
  <2>2. stale >= Block
    BY <1>0, <1>4, <2>1
  <2>3. Ends("freed")
    BY <1>0, <1>4 DEF Unwind, FramesDown
  <2> QED BY <2>2, <2>3, EndsKeeps DEF MayDangle, Statuses, Endings
<1>5. CASE Depth > 2 /\ ~ (chain[Depth - 1] <= stale) /\ ~ (chain[Depth - 2] <= stale)
  <2>1. /\ slots' = [slots EXCEPT ![Cur].held = FALSE] /\ chain' = SubSeq(chain, 1, Depth - 2)
        /\ next' = next - 1 /\ status' = "searches" /\ lost' = chain[Depth - 2]
        /\ prog' = prog /\ envs' = envs /\ alloc' = alloc /\ stale' = stale
    BY <1>0, <1>5 DEF Unwind, FramesDown
  <2>2. LikeSlots(slots)
    BY DEF LikeSlots, Inv, Typed
  <2>3. /\ Depth' = Depth - 2 /\ chain' \in Seq(1 .. MaxFrames)
        /\ \A i \in 1 .. Depth - 2 : i \in 1 .. Depth /\ chain'[i] = chain[i]
        /\ slots' \in [1 .. MaxFrames -> GoodFrames(prog)]
        /\ next' \in Nat /\ Chained'
    <3>1. 2 \in 1 .. 2
      OBVIOUS
    <3> QED BY <1>5, <2>1, <2>2, <3>1, ChainBack
  <2>4. EnvNo' = EnvNo
    BY <2>1 DEF EnvNo
  <2>5. Typed'
    <3>1. Depth' >= 1 /\ next - 1 <= alloc
      BY <1>0, <1>5, <2>3
    <3>2. /\ prog' = prog /\ envs' = envs /\ alloc' = alloc /\ stale' = stale
          /\ next' = next - 1 /\ status' = "searches"
      BY <2>1
    <3>3. prog \in Programs /\ envs \in Seq(Envs) /\ alloc \in Block .. MaxFrames
          /\ stale \in {0} \cup Block .. MaxFrames /\ "searches" \in Statuses
      BY DEF Inv, Typed, Statuses
    <3> QED BY <2>3, <3>1, <3>2, <3>3 DEF Typed
  <2>6. Leaves'
    <3>1. next' = next - 1 /\ Depth' = Depth - 2 /\ EnvNo' = EnvNo
      BY <2>1, <2>3, <2>4
    <3>2. EnvNo + Depth = 2 * next
      BY DEF Inv, Leaves
    <3>3. Depth' <= EnvNo' /\ EnvNo' + Depth' = 2 * next'
      BY <1>0, <3>1, <3>2
    <3> QED BY <3>3 DEF Leaves
  <2>7. Depth - 2 \in 1 .. Depth - 2
    BY <1>0, <1>5
  <2>8. LostInChain'
    BY <2>1, <2>3, <2>7 DEF LostInChain
  <2>9. Aligned'
    <3>1. ASSUME NEW i \in 1 .. Depth - 2
          PROVE  ~ (chain'[i] > lost') /\ envs'[EnvNo' - Depth' + i].slot > chain'[i]
      <4>1. i \in 1 .. Depth /\ i + 2 \in 1 .. Depth /\ Depth - 2 \in 1 .. Depth /\ i < i + 2
        BY <1>0, <2>7
      <4>2. EnvNo' - Depth' + i = EnvNo - Depth + (i + 2)
        BY <1>0, <2>3, <2>4
      <4>3. EnvOf(i + 2).slot >= chain[i + 2]
        <5>1. IF chain[i + 2] > lost THEN EnvOf(i + 2).slot = chain[i + 2]
              ELSE EnvOf(i + 2).slot > chain[i + 2]
          BY <4>1 DEF Inv, Aligned
        <5>2. EnvOf(i + 2).slot \in Int /\ chain[i + 2] \in Int
          <6>1. EnvNo - Depth + (i + 2) \in 1 .. EnvNo
            BY <4>1, EnvNumbers
          <6>2. envs[EnvNo - Depth + (i + 2)] \in Envs
            BY <6>1, ElementOfSeq DEF Inv, Typed, EnvNo
          <6> QED BY <1>0, <4>1, <6>2 DEF EnvOf, Envs
        <5> QED BY <5>1, <5>2
      <4>4. chain[i] < chain[i + 2]
        BY <4>1 DEF Inv, Chained, Rising
      <4>5. chain[i] <= chain[Depth - 2]
        <5>1. i = Depth - 2 \/ i < Depth - 2
          BY <1>0
        <5>2. i < Depth - 2 => chain[i] < chain[Depth - 2]
          BY <4>1 DEF Inv, Chained, Rising
        <5> QED BY <1>0, <4>1, <5>1, <5>2
      <4>6. envs'[EnvNo' - Depth' + i].slot > chain[i]
        <5>1. EnvOf(i + 2).slot \in Int
          <6>1. EnvNo - Depth + (i + 2) \in 1 .. EnvNo
            BY <4>1, EnvNumbers
          <6>2. envs[EnvNo - Depth + (i + 2)] \in Envs
            BY <6>1, ElementOfSeq DEF Inv, Typed, EnvNo
          <6> QED BY <1>0, <6>2 DEF EnvOf, Envs
        <5>2. envs'[EnvNo' - Depth' + i] = EnvOf(i + 2)
          BY <2>1, <4>2 DEF EnvOf
        <5> QED BY <1>0, <4>1, <4>3, <4>4, <5>1, <5>2
      <4>7. chain'[i] = chain[i] /\ lost' = chain[Depth - 2]
        BY <2>1, <2>3
      <4>8. ~ (chain[i] > chain[Depth - 2])
        BY <1>0, <4>1, <4>5
      <4> QED BY <4>6, <4>7, <4>8
    <3> QED BY <2>3, <3>1 DEF Aligned, EnvOf
  <2> QED BY <2>1, <2>3, <2>5, <2>6, <2>8, <2>9 DEF Inv
<1> QED BY <1>0, <1>1, <1>2, <1>3, <1>4, <1>5

-----------------------------------------------------------------------------
(* What the instructions do to the slots and the environments.             *)

LEMMA NothingChanged == ASSUME Inv PROVE LikeSlots(slots) /\ LikeEnvs(envs)
  BY DEF LikeSlots, LikeEnvs, Inv, Typed, EnvNo

LEMMA OneSlot ==
  ASSUME Inv, NEW s \in 1 .. MaxFrames, NEW f \in GoodFrames(prog),
         f.held = slots[s].held, f.prev = slots[s].prev
  PROVE  LikeSlots([slots EXCEPT ![s] = f])
<1>1. slots \in [1 .. MaxFrames -> GoodFrames(prog)]
  BY DEF Inv, Typed
<1> QED BY <1>1 DEF LikeSlots

LEMMA OneEnv ==
  ASSUME Inv, NEW k \in 1 .. EnvNo, NEW t \in -1 .. OpStackSize - 1
  PROVE  LikeEnvs([envs EXCEPT ![k].top = t])
<1>1. envs \in Seq(Envs) /\ Len(envs) = EnvNo /\ EnvNo \in Nat
  BY Basics DEF Inv, Typed
<1>2. PICK e : e = [envs[k] EXCEPT !.top = t]
  OBVIOUS
<1>3. e \in Envs /\ e.slot = envs[k].slot
  <2>1. envs[k] \in Envs
    BY <1>1, ElementOfSeq
  <2> QED BY <1>2, <2>1 DEF Envs
<1>4. [envs EXCEPT ![k].top = t] = [envs EXCEPT ![k] = e]
  BY <1>2
<1>5. /\ [envs EXCEPT ![k] = e] \in Seq(Envs) /\ Len([envs EXCEPT ![k] = e]) = EnvNo
      /\ \A i \in 1 .. EnvNo : [envs EXCEPT ![k] = e][i] = IF i = k THEN e ELSE envs[i]
  BY <1>1, <1>3
<1> QED BY <1>3, <1>4, <1>5 DEF LikeEnvs

LEMMA UsedAtLike ==
  ASSUME Inv, NEW pc, [slots[Cur] EXCEPT !.pc = pc] \in GoodFrames(prog)
  PROVE  LikeSlots(UsedAt(pc))
<1>1. Cur \in 1 .. MaxFrames /\ slots[Cur] \in GoodFrames(prog)
  BY Basics DEF Inv, Typed
<1>2. PICK f \in GoodFrames(prog) : f = [slots[Cur] EXCEPT !.pc = pc]
  OBVIOUS
<1>3. f.held = slots[Cur].held /\ f.prev = slots[Cur].prev
  BY <1>1, <1>2 DEF GoodFrames, FrameRecords
<1>4. [slots EXCEPT ![Cur].pc = pc] = [slots EXCEPT ![Cur] = f]
  BY <1>2
<1>5. LikeSlots([slots EXCEPT ![Cur].pc = pc])
  BY <1>1, <1>3, <1>4, OneSlot
<1> QED BY <1>5, NothingChanged DEF UsedAt

LEMMA WithoutLike ==
  ASSUME Inv, NEW n \in Nat, n <= Top + 1
  PROVE  LikeEnvs(Without(n))
<1>1. EnvNo \in 1 .. EnvNo /\ Top \in -1 .. OpStackSize - 1 /\ OpStackSize \in Nat
  BY Basics
<1>2. Top - n \in -1 .. OpStackSize - 1
  BY <1>1
<1>3. LikeEnvs([envs EXCEPT ![EnvNo].top = Top - n])
  BY <1>1, <1>2, OneEnv
<1> QED BY <1>3 DEF Without, Top

\* What the handler of an instruction can rely on.
LEMMA AtAnInstruction ==
  ASSUME Inv, NEW op, AtOp(op)
  PROVE  /\ prog \in Programs /\ slots[Cur] \in GoodFrames(prog) /\ slots[Cur] \in FrameRecords(prog)
         /\ slots[Cur].method \in DOMAIN prog /\ slots[Cur].pc \in Nat
         /\ slots[Cur].pc < Len(Code(slots[Cur].method))
         /\ Executed = Code(slots[Cur].method)[slots[Cur].pc + 1]
         /\ Executed \in Bytes(prog) /\ Executed[1] = op
         /\ slots[Cur].pc + 1 \in DOMAIN Code(slots[Cur].method)
         /\ status = "runs"
<1>1. prog \in Programs /\ slots[Cur] \in GoodFrames(prog)
  BY Basics DEF Inv, Typed
<1>2. /\ slots[Cur] \in FrameRecords(prog) /\ slots[Cur].method \in DOMAIN prog
      /\ slots[Cur].pc \in Nat /\ slots[Cur].pc < Len(Code(slots[Cur].method))
  BY <1>1 DEF GoodFrames, FrameRecords, Code
<1>3. Code(slots[Cur].method) \in Seq(Bytes(prog)) /\ Len(Code(slots[Cur].method)) \in Nat
  BY <1>1, <1>2, CodeOf DEF Code
<1>4. slots[Cur].pc + 1 \in 1 .. Len(Code(slots[Cur].method))
  BY <1>2, <1>3
<1>5. Executed \in Bytes(prog)
  BY <1>3, <1>4, ElementOfSeq DEF Executed
<1>6. slots[Cur].pc + 1 \in DOMAIN Code(slots[Cur].method)
  BY <1>3, <1>4
<1> QED BY <1>1, <1>2, <1>5, <1>6 DEF Executed, AtOp

\* A freed operand stack is used only once an exception has come down.
LEMMA UsedFreed == ASSUME Inv, ~ slots[Used].held PROVE MayDangle
<1>1. Depth \in 1 .. Depth /\ lost \in Nat /\ Cur \in Nat
  BY Basics
<1>2. slots[Cur].held
  BY <1>1 DEF Inv, Chained, Cur
<1>3. ~ (Cur > lost)
  BY <1>2, UsedIsCur
<1>4. Cur \in 1 .. MaxFrames
  BY Basics
<1> QED BY <1>1, <1>3, <1>4 DEF MayDangle

\* An instruction that lacks the words it takes.
Lacking(n) == n # 0 /\ (~ slots[Used].held \/ n > Top + 1)

LEMMA LackingKeeps ==
  ASSUME Inv, NEW n, Lacking(n),
         IF ~ slots[Used].held THEN Ends("freed") ELSE Ends("outside")
  PROVE  Inv'
  BY UsedFreed, EndsKeeps DEF Statuses, Endings

LEMMA NotLacking ==
  ASSUME Inv, NEW n \in Nat, ~ Lacking(n)
  PROVE  n <= Top + 1
  BY Basics DEF Lacking

-----------------------------------------------------------------------------
(* Each instruction keeps the invariant.                                   *)

\* An instruction without a call goes on within the method.
LEMMA NextByte ==
  ASSUME Inv, NEW op \in {"nop", "push"}, AtOp(op)
  PROVE  LikeSlots(UsedAt(slots[Cur].pc + 1))
<1>1. PICK f : f = slots[Cur]
  OBVIOUS
<1>2. /\ prog \in Programs /\ f \in GoodFrames(prog) /\ f.method \in DOMAIN prog /\ f.pc \in Nat
      /\ prog[f.method].code[f.pc + 1][1] = op /\ f.pc + 1 \in DOMAIN prog[f.method].code
  BY <1>1, AtAnInstruction DEF Code
<1>3. f.pc + 1 < Len(prog[f.method].code)
  BY <1>2, ProgramsAssumption
<1>4. ~ OnObject(prog[f.method].code[f.pc + 1])
  BY <1>2 DEF OnObject
<1>5. \A k \in f.pc + 1 .. f.pc + 1 : ~ OnObject(prog[f.method].code[k])
  BY <1>2, <1>4
<1>6. [f EXCEPT !.pc = f.pc + 1] \in GoodFrames(prog)
  BY <1>2, <1>3, <1>5, FrameGoesOn
<1> QED BY <1>1, <1>6, UsedAtLike

LEMMA NopKeeps == ASSUME Inv, Nop PROVE Inv'
<1>1. LikeSlots(slots') /\ LikeEnvs(envs')
  BY NextByte, NothingChanged DEF Nop
<1> QED BY <1>1, StaysKeeps DEF Nop, AtOp, Statuses, Endings

LEMMA PushKeeps == ASSUME Inv, Push PROVE Inv'
<1>1. CASE ~ slots[Used].held
  BY <1>1, UsedFreed, EndsKeeps DEF Push, Statuses, Endings
<1>2. CASE slots[Used].held /\ ~ Fits(Top + 1)
  BY <1>2, EndsKeeps DEF Push, Statuses, Endings
<1>3. CASE slots[Used].held /\ Fits(Top + 1)
  <2>1. Top + 1 \in -1 .. OpStackSize - 1 /\ EnvNo \in 1 .. EnvNo
    <3>1. OpStackSize \in Nat /\ EnvNo \in Nat /\ EnvNo >= 1 /\ Top \in -1 .. OpStackSize - 1
      BY Basics
    <3>2. Top + 1 < OpStackSize
      BY <1>3 DEF Fits
    <3> QED BY <3>1, <3>2
  <2>2. envs' = [envs EXCEPT ![EnvNo].top = Top + 1]
    BY <1>3 DEF Push, Top
  <2>3. LikeSlots(slots') /\ LikeEnvs(envs')
    BY <1>3, <2>1, <2>2, NextByte, OneEnv DEF Push
  <2> QED BY <1>3, <2>3, StaysKeeps DEF Push, AtOp, Statuses, Endings
<1> QED BY <1>1, <1>2, <1>3

LEMMA SpinKeeps == ASSUME Inv, UNCHANGED vars PROVE Inv'
<1>1. LikeSlots(slots') /\ LikeEnvs(envs')
  BY NothingChanged DEF vars
<1>2. CASE status # "freed"
  BY <1>1, <1>2, StaysKeeps DEF vars, Inv, Typed
<1>3. CASE status = "freed"
  BY <1>3, EndsKeeps DEF vars, Ends, Inv, Statuses, Endings
<1> QED BY <1>2, <1>3

LEMMA FaultKeeps == ASSUME Inv, Fault PROVE Inv'
  BY EndsKeeps DEF Fault, Throws, Statuses

\* Calls of a static method leave the caller behind bytes that call nothing on
\* an object.
LEMMA BehindStatic ==
  ASSUME Inv, Calls({"static"})
  PROVE  LikeSlots(UsedAt(slots[Cur].pc + 3))
<1>1. PICK f : f = slots[Cur]
  OBVIOUS
<1>2. PICK k : k = f.pc + 1
  OBVIOUS
<1>3. PICK m : m = f.method
  OBVIOUS
<1>4. /\ prog \in Programs /\ f \in GoodFrames(prog) /\ m \in DOMAIN prog /\ f.pc \in Nat
      /\ prog[m].code[k][1] = "call" /\ prog[m].code[k][2] = "static"
      /\ k \in DOMAIN prog[m].code
  BY <1>1, <1>2, <1>3, AtAnInstruction DEF Code, Calls
<1>5. /\ k + 3 <= Len(prog[m].code) /\ Len(prog[m].code) \in Nat
      /\ prog[m].code[k + 1] = << "arg" >> /\ prog[m].code[k + 2] = << "arg" >>
  BY <1>4, ProgramsAssumption, CodeOf
<1>6. \A j \in f.pc + 1 .. f.pc + 3 : ~ OnObject(prog[m].code[j])
  <2>1. \A j \in f.pc + 1 .. f.pc + 3 : j = k \/ j = k + 1 \/ j = k + 2
    BY <1>2, <1>4
  <2>2. ~ OnObject(prog[m].code[k])
    BY <1>4 DEF OnObject
  <2>3. ~ OnObject(<< "arg" >>)
    BY DEF OnObject
  <2> QED BY <1>5, <2>1, <2>2, <2>3
<1>7. f.pc + 3 < Len(prog[m].code)
  BY <1>2, <1>4, <1>5
<1>8. [f EXCEPT !.pc = f.pc + 3] \in GoodFrames(prog)
  BY <1>3, <1>4, <1>6, <1>7, FrameGoesOn
<1> QED BY <1>1, <1>8, UsedAtLike

LEMMA CalleeKnown ==
  ASSUME Inv, NEW kinds, Calls(kinds)
  PROVE  AtOp("call") /\ Callee \in DOMAIN prog /\ Args \in Nat
<1>1. AtOp("call")
  BY DEF Calls
<1>2. Callee \in DOMAIN prog /\ prog \in Programs
  BY <1>1, AtAnInstruction, CalleeOf DEF Callee
<1> QED BY <1>1, <1>2, CodeOf DEF Args

LEMMA CallStaticKeeps == ASSUME Inv, CallStatic PROVE Inv'
<1>1. PICK taken : taken = IF Args = 0 THEN 0 ELSE Args - 1
  OBVIOUS
<1>2. Calls({"static"})
      /\ Taking(taken,
           IF NoRoom THEN Ends("crashed") ELSE SetUp(UsedAt(slots[Cur].pc + 3), Without(taken)))
  BY <1>1 DEF CallStatic
<1>3. AtOp("call") /\ Callee \in DOMAIN prog /\ Args \in Nat
  BY <1>2, CalleeKnown
<1>4. taken \in Nat
  BY <1>1, <1>3
<1>5. CASE Lacking(taken)
  BY <1>2, <1>5, LackingKeeps DEF Taking, Lacking
<1>6. CASE ~ Lacking(taken) /\ NoRoom
  BY <1>2, <1>6, EndsKeeps DEF Taking, Lacking, Statuses, Endings
<1>7. CASE ~ Lacking(taken) /\ ~ NoRoom
  <2>1. SetUp(UsedAt(slots[Cur].pc + 3), Without(taken))
    BY <1>2, <1>7 DEF Taking, Lacking
  <2>2. LikeSlots(UsedAt(slots[Cur].pc + 3)) /\ LikeEnvs(Without(taken))
    BY <1>2, <1>4, <1>7, BehindStatic, NotLacking, WithoutLike
  <2> QED BY <1>3, <1>7, <2>1, <2>2, SetUpKeeps
<1> QED BY <1>5, <1>6, <1>7

\* The caller is put back to its start, unless its frame has moved.
LEMMA CallOnObjectKeeps == ASSUME Inv, CallOnObject PROVE Inv'
<1>1. PICK read : read = IF Executed[2] = "virtual" THEN Args + 1 ELSE IF Args = 0 THEN 1 ELSE Args
  OBVIOUS
<1>2. Calls({"special", "virtual"})
      /\ Taking(read,
           IF NoRoom THEN Ends("crashed")
           ELSE IF Grows THEN Ends("freed")
           ELSE SetUp(UsedAt(ResumesAt), Without(TakenWithObject)))
  BY <1>1 DEF CallOnObject
<1>3. AtOp("call") /\ Callee \in DOMAIN prog /\ Args \in Nat
  BY <1>2, CalleeKnown
<1>4. read \in Nat /\ read # 0
  BY <1>1, <1>3
<1>5. CASE Lacking(read)
  BY <1>2, <1>5, LackingKeeps DEF Taking, Lacking
<1>6. CASE ~ Lacking(read) /\ NoRoom
  BY <1>2, <1>6, EndsKeeps DEF Taking, Lacking, Statuses, Endings
<1>7. CASE ~ Lacking(read) /\ ~ NoRoom /\ Grows
  <2>1. next >= Block
    BY <1>7, Basics DEF Grows
  <2> QED BY <1>2, <1>7, <2>1, EndsKeeps DEF Taking, Lacking, MayDangle, Statuses, Endings
<1>8. CASE ~ Lacking(read) /\ ~ NoRoom /\ ~ Grows
  <2>1. SetUp(UsedAt(0), Without(0))
    BY <1>2, <1>8 DEF Taking, Lacking, ResumesAt, TakenWithObject
  <2>2. PICK f : f = slots[Cur]
    OBVIOUS
  <2>3. [f EXCEPT !.pc = 0] \in GoodFrames(prog)
    <3>1. f \in FrameRecords(prog) /\ prog \in Programs
      BY <1>3, <2>2, AtAnInstruction
    <3>2. [f EXCEPT !.pc = 0] \in FrameRecords(prog) /\ [f EXCEPT !.pc = 0].pc = 0
      BY <3>1 DEF FrameRecords
    <3> QED BY <3>1, <3>2, FrameAtStart
  <2>4. LikeSlots(UsedAt(0))
    BY <2>2, <2>3, UsedAtLike
  <2>5. LikeEnvs(Without(0))
    <3>1. 0 \in Nat /\ 0 <= Top + 1
      BY Basics
    <3> QED BY <3>1, WithoutLike
  <2> QED BY <1>3, <1>8, <2>1, <2>4, <2>5, SetUpKeeps
<1> QED BY <1>5, <1>6, <1>7, <1>8

LEMMA CallInterfaceKeeps == ASSUME Inv, CallInterface PROVE Inv'
<1>1. PICK n : n = Executed[2]
  OBVIOUS
<1>2. Taking(n, Ends("crashed"))
  BY <1>1 DEF CallInterface
<1>3. CASE Lacking(n)
  BY <1>2, <1>3, LackingKeeps DEF Taking, Lacking
<1>4. CASE ~ Lacking(n)
  BY <1>2, <1>4, EndsKeeps DEF Taking, Lacking, Statuses, Endings
<1> QED BY <1>3, <1>4

LEMMA ReturnKeeps == ASSUME Inv, Return PROVE Inv'
<1>1. CASE Returned # "void"
  BY <1>1, EndsKeeps DEF Return, Throws, Statuses
<1>2. CASE Returned = "void"
  BY <1>2, NothingChanged, GoesBackKeeps DEF Return, AtOp
<1> QED BY <1>1, <1>2

\* The frame behind the one used is below the block's old end, or an exception
\* has come down, if it is freed.
LEMMA WrittenFreed ==
  ASSUME Inv, NEW p, p = slots[Used].prev, p # 0, p <= stale \/ ~ slots[p].held
  PROVE  MayDangle
<1>1. /\ Depth \in Nat /\ Depth >= 1 /\ lost \in Nat /\ Cur \in 1 .. MaxFrames /\ MaxFrames \in Nat
      /\ Used \in 1 .. MaxFrames /\ stale \in {0} \cup Block .. MaxFrames /\ Block \in Nat
  BY Basics
<1>2. p \in 0 .. MaxFrames
  <2>1. slots[Used] \in FrameRecords(prog)
    BY <1>1 DEF Inv, Typed, GoodFrames
  <2> QED BY <2>1 DEF FrameRecords
<1>3. CASE p <= stale
  BY <1>1, <1>2, <1>3 DEF MayDangle
<1>4. CASE ~ slots[p].held /\ Cur > lost
  <2>1. p = IF Depth = 1 THEN 0 ELSE chain[Depth - 1]
    <3>1. Used = chain[Depth]
      BY <1>4, UsedIsCur DEF Cur
    <3>2. Depth \in 1 .. Depth
      BY <1>1
    <3> QED BY <3>1, <3>2 DEF Inv, Chained
  <2>2. Depth - 1 \in 1 .. Depth
    BY <1>1, <2>1
  <2> QED BY <1>4, <2>1, <2>2 DEF Inv, Chained
<1>5. CASE ~ (Cur > lost)
  BY <1>1, <1>5 DEF MayDangle
<1> QED BY <1>3, <1>4, <1>5

LEMMA AReturnKeeps == ASSUME Inv, AReturn PROVE Inv'
<1>1. status = "runs"
  BY DEF AReturn, AtOp
<1>2. CASE Returned = "void"
  BY <1>2, EndsKeeps DEF AReturn, Throws, Statuses
<1>3. CASE Returned = "double"
  BY <1>3, EndsKeeps DEF AReturn, Statuses, Endings
<1>4. CASE Returned # "void" /\ Returned # "double"
  <2>1. PICK p : p = slots[Used].prev
    OBVIOUS
  <2>2. CASE Lacking(1)
    BY <1>4, <2>2, LackingKeeps DEF AReturn, Taking, Lacking
  <2>3. CASE NoReference
    BY <2>3, EndsKeeps DEF NoReference, Throws, Statuses, Endings
  <2>4. CASE ~ Lacking(1) /\ ~ NoReference
    <3>1. Writing(envs[EnvNo - 1].top + 1, GoesBack(slots, [envs EXCEPT ![EnvNo - 1].top = @ + 1]))
      BY <1>4, <2>4 DEF AReturn, Taking, Lacking
    <3>2. CASE p = 0
      BY <2>1, <3>1, <3>2, EndsKeeps DEF Writing, Statuses, Endings
    <3>3. CASE p # 0 /\ (p <= stale \/ ~ slots[p].held)
      BY <2>1, <3>1, <3>3, WrittenFreed, EndsKeeps DEF Writing, Statuses, Endings
    <3>4. CASE p # 0 /\ ~ (p <= stale \/ ~ slots[p].held) /\ ~ Fits(envs[EnvNo - 1].top + 1)
      BY <2>1, <3>1, <3>4, EndsKeeps DEF Writing, Statuses, Endings
    <3>5. CASE p # 0 /\ ~ (p <= stale \/ ~ slots[p].held) /\ Fits(envs[EnvNo - 1].top + 1)
      <4>1. PICK t : t = envs[EnvNo - 1].top + 1
        OBVIOUS
      <4>2. GoesBack(slots, [envs EXCEPT ![EnvNo - 1].top = t])
        BY <2>1, <3>1, <3>5, <4>1 DEF Writing
      <4>3. CASE Depth = 1
        BY <4>2, <4>3, EndsKeeps DEF GoesBack, Statuses, Endings
      <4>4. CASE Depth # 1
        <5>1. EnvNo - 1 \in 1 .. EnvNo /\ OpStackSize \in Nat
          BY <4>4, Basics
        <5>2. envs[EnvNo - 1] \in Envs
          BY <5>1, ElementOfSeq DEF Inv, Typed, EnvNo
        <5>3. t \in -1 .. OpStackSize - 1
          BY <3>5, <4>1, <5>1, <5>2 DEF Envs, Fits
        <5>4. LikeEnvs([envs EXCEPT ![EnvNo - 1].top = t])
          BY <5>1, <5>3, OneEnv
        <5> QED BY <1>1, <4>2, <5>4, NothingChanged, GoesBackKeeps
      <4> QED BY <4>3, <4>4
    <3> QED BY <3>2, <3>3, <3>4, <3>5
  <2> QED BY <2>2, <2>3, <2>4
<1> QED BY <1>2, <1>3, <1>4

LEMMA DReturnKeeps == ASSUME Inv, DReturn PROVE Inv'
<1>1. status = "runs"
  BY DEF DReturn, AtOp
<1>2. CASE Returned # "double"
  BY <1>2, EndsKeeps DEF DReturn, Throws, Statuses
<1>3. CASE Returned = "double"
  <2>1. PICK p : p = slots[Used].prev
    OBVIOUS
  <2>2. CASE Lacking(2)
    BY <1>3, <2>2, LackingKeeps DEF DReturn, Taking, Lacking
  <2>3. CASE ~ Lacking(2)
    <3>1. Writing(slots[p].idx + 2, GoesBack([slots EXCEPT ![p].idx = @ + 2], envs))
      BY <1>3, <2>1, <2>3 DEF DReturn, Taking, Lacking
    <3>2. CASE p = 0
      BY <2>1, <3>1, <3>2, EndsKeeps DEF Writing, Statuses, Endings
    <3>3. CASE p # 0 /\ (p <= stale \/ ~ slots[p].held)
      BY <2>1, <3>1, <3>3, WrittenFreed, EndsKeeps DEF Writing, Statuses, Endings
    <3>4. CASE p # 0 /\ ~ (p <= stale \/ ~ slots[p].held) /\ ~ Fits(slots[p].idx + 2)
      BY <2>1, <3>1, <3>4, EndsKeeps DEF Writing, Statuses, Endings
    <3>5. CASE p # 0 /\ ~ (p <= stale \/ ~ slots[p].held) /\ Fits(slots[p].idx + 2)
      <4>1. PICK f : f = [slots[p] EXCEPT !.idx = slots[p].idx + 2]
        OBVIOUS
      <4>2. GoesBack([slots EXCEPT ![p] = f], envs)
        BY <2>1, <3>1, <3>5, <4>1 DEF Writing
      <4>3. Used \in 1 .. MaxFrames /\ MaxFrames \in Nat /\ OpStackSize \in Nat
        BY Basics
      <4>4. p \in 1 .. MaxFrames
        <5>1. slots[Used] \in FrameRecords(prog)
          BY <4>3 DEF Inv, Typed, GoodFrames
        <5>2. p \in 0 .. MaxFrames
          BY <2>1, <5>1 DEF FrameRecords
        <5> QED BY <3>5, <4>3, <5>2
      <4>5. slots[p] \in GoodFrames(prog)
        BY <4>4 DEF Inv, Typed
      <4>6. f \in GoodFrames(prog) /\ f.held = slots[p].held /\ f.prev = slots[p].prev
        <5>1. slots[p] \in FrameRecords(prog)
          BY <4>5 DEF GoodFrames
        <5>2. slots[p].idx + 2 \in 0 .. OpStackSize - 1
          BY <3>5, <4>3, <5>1 DEF FrameRecords, Fits
        <5>3. /\ f \in FrameRecords(prog) /\ f.method = slots[p].method /\ f.pc = slots[p].pc
              /\ f.held = slots[p].held /\ f.prev = slots[p].prev
          BY <4>1, <5>1, <5>2 DEF FrameRecords
        <5> QED BY <4>5, <5>3 DEF GoodFrames
      <4>7. LikeSlots([slots EXCEPT ![p] = f])
        BY <4>4, <4>6, OneSlot
      <4> QED BY <1>1, <4>2, <4>7, NothingChanged, GoesBackKeeps
    <3> QED BY <3>2, <3>3, <3>4, <3>5
  <2> QED BY <2>2, <2>3
<1> QED BY <1>2, <1>3

\* The handler is inside the code, and the environment stays where it is.
LEMMA CatchKeeps == ASSUME Inv, Catch PROVE Inv'
<1>0. Cur \in 1 .. MaxFrames /\ prog \in Programs /\ OpStackSize \in Nat \ {0}
      /\ EnvNo \in 1 .. EnvNo
  BY Basics
<1>1. PICK h \in Handlers : slots' = [slots EXCEPT ![Cur].pc = h.at, ![Cur].idx = 0]
  BY DEF Catch
<1>2. PICK m : m = slots[Cur].method
  OBVIOUS
<1>3. slots[Cur] \in FrameRecords(prog) /\ slots \in [1 .. MaxFrames -> GoodFrames(prog)]
  BY <1>0 DEF Inv, Typed, GoodFrames
<1>4. m \in DOMAIN prog
  BY <1>2, <1>3 DEF FrameRecords
<1>5. h \in prog[m].tries
  BY <1>1, <1>2 DEF Handlers
<1>6. h.at \in Nat /\ h.at < Len(prog[m].code)
  <2>1. h \in [from : Nat, to : Nat, at : Nat] /\ h.at < Len(prog[m].code)
    BY <1>0, <1>4, <1>5, CodeOf
  <2> QED BY <2>1
<1>7. PICK f : f = [slots[Cur] EXCEPT !.pc = h.at, !.idx = 0]
  OBVIOUS
<1>8. f \in FrameRecords(prog) /\ f.pc = h.at /\ f.method = m
      /\ f.held = slots[Cur].held /\ f.prev = slots[Cur].prev
  <2>1. PICK r : r = slots[Cur]
    OBVIOUS
  <2>2. r \in FrameRecords(prog) /\ f = [[r EXCEPT !.pc = h.at] EXCEPT !.idx = 0]
    BY <1>3, <1>7, <2>1
  <2>3. PICK q : q = [r EXCEPT !.pc = h.at]
    OBVIOUS
  <2>4. q \in FrameRecords(prog) /\ q.pc = h.at /\ q.method = r.method
        /\ q.held = r.held /\ q.prev = r.prev
    BY <1>6, <2>2, <2>3 DEF FrameRecords
  <2>5. f = [q EXCEPT !.idx = 0]
    BY <2>2, <2>3
  <2>6. f \in FrameRecords(prog) /\ f.pc = q.pc /\ f.method = q.method
        /\ f.held = q.held /\ f.prev = q.prev
    BY <1>0, <2>4, <2>5 DEF FrameRecords
  <2> QED BY <1>2, <2>1, <2>4, <2>6
<1>9. f \in GoodFrames(prog)
  BY <1>5, <1>6, <1>8 DEF GoodFrames
<1>10. slots' = [slots EXCEPT ![Cur] = f]
  BY <1>0, <1>1, <1>3, <1>7
<1>11. LikeSlots(slots')
  BY <1>0, <1>8, <1>9, <1>10, OneSlot
<1>12. LikeEnvs(envs')
  <2>1. envs' = [envs EXCEPT ![EnvNo].top = 0]
    BY DEF Catch, EnvsCatching, EnvNo
  <2>2. 0 \in -1 .. OpStackSize - 1
    BY <1>0
  <2> QED BY <1>0, <2>1, <2>2, OneEnv
<1> QED BY <1>11, <1>12, StaysKeeps DEF Catch, Statuses, Endings

LEMMA AssertFailsKeeps == ASSUME Inv, AssertFails PROVE Inv'
  BY EndsKeeps DEF AssertFails, Statuses, Endings

LEMMA StepKeeps == Inv /\ [Step]_vars => Inv'
<1> SUFFICES ASSUME Inv, [Step]_vars PROVE Inv'
  OBVIOUS
<1>1. CASE UNCHANGED vars
  BY <1>1, SpinKeeps
<1>2. CASE Nop \/ Push \/ Spin \/ Fault
  BY <1>2, NopKeeps, PushKeeps, SpinKeeps, FaultKeeps DEF Spin
<1>3. CASE CallOnObject \/ CallInterface \/ CallStatic
  BY <1>3, CallOnObjectKeeps, CallInterfaceKeeps, CallStaticKeeps
<1>4. CASE Return \/ AReturn \/ DReturn
  BY <1>4, ReturnKeeps, AReturnKeeps, DReturnKeeps
<1>5. CASE Catch \/ Unwind \/ AssertFails
  BY <1>5, CatchKeeps, UnwindKeeps, AssertFailsKeeps
<1> QED BY <1>1, <1>2, <1>3, <1>4, <1>5 DEF Step

-----------------------------------------------------------------------------
(* A thread's frames, environments and block are as described wherever its *)
(* methods, exceptions and moves of the block have led it: the chain rises *)
(* through slots that are not given back, and counted from the top each    *)
(* frame has its own environment, or one of a frame that is gone.          *)
THEOREM InvHolds == Spec => []Inv
  BY InitEstablishes, StepKeeps, PTL DEF Spec

LEMMA InvTypes == Inv => TypeOK
<1> SUFFICES ASSUME Inv PROVE TypeOK
  OBVIOUS
<1>1. /\ Depth \in Nat /\ Depth >= 1 /\ Cur \in 1 .. MaxFrames /\ Cur <= next /\ next \in Nat
      /\ next <= alloc /\ alloc \in Block .. MaxFrames /\ stale \in {0} \cup Block .. MaxFrames
      /\ lost \in Nat /\ lost <= Cur /\ MaxFrames \in Nat /\ Block \in Nat
      /\ \A i \in 1 .. Depth : chain[i] \in 1 .. MaxFrames /\ chain[i] <= Cur
  BY Basics
<1>2. \A s \in 1 .. MaxFrames :
        slots[s].method \in DOMAIN prog /\ slots[s].idx \in 0 .. OpStackSize - 1
  <2>1. \A s \in 1 .. MaxFrames : slots[s] \in FrameRecords(prog)
    BY DEF Inv, Typed, GoodFrames
  <2> QED BY <2>1 DEF FrameRecords
<1>3. \A i \in 1 .. Depth : chain[i] \in 1 .. next /\ slots[chain[i]].held
  <2>1. \A i \in 1 .. Depth : chain[i] \in 1 .. next
    BY <1>1
  <2> QED BY <2>1 DEF Inv, Chained
<1>4. \A i \in 1 .. EnvNo : envs[i].slot \in 1 .. MaxFrames /\ envs[i].top \in -1 .. OpStackSize - 1
  <2>1. \A i \in 1 .. EnvNo : envs[i] \in Envs
    BY ElementOfSeq DEF Inv, Typed, EnvNo
  <2> QED BY <2>1 DEF Envs
<1>5. next \in 1 .. alloc /\ stale \in 0 .. MaxFrames /\ lost \in 0 .. Cur
  BY <1>1
<1> QED BY <1>1, <1>2, <1>3, <1>4, <1>5 DEF Inv, Typed, TypeOK

(* A thread uses a freed frame only once it has filled a whole block or an *)
(* exception has come down to a frame, whatever the program; until then    *)
(* its frames, the heights of its operand stacks and its block stay in     *)
(* their ranges.                                                           *)
THEOREM FramesAreValid == Spec => []FramesStayValid
<1>1. Inv => FramesStayValid
  BY InvTypes DEF Inv, FramesStayValid, MayDangle
<1> QED BY <1>1, InvHolds, PTL

(* No program has bytes behind a call on an object executed, but for the   *)
(* methods with handlers.                                                  *)
THEOREM NothingBehindCallsOnObjects == Spec => []NeverPastACallOnObject
<1>1. ASSUME Inv, NEW s \in 1 .. MaxFrames, prog[slots[s].method].tries = {},
             NEW b \in Passed(slots[s]), b[1] = "call", b[2] \in {"special", "virtual"}
      PROVE  FALSE
  <2>1. slots[s] \in GoodFrames(prog)
    BY <1>1 DEF Inv, Typed
  <2>2. PICK k \in 1 .. slots[s].pc : b = prog[slots[s].method].code[k]
    BY <1>1 DEF Passed, Code
  <2>3. ~ OnObject(b)
    BY <1>1, <2>1, <2>2 DEF GoodFrames
  <2> QED BY <1>1, <2>3 DEF OnObject
<1>2. Inv => NeverPastACallOnObject
  BY <1>1 DEF NeverPastACallOnObject
<1> QED BY <1>2, InvHolds, PTL

(* Whatever the program, an exception that leaves 2n frames behind costs   *)
(* the thread n slots of the block and 2n environments for good: nothing   *)
(* that returns, is called or caught later gives them back.                *)
THEOREM ExceptionsLeak == Spec => []FramesLeak
<1>1. ASSUME Inv PROVE FramesLeak
  <2>1. Depth \in Nat /\ EnvNo \in Nat /\ next \in Nat
    BY <1>1, Basics
  <2>2. EnvNo + Depth = 2 * next
    BY <1>1 DEF Inv, Leaves
  <2> QED BY <2>1, <2>2 DEF FramesLeak
<1> QED BY <1>1, InvHolds, PTL

\* The pc of a frame an exception has come down to, and of those below it, is
\* left alone by every instruction: each works on a frame that is gone.
LEMMA UsedAtKeepsPc ==
  ASSUME Inv, NEW s \in 1 .. lost, NEW pc
  PROVE  UsedAt(pc)[s].pc = slots[s].pc
<1>1. lost \in Nat /\ Cur \in 1 .. MaxFrames /\ lost <= Cur /\ MaxFrames \in Nat
  BY Basics
<1>2. s \in 1 .. MaxFrames
  BY <1>1
<1>3. CASE Used = Cur
  <2>1. Cur > lost
    BY <1>1, <1>3, UsedIsCur
  <2>2. s # Cur
    BY <1>1, <2>1
  <2> QED BY <1>2, <2>2 DEF UsedAt, Inv, Typed
<1>4. CASE Used # Cur
  BY <1>4 DEF UsedAt
<1> QED BY <1>3, <1>4

LEMMA SetUpKeepsPc ==
  ASSUME Inv, NEW s \in 1 .. lost, NEW pc, NEW leftEnvs, SetUp(UsedAt(pc), leftEnvs)
  PROVE  slots'[s].pc = slots[s].pc
<1>1. lost \in Nat /\ Cur \in 1 .. MaxFrames /\ lost <= Cur /\ Cur <= next /\ next \in Nat
  BY Basics
<1>2. s # next + 1
  BY <1>1
<1>3. slots'[s] = UsedAt(pc)[s]
  BY <1>2 DEF SetUp
<1> QED BY <1>3, UsedAtKeepsPc

LEMMA GoesBackKeepsPc ==
  ASSUME Inv, NEW s \in 1 .. lost, NEW left, left[s].pc = slots[s].pc, NEW leftEnvs,
         GoesBack(left, leftEnvs)
  PROVE  slots'[s].pc = slots[s].pc
<1>1. CASE slots' = slots
  BY <1>1
<1>2. CASE slots' = [left EXCEPT ![Cur].held = FALSE]
  BY <1>2
<1> QED BY <1>1, <1>2 DEF GoesBack, Ends

LEMMA StepStandsStill ==
  ASSUME Inv, Step, ~ Searching, NEW s \in 1 .. lost
  PROVE  slots'[s].pc = slots[s].pc
<1>1. CASE Nop \/ Push
  BY <1>1, UsedAtKeepsPc DEF Nop, Push, Ends
<1>2. CASE Spin \/ Fault
  BY <1>2 DEF Spin, vars, Fault, Throws, Ends
<1>3. CASE CallOnObject
  <2>1. CASE SetUp(UsedAt(ResumesAt), Without(TakenWithObject))
    BY <2>1, SetUpKeepsPc
  <2>2. CASE slots' = slots
    BY <2>2
  <2> QED BY <1>3, <2>1, <2>2 DEF CallOnObject, Taking, Ends
<1>4. CASE CallStatic
  <2>1. PICK n : n = IF Args = 0 THEN 0 ELSE Args - 1
    OBVIOUS
  <2>2. CASE SetUp(UsedAt(slots[Cur].pc + 3), Without(n))
    BY <2>2, SetUpKeepsPc
  <2>3. CASE slots' = slots
    BY <2>3
  <2> QED BY <1>4, <2>1, <2>2, <2>3 DEF CallStatic, Taking, Ends
<1>5. CASE CallInterface
  BY <1>5 DEF CallInterface, Taking, Ends
<1>6. CASE Return
  BY <1>6, GoesBackKeepsPc DEF Return, Throws, Ends
<1>7. CASE AReturn
  <2>1. PICK e : e = [envs EXCEPT ![EnvNo - 1].top = @ + 1]
    OBVIOUS
  <2>2. CASE GoesBack(slots, e)
    BY <2>2, GoesBackKeepsPc
  <2>3. CASE slots' = slots
    BY <2>3
  <2> QED BY <1>7, <2>1, <2>2, <2>3 DEF AReturn, Taking, Writing, NoReference, Throws, Ends
<1>8. CASE DReturn
  <2>1. PICK left : left = [slots EXCEPT ![slots[Used].prev].idx = @ + 2]
    OBVIOUS
  <2>2. CASE GoesBack(left, envs)
    <3>1. left[s].pc = slots[s].pc
      BY <2>1
    <3> QED BY <2>2, <3>1, GoesBackKeepsPc
  <2>3. CASE slots' = slots
    BY <2>3
  <2> QED BY <1>8, <2>1, <2>2, <2>3 DEF DReturn, Taking, Writing, Throws, Ends
<1>9. CASE Catch \/ Unwind \/ AssertFails
  BY <1>9 DEF Catch, Unwind, AssertFails
<1> QED BY <1>1, <1>2, <1>3, <1>4, <1>5, <1>6, <1>7, <1>8, <1>9 DEF Step

(* Whatever the program, a frame that an exception has come down to, and   *)
(* every frame below it, stays at its instruction until another exception  *)
(* is thrown.                                                              *)
THEOREM CaughtFramesStandStill == Spec => StandsStill
<1>1. ASSUME Inv, [Step]_vars
      PROVE  [\A s \in 1 .. lost : slots'[s].pc # slots[s].pc => Searching]_vars
  BY <1>1, StepStandsStill
<1> QED BY <1>1, InvHolds, PTL DEF Spec, StandsStill
=============================================================================
