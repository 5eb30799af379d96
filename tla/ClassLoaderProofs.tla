-------------------------- MODULE ClassLoaderProofs --------------------------
(***************************************************************************)
(* Invariance proofs for ClassLoader, for every class path, any number of  *)
(* classes and threads and every depth of the stack.                       *)
(***************************************************************************)
EXTENDS ClassLoader, SequenceTheorems, FiniteSetTheorems, WellFoundedInduction, TLAPS

Roles == {"intfs", "object", "class"}
Need == [role : Roles, name : Classes]

\* Activations, and class objects, when there are n class objects.
LoaderActs(n) ==
  [name : Classes, how : Loaders, step : Steps, super : 0 .. n, obj : 0 .. n, left : Seq(Need)]

ArrayActs(n) ==
  [name : {ArrayName}, how : {"array"}, step : Steps \ {"super"},
   super : 0 .. n, obj : 0 .. n, left : Seq(Classes)]

Acts(n) == LoaderActs(n) \cup ArrayActs(n)

Objects(n) ==
  [name : Names, super : 0 .. n, intfs : Seq(0 .. n), object : 0 .. n, class : 0 .. n,
   jar : BOOLEAN, by : Threads]

WellTyped ==
  /\ world \in Worlds
  /\ table \in [Names -> Ids]
  /\ objs \in Seq(Objects(Len(objs)))
  /\ deferred \in [Classes -> Flaws]
  /\ stack \in [Threads -> Seq(Acts(Len(objs)))]
  /\ ret \in [Threads -> Ids]
  /\ api \in [Threads -> Calls \cup {NIL}]
  /\ crashed \in BOOLEAN

\* s is what is left of a sequence once some of its elements are gone.
IsRestOf(s, full) ==
  /\ Len(s) <= Len(full)
  /\ \A i \in 1 .. Len(s) : s[i] = full[Len(full) - Len(s) + i]

ArrayNeeds == << ObjectName, ClassName, ArrayBase >>

\* What an activation that is at "super" or "needs" has asked for.
Wanted(a) ==
  IF a.step = "super" THEN world.super[a.name]
  ELSE IF a.how = "array" THEN Head(a.left) ELSE Head(a.left).name

\* Only the files of sound classes get past the checks, and what an activation
\* still has to load is an end of the list of all it needs.
ActOK(a) ==
  /\ a.how \in Loaders =>
       /\ a.step # "start" => Sound(a.name)
       /\ a.step = "super" => ~ NoSuper(a.name)
       /\ a.step # "needs" => a.left = Needs(a.name)
       /\ a.step = "needs" => a.left # << >> /\ IsRestOf(a.left, Needs(a.name))
  /\ a.how = "array" =>
       /\ a.step = "start" => a.left = ArrayNeeds
       /\ a.step = "needs" => a.left # << >> /\ IsRestOf(a.left, ArrayNeeds)
       /\ a.step = "create" => a.left = << >>

Waiting(a) == a.step \in {"super", "needs"}

\* A call of the user interface lasts as long as there are activations; each of
\* them but the innermost waits for the one above it.
HowOf == [init |-> "name", file |-> "name", jar |-> "bytes", array |-> "array"]

\* What is being linked is registered.
Registered(a) ==
  a.how \in Loaders /\ a.step = "needs" =>
    a.obj # 0 /\ objs[a.obj].name = a.name /\ table[a.name] # 0

ThreadOK(t) ==
  /\ stack[t] # << >> =>
       ~ Idle(t) /\ stack[t][1].how = HowOf[api[t].call] /\ stack[t][1].name = api[t].name
  /\ \A i \in 1 .. Len(stack[t]) : ActOK(stack[t][i]) /\ Registered(stack[t][i])
  /\ \A i \in 1 .. Len(stack[t]) - 1 :
       /\ Waiting(stack[t][i])
       /\ stack[t][i + 1].how = "name"
       /\ stack[t][i + 1].name = Wanted(stack[t][i])

StackOK == \A t \in Threads : ThreadOK(t)

\* The table leads to class objects of that name, of sound classes only.
TableOK ==
  /\ \A c \in Names : table[c] # 0 => objs[table[c]].name = c
  /\ \A c \in Classes : table[c] # 0 => Sound(c)
  /\ \A o \in 1 .. Len(objs) : objs[o].name \in Classes => Sound(objs[o].name)

\* The answer t has got tells whether c can be loaded, and then c is.
Answered(t, c) ==
  IF ret[t] = 0 THEN ~ Sound(c)
  ELSE table[c] # 0 /\ objs[ret[t]].name = c

HasAnswer(t) ==
  /\ stack[t] # << >> /\ Waiting(Top(t)) => Answered(t, Wanted(Top(t)))
  /\ stack[t] = << >> /\ ~ Idle(t) /\ api[t].call \in {"init", "file"} =>
       Answered(t, api[t].name)

AnswersOK == \A t \in Threads : HasAnswer(t)

\* t has yet to defer the exception for c once more.
WillDefer(t, c) ==
  /\ ret[t] = 0
  /\ \/ /\ stack[t] # << >> /\ Top(t).how \in Loaders /\ Waiting(Top(t))
        /\ Wanted(Top(t)) = c
     \/ /\ stack[t] = << >> /\ ~ Idle(t) /\ api[t].call \in {"init", "file"}
        /\ api[t].name = c

VersionsArePassing ==
  \A c \in Classes \ {ObjectName, ClassName, ArrayBase} :
    deferred[c] = "version" => \E t \in Threads : WillDefer(t, c)

-----------------------------------------------------------------------------
LinkedTo(l, n) == IF Sound(n) THEN l # 0 /\ objs[l].name = n ELSE l = 0

\* Class object o of class c has the links of the first n classes c needs.
LinksMade(o, c, n) ==
  LET intfs == world.intfs[c]
  IN  /\ Len(objs[o].intfs) = IF n < Len(intfs) THEN n ELSE Len(intfs)
      /\ \A i \in 1 .. Len(objs[o].intfs) : LinkedTo(objs[o].intfs[i], intfs[i])
      /\ n > Len(intfs) /\ c # ObjectName => LinkedTo(objs[o].object, ObjectName)
      /\ n = Len(Needs(c)) /\ c # ClassName => LinkedTo(objs[o].class, ClassName)

\* An activation that fills in a class object.
Builder(a) == a.how \in Loaders /\ a.step = "needs"

Gone(a) == Len(Needs(a.name)) - Len(a.left)

ActLinks(a) ==
  /\ a.how \in Loaders /\ a.step = "create" =>
       NoSuper(a.name) \/ LinkedTo(a.super, world.super[a.name])
  /\ Builder(a) => LinksMade(a.obj, a.name, Gone(a))
  /\ a.how = "array" /\ a.step # "start" =>
       /\ Len(a.left) <= 2 => a.super # 0 /\ LinkedTo(a.super, ObjectName)
       /\ Len(a.left) <= 1 => a.obj # 0 /\ LinkedTo(a.obj, ClassName)

SuperLinked(o) ==
  NoSuper(objs[o].name) \/ LinkedTo(objs[o].super, world.super[objs[o].name])

NeedsLinked(o) == LinksMade(o, objs[o].name, Len(Needs(objs[o].name)))

ArrayLinked(o) == LinkedTo(objs[o].super, ObjectName) /\ LinkedTo(objs[o].class, ClassName)

Builds(t, i, o) == Builder(stack[t][i]) /\ stack[t][i].obj = o

BeingBuilt(o) == \E t \in Threads : \E i \in 1 .. Len(stack[t]) : Builds(t, i, o)

ActsLinked == \A t \in Threads : \A i \in 1 .. Len(stack[t]) : ActLinks(stack[t][i])

\* No class object is filled in by two activations.
OneBuilder ==
  \A t, u \in Threads : \A i \in 1 .. Len(stack[t]), j \in 1 .. Len(stack[u]) : \A o :
    Builds(t, i, o) /\ Builds(u, j, o) => t = u /\ i = j

ObjectLinked(o) ==
  IF objs[o].name = ArrayName THEN ArrayLinked(o)
  ELSE SuperLinked(o) /\ (BeingBuilt(o) \/ NeedsLinked(o))

\* Every class object is linked, or one activation is still at it.
LinksOK == ActsLinked /\ OneBuilder /\ \A o \in 1 .. Len(objs) : ObjectLinked(o)

Inv ==
  /\ WellTyped
  /\ StackOK
  /\ TableOK
  /\ AnswersOK
  /\ DeferredIsUnsound
  /\ VersionsArePassing

LinkInv == Inv /\ (crashed \/ LinksOK)

-----------------------------------------------------------------------------
(* Sequences: the top of a stack replaced, put on or taken off.            *)

LEMMA FrontOf ==
  ASSUME NEW S, NEW s \in Seq(S), s # << >>
  PROVE  /\ Front(s) \in Seq(S)
         /\ Len(s) \in Nat /\ Len(s) >= 1
         /\ Len(Front(s)) = Len(s) - 1
         /\ \A i \in 1 .. Len(s) - 1 : Front(s)[i] = s[i]
         /\ Last(s) = s[Len(s)] /\ Last(s) \in S
<1>1. Len(s) \in Nat /\ Len(s) >= 1 /\ s[Len(s)] \in S
  OBVIOUS
<1> DEFINE n == Len(s) - 1
<1>2. n \in Nat /\ n <= Len(s)
  BY <1>1
<1> HIDE DEF n
<1>3. /\ SubSeq(s, 1, n) \in Seq(S) /\ Len(SubSeq(s, 1, n)) = n
      /\ \A i \in 1 .. n : SubSeq(s, 1, n)[i] = s[i]
  BY <1>2
<1> QED
  BY <1>1, <1>3 DEF Front, Last, n

LEMMA Joined ==
  ASSUME NEW S, NEW p \in Seq(S), NEW q \in Seq(S)
  PROVE  /\ p \o q \in Seq(S) /\ Len(p \o q) = Len(p) + Len(q)
         /\ Len(p) \in Nat /\ Len(q) \in Nat
         /\ \A i \in 1 .. Len(p) : (p \o q)[i] = p[i]
         /\ \A i \in 1 .. Len(q) : (p \o q)[Len(p) + i] = q[i]
  OBVIOUS

\* r is the stack s with its top replaced by a, and maybe b put on it, or with
\* its top taken off.
Replaced(s, a, r) ==
  /\ r # << >> /\ Len(r) = Len(s)
  /\ \A i \in 1 .. Len(s) - 1 : r[i] = s[i]
  /\ r[Len(s)] = a /\ Last(r) = a

Pushed(s, a, b, r) ==
  /\ r # << >> /\ Len(r) = Len(s) + 1
  /\ \A i \in 1 .. Len(s) - 1 : r[i] = s[i]
  /\ r[Len(s)] = a /\ r[Len(s) + 1] = b /\ Last(r) = b

Popped(s, r) ==
  /\ Len(r) = Len(s) - 1
  /\ \A i \in 1 .. Len(s) - 1 : r[i] = s[i]
  /\ Len(s) = 1 => r = << >>
  /\ Len(s) > 1 => r # << >> /\ Last(r) = s[Len(s) - 1]

LEMMA TopReplaced ==
  ASSUME NEW S, NEW s \in Seq(S), s # << >>, NEW T, S \subseteq T, NEW a \in T
  PROVE  Append(Front(s), a) \in Seq(T) /\ Replaced(s, a, Append(Front(s), a))
<1>1. Front(s) \in Seq(T) /\ Len(Front(s)) = Len(s) - 1 /\ Len(s) \in Nat
  BY FrontOf
<1>2. \A i \in 1 .. Len(s) - 1 : Front(s)[i] = s[i]
  BY FrontOf
<1> DEFINE r == Append(Front(s), a)
<1>3. r \in Seq(T) /\ Len(r) = Len(s) /\ r # << >> /\ r[Len(s)] = a
  BY <1>1
<1>4. \A i \in 1 .. Len(s) - 1 : r[i] = s[i]
  BY <1>1, <1>2
<1> HIDE DEF r
<1>5. Last(r) = a
  BY <1>3 DEF Last
<1> QED
  BY <1>3, <1>4, <1>5 DEF r, Replaced

LEMMA TopPushed ==
  ASSUME NEW S, NEW s \in Seq(S), s # << >>, NEW T, S \subseteq T, NEW a \in T, NEW b \in T
  PROVE  /\ Append(Front(s), a) \o << b >> \in Seq(T)
         /\ Pushed(s, a, b, Append(Front(s), a) \o << b >>)
<1> DEFINE r == Append(Front(s), a)
<1>1. r \in Seq(T) /\ Replaced(s, a, r) /\ Len(s) \in Nat /\ Len(s) >= 1
  BY TopReplaced, FrontOf
<1> HIDE DEF r
<1>3. r \o << b >> \in Seq(T) /\ Len(r \o << b >>) = Len(s) + 1
  BY <1>1 DEF Replaced
<1>4. \A i \in 1 .. Len(s) : (r \o << b >>)[i] = r[i]
  BY <1>1 DEF Replaced
<1>5. (r \o << b >>)[Len(s) + 1] = b
  BY <1>1 DEF Replaced
<1>6. \A i \in 1 .. Len(s) - 1 : (r \o << b >>)[i] = s[i]
  BY <1>1, <1>4 DEF Replaced
<1>7. (r \o << b >>)[Len(s)] = a
  BY <1>1, <1>4 DEF Replaced
<1>8. Last(r \o << b >>) = b /\ r \o << b >> # << >>
  BY <1>1, <1>3, <1>5 DEF Last
<1> QED
  BY <1>3, <1>5, <1>6, <1>7, <1>8 DEF r, Pushed

LEMMA TopPopped ==
  ASSUME NEW S, NEW s \in Seq(S), s # << >>
  PROVE  Front(s) \in Seq(S) /\ Popped(s, Front(s))
<1>1. /\ Front(s) \in Seq(S)
      /\ Len(s) \in Nat /\ Len(s) >= 1 /\ Len(Front(s)) = Len(s) - 1
      /\ \A i \in 1 .. Len(s) - 1 : Front(s)[i] = s[i]
  BY FrontOf
<1>2. Len(s) = 1 => Front(s) = << >>
  BY <1>1
<1>3. Len(s) > 1 => Front(s) # << >> /\ Last(Front(s)) = s[Len(s) - 1]
  BY <1>1 DEF Last
<1> QED
  BY <1>1, <1>2, <1>3 DEF Popped

LEMMA RestOf ==
  ASSUME NEW S, NEW full \in Seq(S), NEW s \in Seq(S), s # << >>, IsRestOf(s, full)
  PROVE  /\ Len(s) \in 1 .. Len(full) /\ Len(full) - Len(s) + 1 \in 1 .. Len(full)
         /\ Head(s) = full[Len(full) - Len(s) + 1] /\ Head(s) \in S
         /\ Tail(s) \in Seq(S) /\ Len(Tail(s)) = Len(s) - 1 /\ IsRestOf(Tail(s), full)
<1>1. Len(full) \in Nat /\ Len(s) \in Nat /\ Len(s) <= Len(full)
  BY DEF IsRestOf
<1>2. Len(s) >= 1
  BY <1>1
<1>3. Head(s) = s[1] /\ Head(s) \in S
  BY <1>2
<1>4. /\ Tail(s) \in Seq(S) /\ Len(Tail(s)) = Len(s) - 1
      /\ \A i \in 1 .. Len(s) - 1 : Tail(s)[i] = s[i + 1]
  BY <1>2
<1>5. \A i \in 1 .. Len(s) : s[i] = full[Len(full) - Len(s) + i]
  BY DEF IsRestOf
<1>6. \A i \in 1 .. Len(s) - 1 : Tail(s)[i] = full[Len(full) - (Len(s) - 1) + i]
  BY <1>1, <1>4, <1>5
<1>7. IsRestOf(Tail(s), full)
  BY <1>1, <1>4, <1>6 DEF IsRestOf
<1> QED
  BY <1>1, <1>2, <1>3, <1>4, <1>5, <1>7

\* What a class needs: its interfaces, then Object, then Class.
LEMMA NeedsOf ==
  ASSUME world \in Worlds, NEW c \in Classes
  PROVE  /\ world.intfs[c] \in Seq(Classes)
         /\ Needs(c) \in Seq(Need)
         /\ Len(Needs(c)) = Len(world.intfs[c])
              + (IF c = ObjectName THEN 0 ELSE 1) + (IF c = ClassName THEN 0 ELSE 1)
         /\ \A i \in 1 .. Len(world.intfs[c]) :
              Needs(c)[i] = [role |-> "intfs", name |-> world.intfs[c][i]]
         /\ c # ObjectName =>
              Needs(c)[Len(world.intfs[c]) + 1] = [role |-> "object", name |-> ObjectName]
         /\ c # ClassName =>
              Needs(c)[Len(Needs(c))] = [role |-> "class", name |-> ClassName]
<1> DEFINE role(r, S) == [i \in 1 .. Len(S) |-> [role |-> r, name |-> S[i]]]
           I == world.intfs[c]
           O == IF c = ObjectName THEN << >> ELSE << ObjectName >>
           C == IF c = ClassName THEN << >> ELSE << ClassName >>
<1>1. I \in Seq(Classes) /\ O \in Seq(Classes) /\ C \in Seq(Classes)
  BY LoaderAssumption
<1>2. ASSUME NEW r \in Roles, NEW S \in Seq(Classes)
      PROVE  /\ role(r, S) \in Seq(Need) /\ Len(role(r, S)) = Len(S)
             /\ \A i \in 1 .. Len(S) : role(r, S)[i] = [role |-> r, name |-> S[i]]
  BY DEF Need
<1>3. Needs(c) = role("intfs", I) \o role("object", O) \o role("class", C)
  BY DEF Needs
<1>4. Len(O) = (IF c = ObjectName THEN 0 ELSE 1) /\ Len(C) = (IF c = ClassName THEN 0 ELSE 1)
  OBVIOUS
<1>5. c # ObjectName => O[1] = ObjectName
  OBVIOUS
<1>6. c # ClassName => C[1] = ClassName
  OBVIOUS
<1>7. "intfs" \in Roles /\ "object" \in Roles /\ "class" \in Roles
  BY DEF Roles
<1>a. PICK x : x = role("intfs", I)
  OBVIOUS
<1>b. PICK y : y = role("object", O)
  OBVIOUS
<1>c. PICK z : z = role("class", C)
  OBVIOUS
<1>8. /\ x \in Seq(Need) /\ Len(x) = Len(I)
      /\ \A i \in 1 .. Len(I) : x[i] = [role |-> "intfs", name |-> I[i]]
  BY <1>1, <1>2, <1>7, <1>a
<1>9. /\ y \in Seq(Need) /\ Len(y) = Len(O)
      /\ \A i \in 1 .. Len(O) : y[i] = [role |-> "object", name |-> O[i]]
  BY <1>1, <1>2, <1>7, <1>b
<1>10. /\ z \in Seq(Need) /\ Len(z) = Len(C)
       /\ \A i \in 1 .. Len(C) : z[i] = [role |-> "class", name |-> C[i]]
  BY <1>1, <1>2, <1>7, <1>c
<1>11. Needs(c) = x \o y \o z
  BY <1>3, <1>a, <1>b, <1>c
<1>12. Len(I) \in Nat /\ Len(O) \in Nat /\ Len(C) \in Nat
  BY <1>1
<1> HIDE DEF role, I, O, C
<1>d. PICK xy : xy = x \o y
  OBVIOUS
<1>13. /\ xy \in Seq(Need) /\ Len(xy) = Len(x) + Len(y)
       /\ \A i \in 1 .. Len(x) : xy[i] = x[i]
       /\ \A i \in 1 .. Len(y) : xy[Len(x) + i] = y[i]
  <2>1. x \in Seq(Need) /\ y \in Seq(Need)
    BY <1>8, <1>9
  <2> QED
    BY <2>1, Joined, <1>d
<1>14. /\ xy \o z \in Seq(Need) /\ Len(xy \o z) = Len(xy) + Len(z)
       /\ \A i \in 1 .. Len(xy) : (xy \o z)[i] = xy[i]
       /\ \A i \in 1 .. Len(z) : (xy \o z)[Len(xy) + i] = z[i]
  <2>1. xy \in Seq(Need) /\ z \in Seq(Need)
    BY <1>10, <1>13
  <2> QED
    BY <2>1, Joined
<1>15. Needs(c) = xy \o z
  BY <1>11, <1>d
<1>16. /\ Needs(c) \in Seq(Need) /\ Len(Needs(c)) = Len(x) + Len(y) + Len(z)
       /\ \A i \in 1 .. Len(x) : Needs(c)[i] = x[i]
       /\ \A i \in 1 .. Len(y) : Needs(c)[Len(x) + i] = y[i]
       /\ \A i \in 1 .. Len(z) : Needs(c)[Len(x) + Len(y) + i] = z[i]
  BY <1>8, <1>9, <1>10, <1>13, <1>14, <1>15
<1>17. c # ObjectName => Needs(c)[Len(I) + 1] = [role |-> "object", name |-> ObjectName]
  BY <1>4, <1>5, <1>8, <1>9, <1>16
<1>18. c # ClassName => Needs(c)[Len(Needs(c))] = [role |-> "class", name |-> ClassName]
  BY <1>4, <1>6, <1>8, <1>9, <1>10, <1>12, <1>16
<1> QED
  BY <1>1, <1>4, <1>8, <1>9, <1>10, <1>16, <1>17, <1>18 DEF I

LEMMA LoadIsAct ==
  ASSUME world \in Worlds, NEW c \in Classes, NEW how \in Loaders, NEW n \in Nat
  PROVE  Load(c, how) \in Acts(n) /\ ActOK(Load(c, how))
<1>1. Needs(c) \in Seq(Need)
  BY NeedsOf
<1>2. Load(c, how) \in LoaderActs(n)
  BY <1>1 DEF Load, LoaderActs, Steps
<1>3. ActOK(Load(c, how))
  BY DEF ActOK, Load, Loaders
<1> QED
  BY <1>2, <1>3 DEF Acts

LEMMA ActsGrow ==
  ASSUME NEW m \in Nat, NEW n \in Nat, m <= n
  PROVE  /\ LoaderActs(m) \subseteq LoaderActs(n) /\ ArrayActs(m) \subseteq ArrayActs(n)
         /\ Acts(m) \subseteq Acts(n) /\ Objects(m) \subseteq Objects(n)
         /\ 0 .. m \subseteq 0 .. n
<1>1. 0 .. m \subseteq 0 .. n
  OBVIOUS
<1>2. Seq(0 .. m) \subseteq Seq(0 .. n)
  BY <1>1
<1>3. LoaderActs(m) \subseteq LoaderActs(n) /\ ArrayActs(m) \subseteq ArrayActs(n)
  BY <1>1 DEF LoaderActs, ArrayActs
<1> QED
  BY <1>1, <1>2, <1>3 DEF Acts, Objects

-----------------------------------------------------------------------------
(* Activations and the steps of a thread on its stack.                     *)

LEMMA KindOfAct ==
  ASSUME NEW n \in Nat, NEW a \in Acts(n)
  PROVE  /\ a.how \in Loaders \cup {"array"}
         /\ a.how \in Loaders => a \in LoaderActs(n)
         /\ a.how \notin Loaders => a.how = "array" /\ a \in ArrayActs(n)
  BY DEF Acts, LoaderActs, ArrayActs, Loaders

LEMMA WantedIsClass ==
  ASSUME world \in Worlds, NEW n \in Nat, NEW a \in Acts(n), ActOK(a), Waiting(a)
  PROVE  Wanted(a) \in Classes
<1>1. CASE a.how \in Loaders /\ a.step = "super"
  <2>1. world.super[a.name] \in Classes \cup {NIL}
    BY <1>1, KindOfAct, LoaderAssumption DEF LoaderActs
  <2> QED
    BY <1>1, <2>1 DEF ActOK, NoSuper, Wanted
<1>2. CASE a.how \in Loaders /\ a.step = "needs"
  <2>1. a.left \in Seq(Need) /\ a.left # << >>
    BY <1>2, KindOfAct DEF LoaderActs, ActOK
  <2>2. Head(a.left) \in Need
    BY <2>1
  <2>3. a.how # "array"
    BY <1>2 DEF Loaders
  <2> QED
    BY <1>2, <2>2, <2>3 DEF Wanted, Need
<1>3. CASE a.how \notin Loaders
  <2>1. a.how = "array" /\ a.left \in Seq(Classes) /\ a.step # "super"
    BY <1>3, KindOfAct DEF ArrayActs
  <2>2. a.left # << >>
    BY <2>1 DEF ActOK, Waiting
  <2>3. Head(a.left) \in Classes
    BY <2>1, <2>2
  <2> QED
    BY <2>1, <2>3 DEF Wanted
<1> QED
  BY <1>1, <1>2, <1>3 DEF Waiting

LEMMA TopIs ==
  ASSUME WellTyped, StackOK, NEW t \in Threads, stack[t] # << >>
  PROVE  /\ Len(objs) \in Nat
         /\ stack[t] \in Seq(Acts(Len(objs)))
         /\ Len(stack[t]) \in Nat /\ Len(stack[t]) >= 1
         /\ Top(t) = stack[t][Len(stack[t])]
         /\ Top(t) \in Acts(Len(objs)) /\ ActOK(Top(t))
<1>1. Len(objs) \in Nat /\ stack[t] \in Seq(Acts(Len(objs)))
  BY DEF WellTyped
<1>2. /\ Len(stack[t]) \in Nat /\ Len(stack[t]) >= 1
      /\ Last(stack[t]) = stack[t][Len(stack[t])] /\ Last(stack[t]) \in Acts(Len(objs))
  BY <1>1, FrontOf
<1>3. ActOK(stack[t][Len(stack[t])])
  BY <1>2 DEF StackOK, ThreadOK
<1> QED
  BY <1>1, <1>2, <1>3 DEF Top

\* The class path stays, class objects keep their names, the table its entries.
Grows ==
  /\ world' = world
  /\ Len(objs') \in Nat /\ Len(objs) <= Len(objs')
  /\ \A o \in 1 .. Len(objs) : objs'[o].name = objs[o].name
  /\ \A c \in Names : table[c] # 0 => table'[c] # 0

Stacks(n) == [Threads -> Seq(Acts(n))]

\* A step of t leaves the stacks of the others alone.
OthersKeepStacks(t) == \A u \in Threads \ {t} : stack'[u] = stack[u]

LEMMA StacksGrow ==
  ASSUME WellTyped, Grows
  PROVE  /\ stack \in Stacks(Len(objs)) /\ Stacks(Len(objs)) \subseteq Stacks(Len(objs'))
         /\ Acts(Len(objs)) \subseteq Acts(Len(objs'))
<1>1. Len(objs) \in Nat /\ stack \in [Threads -> Seq(Acts(Len(objs)))]
  BY DEF WellTyped
<1>2. Acts(Len(objs)) \subseteq Acts(Len(objs'))
  BY <1>1, ActsGrow DEF Grows
<1>3. Seq(Acts(Len(objs))) \subseteq Seq(Acts(Len(objs')))
  BY <1>2
<1> QED
  BY <1>1, <1>2, <1>3 DEF Stacks

LEMMA StackChanged ==
  ASSUME WellTyped, Grows, NEW t \in Threads, NEW r \in Seq(Acts(Len(objs'))),
         stack' = [stack EXCEPT ![t] = r]
  PROVE  stack' \in Stacks(Len(objs')) /\ OthersKeepStacks(t) /\ stack'[t] = r
  BY StacksGrow DEF Stacks, OthersKeepStacks

LEMMA GoToShape ==
  ASSUME WellTyped, NEW t \in Threads, stack[t] # << >>, Grows,
         NEW a \in Acts(Len(objs')), stack' = Updated(t, a)
  PROVE  /\ stack' \in Stacks(Len(objs')) /\ OthersKeepStacks(t)
         /\ Replaced(stack[t], a, stack'[t])
<1> DEFINE r == Append(Front(stack[t]), a)
<1>1. stack[t] \in Seq(Acts(Len(objs))) /\ Acts(Len(objs)) \subseteq Acts(Len(objs'))
  BY StacksGrow DEF Stacks
<1>2. r \in Seq(Acts(Len(objs'))) /\ Replaced(stack[t], a, r)
  BY <1>1, TopReplaced
<1>3. stack' = [stack EXCEPT ![t] = r]
  BY DEF Updated
<1> HIDE DEF r
<1> QED
  BY <1>2, <1>3, StackChanged

LEMMA CallShape ==
  ASSUME WellTyped, NEW t \in Threads, stack[t] # << >>, Grows,
         NEW a \in Acts(Len(objs')), NEW c \in Classes,
         stack' = [stack EXCEPT ![t] = Append(Front(@), a) \o << Load(c, "name") >>]
  PROVE  /\ stack' \in Stacks(Len(objs')) /\ OthersKeepStacks(t)
         /\ Pushed(stack[t], a, Load(c, "name"), stack'[t])
<1> DEFINE b == Load(c, "name")
           r == Append(Front(stack[t]), a) \o << b >>
<1>1. stack[t] \in Seq(Acts(Len(objs))) /\ Acts(Len(objs)) \subseteq Acts(Len(objs'))
  BY StacksGrow DEF Stacks
<1>2. b \in Acts(Len(objs'))
  BY LoadIsAct DEF WellTyped, Grows, Loaders
<1>3. stack' = [stack EXCEPT ![t] = r]
  OBVIOUS
<1> HIDE DEF b
<1>4. r \in Seq(Acts(Len(objs'))) /\ Pushed(stack[t], a, b, r)
  BY <1>1, <1>2, TopPushed
<1> HIDE DEF r
<1>5. stack' \in Stacks(Len(objs')) /\ OthersKeepStacks(t) /\ stack'[t] = r
  BY <1>3, <1>4, StackChanged
<1> QED
  BY <1>4, <1>5 DEF b

LEMMA ReturnShape ==
  ASSUME WellTyped, NEW t \in Threads, stack[t] # << >>, Grows,
         stack' = [stack EXCEPT ![t] = Front(@)]
  PROVE  /\ stack' \in Stacks(Len(objs')) /\ OthersKeepStacks(t)
         /\ Popped(stack[t], stack'[t])
<1>1. stack[t] \in Seq(Acts(Len(objs))) /\ Acts(Len(objs)) \subseteq Acts(Len(objs'))
  BY StacksGrow DEF Stacks
<1> DEFINE r == Front(stack[t])
<1>2. r \in Seq(Acts(Len(objs))) /\ Popped(stack[t], r)
  BY <1>1, TopPopped
<1>3. r \in Seq(Acts(Len(objs')))
  BY <1>1, <1>2
<1>4. stack' = [stack EXCEPT ![t] = r]
  OBVIOUS
<1> HIDE DEF r
<1> QED
  BY <1>2, <1>3, <1>4, StackChanged

LEMMA SameWorld ==
  ASSUME world' = world, NEW a
  PROVE  /\ ActOK(a)' <=> ActOK(a)
         /\ Wanted(a)' = Wanted(a)
         /\ Sound(a)' <=> Sound(a)
         /\ NoSuper(a)' <=> NoSuper(a)
         /\ Needs(a)' = Needs(a)
  BY DEF ActOK, Wanted, Sound, NoSuper, Needs

LEMMA StaysRegistered ==
  ASSUME WellTyped, Grows, NEW a \in Acts(Len(objs)), Registered(a)
  PROVE  Registered(a)'
<1> SUFFICES ASSUME a.how \in Loaders, a.step = "needs"
             PROVE  a.obj # 0 /\ objs'[a.obj].name = a.name /\ table'[a.name] # 0
  BY DEF Registered
<1>1. Len(objs) \in Nat /\ a \in LoaderActs(Len(objs))
  BY KindOfAct DEF WellTyped
<1>2. a.obj \in 1 .. Len(objs) /\ a.name \in Names
  BY <1>1 DEF LoaderActs, Registered, Names
<1> QED
  BY <1>2 DEF Registered, Grows

\* A step of t is no step of the others.
OthersKeep(t) ==
  /\ OthersKeepStacks(t)
  /\ \A u \in Threads \ {t} : ret'[u] = ret[u] /\ api'[u] = api[u]

LEMMA KeptStays ==
  ASSUME WellTyped, StackOK, Grows, NEW u \in Threads, stack'[u] = stack[u], api'[u] = api[u]
  PROVE  ThreadOK(u)'
<1>1. ThreadOK(u) /\ world' = world /\ stack[u] \in Seq(Acts(Len(objs)))
  BY DEF StackOK, Grows, WellTyped
<1>2. \A i \in 1 .. Len(stack[u]) : Registered(stack[u][i])'
  <2> SUFFICES ASSUME NEW i \in 1 .. Len(stack[u]) PROVE Registered(stack[u][i])'
    OBVIOUS
  <2>1. PICK a \in Acts(Len(objs)) : a = stack[u][i]
    BY <1>1
  <2>2. Registered(a)'
    BY <1>1, <2>1, StaysRegistered DEF ThreadOK
  <2> QED
    BY <2>1, <2>2
<1> QED
  BY <1>1, <1>2, SameWorld DEF ThreadOK, Idle, Waiting

LEMMA GoToStays ==
  ASSUME WellTyped, StackOK, Grows, NEW t \in Threads, stack[t] # << >>,
         NEW a, ActOK(a), Registered(a)', a.how = Top(t).how, a.name = Top(t).name,
         Replaced(stack[t], a, stack'[t]), api'[t] = api[t]
  PROVE  ThreadOK(t)'
<1> DEFINE s == stack[t]
           r == stack'[t]
           n == Len(stack[t])
<1>1. n \in Nat /\ n >= 1 /\ Top(t) = s[n] /\ s \in Seq(Acts(Len(objs)))
  BY TopIs
<1>2. ThreadOK(t) /\ \A i \in 1 .. n : ActOK(s[i]) /\ Registered(s[i])
  BY DEF StackOK, ThreadOK
<1>3. Len(r) = n /\ r[n] = a /\ \A i \in 1 .. n - 1 : r[i] = s[i]
  BY DEF Replaced
<1>4. \A i \in 1 .. n : r[i].how = s[i].how /\ r[i].name = s[i].name
  BY <1>1, <1>3
<1>5. \A i \in 1 .. n : ActOK(r[i])
  BY <1>1, <1>2, <1>3
<1>6. \A i \in 1 .. n - 1 : /\ Waiting(r[i]) /\ r[i + 1].how = "name"
                            /\ r[i + 1].name = Wanted(r[i])
  <2> SUFFICES ASSUME NEW i \in 1 .. n - 1
               PROVE  Waiting(r[i]) /\ r[i + 1].how = "name" /\ r[i + 1].name = Wanted(r[i])
    OBVIOUS
  <2>1. r[i] = s[i] /\ i + 1 \in 1 .. n
    BY <1>1, <1>3
  <2>2. r[i + 1].how = s[i + 1].how /\ r[i + 1].name = s[i + 1].name
    BY <1>4, <2>1
  <2> QED
    BY <1>2, <2>1, <2>2 DEF ThreadOK
<1>8. \A i \in 1 .. n : Registered(stack[t][i])'
  <2> SUFFICES ASSUME NEW i \in 1 .. n PROVE Registered(stack[t][i])'
    OBVIOUS
  <2>1. CASE i = n
    BY <1>3, <2>1
  <2>2. CASE i # n
    <3>1. i \in 1 .. n - 1 /\ i \in 1 .. n
      BY <1>1, <2>2
    <3>2. PICK b \in Acts(Len(objs)) : b = s[i]
      BY <1>1, <3>1
    <3>3. Registered(b)'
      BY <1>1, <1>2, <3>1, <3>2, StaysRegistered
    <3> QED
      BY <1>3, <3>1, <3>2, <3>3
  <2> QED
    BY <2>1, <2>2
<1>7. ~ Idle(t)' /\ r[1].how = HowOf[api'[t].call] /\ r[1].name = api'[t].name
  BY <1>1, <1>2, <1>4 DEF ThreadOK, Idle
<1>9. \A i \in 1 .. n : ActOK(stack[t][i])'
  BY <1>5, SameWorld DEF Grows
<1>w. \A i \in 1 .. Len(stack'[t]) - 1 :
        /\ Waiting(stack[t][i])' /\ stack'[t][i + 1].how = "name"
        /\ stack'[t][i + 1].name = Wanted(stack[t][i])'
  <2> SUFFICES ASSUME NEW i \in 1 .. Len(stack'[t]) - 1
               PROVE  /\ Waiting(r[i]) /\ r[i + 1].how = "name"
                      /\ r[i + 1].name = Wanted(stack[t][i])'
    BY DEF Waiting
  <2>1. Waiting(r[i]) /\ r[i + 1].how = "name" /\ r[i + 1].name = Wanted(r[i])
    BY <1>3, <1>6
  <2>2. PICK x : x = r[i]
    OBVIOUS
  <2>3. Wanted(x)' = Wanted(x)
    BY SameWorld DEF Grows
  <2> QED
    BY <2>1, <2>2, <2>3
<1> QED
  BY <1>3, <1>7, <1>8, <1>9, <1>w DEF ThreadOK

LEMMA CallStays ==
  ASSUME WellTyped, StackOK, Grows, NEW t \in Threads, stack[t] # << >>,
         NEW a, ActOK(a), Registered(a)', a.how = Top(t).how, a.name = Top(t).name, Waiting(a),
         NEW c \in Classes, c = Wanted(a),
         Pushed(stack[t], a, Load(c, "name"), stack'[t]), api'[t] = api[t]
  PROVE  ThreadOK(t)'
<1> DEFINE s == stack[t]
           r == stack'[t]
           n == Len(stack[t])
<1>1. n \in Nat /\ n >= 1 /\ Top(t) = s[n] /\ s \in Seq(Acts(Len(objs)))
  BY TopIs
<1>2. ThreadOK(t) /\ \A i \in 1 .. n : ActOK(s[i]) /\ Registered(s[i])
  BY DEF StackOK, ThreadOK
<1>3. /\ Len(r) = n + 1 /\ r[n] = a /\ r[n + 1] = Load(c, "name")
      /\ \A i \in 1 .. n - 1 : r[i] = s[i]
  BY DEF Pushed
<1>4. \A i \in 1 .. n : r[i].how = s[i].how /\ r[i].name = s[i].name
  <2> SUFFICES ASSUME NEW i \in 1 .. n
               PROVE  r[i].how = s[i].how /\ r[i].name = s[i].name
    OBVIOUS
  <2>1. i = n \/ i \in 1 .. n - 1
    BY <1>1
  <2>2. CASE i = n
    BY <1>1, <1>3, <2>2
  <2>3. CASE i \in 1 .. n - 1
    BY <1>3, <2>3
  <2> QED
    BY <2>1, <2>2, <2>3
<1>5. \A i \in 1 .. n + 1 : ActOK(r[i])
  <2>1. ActOK(Load(c, "name"))
    BY LoadIsAct DEF WellTyped, Loaders
  <2> SUFFICES ASSUME NEW i \in 1 .. n + 1
               PROVE  ActOK(r[i])
    OBVIOUS
  <2>2. i = n + 1 \/ i = n \/ (i \in 1 .. n - 1 /\ i \in 1 .. n)
    BY <1>1
  <2>3. CASE i \in 1 .. n - 1 /\ i \in 1 .. n
    BY <1>2, <1>3, <2>3
  <2>4. CASE i = n
    BY <1>3, <2>4
  <2>5. CASE i = n + 1
    BY <1>3, <2>1, <2>5
  <2> QED
    BY <2>2, <2>3, <2>4, <2>5
<1>6. \A i \in 1 .. n : /\ Waiting(r[i]) /\ r[i + 1].how = "name"
                        /\ r[i + 1].name = Wanted(r[i])
  <2> SUFFICES ASSUME NEW i \in 1 .. n
               PROVE  Waiting(r[i]) /\ r[i + 1].how = "name" /\ r[i + 1].name = Wanted(r[i])
    OBVIOUS
  <2>1. CASE i = n
    <3>1. Load(c, "name").how = "name" /\ Load(c, "name").name = c
      BY DEF Load
    <3> QED
      BY <1>3, <2>1, <3>1
  <2>2. CASE i # n
    <3>1. r[i] = s[i] /\ i + 1 \in 1 .. n /\ i \in 1 .. n - 1
      BY <1>1, <1>3, <2>2
    <3>2. r[i + 1].how = s[i + 1].how /\ r[i + 1].name = s[i + 1].name
      BY <1>4, <3>1
    <3> QED
      BY <1>2, <3>1, <3>2 DEF ThreadOK
  <2> QED
    BY <2>1, <2>2
<1>7. ~ Idle(t)' /\ r[1].how = HowOf[api'[t].call] /\ r[1].name = api'[t].name
  BY <1>1, <1>2, <1>4 DEF ThreadOK, Idle
<1>8. 1 .. Len(r) - 1 = 1 .. n /\ 1 .. Len(r) = 1 .. n + 1
  BY <1>1, <1>3
<1>9. \A i \in 1 .. n + 1 : ActOK(stack[t][i])'
  <2> SUFFICES ASSUME NEW i \in 1 .. n + 1 PROVE ActOK(stack[t][i])'
    OBVIOUS
  <2> QED
    BY <1>5, SameWorld DEF Grows
<1>10. \A i \in 1 .. n + 1 : Registered(stack[t][i])'
  <2> SUFFICES ASSUME NEW i \in 1 .. n + 1 PROVE Registered(stack[t][i])'
    OBVIOUS
  <2>1. CASE i = n
    BY <1>3, <2>1
  <2>3. CASE i = n + 1
    <3>1. PICK b : b = Load(c, "name")
      OBVIOUS
    <3>2. b.step = "start"
      BY <3>1 DEF Load
    <3>3. Registered(b)'
      BY <3>2 DEF Registered
    <3>4. stack'[t][i] = b
      BY <1>3, <2>3, <3>1
    <3> QED
      BY <3>3, <3>4
  <2>2. CASE i # n /\ i # n + 1
    <3>1. i \in 1 .. n - 1 /\ i \in 1 .. n
      BY <1>1, <2>2
    <3>2. PICK b \in Acts(Len(objs)) : b = s[i]
      BY <1>1, <3>1
    <3>3. Registered(b)'
      BY <1>1, <1>2, <3>1, <3>2, StaysRegistered
    <3> QED
      BY <1>3, <3>1, <3>2, <3>3
  <2> QED
    BY <2>1, <2>2, <2>3
<1>w. \A i \in 1 .. Len(stack'[t]) - 1 :
        /\ Waiting(stack[t][i])' /\ stack'[t][i + 1].how = "name"
        /\ stack'[t][i + 1].name = Wanted(stack[t][i])'
  <2> SUFFICES ASSUME NEW i \in 1 .. Len(stack'[t]) - 1
               PROVE  /\ Waiting(r[i]) /\ r[i + 1].how = "name"
                      /\ r[i + 1].name = Wanted(stack[t][i])'
    BY DEF Waiting
  <2>1. Waiting(r[i]) /\ r[i + 1].how = "name" /\ r[i + 1].name = Wanted(r[i])
    BY <1>6, <1>8
  <2>2. PICK x : x = r[i]
    OBVIOUS
  <2>3. Wanted(x)' = Wanted(x)
    BY SameWorld DEF Grows
  <2> QED
    BY <2>1, <2>2, <2>3
<1> QED
  BY <1>7, <1>8, <1>9, <1>10, <1>w DEF ThreadOK

LEMMA ReturnStays ==
  ASSUME WellTyped, StackOK, Grows, NEW t \in Threads, stack[t] # << >>,
         Popped(stack[t], stack'[t]), api'[t] = api[t]
  PROVE  ThreadOK(t)'
<1> DEFINE s == stack[t]
           r == stack'[t]
           n == Len(stack[t])
<1>1. n \in Nat /\ n >= 1 /\ s \in Seq(Acts(Len(objs)))
  BY TopIs
<1>2. ThreadOK(t) /\ \A i \in 1 .. n : ActOK(s[i]) /\ Registered(s[i])
  BY DEF StackOK, ThreadOK
<1>3. /\ Len(r) = n - 1
      /\ \A i \in 1 .. n - 1 : r[i] = s[i]
      /\ n = 1 => r = << >>
  BY DEF Popped
<1>5. \A i \in 1 .. n - 1 : ActOK(r[i])
  BY <1>1, <1>2, <1>3
<1>6. \A i \in 1 .. n - 2 : /\ Waiting(r[i]) /\ r[i + 1].how = "name"
                            /\ r[i + 1].name = Wanted(r[i])
  <2> SUFFICES ASSUME NEW i \in 1 .. n - 2
               PROVE  Waiting(r[i]) /\ r[i + 1].how = "name" /\ r[i + 1].name = Wanted(r[i])
    OBVIOUS
  <2>1. r[i] = s[i] /\ r[i + 1] = s[i + 1] /\ i \in 1 .. n - 1
    BY <1>1, <1>3
  <2> QED
    BY <1>2, <2>1 DEF ThreadOK
<1>7. r # << >> =>
        ~ Idle(t)' /\ r[1].how = HowOf[api'[t].call] /\ r[1].name = api'[t].name
  BY <1>1, <1>2, <1>3 DEF ThreadOK, Idle
<1>8. Len(r) - 1 = n - 2
  BY <1>1, <1>3
<1>9. \A i \in 1 .. n - 1 : Registered(stack[t][i])'
  <2> SUFFICES ASSUME NEW i \in 1 .. n - 1 PROVE Registered(stack[t][i])'
    OBVIOUS
  <2>1. PICK b \in Acts(Len(objs)) : b = s[i]
    BY <1>1
  <2>2. Registered(b)'
    BY <1>1, <1>2, <2>1, StaysRegistered DEF ThreadOK
  <2> QED
    BY <1>3, <2>1, <2>2
<1>w. \A i \in 1 .. Len(stack'[t]) - 1 :
        /\ Waiting(stack[t][i])' /\ stack'[t][i + 1].how = "name"
        /\ stack'[t][i + 1].name = Wanted(stack[t][i])'
  <2> SUFFICES ASSUME NEW i \in 1 .. Len(stack'[t]) - 1
               PROVE  /\ Waiting(r[i]) /\ r[i + 1].how = "name"
                      /\ r[i + 1].name = Wanted(stack[t][i])'
    BY DEF Waiting
  <2>1. Waiting(r[i]) /\ r[i + 1].how = "name" /\ r[i + 1].name = Wanted(r[i])
    BY <1>6, <1>8
  <2>2. PICK x : x = r[i]
    OBVIOUS
  <2>3. Wanted(x)' = Wanted(x)
    BY SameWorld DEF Grows
  <2> QED
    BY <2>1, <2>2, <2>3
<1>10. \A i \in 1 .. n - 1 : ActOK(stack[t][i])'
  BY <1>5, SameWorld DEF Grows
<1> QED
  BY <1>3, <1>7, <1>9, <1>10, <1>w DEF ThreadOK

-----------------------------------------------------------------------------
(* The answers of returned calls.                                          *)

LEMMA AnsweredStays ==
  ASSUME WellTyped, Grows, NEW u \in Threads, ret'[u] = ret[u], NEW c \in Names, Answered(u, c)
  PROVE  Answered(u, c)'
<1>1. ret[u] \in 0 .. Len(objs) /\ Len(objs) \in Nat
  BY DEF WellTyped, Ids
<1>2. CASE ret[u] = 0
  BY <1>2, SameWorld DEF Answered, Grows
<1>3. CASE ret[u] # 0
  <2>1. objs'[ret[u]].name = objs[ret[u]].name
    BY <1>1, <1>3 DEF Grows
  <2>2. table'[c] # 0
    BY <1>3 DEF Answered, Grows
  <2> QED
    BY <1>3, <2>1, <2>2 DEF Answered
<1> QED
  BY <1>2, <1>3

LEMMA ApiName ==
  ASSUME WellTyped, NEW t \in Threads, ~ Idle(t)
  PROVE  /\ api[t] \in Calls /\ api[t].name \in Names
         /\ api[t].call \in {"init", "file", "jar", "array"}
  BY DEF WellTyped, Idle, Calls

LEMMA KeptHasAnswer ==
  ASSUME WellTyped, StackOK, AnswersOK, Grows, NEW u \in Threads,
         stack'[u] = stack[u], api'[u] = api[u], ret'[u] = ret[u]
  PROVE  HasAnswer(u)'
<1>1. HasAnswer(u)
  BY DEF AnswersOK
<1>2. ASSUME stack[u] # << >>, Waiting(Top(u))
      PROVE  Answered(u, Wanted(Top(u)))'
  <2>1. Top(u) \in Acts(Len(objs)) /\ ActOK(Top(u)) /\ Len(objs) \in Nat
    BY <1>2, TopIs
  <2>2. Wanted(Top(u)) \in Names
    BY <1>2, <2>1, WantedIsClass DEF Names, WellTyped
  <2>3. Answered(u, Wanted(Top(u)))
    BY <1>1, <1>2 DEF HasAnswer
  <2> DEFINE a == stack[u][Len(stack[u])]
  <2>4. Top(u) = a /\ Top(u)' = a
    BY DEF Top, Last
  <2>5. Wanted(Top(u))' = Wanted(Top(u))
    BY SameWorld DEF Grows, Top, Last
  <2> HIDE DEF a
  <2>6. PICK c \in Names : c = Wanted(Top(u))
    BY <2>2
  <2>7. Answered(u, c)'
    BY <2>3, <2>6, AnsweredStays
  <2> QED
    BY <2>5, <2>6, <2>7
<1>3. ASSUME stack[u] = << >>, ~ Idle(u), api[u].call \in {"init", "file"}
      PROVE  Answered(u, api[u].name)'
  <2>1. Answered(u, api[u].name)
    BY <1>1, <1>3 DEF HasAnswer
  <2>2. PICK c \in Names : c = api[u].name
    BY <1>3, ApiName
  <2>3. Answered(u, c)'
    BY <2>1, <2>2, AnsweredStays
  <2> QED
    BY <2>2, <2>3
<1>4. Top(u)' = Top(u)
  BY DEF Top, Last
<1> QED
  BY <1>2, <1>3, <1>4 DEF HasAnswer, Idle, Waiting

LEMMA ReturnAnswers ==
  ASSUME WellTyped, StackOK, Grows, NEW t \in Threads, stack[t] # << >>,
         Popped(stack[t], stack'[t]), api'[t] = api[t],
         NEW c, c = Top(t).name, Top(t).how = "name" => Answered(t, c)'
  PROVE  HasAnswer(t)'
<1> DEFINE s == stack[t]
           n == Len(stack[t])
<1>1. n \in Nat /\ n >= 1 /\ Top(t) = s[n]
  BY TopIs
<1>2. ThreadOK(t)
  BY DEF StackOK
<1>3. CASE n = 1
  <2>1. stack'[t] = << >>
    BY <1>3 DEF Popped
  <2>2. ASSUME ~ Idle(t), api[t].call \in {"init", "file"}
        PROVE  Answered(t, api[t].name)'
    <3>1. Top(t).how = HowOf[api[t].call] /\ Top(t).name = api[t].name
      BY <1>1, <1>2, <1>3 DEF ThreadOK
    <3>2. Top(t).how = "name"
      BY <2>2, <3>1 DEF HowOf
    <3> QED
      BY <3>1, <3>2
  <2> QED
    BY <2>1, <2>2 DEF HasAnswer, Idle
<1>4. CASE n > 1
  <2> DEFINE a == s[n - 1]
  <2>1. n - 1 \in 1 .. n - 1 /\ n - 1 + 1 = n
    BY <1>1, <1>4
  <2>2. Waiting(a) /\ s[n].how = "name" /\ s[n].name = Wanted(a)
    BY <1>2, <2>1 DEF ThreadOK
  <2>3. stack'[t] # << >> /\ Top(t)' = a
    BY <1>4 DEF Popped, Top
  <2>5. Answered(t, c)'
    BY <1>1, <2>2
  <2>6. Wanted(Top(t))' = Wanted(a)
    BY <2>3, SameWorld DEF Grows
  <2> QED
    BY <1>1, <2>2, <2>3, <2>5, <2>6 DEF HasAnswer
<1>5. n = 1 \/ n > 1
  <2>1. \A m \in Nat : m >= 1 => m = 1 \/ m > 1
    OBVIOUS
  <2> QED
    BY <1>1, <2>1, Zenon
<1> QED
  BY <1>3, <1>4, <1>5, Zenon

-----------------------------------------------------------------------------
(* What the three ways to leave an activation do to its thread.            *)

\* All of a step of t but what it does to the table and the deferrals.
StepOf(t) ==
  /\ stack' \in Stacks(Len(objs')) /\ ret' \in [Threads -> 0 .. Len(objs')]
  /\ crashed' \in BOOLEAN
  /\ OthersKeep(t) /\ ThreadOK(t)' /\ HasAnswer(t)'

LEMMA TypesGrow ==
  ASSUME WellTyped, Grows
  PROVE  /\ ret \in [Threads -> 0 .. Len(objs')] /\ table \in [Names -> 0 .. Len(objs')]
         /\ stack \in Stacks(Len(objs')) /\ Objects(Len(objs)) \subseteq Objects(Len(objs'))
         /\ Acts(Len(objs)) \subseteq Acts(Len(objs'))
         /\ crashed \in BOOLEAN /\ Len(objs) \in Nat /\ Len(objs') \in Nat
<1>1. Len(objs) \in Nat /\ Len(objs') \in Nat /\ Len(objs) <= Len(objs')
  BY DEF WellTyped, Grows
<1>2. /\ Objects(Len(objs)) \subseteq Objects(Len(objs'))
      /\ 0 .. Len(objs) \subseteq 0 .. Len(objs')
  BY <1>1, ActsGrow
<1>3. ret \in [Threads -> 0 .. Len(objs)] /\ table \in [Names -> 0 .. Len(objs)]
  BY DEF WellTyped, Ids
<1>4. crashed \in BOOLEAN
  BY DEF WellTyped
<1> QED
  BY <1>1, <1>2, <1>3, <1>4, StacksGrow

LEMMA Called ==
  ASSUME WellTyped, StackOK, AnswersOK, Grows, NEW t \in Threads, stack[t] # << >>,
         NEW a \in Acts(Len(objs')), ActOK(a), Registered(a)',
         a.how = Top(t).how, a.name = Top(t).name,
         Waiting(a), NEW c \in Classes, c = Wanted(a), CallFrom(t, a, c), api' = api
  PROVE  StepOf(t)
<1>1. CASE Len(stack[t]) < MaxDepth
  <2>1. /\ stack' = [stack EXCEPT ![t] = Append(Front(@), a) \o << Load(c, "name") >>]
        /\ ret' = [ret EXCEPT ![t] = 0] /\ crashed' = crashed
    BY <1>1 DEF CallFrom
  <2>2. /\ stack' \in Stacks(Len(objs')) /\ OthersKeepStacks(t)
        /\ Pushed(stack[t], a, Load(c, "name"), stack'[t])
    BY <2>1, CallShape
  <2>3. ThreadOK(t)'
    BY <2>2, CallStays
  <2>4. HasAnswer(t)'
    BY <2>2 DEF HasAnswer, Pushed, Top, Load, Waiting
  <2>5. /\ ret' \in [Threads -> 0 .. Len(objs')] /\ crashed' \in BOOLEAN
        /\ \A u \in Threads \ {t} : ret'[u] = ret[u] /\ api'[u] = api[u]
    BY <2>1, TypesGrow
  <2> QED
    BY <2>2, <2>3, <2>4, <2>5 DEF StepOf, OthersKeep
<1>2. CASE ~ (Len(stack[t]) < MaxDepth)
  <2>1. crashed' = TRUE /\ stack' = stack /\ ret' = ret
    BY <1>2 DEF CallFrom
  <2>2. ThreadOK(t)' /\ HasAnswer(t)'
    BY <2>1, KeptStays, KeptHasAnswer
  <2>3. /\ stack' \in Stacks(Len(objs')) /\ ret' \in [Threads -> 0 .. Len(objs')]
        /\ crashed' \in BOOLEAN
    BY <2>1, TypesGrow
  <2> QED
    BY <2>1, <2>2, <2>3 DEF StepOf, OthersKeep, OthersKeepStacks
<1> QED
  BY <1>1, <1>2

LEMMA WentTo ==
  ASSUME WellTyped, StackOK, AnswersOK, Grows, NEW t \in Threads, stack[t] # << >>,
         NEW a \in Acts(Len(objs')), ActOK(a), Registered(a)',
         a.how = Top(t).how, a.name = Top(t).name,
         ~ Waiting(a), GoTo(t, a), api' = api
  PROVE  StepOf(t)
<1>1. stack' = Updated(t, a) /\ ret' = ret /\ crashed' = crashed
  BY DEF GoTo
<1>2. /\ stack' \in Stacks(Len(objs')) /\ OthersKeepStacks(t)
      /\ Replaced(stack[t], a, stack'[t])
  BY <1>1, GoToShape
<1>3. ThreadOK(t)'
  BY <1>2, GoToStays
<1>4. HasAnswer(t)'
  BY <1>2 DEF HasAnswer, Replaced, Top, Waiting
<1>5. ret' \in [Threads -> 0 .. Len(objs')] /\ crashed' \in BOOLEAN
  BY <1>1, TypesGrow
<1> QED
  BY <1>1, <1>2, <1>3, <1>4, <1>5 DEF StepOf, OthersKeep

LEMMA Returned ==
  ASSUME WellTyped, StackOK, AnswersOK, Grows, NEW t \in Threads, stack[t] # << >>,
         NEW o \in 0 .. Len(objs'), Return(t, o), api' = api,
         NEW c, c = Top(t).name, Top(t).how = "name" => Answered(t, c)'
  PROVE  StepOf(t)
<1>1. /\ stack' = [stack EXCEPT ![t] = Front(@)]
      /\ ret' = [ret EXCEPT ![t] = o] /\ crashed' = crashed
  BY DEF Return
<1>2. /\ stack' \in Stacks(Len(objs')) /\ OthersKeepStacks(t)
      /\ Popped(stack[t], stack'[t])
  BY <1>1, ReturnShape
<1>3. ThreadOK(t)'
  BY <1>2, ReturnStays
<1>4. HasAnswer(t)'
  BY <1>2, ReturnAnswers
<1>5. /\ ret' \in [Threads -> 0 .. Len(objs')] /\ crashed' \in BOOLEAN
      /\ \A u \in Threads \ {t} : ret'[u] = ret[u] /\ api'[u] = api[u]
  BY <1>1, TypesGrow
<1> QED
  BY <1>2, <1>3, <1>4, <1>5 DEF StepOf, OthersKeep

\* What is left to show of a step.
LEMMA Assembled ==
  ASSUME Inv, Grows, NEW t \in Threads, StepOf(t),
         table' \in [Names -> 0 .. Len(objs')], objs' \in Seq(Objects(Len(objs'))),
         api' \in [Threads -> Calls \cup {NIL}], deferred' \in [Classes -> Flaws], TableOK',
         \A c \in Classes : deferred'[c] # "none" => deferred[c] # "none" \/ ~ Sound(c),
         \A c \in Classes \ {ObjectName, ClassName, ArrayBase} : deferred'[c] = "version" =>
           (deferred[c] = "version" /\ ~ WillDefer(t, c)) \/ WillDefer(t, c)'
  PROVE  Inv'
<1>1. WellTyped'
  BY DEF Inv, WellTyped, Grows, StepOf, Stacks, Ids
<1>2. StackOK'
  <2> SUFFICES ASSUME NEW u \in Threads PROVE ThreadOK(u)'
    BY DEF StackOK
  <2> QED
    BY KeptStays DEF Inv, StepOf, OthersKeep, OthersKeepStacks
<1>3. AnswersOK'
  <2> SUFFICES ASSUME NEW u \in Threads PROVE HasAnswer(u)'
    BY DEF AnswersOK
  <2> QED
    BY KeptHasAnswer DEF Inv, StepOf, OthersKeep, OthersKeepStacks
<1>4. DeferredIsUnsound'
  <2>1. \A c \in Classes : Sound(c)' <=> Sound(c)
    BY SameWorld DEF Grows
  <2> QED
    BY <2>1 DEF Inv, DeferredIsUnsound, TableOK
<1>5. VersionsArePassing'
  <2> SUFFICES ASSUME NEW c \in Classes \ {ObjectName, ClassName, ArrayBase},
                      deferred'[c] = "version"
               PROVE  \E u \in Threads : WillDefer(u, c)'
    BY DEF VersionsArePassing
  <2>1. CASE WillDefer(t, c)'
    BY <2>1
  <2>2. CASE deferred[c] = "version" /\ ~ WillDefer(t, c)
    <3>1. PICK u \in Threads : WillDefer(u, c)
      BY <2>2 DEF Inv, VersionsArePassing
    <3>2. stack'[u] = stack[u] /\ ret'[u] = ret[u] /\ api'[u] = api[u] /\ world' = world
      BY <2>2, <3>1 DEF StepOf, OthersKeep, OthersKeepStacks, Grows
    <3>3. WillDefer(u, c)'
      BY <3>1, <3>2, SameWorld DEF WillDefer, Top, Last, Waiting, Idle
    <3> QED
      BY <3>3
  <2> QED
    BY <2>1, <2>2
<1> QED
  BY <1>1, <1>2, <1>3, <1>4, <1>5 DEF Inv

-----------------------------------------------------------------------------
(* Every action keeps the invariant.                                       *)

LEMMA TablesKept ==
  ASSUME Inv, UNCHANGED << world, table, objs >>
  PROVE  /\ Grows /\ TableOK'
         /\ table' \in [Names -> 0 .. Len(objs')] /\ objs' \in Seq(Objects(Len(objs')))
         /\ Len(objs) \in Nat /\ Len(objs') = Len(objs)
<1>1. Len(objs) \in Nat /\ objs' = objs /\ world' = world /\ table' = table
  BY DEF Inv, WellTyped
<1>2. Grows
  BY <1>1 DEF Grows
<1>3. TableOK'
  BY <1>1, SameWorld DEF Inv, TableOK
<1> QED
  BY <1>1, <1>2, <1>3 DEF Inv, WellTyped, Ids

\* A step that neither defers anything nor leaves an exception to be deferred.
LEMMA NothingDeferred ==
  ASSUME Inv, Grows, NEW t \in Threads, StepOf(t), stack[t] # << >>, TableOK',
         table' \in [Names -> 0 .. Len(objs')], objs' \in Seq(Objects(Len(objs'))),
         UNCHANGED << api, deferred >>,
         Top(t).how \in Loaders => ~ Waiting(Top(t))
  PROVE  Inv'
<1>1. \A c : ~ WillDefer(t, c)
  BY DEF WillDefer
<1>2. api' \in [Threads -> Calls \cup {NIL}] /\ deferred' \in [Classes -> Flaws]
  BY DEF Inv, WellTyped
<1> QED
  BY <1>1, <1>2, Assembled

LEMMA BeginKeeps ==
  ASSUME Inv, NEW t \in Threads, NEW call \in {"file", "jar", "array"}, NEW name \in Names,
         NEW a \in Acts(Len(objs)), ActOK(a), a.how = HowOf[call], a.name = name, ~ Waiting(a),
         Begin(t, call, name, a)
  PROVE  Inv'
<1>1. /\ api' = [api EXCEPT ![t] = [call |-> call, name |-> name]]
      /\ stack' = [stack EXCEPT ![t] = << a >>]
      /\ UNCHANGED << world, table, objs, deferred, ret, crashed >> /\ Idle(t)
  BY DEF Begin
<1>2. /\ Grows /\ TableOK' /\ WellTyped
      /\ table' \in [Names -> 0 .. Len(objs')] /\ objs' \in Seq(Objects(Len(objs')))
  BY <1>1, TablesKept DEF Inv
<1>3. [call |-> call, name |-> name] \in Calls
  BY DEF Calls
<1>4. /\ api' \in [Threads -> Calls \cup {NIL}] /\ api'[t] = [call |-> call, name |-> name]
      /\ \A u \in Threads \ {t} : api'[u] = api[u]
  BY <1>1, <1>2, <1>3 DEF WellTyped
<1>5. << a >> \in Seq(Acts(Len(objs')))
  BY <1>1
<1>6. stack' \in Stacks(Len(objs')) /\ OthersKeepStacks(t) /\ stack'[t] = << a >>
  BY <1>1, <1>2, <1>5, StackChanged
<1>7. ThreadOK(t)'
  <2>1. stack'[t] # << >> /\ Len(stack'[t]) = 1 /\ stack'[t][1] = a
    BY <1>6
  <2>2. ~ Idle(t)'
    BY <1>3, <1>4, LoaderAssumption DEF Idle
  <2>3. ActOK(a)'
    BY <1>2, SameWorld DEF Grows
  <2>4. \A i \in 1 .. 1 : i = 1
    OBVIOUS
  <2>5. 1 .. 1 - 1 = {}
    OBVIOUS
  <2>6. \A i \in 1 .. Len(stack'[t]) : ActOK(stack[t][i])' /\ Registered(stack[t][i])'
    <3>1. Registered(a)'
      BY DEF Registered, Waiting
    <3> QED
      BY <2>1, <2>3, <2>4, <3>1
  <2> QED
    BY <1>4, <2>1, <2>2, <2>5, <2>6 DEF ThreadOK
<1>8. HasAnswer(t)'
  <2>1. stack'[t] # << >> /\ Top(t)' = a
    BY <1>6 DEF Top, Last
  <2> QED
    BY <2>1 DEF HasAnswer, Waiting
<1>9. StepOf(t)
  BY <1>1, <1>2, <1>4, <1>6, <1>7, <1>8, TypesGrow DEF StepOf, OthersKeep
<1>10. \A c : ~ WillDefer(t, c)
  BY <1>1 DEF Inv, StackOK, ThreadOK, WillDefer
<1>11. deferred' \in [Classes -> Flaws]
  BY <1>1, <1>2 DEF WellTyped
<1> QED
  BY <1>1, <1>2, <1>4, <1>9, <1>10, <1>11, Assembled

LEMMA FromFileKeeps ==
  ASSUME Inv, NEW t \in Threads, NEW c \in Classes, FromFile(t, c)
  PROVE  Inv'
<1>1. Load(c, "name") \in Acts(Len(objs)) /\ ActOK(Load(c, "name"))
  BY LoadIsAct DEF Inv, WellTyped, Loaders
<1>2. /\ Load(c, "name").how = HowOf["file"] /\ Load(c, "name").name = c
      /\ ~ Waiting(Load(c, "name"))
  BY DEF Load, HowOf, Waiting
<1> QED
  BY <1>1, <1>2, BeginKeeps DEF FromFile, Names

LEMMA FromJarKeeps ==
  ASSUME Inv, NEW t \in Threads, NEW c \in Classes, FromJar(t, c)
  PROVE  Inv'
<1>1. Load(c, "bytes") \in Acts(Len(objs)) /\ ActOK(Load(c, "bytes"))
  BY LoadIsAct DEF Inv, WellTyped, Loaders
<1>2. /\ Load(c, "bytes").how = HowOf["jar"] /\ Load(c, "bytes").name = c
      /\ ~ Waiting(Load(c, "bytes"))
  BY DEF Load, HowOf, Waiting
<1> QED
  BY <1>1, <1>2, BeginKeeps DEF FromJar, Names

LEMMA ArrayClassKeeps ==
  ASSUME Inv, NEW t \in Threads, ArrayClass(t)
  PROVE  Inv'
<1>1. MakeArray \in Acts(Len(objs)) /\ ActOK(MakeArray)
  <2>1. ArrayNeeds \in Seq(Classes) /\ Len(objs) \in Nat
    BY LoaderAssumption DEF ArrayNeeds, Inv, WellTyped
  <2>2. MakeArray \in ArrayActs(Len(objs))
    BY <2>1 DEF MakeArray, ArrayActs, ArrayNeeds, Steps
  <2>3. ActOK(MakeArray)
    BY DEF MakeArray, ActOK, ArrayNeeds, Loaders
  <2> QED
    BY <2>2, <2>3 DEF Acts
<1>2. /\ MakeArray.how = HowOf["array"] /\ MakeArray.name = ArrayName
      /\ ~ Waiting(MakeArray)
  BY DEF MakeArray, HowOf, Waiting
<1> QED
  BY <1>1, <1>2, BeginKeeps DEF ArrayClass, Names

LEMMA AnswerKeeps ==
  ASSUME Inv, NEW t \in Threads, Answer(t)
  PROVE  Inv'
<1>1. /\ stack[t] = << >> /\ ~ Idle(t)
      /\ api' = [api EXCEPT ![t] = NIL] /\ ret' = [ret EXCEPT ![t] = 0]
      /\ UNCHANGED << world, table, objs, stack, crashed >>
  BY DEF Answer
<1>2. /\ Grows /\ TableOK' /\ WellTyped
      /\ table' \in [Names -> 0 .. Len(objs')] /\ objs' \in Seq(Objects(Len(objs')))
  BY <1>1, TablesKept DEF Inv
<1>3. /\ api' \in [Threads -> Calls \cup {NIL}] /\ api'[t] = NIL
      /\ \A u \in Threads \ {t} : api'[u] = api[u] /\ ret'[u] = ret[u]
      /\ ret' \in [Threads -> 0 .. Len(objs')]
  BY <1>1, <1>2, TypesGrow DEF WellTyped
<1>4. ThreadOK(t)'
  BY <1>1 DEF ThreadOK
<1>5. HasAnswer(t)'
  BY <1>1, <1>3 DEF HasAnswer, Idle
<1>6. StepOf(t)
  BY <1>1, <1>2, <1>3, <1>4, <1>5, TypesGrow DEF StepOf, OthersKeep, OthersKeepStacks
<1> DEFINE c == api[t].name
<1>7. CASE api[t].call \in {"file", "init"} /\ ret[t] = 0
  <2>1. deferred' = [deferred EXCEPT ![c] = "format"]
    BY <1>7 DEF Answer, AfterLoadClass, Defer
  <2>2. ~ Sound(c)
    BY <1>1, <1>7 DEF Inv, AnswersOK, HasAnswer, Answered
  <2>3. deferred' \in [Classes -> Flaws]
    BY <1>2, <2>1 DEF WellTyped, Flaws
  <2>4. \A d \in Classes : deferred'[d] # "none" => deferred[d] # "none" \/ ~ Sound(d)
    BY <1>2, <2>1, <2>2 DEF WellTyped
  <2>5. \A d \in Classes : deferred'[d] = "version" => deferred[d] = "version" /\ ~ WillDefer(t, d)
    BY <1>1, <1>2, <2>1 DEF WellTyped, WillDefer
  <2> QED
    BY <1>2, <1>3, <1>6, <2>3, <2>4, <2>5, Assembled
<1>8. CASE ~ (api[t].call \in {"file", "init"} /\ ret[t] = 0)
  <2>1. deferred' = deferred
    BY <1>8 DEF Answer, AfterLoadClass
  <2>2. \A d : ~ WillDefer(t, d)
    BY <1>1, <1>8 DEF WillDefer
  <2>3. deferred' \in [Classes -> Flaws]
    BY <1>2, <2>1 DEF WellTyped
  <2> QED
    BY <1>2, <1>3, <1>6, <2>1, <2>2, <2>3, Assembled
<1> QED
  BY <1>7, <1>8

LEMMA LoaderTop ==
  ASSUME Inv, NEW t \in Threads, stack[t] # << >>, Top(t).how \in Loaders
  PROVE  /\ Top(t) \in LoaderActs(Len(objs)) /\ ActOK(Top(t))
         /\ Len(objs) \in Nat /\ Top(t).name \in Classes /\ Top(t).how # "array"
         /\ Top(t).step \in Steps
<1>1. Len(objs) \in Nat /\ Top(t) \in Acts(Len(objs)) /\ ActOK(Top(t))
  BY TopIs DEF Inv
<1>2. Top(t) \in LoaderActs(Len(objs))
  BY <1>1, KindOfAct
<1> QED
  BY <1>1, <1>2 DEF LoaderActs, Loaders

LEMMA ArrayTop ==
  ASSUME Inv, NEW t \in Threads, stack[t] # << >>, Top(t).how = "array"
  PROVE  /\ Top(t) \in ArrayActs(Len(objs)) /\ ActOK(Top(t))
         /\ Len(objs) \in Nat /\ Top(t).name = ArrayName /\ Top(t).how \notin Loaders
<1>1. Len(objs) \in Nat /\ Top(t) \in Acts(Len(objs)) /\ ActOK(Top(t))
  BY TopIs DEF Inv
<1>2. Top(t).how \notin Loaders
  BY DEF Loaders
<1>3. Top(t) \in ArrayActs(Len(objs))
  BY <1>1, <1>2, KindOfAct
<1> QED
  BY <1>1, <1>2, <1>3 DEF ArrayActs

LEMMA FoundKeeps ==
  ASSUME Inv, NEW t \in Threads, Found(t)
  PROVE  Inv'
<1> DEFINE c == Top(t).name
           o == table[c]
<1>1. /\ stack[t] # << >> /\ Top(t).step = "start" /\ o # 0
      /\ Return(t, o) /\ api' = api /\ deferred' = deferred
      /\ UNCHANGED << world, table, objs >>
  BY DEF Found, At, Active
<1>2. /\ Grows /\ TableOK' /\ WellTyped /\ StackOK /\ AnswersOK /\ TableOK
      /\ table' \in [Names -> 0 .. Len(objs')] /\ objs' \in Seq(Objects(Len(objs')))
      /\ objs' = objs /\ table' = table
  BY <1>1, TablesKept DEF Inv
<1>3. c \in Names
  <2>1. Top(t) \in Acts(Len(objs)) /\ Len(objs) \in Nat
    BY <1>1, <1>2, TopIs
  <2> QED
    BY <2>1 DEF Acts, LoaderActs, ArrayActs, Names
<1>4. o \in 0 .. Len(objs')
  BY <1>2, <1>3
<1>5. PICK n : n = c
  OBVIOUS
<1>6. ret'[t] = o
  BY <1>1, <1>2 DEF Return, WellTyped
<1>7. objs[o].name = c
  BY <1>1, <1>2, <1>3 DEF TableOK
<1>8. Answered(t, n)'
  BY <1>1, <1>2, <1>5, <1>6, <1>7 DEF Answered
<1>9. StepOf(t)
  BY <1>1, <1>2, <1>4, <1>5, <1>8, Returned
<1> QED
  BY <1>1, <1>2, <1>9, NothingDeferred DEF Waiting

\* An answer given to an activation: a thread whose innermost call has come back
\* with 0 will defer an exception, unless it is an array that waits.
LEMMA RefusedWillDefer ==
  ASSUME Inv, NEW t \in Threads, stack[t] # << >>, Top(t).how = "name", world' = world,
         Popped(stack[t], stack'[t]), api'[t] = api[t], ret'[t] = 0,
         NEW c \in Classes \ {ObjectName, ClassName, ArrayBase}, c = Top(t).name
  PROVE  WillDefer(t, c)'
<1> DEFINE s == stack[t]
           n == Len(stack[t])
<1>1. /\ n \in Nat /\ n >= 1 /\ Top(t) = s[n] /\ s \in Seq(Acts(Len(objs)))
      /\ Len(objs) \in Nat /\ ThreadOK(t)
  BY TopIs DEF Inv, StackOK
<1>2. CASE n = 1
  <2>1. stack'[t] = << >>
    BY <1>2 DEF Popped
  <2>2. ~ Idle(t) /\ Top(t).how = HowOf[api[t].call] /\ Top(t).name = api[t].name
    BY <1>1, <1>2 DEF ThreadOK
  <2>3. api[t].call \in {"init", "file"}
    BY <2>2, ApiName DEF HowOf, Inv
  <2> QED
    BY <2>1, <2>2, <2>3 DEF WillDefer, Idle
<1>3. CASE n # 1
  <2> DEFINE a == s[n - 1]
  <2>1. n - 1 \in 1 .. n - 1 /\ n - 1 + 1 = n /\ n > 1 /\ n - 1 \in 1 .. n
    <3>1. \A m \in Nat : m >= 1 /\ m # 1 =>
            m - 1 \in 1 .. m - 1 /\ m - 1 + 1 = m /\ m > 1 /\ m - 1 \in 1 .. m
      OBVIOUS
    <3> QED
      BY <1>1, <1>3, <3>1, Zenon
  <2>2. Waiting(a) /\ s[n].name = Wanted(a) /\ ActOK(a)
    BY <1>1, <2>1 DEF ThreadOK
  <2>3. stack'[t] # << >> /\ Top(t)' = a
    BY <2>1 DEF Popped, Top
  <2>4. a \in Acts(Len(objs))
    BY <1>1, <2>1
  <2>5. a.how \in Loaders
    <3>1. SUFFICES ASSUME a.how \notin Loaders PROVE FALSE
      OBVIOUS
    <3>2. a.how = "array" /\ a \in ArrayActs(Len(objs))
      BY <1>1, <2>4, <3>1, KindOfAct
    <3>3. a.step = "needs" /\ a.left \in Seq(Classes)
      BY <2>2, <3>2 DEF Waiting, ArrayActs
    <3>4. a.left # << >> /\ IsRestOf(a.left, ArrayNeeds)
      BY <2>2, <3>2, <3>3 DEF ActOK
    <3>5. ArrayNeeds \in Seq(Classes) /\ Len(ArrayNeeds) = 3
      BY LoaderAssumption DEF ArrayNeeds
    <3>6. \E i \in 1 .. 3 : Head(a.left) = ArrayNeeds[i]
      <4>1. PICK l : l = a.left
        OBVIOUS
      <4>2. l \in Seq(Classes) /\ l # << >> /\ IsRestOf(l, ArrayNeeds)
        BY <3>3, <3>4, <4>1
      <4>3. PICK full \in Seq(Classes) : full = ArrayNeeds
        BY <3>5
      <4>4. IsRestOf(l, full)
        BY <4>2, <4>3
      <4>5. PICK i \in 1 .. Len(full) : Head(l) = full[i]
        BY <4>2, <4>4, RestOf
      <4>6. i \in 1 .. 3
        BY <3>5, <4>3
      <4> QED
        BY <4>1, <4>3, <4>5, <4>6
    <3>8. \A i \in 1 .. 3 : ArrayNeeds[i] \in {ObjectName, ClassName, ArrayBase}
      BY DEF ArrayNeeds
    <3>9. Wanted(a) = Head(a.left)
      BY <3>2, <3>3 DEF Wanted
    <3> QED
      BY <1>1, <2>2, <3>6, <3>8, <3>9
  <2>6. Wanted(Top(t))' = Wanted(a)
    BY <2>3, SameWorld
  <2> QED
    BY <1>1, <2>2, <2>3, <2>5, <2>6 DEF WillDefer
<1> QED
  BY <1>2, <1>3

LEMMA RefuseKeeps ==
  ASSUME Inv, NEW t \in Threads, Refuse(t)
  PROVE  Inv'
<1>0. PICK c : c = Top(t).name
  OBVIOUS
<1>1. /\ stack[t] # << >> /\ Top(t).how \in Loaders /\ Top(t).step = "start"
      /\ ~ Sound(c) /\ Return(t, 0) /\ api' = api
      /\ UNCHANGED << world, table, objs >>
  BY <1>0 DEF Refuse, MustLoad, At, Active
<1>2. /\ Grows /\ TableOK' /\ WellTyped /\ StackOK /\ AnswersOK
      /\ table' \in [Names -> 0 .. Len(objs')] /\ objs' \in Seq(Objects(Len(objs')))
      /\ Len(objs) \in Nat /\ Len(objs') = Len(objs)
  BY <1>1, TablesKept DEF Inv
<1>3. c \in Classes
  BY <1>0, <1>1, LoaderTop
<1>4. ret'[t] = 0 /\ 0 \in 0 .. Len(objs') /\ world' = world
  BY <1>1, <1>2 DEF Return, WellTyped
<1>5. Answered(t, c)'
  BY <1>1, <1>4, SameWorld DEF Answered
<1>6. StepOf(t)
  BY <1>0, <1>1, <1>2, <1>4, <1>5, Returned
<1>7. \A d : ~ WillDefer(t, d)
  BY <1>1 DEF WillDefer, Waiting
<1>8. api' \in [Threads -> Calls \cup {NIL}]
  BY <1>1, <1>2 DEF WellTyped
<1>9. CASE Top(t).how = "bytes"
  <2>1. deferred' = deferred
    BY <1>9 DEF Refuse
  <2> QED
    BY <1>2, <1>6, <1>7, <1>8, <2>1, Assembled DEF WellTyped
<1>10. CASE Top(t).how # "bytes"
  <2>1. PICK e \in Flaws : deferred' = [deferred EXCEPT ![c] = e]
    <3>1. world.flaw[c] \in Flaws
      BY <1>2, <1>3, LoaderAssumption DEF WellTyped
    <3> QED
      BY <1>0, <1>10, <3>1 DEF Refuse, Defer, Flaws
  <2>2. deferred' \in [Classes -> Flaws]
    BY <1>2, <2>1 DEF WellTyped
  <2>3. \A d \in Classes : deferred'[d] # "none" => deferred[d] # "none" \/ ~ Sound(d)
    BY <1>1, <1>2, <2>1 DEF WellTyped
  <2>4. ASSUME NEW d \in Classes \ {ObjectName, ClassName, ArrayBase}, d = c
        PROVE  WillDefer(t, d)'
    <3>1. Top(t).how = "name"
      BY <1>1, <1>10 DEF Loaders
    <3>2. Popped(stack[t], stack'[t])
      BY <1>1, <1>2, ReturnShape DEF Return
    <3> QED
      BY <1>0, <1>1, <1>4, <2>4, <3>1, <3>2, RefusedWillDefer
  <2>5. \A d \in Classes \ {ObjectName, ClassName, ArrayBase} : deferred'[d] = "version" =>
           (deferred[d] = "version" /\ ~ WillDefer(t, d)) \/ WillDefer(t, d)'
    BY <1>2, <1>7, <2>1, <2>4 DEF WellTyped
  <2> QED
    BY <1>2, <1>6, <1>8, <2>2, <2>3, <2>5, Assembled
<1> QED
  BY <1>9, <1>10

LEMMA ParseKeeps ==
  ASSUME Inv, NEW t \in Threads, Parse(t)
  PROVE  Inv'
<1> DEFINE a == Top(t)
<1>0. PICK s : s = world.super[a.name]
  OBVIOUS
<1>1. /\ stack[t] # << >> /\ a.how \in Loaders /\ a.step = "start" /\ Sound(a.name)
      /\ UNCHANGED << world, table, objs, deferred, api >>
  BY DEF Parse, MustLoad, At, Active
<1>2. /\ Grows /\ TableOK' /\ WellTyped /\ StackOK /\ AnswersOK
      /\ table' \in [Names -> 0 .. Len(objs')] /\ objs' \in Seq(Objects(Len(objs')))
      /\ Len(objs) \in Nat /\ Len(objs') = Len(objs)
  BY <1>1, TablesKept DEF Inv
<1>3. a \in LoaderActs(Len(objs')) /\ a.name \in Classes /\ ActOK(a) /\ a.how # "array"
  BY <1>1, <1>2, LoaderTop
<1>4. CASE s = NIL
  <2>1. PICK b : b = [a EXCEPT !.step = "create"]
    OBVIOUS
  <2>2. b \in LoaderActs(Len(objs')) /\ b.how = a.how /\ b.name = a.name /\ b.step = "create"
        /\ b.left = a.left
    BY <1>3, <2>1 DEF LoaderActs, Steps
  <2>3. ActOK(b) /\ Registered(b)' /\ ~ Waiting(b)
    BY <1>1, <1>3, <2>2 DEF ActOK, Registered, Waiting
  <2>4. GoTo(t, b)
    BY <1>0, <1>4, <2>1 DEF Parse
  <2>5. StepOf(t)
    BY <1>1, <1>2, <2>2, <2>3, <2>4, WentTo DEF Acts
  <2> QED
    BY <1>1, <1>2, <2>5, NothingDeferred DEF Waiting
<1>5. CASE s # NIL
  <2>1. PICK b : b = [a EXCEPT !.step = "super"]
    OBVIOUS
  <2>2. b \in LoaderActs(Len(objs')) /\ b.how = a.how /\ b.name = a.name /\ b.step = "super"
        /\ b.left = a.left
    BY <1>3, <2>1 DEF LoaderActs, Steps
  <2>3. ActOK(b) /\ Registered(b)' /\ Waiting(b)
    BY <1>0, <1>1, <1>3, <1>5, <2>2 DEF ActOK, Registered, Waiting, NoSuper
  <2>4. CallFrom(t, b, s)
    BY <1>0, <1>5, <2>1 DEF Parse
  <2>5. s = Wanted(b) /\ s \in Classes
    <3>1. s = Wanted(b)
      BY <1>0, <2>2 DEF Wanted
    <3> QED
      BY <1>2, <2>2, <2>3, <3>1, WantedIsClass DEF Acts, WellTyped
  <2>6. StepOf(t)
    BY <1>1, <1>2, <2>2, <2>3, <2>4, <2>5, Called DEF Acts
  <2> QED
    BY <1>1, <1>2, <2>6, NothingDeferred DEF Waiting
<1> QED
  BY <1>4, <1>5

\* JvmLoadClass is back: what it defers is a format error of a class that cannot
\* be loaded, and nothing is left for t to defer.
LEMMA DeferredAgain ==
  ASSUME Inv, Grows, NEW t \in Threads, StepOf(t), stack[t] # << >>, TableOK',
         table' \in [Names -> 0 .. Len(objs')], objs' \in Seq(Objects(Len(objs'))),
         api' = api, Top(t).how \in Loaders, Waiting(Top(t)),
         NEW c \in Classes, c = Wanted(Top(t)), AfterLoadClass(t, c)
  PROVE  Inv'
<1>1. api' \in [Threads -> Calls \cup {NIL}] /\ deferred \in [Classes -> Flaws]
  BY DEF Inv, WellTyped
<1>2. \A d : WillDefer(t, d) => ret[t] = 0 /\ d = c
  BY DEF WillDefer
<1>3. CASE ret[t] = 0
  <2>1. deferred' = [deferred EXCEPT ![c] = "format"]
    BY <1>3 DEF AfterLoadClass, Defer
  <2>2. ~ Sound(c)
    BY <1>3 DEF Inv, AnswersOK, HasAnswer, Answered
  <2>3. deferred' \in [Classes -> Flaws]
    BY <1>1, <2>1 DEF Flaws
  <2>4. \A d \in Classes : deferred'[d] # "none" => deferred[d] # "none" \/ ~ Sound(d)
    BY <1>1, <2>1, <2>2
  <2>5. \A d \in Classes : deferred'[d] = "version" => deferred[d] = "version" /\ ~ WillDefer(t, d)
    BY <1>1, <1>2, <2>1
  <2> QED
    BY <1>1, <2>3, <2>4, <2>5, Assembled
<1>4. CASE ret[t] # 0
  <2>1. deferred' = deferred
    BY <1>4 DEF AfterLoadClass
  <2> QED
    BY <1>1, <1>2, <1>4, <2>1, Assembled
<1> QED
  BY <1>3, <1>4

LEMMA LinkSuperKeeps ==
  ASSUME Inv, NEW t \in Threads, LinkSuper(t)
  PROVE  Inv'
<1> DEFINE a == Top(t)
<1>0. PICK s : s = world.super[a.name]
  OBVIOUS
<1>1. /\ stack[t] # << >> /\ a.how \in Loaders /\ a.step = "super"
      /\ AfterLoadClass(t, s)
      /\ UNCHANGED << world, table, objs, api >>
  BY <1>0 DEF LinkSuper, At, Active
<1>2. /\ Grows /\ TableOK' /\ WellTyped /\ StackOK /\ AnswersOK
      /\ table' \in [Names -> 0 .. Len(objs')] /\ objs' \in Seq(Objects(Len(objs')))
      /\ Len(objs) \in Nat /\ Len(objs') = Len(objs)
  BY <1>1, TablesKept DEF Inv
<1>3. a \in LoaderActs(Len(objs')) /\ a.name \in Classes /\ ActOK(a) /\ a.how # "array"
  BY <1>1, <1>2, LoaderTop
<1>4. s = Wanted(a) /\ s \in Classes /\ Waiting(a)
  <2>1. s = Wanted(a) /\ Waiting(a)
    BY <1>0, <1>1 DEF Wanted, Waiting
  <2> QED
    BY <1>2, <1>3, <2>1, WantedIsClass DEF Acts, WellTyped
<1>5. table[s] \in 0 .. Len(objs')
  BY <1>2, <1>4 DEF WellTyped, Ids, Names
<1>6. PICK b : b = [a EXCEPT !.super = table[s], !.step = "create"]
  OBVIOUS
<1>7. b \in LoaderActs(Len(objs')) /\ b.how = a.how /\ b.name = a.name /\ b.step = "create"
      /\ b.left = a.left
  BY <1>3, <1>5, <1>6 DEF LoaderActs, Steps
<1>8. ActOK(b) /\ Registered(b)' /\ ~ Waiting(b)
  BY <1>1, <1>3, <1>7 DEF ActOK, Registered, Waiting
<1>9. GoTo(t, b)
  BY <1>0, <1>6 DEF LinkSuper
<1>10. StepOf(t)
  BY <1>1, <1>2, <1>7, <1>8, <1>9, WentTo DEF Acts
<1> QED
  BY <1>1, <1>2, <1>4, <1>10, DeferredAgain

\* A class object is made and registered.
LEMMA Registers ==
  ASSUME Inv, NEW c \in Names, c \in Classes => Sound(c),
         NEW o \in Objects(Len(objs) + 1), o.name = c, world' = world,
         objs' = Append(objs, o), table' = [table EXCEPT ![c] = NewId]
  PROVE  /\ Grows /\ TableOK' /\ NewId # 0 /\ NewId = Len(objs')
         /\ table' \in [Names -> 0 .. Len(objs')] /\ objs' \in Seq(Objects(Len(objs')))
         /\ table'[c] = NewId /\ objs'[NewId] = o
         /\ \A i \in 1 .. Len(objs) : objs'[i] = objs[i]
         /\ Len(objs) \in Nat /\ Len(objs') = Len(objs) + 1
<1>1. /\ Len(objs) \in Nat /\ objs \in Seq(Objects(Len(objs)))
      /\ table \in [Names -> 0 .. Len(objs)]
  BY DEF Inv, WellTyped, Ids
<1>2. PICK n \in Nat : n = Len(objs)
  BY <1>1
<1>3. Objects(n) \subseteq Objects(n + 1)
  BY ActsGrow
<1>4. objs \in Seq(Objects(n + 1))
  BY <1>1, <1>2, <1>3
<1>5. /\ objs' \in Seq(Objects(n + 1)) /\ Len(objs') = n + 1
      /\ objs'[n + 1] = o /\ \A i \in 1 .. n : objs'[i] = objs[i]
  BY <1>2, <1>4
<1>6. NewId = n + 1
  BY <1>2 DEF NewId
<1>7. /\ table' \in [Names -> 0 .. n + 1] /\ table'[c] = n + 1
      /\ \A d \in Names \ {c} : table'[d] = table[d]
  BY <1>1, <1>2, <1>6
<1>8. Grows
  BY <1>2, <1>5, <1>7 DEF Grows
<1>9. TableOK'
  <2>1. \A d \in Names : table'[d] # 0 => objs'[table'[d]].name = d
    BY <1>1, <1>2, <1>5, <1>7 DEF Inv, TableOK
  <2>2. \A d \in Classes : table'[d] # 0 => Sound(d)'
    BY <1>7, SameWorld DEF Inv, TableOK, Names
  <2>3. \A i \in 1 .. Len(objs') : objs'[i].name \in Classes => Sound(objs'[i].name)
    BY <1>2, <1>5 DEF Inv, TableOK
  <2> QED
    BY <2>1, <2>2, <2>3, SameWorld DEF TableOK
<1> QED
  BY <1>2, <1>5, <1>6, <1>7, <1>8, <1>9

\* A link of class object o is set.
LinkKept(o, need) ==
  /\ Grows /\ TableOK' /\ Len(objs') = Len(objs)
  /\ table' \in [Names -> 0 .. Len(objs')] /\ objs' \in Seq(Objects(Len(objs')))

LEMMA LinkKeeps ==
  ASSUME Inv, NEW o \in 1 .. Len(objs), NEW need \in Need, objs' = Linked(o, need),
         world' = world, table' = table
  PROVE  LinkKept(o, need)
<1>1. /\ Len(objs) \in Nat /\ objs \in Seq(Objects(Len(objs)))
      /\ table \in [Names -> 0 .. Len(objs)]
  BY DEF Inv, WellTyped, Ids
<1>2. PICK n \in Nat : n = Len(objs)
  BY <1>1
<1>3. PICK l \in 0 .. n : l = table[need.name]
  BY <1>1, <1>2 DEF Need, Names
<1>4. objs[o] \in Objects(n) /\ o \in 1 .. n
  BY <1>1, <1>2
<1>5. PICK x \in Objects(n) : x.name = objs[o].name /\ objs' = [objs EXCEPT ![o] = x]
  <2>1. CASE need.role = "intfs"
    <3>1. Append(objs[o].intfs, l) \in Seq(0 .. n)
      BY <1>4 DEF Objects
    <3>2. PICK x : x = [objs[o] EXCEPT !.intfs = Append(objs[o].intfs, l)]
      OBVIOUS
    <3>3. x \in Objects(n) /\ x.name = objs[o].name
      BY <1>4, <3>1, <3>2 DEF Objects
    <3>4. objs' = [objs EXCEPT ![o] = x]
      BY <1>1, <1>3, <2>1, <3>2 DEF Linked
    <3> QED
      BY <3>3, <3>4
  <2>2. CASE need.role = "object"
    <3>1. PICK x : x = [objs[o] EXCEPT !.object = l]
      OBVIOUS
    <3>2. x \in Objects(n) /\ x.name = objs[o].name
      BY <1>4, <3>1 DEF Objects
    <3>3. objs' = [objs EXCEPT ![o] = x]
      BY <1>1, <1>3, <2>2, <3>1 DEF Linked
    <3> QED
      BY <3>2, <3>3
  <2>3. CASE need.role = "class"
    <3>1. PICK x : x = [objs[o] EXCEPT !.class = l]
      OBVIOUS
    <3>2. x \in Objects(n) /\ x.name = objs[o].name
      BY <1>4, <3>1 DEF Objects
    <3>3. objs' = [objs EXCEPT ![o] = x]
      BY <1>1, <1>3, <2>3, <3>1 DEF Linked
    <3> QED
      BY <3>2, <3>3
  <2> QED
    BY <2>1, <2>2, <2>3 DEF Need, Roles
<1>6. /\ objs' \in Seq(Objects(n)) /\ Len(objs') = n
      /\ \A i \in 1 .. n : objs'[i].name = objs[i].name
  BY <1>1, <1>2, <1>4, <1>5
<1>7. Grows
  BY <1>2, <1>6 DEF Grows
<1>8. TableOK'
  <2>1. \A c \in Names : table[c] # 0 => table[c] \in 1 .. n
    BY <1>1, <1>2
  <2> QED
    BY <1>2, <1>6, <2>1, SameWorld DEF Inv, TableOK
<1> QED
  BY <1>1, <1>2, <1>6, <1>7, <1>8 DEF LinkKept

LEMMA CreateKeeps ==
  ASSUME Inv, NEW t \in Threads, Create(t)
  PROVE  Inv'
<1> DEFINE a == Top(t)
<1>1. /\ stack[t] # << >> /\ a.how \in Loaders /\ a.step = "create"
      /\ objs' = Append(objs, NewObject(t, a))
      /\ table' = [table EXCEPT ![a.name] = NewId]
      /\ UNCHANGED << world, deferred, api >>
  BY DEF Create, At, Active
<1>2. /\ WellTyped /\ StackOK /\ AnswersOK /\ Len(objs) \in Nat
      /\ a \in LoaderActs(Len(objs)) /\ a.name \in Classes /\ ActOK(a) /\ a.how # "array"
  BY <1>1, LoaderTop DEF Inv
<1>3. Sound(a.name) /\ a.left = Needs(a.name)
  BY <1>1, <1>2 DEF ActOK
<1>4. NewObject(t, a) \in Objects(Len(objs) + 1) /\ NewObject(t, a).name = a.name
  BY <1>2 DEF NewObject, Objects, LoaderActs, Names
<1>5. /\ Grows /\ TableOK' /\ NewId # 0 /\ NewId = Len(objs')
      /\ table' \in [Names -> 0 .. Len(objs')] /\ objs' \in Seq(Objects(Len(objs')))
      /\ table'[a.name] = NewId /\ objs'[NewId] = NewObject(t, a)
      /\ Len(objs') = Len(objs) + 1
  BY <1>1, <1>2, <1>3, <1>4, Registers DEF Names
<1>6. PICK b : b = [a EXCEPT !.obj = NewId, !.step = "needs"]
  OBVIOUS
<1>7. /\ b \in LoaderActs(Len(objs')) /\ b.how = a.how /\ b.name = a.name /\ b.step = "needs"
      /\ b.left = a.left /\ b.obj = NewId
  <2>1. a \in LoaderActs(Len(objs')) /\ NewId \in 0 .. Len(objs')
    BY <1>2, <1>5, ActsGrow
  <2> HIDE DEF a
  <2> QED
    BY <1>6, <2>1 DEF LoaderActs, Steps
<1>8. Registered(b)'
  BY <1>4, <1>5, <1>7 DEF Registered
<1>9. ActOK(b) /\ Waiting(b)
  <2>1. Needs(a.name) \in Seq(Need) /\ Len(Needs(a.name)) >= 1
    <3>1. PICK n \in Classes : n = a.name
      BY <1>2
    <3>2. /\ world.intfs[n] \in Seq(Classes) /\ Needs(n) \in Seq(Need)
          /\ Len(Needs(n)) = Len(world.intfs[n])
               + (IF n = ObjectName THEN 0 ELSE 1) + (IF n = ClassName THEN 0 ELSE 1)
      BY <1>2, <3>1, NeedsOf DEF WellTyped
    <3>3. n # ObjectName \/ n # ClassName
      BY LoaderAssumption
    <3>4. Len(world.intfs[n]) \in Nat
      BY <3>2
    <3>5. Len(Needs(n)) >= 1
      <4>1. PICK x \in {0, 1} : x = IF n = ObjectName THEN 0 ELSE 1
        OBVIOUS
      <4>2. PICK y \in {0, 1} : y = IF n = ClassName THEN 0 ELSE 1
        OBVIOUS
      <4>3. PICK k \in Nat : k = Len(world.intfs[n])
        BY <3>4
      <4>4. Len(Needs(n)) = k + x + y /\ (x = 1 \/ y = 1)
        BY <3>2, <3>3, <4>1, <4>2, <4>3, Zenon
      <4>5. k + x + y >= 1
        BY <4>4
      <4> QED
        BY <4>4, <4>5, Zenon
    <3> QED
      BY <3>1, <3>2, <3>5
  <2>2. b.left # << >> /\ IsRestOf(b.left, Needs(b.name))
    BY <1>3, <1>7, <2>1 DEF IsRestOf
  <2> QED
    BY <1>2, <1>3, <1>7, <2>2 DEF ActOK, Waiting
<1>10. PICK c : c = Head(a.left).name
  OBVIOUS
<1>11. CallFrom(t, b, c)
  BY <1>6, <1>10 DEF Create
<1>12. c = Wanted(b) /\ c \in Classes
  <2>1. c = Wanted(b)
    BY <1>2, <1>7, <1>10 DEF Wanted
  <2> QED
    BY <1>2, <1>5, <1>7, <1>9, <2>1, WantedIsClass DEF Acts, WellTyped
<1>13. StepOf(t)
  BY <1>1, <1>2, <1>5, <1>7, <1>8, <1>9, <1>11, <1>12, Called DEF Acts
<1> QED
  BY <1>1, <1>5, <1>13, NothingDeferred DEF Waiting

LEMMA LinkNeedKeeps ==
  ASSUME Inv, NEW t \in Threads, LinkNeed(t)
  PROVE  Inv'
<1>0. PICK a : a = Top(t)
  OBVIOUS
<1>1. /\ stack[t] # << >> /\ a.how \in Loaders /\ a.step = "needs"
      /\ AfterLoadClass(t, Head(a.left).name) /\ objs' = Linked(a.obj, Head(a.left))
      /\ UNCHANGED << world, table, api >>
  BY <1>0 DEF LinkNeed, At, Active
<1>2. /\ WellTyped /\ StackOK /\ AnswersOK /\ TableOK /\ Len(objs) \in Nat
      /\ a \in LoaderActs(Len(objs)) /\ a.name \in Classes /\ ActOK(a) /\ a.how # "array"
  BY <1>0, <1>1, LoaderTop DEF Inv
<1>3. PICK left : left = a.left
  OBVIOUS
<1>4. PICK full : full = Needs(a.name)
  OBVIOUS
<1>5. left \in Seq(Need) /\ left # << >> /\ full \in Seq(Need) /\ IsRestOf(left, full)
  BY <1>1, <1>2, <1>3, <1>4, NeedsOf DEF ActOK, LoaderActs, WellTyped
<1>6. /\ Head(left) \in Need /\ Tail(left) \in Seq(Need) /\ IsRestOf(Tail(left), full)
  BY <1>5, RestOf
<1>7. PICK need \in Need : need = Head(left)
  BY <1>6
<1>8. Registered(a)
  <2>1. a = stack[t][Len(stack[t])] /\ Len(stack[t]) \in 1 .. Len(stack[t])
    BY <1>0, <1>1, <1>2, TopIs
  <2> QED
    BY <1>2, <2>1 DEF StackOK, ThreadOK
<1>9. a.obj \in 1 .. Len(objs)
  BY <1>1, <1>2, <1>8 DEF LoaderActs, Registered
<1>10. LinkKept(a.obj, need)
  BY <1>1, <1>3, <1>7, <1>9, LinkKeeps
<1>11. need.name = Wanted(a) /\ need.name \in Classes /\ Waiting(a)
  BY <1>1, <1>2, <1>3, <1>7 DEF Wanted, Waiting, Need
<1>12. StepOf(t)
  <2>1. CASE Tail(left) = << >>
    <3>1. Return(t, a.obj)
      BY <1>0, <1>3, <2>1 DEF LinkNeed
    <3>2. PICK o : o = a.obj
      OBVIOUS
    <3>3. PICK c : c = a.name
      OBVIOUS
    <3>4. o \in 0 .. Len(objs') /\ ret'[t] = o /\ o # 0
      BY <1>2, <1>9, <1>10, <3>1, <3>2 DEF LinkKept, Return, WellTyped
    <3>5. objs'[o].name = c /\ table'[c] # 0
      BY <1>1, <1>2, <1>8, <1>9, <1>10, <3>2, <3>3 DEF LinkKept, Grows, Registered
    <3>6. Answered(t, c)'
      BY <3>4, <3>5 DEF Answered
    <3> QED
      BY <1>0, <1>1, <1>2, <1>10, <3>1, <3>2, <3>3, <3>4, <3>6, Returned DEF LinkKept
  <2>2. CASE Tail(left) # << >>
    <3>1. PICK b : b = [a EXCEPT !.left = Tail(left)]
      OBVIOUS
    <3>2. /\ b \in LoaderActs(Len(objs)) /\ b.how = a.how /\ b.name = a.name
          /\ b.step = "needs" /\ b.left = Tail(left) /\ b.obj = a.obj
      BY <1>1, <1>2, <1>6, <3>1 DEF LoaderActs
    <3>3. b \in Acts(Len(objs'))
      BY <1>10, <3>2 DEF Acts, LinkKept
    <3>4. Registered(b)'
      BY <1>1, <1>8, <1>9, <1>10, <3>2 DEF Registered, LinkKept, Grows
    <3>5. ActOK(b) /\ Waiting(b)
      BY <1>1, <1>2, <1>4, <1>6, <2>2, <3>2 DEF ActOK, Waiting
    <3>6. PICK c : c = Head(Tail(left)).name
      OBVIOUS
    <3>7. CallFrom(t, b, c)
      BY <1>0, <1>3, <2>2, <3>1, <3>6 DEF LinkNeed
    <3>8. c = Wanted(b) /\ c \in Classes
      <4>1. c = Wanted(b)
        BY <1>2, <3>2, <3>6 DEF Wanted
      <4> QED
        BY <1>2, <3>2, <3>5, <4>1, WantedIsClass DEF Acts, WellTyped
    <3> QED
      BY <1>0, <1>1, <1>2, <1>10, <3>2, <3>3, <3>4, <3>5, <3>7, <3>8, Called DEF LinkKept
  <2> QED
    BY <2>1, <2>2
<1>13. PICK d \in Classes : d = need.name
  BY <1>11
<1>14. AfterLoadClass(t, d)
  BY <1>1, <1>3, <1>7, <1>13
<1> QED
  BY <1>0, <1>1, <1>10, <1>11, <1>12, <1>13, <1>14, DeferredAgain DEF LinkKept

-----------------------------------------------------------------------------
(* The activations of JvmLdrMakeNewArrayClass.                             *)

LEMMA StartArrayKeeps ==
  ASSUME Inv, NEW t \in Threads, StartArray(t)
  PROVE  Inv'
<1>0. PICK a : a = Top(t)
  OBVIOUS
<1>1. /\ stack[t] # << >> /\ a.how = "array" /\ a.step = "start"
      /\ UNCHANGED << world, table, objs, deferred, api >>
  BY <1>0 DEF StartArray, At, Active
<1>2. /\ Grows /\ TableOK' /\ WellTyped /\ StackOK /\ AnswersOK
      /\ table' \in [Names -> 0 .. Len(objs')] /\ objs' \in Seq(Objects(Len(objs')))
      /\ Len(objs) \in Nat /\ Len(objs') = Len(objs)
  BY <1>1, TablesKept DEF Inv
<1>3. a \in ArrayActs(Len(objs')) /\ ActOK(a) /\ a.how \notin Loaders
  BY <1>0, <1>1, <1>2, ArrayTop
<1>4. a.left = ArrayNeeds /\ ArrayNeeds \in Seq(Classes) /\ ArrayNeeds # << >>
  BY <1>1, <1>3, LoaderAssumption DEF ActOK, ArrayNeeds
<1>5. PICK b : b = [a EXCEPT !.step = "needs"]
  OBVIOUS
<1>6. /\ b \in ArrayActs(Len(objs')) /\ b.how = a.how /\ b.name = a.name
      /\ b.step = "needs" /\ b.left = ArrayNeeds
  BY <1>3, <1>4, <1>5 DEF ArrayActs, Steps
<1>7. ActOK(b) /\ Registered(b)' /\ Waiting(b)
  <2>1. IsRestOf(ArrayNeeds, ArrayNeeds)
    BY <1>4 DEF IsRestOf
  <2> QED
    BY <1>1, <1>3, <1>4, <1>6, <2>1 DEF ActOK, Registered, Waiting
<1>8. PICK c : c = Head(a.left)
  OBVIOUS
<1>9. CallFrom(t, b, c)
  BY <1>0, <1>5, <1>8 DEF StartArray
<1>10. c = Wanted(b) /\ c \in Classes
  BY <1>1, <1>4, <1>6, <1>8 DEF Wanted
<1>11. StepOf(t)
  BY <1>0, <1>1, <1>2, <1>6, <1>7, <1>9, <1>10, Called DEF Acts
<1> QED
  BY <1>0, <1>1, <1>2, <1>3, <1>11, NothingDeferred

LEMMA ArrayNeedKeeps ==
  ASSUME Inv, NEW t \in Threads, ArrayNeed(t)
  PROVE  Inv'
<1>0. PICK a : a = Top(t)
  OBVIOUS
<1>1. /\ stack[t] # << >> /\ a.how = "array" /\ a.step = "needs"
      /\ UNCHANGED << world, table, objs, deferred, api >>
  BY <1>0 DEF ArrayNeed, At, Active
<1>2. /\ Grows /\ TableOK' /\ WellTyped /\ StackOK /\ AnswersOK
      /\ table' \in [Names -> 0 .. Len(objs')] /\ objs' \in Seq(Objects(Len(objs')))
      /\ Len(objs) \in Nat /\ Len(objs') = Len(objs)
  BY <1>1, TablesKept DEF Inv
<1>3. a \in ArrayActs(Len(objs')) /\ ActOK(a) /\ a.how \notin Loaders
  BY <1>0, <1>1, <1>2, ArrayTop
<1>4. ret[t] \in 0 .. Len(objs')
  BY <1>2 DEF WellTyped, Ids
<1>5. PICK left : left = a.left
  OBVIOUS
<1>6. left \in Seq(Classes) /\ left # << >> /\ IsRestOf(left, ArrayNeeds)
  BY <1>1, <1>3, <1>5 DEF ActOK, ArrayActs
<1>7. Tail(left) \in Seq(Classes) /\ IsRestOf(Tail(left), ArrayNeeds)
  <2>1. ArrayNeeds \in Seq(Classes)
    BY LoaderAssumption DEF ArrayNeeds
  <2> QED
    BY <1>6, <2>1, RestOf
<1>8. PICK got : got = [a EXCEPT !.super = IF Head(a.left) = ObjectName THEN ret[t] ELSE @,
                                 !.obj = IF Head(a.left) = ClassName THEN ret[t] ELSE @,
                                 !.left = Tail(a.left)]
  OBVIOUS
<1>9. /\ got \in ArrayActs(Len(objs')) /\ got.how = a.how /\ got.name = a.name
      /\ got.step = "needs" /\ got.left = Tail(left)
  <2>1. PICK s \in 0 .. Len(objs') : s = IF Head(a.left) = ObjectName THEN ret[t] ELSE a.super
    BY <1>3, <1>4 DEF ArrayActs
  <2>2. PICK o \in 0 .. Len(objs') : o = IF Head(a.left) = ClassName THEN ret[t] ELSE a.obj
    BY <1>3, <1>4 DEF ArrayActs
  <2>3. got = [a EXCEPT !.super = s, !.obj = o, !.left = Tail(left)]
    BY <1>3, <1>5, <1>8, <2>1, <2>2 DEF ArrayActs
  <2> QED
    BY <1>1, <1>3, <1>7, <2>3 DEF ArrayActs
<1>10. StepOf(t)
  <2>1. CASE ret[t] = 0
    <3>1. Return(t, 0)
      BY <2>1 DEF ArrayNeed
    <3>2. PICK c : c = a.name
      OBVIOUS
    <3>3. Top(t).how # "name"
      BY <1>0, <1>1
    <3> QED
      BY <1>0, <1>1, <1>2, <3>1, <3>2, <3>3, Returned
  <2>2. CASE ret[t] # 0 /\ Tail(left) = << >>
    <3>1. PICK b : b = [got EXCEPT !.step = "create"]
      OBVIOUS
    <3>2. /\ b \in ArrayActs(Len(objs')) /\ b.how = a.how /\ b.name = a.name
          /\ b.step = "create" /\ b.left = << >>
      BY <1>9, <2>2, <3>1 DEF ArrayActs, Steps
    <3>3. ActOK(b) /\ Registered(b)' /\ ~ Waiting(b)
      BY <1>1, <1>3, <3>2 DEF ActOK, Registered, Waiting
    <3>4. GoTo(t, b)
      BY <1>0, <1>5, <1>8, <2>2, <3>1 DEF ArrayNeed
    <3> QED
      BY <1>0, <1>1, <1>2, <3>2, <3>3, <3>4, WentTo DEF Acts
  <2>3. CASE ret[t] # 0 /\ Tail(left) # << >>
    <3>1. ActOK(got) /\ Registered(got)' /\ Waiting(got)
      BY <1>1, <1>3, <1>7, <1>9, <2>3 DEF ActOK, Registered, Waiting
    <3>2. PICK c : c = Head(Tail(left))
      OBVIOUS
    <3>3. CallFrom(t, got, c)
      BY <1>0, <1>5, <1>8, <2>3, <3>2 DEF ArrayNeed
    <3>4. c = Wanted(got) /\ c \in Classes
      BY <1>1, <1>7, <1>9, <2>3, <3>2 DEF Wanted
    <3> QED
      BY <1>0, <1>1, <1>2, <1>9, <3>1, <3>3, <3>4, Called DEF Acts
  <2> QED
    BY <2>1, <2>2, <2>3
<1> QED
  BY <1>0, <1>1, <1>2, <1>3, <1>10, NothingDeferred

LEMMA CreateArrayKeeps ==
  ASSUME Inv, NEW t \in Threads, CreateArray(t)
  PROVE  Inv'
<1>0. PICK a : a = Top(t)
  OBVIOUS
<1>1. /\ stack[t] # << >> /\ a.how = "array" /\ a.step = "create"
      /\ objs' = Append(objs, [NewObject(t, a) EXCEPT !.object = a.super, !.class = a.obj])
      /\ table' = [table EXCEPT ![ArrayName] = NewId] /\ Return(t, NewId)
      /\ UNCHANGED << world, deferred, api >>
  BY <1>0 DEF CreateArray, At, Active
<1>2. /\ WellTyped /\ StackOK /\ AnswersOK /\ Len(objs) \in Nat
      /\ a \in ArrayActs(Len(objs)) /\ a.name = ArrayName /\ a.how \notin Loaders
  BY <1>0, <1>1, ArrayTop DEF Inv
<1>3. PICK x : x = [NewObject(t, a) EXCEPT !.object = a.super, !.class = a.obj]
  OBVIOUS
<1>4. x \in Objects(Len(objs) + 1) /\ x.name = ArrayName
  <2>1. PICK n \in Nat : n = Len(objs) + 1
    BY <1>2
  <2>2. a \in ArrayActs(n)
    BY <1>2, <2>1, ActsGrow
  <2>3. NewObject(t, a) \in Objects(n) /\ NewObject(t, a).name = ArrayName
    BY <1>2, <2>1, <2>2 DEF NewObject, Objects, ArrayActs, Names
  <2>4. PICK y : y = NewObject(t, a)
    OBVIOUS
  <2> QED
    BY <1>3, <2>1, <2>2, <2>3, <2>4 DEF Objects, ArrayActs
<1>5. /\ Grows /\ TableOK' /\ NewId \in 0 .. Len(objs')
      /\ table' \in [Names -> 0 .. Len(objs')] /\ objs' \in Seq(Objects(Len(objs')))
  <2>1. PICK n \in Names : n = ArrayName
    BY DEF Names
  <2>2. n \in Classes => Sound(n)
    BY <2>1, LoaderAssumption
  <2>3. /\ Grows /\ TableOK' /\ NewId = Len(objs')
        /\ table' \in [Names -> 0 .. Len(objs')] /\ objs' \in Seq(Objects(Len(objs')))
        /\ Len(objs') = Len(objs) + 1
    BY <1>1, <1>3, <1>4, <2>1, <2>2, Registers
  <2> QED
    BY <1>2, <2>3
<1>6. PICK c : c = a.name
  OBVIOUS
<1>7. Top(t).how # "name"
  BY <1>0, <1>1
<1>8. PICK o \in 0 .. Len(objs') : o = NewId
  BY <1>5
<1>9. StepOf(t)
  BY <1>0, <1>1, <1>2, <1>5, <1>6, <1>7, <1>8, Returned
<1> QED
  BY <1>0, <1>1, <1>2, <1>5, <1>9, NothingDeferred

-----------------------------------------------------------------------------
LEMMA InitInv == Init => Inv
<1> SUFFICES ASSUME Init PROVE Inv
  OBVIOUS
<1>1. /\ world \in Worlds /\ table = [c \in Names |-> 0] /\ objs = << >>
      /\ deferred = [c \in Classes |-> "none"]
      /\ ret = [t \in Threads |-> 0] /\ crashed = FALSE
      /\ api = [t \in Threads |-> IF t = Main THEN InitCall ELSE NIL]
      /\ stack = [t \in Threads |-> IF t = Main THEN << Load(ObjectName, "name") >> ELSE << >>]
  BY DEF Init
<1>2. PICK a : a = Load(ObjectName, "name")
  OBVIOUS
<1>3. /\ a \in Acts(0) /\ ActOK(a) /\ a.step = "start" /\ a.how = "name"
      /\ a.name = ObjectName
  <2>1. "name" \in Loaders /\ 0 \in Nat /\ ObjectName \in Classes
    BY LoaderAssumption DEF Loaders
  <2>2. Load(ObjectName, "name") \in Acts(0) /\ ActOK(Load(ObjectName, "name"))
    BY <1>1, <2>1, LoadIsAct
  <2> QED
    BY <1>2, <2>2 DEF Load
<1>4. InitCall \in Calls /\ InitCall # NIL /\ InitCall.call = "init" /\ InitCall.name = ObjectName
  <2>1. InitCall \in Calls
    BY LoaderAssumption DEF InitCall, Calls, Names
  <2> QED
    BY <2>1, LoaderAssumption DEF InitCall
<1>5. WellTyped
  <2>1. Len(objs) = 0 /\ objs \in Seq(Objects(Len(objs))) /\ 0 \in Ids
    BY <1>1 DEF Ids
  <2>2. << a >> \in Seq(Acts(0)) /\ << >> \in Seq(Acts(0))
    BY <1>3
  <2>3. stack \in [Threads -> Seq(Acts(Len(objs)))]
    BY <1>1, <1>2, <2>1, <2>2
  <2> QED
    BY <1>1, <1>4, <2>1, <2>3 DEF WellTyped, Flaws
<1>6. \A t \in Threads : stack[t] = IF t = Main THEN << a >> ELSE << >>
  BY <1>1, <1>2
<1>7. StackOK
  <2> SUFFICES ASSUME NEW t \in Threads PROVE ThreadOK(t)
    BY DEF StackOK
  <2>1. CASE t = Main
    <3>1. stack[t] = << a >> /\ ~ Idle(t) /\ api[t] = InitCall
      BY <1>1, <1>4, <1>6, <2>1 DEF Idle
    <3>2. Len(stack[t]) = 1 /\ stack[t][1] = a
      BY <3>1
    <3>3. \A i \in 1 .. 1 : i = 1
      OBVIOUS
    <3>4. 1 .. 1 - 1 = {}
      OBVIOUS
    <3>5. Registered(a)
      BY <1>3 DEF Registered
    <3>6. a.how = HowOf[api[t].call] /\ a.name = api[t].name
      BY <1>3, <1>4, <3>1 DEF HowOf
    <3> QED
      BY <1>3, <3>1, <3>2, <3>3, <3>4, <3>5, <3>6 DEF ThreadOK
  <2>2. CASE t # Main
    BY <1>6, <2>2 DEF ThreadOK
  <2> QED
    BY <2>1, <2>2
<1>8. TableOK
  BY <1>1 DEF TableOK, Names
<1>9. AnswersOK
  <2> SUFFICES ASSUME NEW t \in Threads PROVE HasAnswer(t)
    BY DEF AnswersOK
  <2>1. CASE t = Main
    <3>1. stack[t] # << >> /\ Top(t) = a
      BY <1>6, <2>1 DEF Top, Last
    <3> QED
      BY <1>3, <3>1 DEF HasAnswer, Waiting
  <2>2. CASE t # Main
    BY <1>1, <1>6, <2>2 DEF HasAnswer, Idle
  <2> QED
    BY <2>1, <2>2
<1>10. DeferredIsUnsound /\ VersionsArePassing
  BY <1>1 DEF DeferredIsUnsound, VersionsArePassing, Names
<1> QED
  BY <1>5, <1>7, <1>8, <1>9, <1>10 DEF Inv

LEMMA SameVars ==
  ASSUME Inv, UNCHANGED vars
  PROVE  Inv'
<1>1. /\ Grows /\ TableOK' /\ WellTyped' /\ \A t : Top(t)' = Top(t)
  BY TablesKept DEF Inv, vars, WellTyped, Ids, Top, Last, Acts, LoaderActs, ArrayActs, Objects
<1>2. StackOK' /\ AnswersOK'
  BY KeptStays, KeptHasAnswer, <1>1 DEF Inv, vars, StackOK, AnswersOK
<1>3. DeferredIsUnsound'
  BY SameWorld DEF Inv, vars, DeferredIsUnsound
<1>4. VersionsArePassing'
  BY <1>1, SameWorld DEF Inv, vars, VersionsArePassing, WillDefer, Waiting, Idle
<1> QED
  BY <1>1, <1>2, <1>3, <1>4 DEF Inv

LEMMA NextInv == Inv /\ [Next]_vars => Inv'
<1> SUFFICES ASSUME Inv, [Next]_vars PROVE Inv'
  OBVIOUS
<1>1. CASE UNCHANGED vars
  BY <1>1, SameVars
<1>2. ASSUME NEW t \in Threads, LoaderStep(t) PROVE Inv'
  BY <1>2, FoundKeeps, RefuseKeeps, ParseKeeps, LinkSuperKeeps, CreateKeeps, LinkNeedKeeps,
     StartArrayKeeps, ArrayNeedKeeps, CreateArrayKeeps, AnswerKeeps DEF LoaderStep
<1>3. ASSUME NEW t \in Threads, ArrayClass(t) PROVE Inv'
  BY <1>3, ArrayClassKeeps
<1>4. ASSUME NEW t \in Threads, NEW c \in Classes, FromFile(t, c) \/ FromJar(t, c) PROVE Inv'
  BY <1>4, FromFileKeeps, FromJarKeeps
<1> QED
  BY <1>1, <1>2, <1>3, <1>4 DEF Next

\* In every reachable state the activations of each thread wait for one another
\* and the answers given to them tell what can be loaded.
THEOREM InvHolds == Spec => []Inv
<1> QED
  BY InitInv, NextInv, PTL DEF Spec

LEMMA InvTyped == ASSUME Inv PROVE TypeOK
<1>1. WellTyped /\ Len(objs) \in Nat
  BY DEF Inv, WellTyped
<1>2. \A i \in 1 .. Len(objs) : objs[i] \in Objects(Len(objs))
  BY <1>1 DEF WellTyped
<1>3. \A i \in 1 .. Len(objs) :
        /\ objs[i].name \in Names
        /\ {objs[i].super, objs[i].object, objs[i].class} \subseteq Ids
        /\ objs[i].intfs \in Seq(Ids)
  BY <1>2 DEF Objects, Ids
<1>4. ASSUME NEW t \in Threads, NEW i \in 1 .. Len(stack[t])
      PROVE  stack[t][i].name \in Names /\ stack[t][i].step \in Steps /\ stack[t][i].obj \in Ids
  <2>1. stack[t] \in Seq(Acts(Len(objs)))
    BY <1>1 DEF WellTyped
  <2>2. PICK a \in Acts(Len(objs)) : a = stack[t][i]
    BY <2>1
  <2>3. a.name \in Names /\ a.step \in Steps /\ a.obj \in Ids
    BY DEF Acts, LoaderActs, ArrayActs, Names, Ids
  <2> QED
    BY <2>2, <2>3
<1> QED
  BY <1>1, <1>3, <1>4 DEF WellTyped, TypeOK

(* The loader keeps its types: every link, every entry of the table and    *)
(* every result is NULL or a class object that exists.                     *)
THEOREM TypesHold == Spec => []TypeOK
  BY InvHolds, InvTyped, PTL

(* Nothing that can be loaded is ever reported as a failure, and nothing   *)
(* that cannot is ever in the table: for every class path, cycles and      *)
(* missing classes included, and whatever the threads do in between.       *)
THEOREM DeferredAreUnsound == Spec => []DeferredIsUnsound
<1>1. Inv => DeferredIsUnsound
  BY DEF Inv
<1> QED
  BY <1>1, InvHolds, PTL

(* Once every call has returned, no unsupported version is left among the  *)
(* deferred exceptions, but for a class an array asked for.                *)
THEOREM VersionsAreOverwritten == Spec => []VersionIsOverwritten
<1>1. Inv => VersionIsOverwritten
  <2> SUFFICES ASSUME Inv, \A t \in Threads : Idle(t),
                      NEW c \in Classes, deferred[c] = "version",
                      c \notin {ObjectName, ClassName, ArrayBase}
               PROVE  FALSE
    BY DEF VersionIsOverwritten
  <2>1. PICK t \in Threads : WillDefer(t, c)
    BY DEF Inv, VersionsArePassing
  <2>2. stack[t] # << >> => ~ Idle(t)
    BY DEF Inv, StackOK, ThreadOK
  <2> QED
    BY <2>1, <2>2 DEF WillDefer
<1> QED
  BY <1>1, InvHolds, PTL

-----------------------------------------------------------------------------
(* The links.  A stack overflow leaves the class objects as they are, so   *)
(* the links are followed for as long as no thread has crashed.            *)

TopBuilds(t, o) == stack[t] # << >> /\ Builds(t, Len(stack[t]), o)

\* A step of t changes no class object but the one t is filling in.
ObjsStay(t) ==
  \A o \in 1 .. Len(objs) :
    objs'[o] = objs[o] \/ (TopBuilds(t, o) /\ objs'[o].super = objs[o].super)

LEMMA LinkedStays ==
  ASSUME WellTyped, Grows, NEW l \in Ids, NEW n, LinkedTo(l, n)
  PROVE  LinkedTo(l, n)'
<1>1. Len(objs) \in Nat /\ l \in 0 .. Len(objs)
  BY DEF WellTyped, Ids
<1>2. Sound(n)' <=> Sound(n)
  BY SameWorld DEF Grows
<1>3. CASE Sound(n)
  <2>1. l \in 1 .. Len(objs) /\ objs[l].name = n
    BY <1>1, <1>3 DEF LinkedTo
  <2> QED
    BY <1>2, <1>3, <2>1 DEF LinkedTo, Grows
<1>4. CASE ~ Sound(n)
  BY <1>2, <1>4 DEF LinkedTo
<1> QED
  BY <1>3, <1>4

LEMMA LinksMadeStay ==
  ASSUME WellTyped, Grows, NEW o \in 1 .. Len(objs), objs'[o] = objs[o],
         NEW c, NEW n, LinksMade(o, c, n)
  PROVE  LinksMade(o, c, n)'
<1>1. Len(objs) \in Nat /\ objs[o] \in Objects(Len(objs)) /\ world' = world
  BY DEF WellTyped, Grows
<1>2. objs[o].intfs \in Seq(Ids) /\ objs[o].object \in Ids /\ objs[o].class \in Ids
  BY <1>1 DEF Objects, Ids
<1>3. ASSUME NEW i \in 1 .. Len(objs[o].intfs)
      PROVE  LinkedTo(objs[o].intfs[i], world.intfs[c][i])'
  <2>1. PICK l \in Ids : l = objs[o].intfs[i]
    BY <1>2
  <2>2. PICK m : m = world.intfs[c][i]
    OBVIOUS
  <2>3. LinkedTo(l, m)'
    BY <2>1, <2>2, LinkedStays DEF LinksMade
  <2> QED
    BY <1>1, <2>1, <2>2, <2>3
<1>4. ASSUME LinkedTo(objs[o].object, ObjectName) PROVE LinkedTo(objs[o].object, ObjectName)'
  <2>1. PICK l \in Ids : l = objs[o].object
    BY <1>2
  <2>2. LinkedTo(l, ObjectName)'
    BY <1>4, <2>1, LinkedStays
  <2> QED
    BY <2>1, <2>2
<1>5. ASSUME LinkedTo(objs[o].class, ClassName) PROVE LinkedTo(objs[o].class, ClassName)'
  <2>1. PICK l \in Ids : l = objs[o].class
    BY <1>2
  <2>2. LinkedTo(l, ClassName)'
    BY <1>5, <2>1, LinkedStays
  <2> QED
    BY <2>1, <2>2
<1>6. Needs(c)' = Needs(c)
  BY <1>1, SameWorld
<1>7. \A i \in 1 .. Len(objs[o].intfs) : LinkedTo(objs[o].intfs[i], world.intfs[c][i])'
  BY <1>3
<1> QED
  BY <1>1, <1>4, <1>5, <1>6, <1>7 DEF LinksMade

LEMMA ActLinksStay ==
  ASSUME WellTyped, Grows, NEW a \in Acts(Len(objs)), Registered(a), ActLinks(a),
         Builder(a) => objs'[a.obj] = objs[a.obj]
  PROVE  ActLinks(a)'
<1>1. /\ Len(objs) \in Nat /\ a.super \in Ids /\ a.obj \in Ids /\ world' = world
      /\ \A n : (NoSuper(n)' <=> NoSuper(n)) /\ Needs(n)' = Needs(n)
  BY SameWorld DEF WellTyped, Acts, LoaderActs, ArrayActs, Ids, Grows
<1>2. ASSUME a.how \in Loaders /\ a.step = "create"
      PROVE  NoSuper(a.name)' \/ LinkedTo(a.super, world.super[a.name])'
  <2>1. CASE NoSuper(a.name)
    BY <1>1, <2>1
  <2>2. CASE LinkedTo(a.super, world.super[a.name])
    <3>1. PICK s : s = world.super[a.name]
      OBVIOUS
    <3>2. LinkedTo(a.super, s)'
      BY <1>1, <2>2, <3>1, LinkedStays
    <3>3. world'.super[a.name] = s
      BY <1>1, <3>1
    <3> QED
      BY <3>2, <3>3 DEF LinkedTo, Sound
  <2> QED
    BY <1>2, <2>1, <2>2 DEF ActLinks
<1>3. ASSUME Builder(a) PROVE LinksMade(a.obj, a.name, Gone(a))'
  <2>1. a.obj \in 1 .. Len(objs)
    BY <1>1, <1>3 DEF Registered, Builder, Ids
  <2>2. PICK n : n = Gone(a)
    OBVIOUS
  <2>3. LinksMade(a.obj, a.name, n)'
    BY <1>3, <2>1, <2>2, LinksMadeStay DEF ActLinks
  <2>4. Gone(a)' = n
    BY <1>1, <2>2 DEF Gone
  <2> QED
    BY <2>3, <2>4
<1>4. LinkedTo(a.super, ObjectName) => LinkedTo(a.super, ObjectName)'
  BY <1>1, LinkedStays
<1>5. LinkedTo(a.obj, ClassName) => LinkedTo(a.obj, ClassName)'
  BY <1>1, LinkedStays
<1> QED
  BY <1>2, <1>3, <1>4, <1>5 DEF ActLinks, Builder

LEMMA BuilderIs ==
  ASSUME Inv, NEW u \in Threads, NEW i \in 1 .. Len(stack[u])
  PROVE  /\ stack[u][i] \in Acts(Len(objs)) /\ Registered(stack[u][i])
         /\ Builder(stack[u][i]) =>
              /\ stack[u][i].obj \in 1 .. Len(objs)
              /\ objs[stack[u][i].obj].name \in Classes
<1>1. Len(objs) \in Nat /\ stack[u][i] \in Acts(Len(objs))
  BY DEF Inv, WellTyped
<1>2. Registered(stack[u][i])
  BY DEF Inv, StackOK, ThreadOK
<1>3. PICK a \in Acts(Len(objs)) : a = stack[u][i]
  BY <1>1
<1>4. ASSUME Builder(a) PROVE a.obj \in 1 .. Len(objs) /\ objs[a.obj].name \in Classes
  <2>1. a \in LoaderActs(Len(objs))
    BY <1>1, <1>4, KindOfAct DEF Builder
  <2>2. a.obj \in 0 .. Len(objs) /\ a.name \in Classes
    BY <2>1 DEF LoaderActs
  <2> QED
    BY <1>1, <1>2, <1>3, <1>4, <2>2 DEF Registered, Builder
<1> QED
  BY <1>1, <1>2, <1>3, <1>4

LEMMA ObjectStays ==
  ASSUME Inv, Grows, NEW t \in Threads, ObjsStay(t), NEW o \in 1 .. Len(objs), ObjectLinked(o),
         TopBuilds(t, o) => objs[o].name \in Classes
  PROVE  /\ objs'[o].name = ArrayName => ArrayLinked(o)'
         /\ objs'[o].name # ArrayName => SuperLinked(o)'
         /\ ~ TopBuilds(t, o) /\ NeedsLinked(o) => NeedsLinked(o)'
<1>1. /\ Len(objs) \in Nat /\ objs[o] \in Objects(Len(objs)) /\ world' = world
      /\ objs'[o].name = objs[o].name /\ WellTyped
      /\ \A n : (NoSuper(n)' <=> NoSuper(n)) /\ Needs(n)' = Needs(n)
  BY SameWorld DEF Inv, WellTyped, Grows
<1>2. /\ objs[o].super \in Ids /\ objs[o].class \in Ids /\ objs'[o].super = objs[o].super
  BY <1>1 DEF Objects, Ids, ObjsStay
<1>3. ASSUME objs[o].name = ArrayName PROVE ArrayLinked(o)'
  <2>1. objs'[o] = objs[o]
    BY <1>3, LoaderAssumption DEF ObjsStay
  <2>2. PICK l \in Ids : l = objs[o].super
    BY <1>2
  <2>3. PICK m \in Ids : m = objs[o].class
    BY <1>2
  <2>4. LinkedTo(l, ObjectName)' /\ LinkedTo(m, ClassName)'
    BY <1>1, <1>3, <2>2, <2>3, LinkedStays DEF ObjectLinked, ArrayLinked
  <2> QED
    BY <2>1, <2>2, <2>3, <2>4 DEF ArrayLinked
<1>4. ASSUME objs[o].name # ArrayName PROVE SuperLinked(o)'
  <2>1. CASE NoSuper(objs[o].name)
    BY <1>1, <2>1 DEF SuperLinked
  <2>2. CASE ~ NoSuper(objs[o].name)
    <3>1. PICK l \in Ids : l = objs[o].super
      BY <1>2
    <3>2. PICK n : n = world.super[objs[o].name]
      OBVIOUS
    <3>3. LinkedTo(l, n)'
      BY <1>1, <1>4, <2>2, <3>1, <3>2, LinkedStays DEF ObjectLinked, SuperLinked
    <3>4. n = world'.super[objs'[o].name] /\ l = objs'[o].super
      BY <1>1, <1>2, <3>1, <3>2
    <3> QED
      BY <3>3, <3>4 DEF SuperLinked, LinkedTo, Sound
  <2> QED
    BY <2>1, <2>2
<1>5. ASSUME ~ TopBuilds(t, o), NeedsLinked(o) PROVE NeedsLinked(o)'
  <2>1. objs'[o] = objs[o]
    BY <1>5 DEF ObjsStay
  <2>2. PICK c : c = objs[o].name
    OBVIOUS
  <2>3. PICK n : n = Len(Needs(c))
    OBVIOUS
  <2>4. LinksMade(o, c, n)'
    BY <1>1, <1>5, <2>1, <2>2, <2>3, LinksMadeStay DEF NeedsLinked
  <2>5. c = objs'[o].name /\ n = Len(Needs(c)')
    BY <1>1, <2>2, <2>3
  <2> QED
    BY <2>4, <2>5 DEF NeedsLinked, LinksMade, Needs
<1> QED
  BY <1>1, <1>3, <1>4, <1>5

\* A position on a stack that a step of t leaves alone.
Below(t, u, i) == i \in 1 .. Len(stack[u]) /\ ~ (u = t /\ i = Len(stack[t]))

LEMMA LinksStep ==
  ASSUME Inv, LinksOK, Grows, NEW t \in Threads, ObjsStay(t),
         \A u \in Threads : \A i \in 1 .. Len(stack[u]) :
           Below(t, u, i) => i \in 1 .. Len(stack'[u]) /\ stack'[u][i] = stack[u][i],
         \A u \in Threads : \A i \in 1 .. Len(stack'[u]) :
           \/ Below(t, u, i)
           \/ /\ u = t /\ ActLinks(stack[t][i])'
              /\ Builder(stack'[t][i]) =>
                   /\ i = Len(stack[t])
                   /\ \/ TopBuilds(t, stack'[t][i].obj)
                      \/ stack'[t][i].obj \notin 1 .. Len(objs),
         \A o \in 1 .. Len(objs) : TopBuilds(t, o) => BeingBuilt(o)' \/ NeedsLinked(o)',
         \A o \in 1 .. Len(objs') : o \notin 1 .. Len(objs) => ObjectLinked(o)'
  PROVE  LinksOK'
<1>1. WellTyped /\ ActsLinked /\ OneBuilder /\ \A o \in 1 .. Len(objs) : ObjectLinked(o)
  BY DEF Inv, LinksOK
<1>2. ASSUME NEW u \in Threads, NEW i, Below(t, u, i), Builder(stack[u][i])
      PROVE  /\ stack[u][i].obj \in 1 .. Len(objs) /\ ~ TopBuilds(t, stack[u][i].obj)
             /\ objs'[stack[u][i].obj] = objs[stack[u][i].obj]
  <2>1. i \in 1 .. Len(stack[u]) /\ stack[u][i].obj \in 1 .. Len(objs)
    BY <1>2, BuilderIs DEF Below
  <2>2. ~ TopBuilds(t, stack[u][i].obj)
    <3>1. SUFFICES ASSUME TopBuilds(t, stack[u][i].obj) PROVE FALSE
      OBVIOUS
    <3>2. stack[t] # << >> /\ Builds(t, Len(stack[t]), stack[u][i].obj)
      BY <3>1 DEF TopBuilds
    <3>3. Len(stack[t]) \in 1 .. Len(stack[t])
      BY <3>2, TopIs DEF Inv
    <3>4. Builds(u, i, stack[u][i].obj)
      BY <1>2 DEF Builds
    <3>5. u = t /\ i = Len(stack[t])
      BY <1>1, <2>1, <3>2, <3>3, <3>4 DEF OneBuilder
    <3> QED
      BY <1>2, <3>5 DEF Below
  <2> QED
    BY <2>1, <2>2 DEF ObjsStay
<1>3. ActsLinked'
  <2> SUFFICES ASSUME NEW u \in Threads, NEW i \in 1 .. Len(stack'[u])
               PROVE  ActLinks(stack[u][i])'
    BY DEF ActsLinked
  <2>1. CASE Below(t, u, i)
    <3>1. i \in 1 .. Len(stack[u]) /\ stack'[u][i] = stack[u][i]
      BY <2>1 DEF Below
    <3>2. PICK a \in Acts(Len(objs)) : a = stack[u][i] /\ Registered(a)
      BY <3>1, BuilderIs
    <3>3. ActLinks(a)
      BY <1>1, <3>1, <3>2 DEF ActsLinked
    <3>4. ActLinks(a)'
      BY <1>1, <1>2, <2>1, <3>2, <3>3, ActLinksStay
    <3> QED
      BY <3>1, <3>2, <3>4
  <2>2. CASE ~ Below(t, u, i)
    BY <2>2
  <2> QED
    BY <2>1, <2>2
<1>4. OneBuilder'
  <2> SUFFICES ASSUME NEW u \in Threads, NEW v \in Threads, NEW o,
                      NEW i \in 1 .. Len(stack'[u]), NEW j \in 1 .. Len(stack'[v]),
                      Builds(u, i, o)', Builds(v, j, o)'
               PROVE  u = v /\ i = j
    BY DEF OneBuilder
  <2>1. /\ Builder(stack'[u][i]) /\ stack'[u][i].obj = o
        /\ Builder(stack'[v][j]) /\ stack'[v][j].obj = o
    BY DEF Builds, Builder
  <2>2. Below(t, u, i) => Builds(u, i, o) /\ o \in 1 .. Len(objs) /\ ~ TopBuilds(t, o)
    BY <1>2, <2>1 DEF Builds, Below
  <2>3. Below(t, v, j) => Builds(v, j, o) /\ o \in 1 .. Len(objs) /\ ~ TopBuilds(t, o)
    BY <1>2, <2>1 DEF Builds, Below
  <2>4. CASE Below(t, u, i) /\ Below(t, v, j)
    BY <1>1, <2>2, <2>3, <2>4 DEF OneBuilder, Below
  <2>5. CASE ~ Below(t, u, i) /\ ~ Below(t, v, j)
    BY <2>1, <2>5
  <2>6. CASE Below(t, u, i) /\ ~ Below(t, v, j)
    BY <2>1, <2>2, <2>6
  <2>7. CASE ~ Below(t, u, i) /\ Below(t, v, j)
    BY <2>1, <2>3, <2>7
  <2> QED
    BY <2>4, <2>5, <2>6, <2>7
<1>5. ASSUME NEW o \in 1 .. Len(objs') PROVE ObjectLinked(o)'
  <2>1. CASE o \notin 1 .. Len(objs)
    BY <2>1
  <2>2. CASE o \in 1 .. Len(objs)
    <3>1. TopBuilds(t, o) => objs[o].name \in Classes
      <4>1. ASSUME TopBuilds(t, o) PROVE objs[o].name \in Classes
        <5>1. stack[t] # << >> /\ Builder(stack[t][Len(stack[t])]) /\ stack[t][Len(stack[t])].obj = o
          BY <4>1 DEF TopBuilds, Builds
        <5>2. Len(stack[t]) \in 1 .. Len(stack[t])
          BY <5>1, TopIs DEF Inv
        <5> QED
          BY <5>1, <5>2, BuilderIs
      <4> QED
        BY <4>1
    <3>2. /\ objs'[o].name = ArrayName => ArrayLinked(o)'
          /\ objs'[o].name # ArrayName => SuperLinked(o)'
          /\ ~ TopBuilds(t, o) /\ NeedsLinked(o) => NeedsLinked(o)'
      BY <1>1, <2>2, <3>1, ObjectStays
    <3>3. objs'[o].name # ArrayName => BeingBuilt(o)' \/ NeedsLinked(o)'
      <4>1. CASE TopBuilds(t, o)
        BY <2>2, <4>1
      <4>2. CASE ~ TopBuilds(t, o) /\ NeedsLinked(o)
        BY <3>2, <4>2
      <4>3. CASE ~ TopBuilds(t, o) /\ BeingBuilt(o)
        <5>1. PICK u \in Threads : \E i \in 1 .. Len(stack[u]) : Builds(u, i, o)
          BY <4>3 DEF BeingBuilt
        <5>2. PICK i \in 1 .. Len(stack[u]) : Builds(u, i, o)
          BY <5>1
        <5>3. Below(t, u, i)
          <6>1. stack[u] \in Seq(Acts(Len(objs)))
            BY <1>1 DEF WellTyped
          <6> QED
            BY <4>3, <5>2, <6>1 DEF Below, TopBuilds
        <5>4. Builds(u, i, o)' /\ i \in 1 .. Len(stack'[u])
          BY <5>2, <5>3 DEF Builds, Builder
        <5> QED
          BY <5>4 DEF BeingBuilt
      <4>4. objs'[o].name = objs[o].name
        BY <2>2 DEF Grows
      <4> QED
        BY <1>1, <2>2, <4>1, <4>2, <4>3, <4>4 DEF ObjectLinked
    <3> QED
      BY <3>2, <3>3 DEF ObjectLinked
  <2> QED
    BY <2>1, <2>2
<1> QED
  BY <1>3, <1>4, <1>5 DEF LinksOK

\* The innermost activation of t goes on as b, and may have made a call.
TopBecomes(t, b) ==
  /\ OthersKeepStacks(t)
  /\ Len(stack'[t]) \in {Len(stack[t]), Len(stack[t]) + 1}
  /\ \A i \in 1 .. Len(stack[t]) - 1 : stack'[t][i] = stack[t][i]
  /\ stack'[t][Len(stack[t])] = b
  /\ Len(stack'[t]) = Len(stack[t]) + 1 => stack'[t][Len(stack[t]) + 1].step = "start"

LEMMA GoToTop ==
  ASSUME WellTyped, NEW t \in Threads, stack[t] # << >>, NEW b, GoTo(t, b)
  PROVE  TopBecomes(t, b)
<1>1. stack \in [Threads -> Seq(Acts(Len(objs)))] /\ stack[t] \in Seq(Acts(Len(objs)))
  BY DEF WellTyped
<1>2. PICK r : r = Append(Front(stack[t]), b)
  OBVIOUS
<1>3. Replaced(stack[t], b, r)
  <2>1. PICK T : T = Acts(Len(objs)) \cup {b}
    OBVIOUS
  <2>2. Acts(Len(objs)) \subseteq T /\ b \in T
    BY <2>1
  <2> QED
    BY <1>1, <1>2, <2>2, TopReplaced
<1>4. stack' = [stack EXCEPT ![t] = r]
  BY <1>2 DEF GoTo, Updated
<1>5. stack'[t] = r /\ OthersKeepStacks(t)
  BY <1>1, <1>4 DEF OthersKeepStacks
<1>6. Len(stack[t]) \in Nat
  BY <1>1
<1> QED
  BY <1>3, <1>5, <1>6 DEF TopBecomes, Replaced

LEMMA CallTop ==
  ASSUME WellTyped, NEW t \in Threads, stack[t] # << >>, NEW b, NEW c, CallFrom(t, b, c),
         ~ crashed'
  PROVE  TopBecomes(t, b)
<1>1. stack \in [Threads -> Seq(Acts(Len(objs)))] /\ stack[t] \in Seq(Acts(Len(objs)))
  BY DEF WellTyped
<1>2. PICK l : l = Load(c, "name")
  OBVIOUS
<1>3. PICK r : r = Append(Front(stack[t]), b) \o << l >>
  OBVIOUS
<1>4. Pushed(stack[t], b, l, r)
  <2>1. PICK T : T = Acts(Len(objs)) \cup {b, l}
    OBVIOUS
  <2>2. Acts(Len(objs)) \subseteq T /\ b \in T /\ l \in T
    BY <2>1
  <2> QED
    BY <1>1, <1>3, <2>2, TopPushed
<1>5. stack' = [stack EXCEPT ![t] = r]
  BY <1>2, <1>3 DEF CallFrom
<1>6. stack'[t] = r /\ OthersKeepStacks(t)
  BY <1>1, <1>5 DEF OthersKeepStacks
<1>7. l.step = "start" /\ Len(stack[t]) \in Nat
  BY <1>1, <1>2 DEF Load
<1> QED
  BY <1>4, <1>6, <1>7 DEF TopBecomes, Pushed

LEMMA StartLinks == ASSUME NEW a, a.step = "start" PROVE ActLinks(a)' /\ ~ Builder(a)
  BY DEF ActLinks, Builder

LEMMA LinksMoved ==
  ASSUME Inv, LinksOK, Grows, NEW t \in Threads, ObjsStay(t), stack[t] # << >>,
         NEW b, TopBecomes(t, b), ActLinks(b)',
         Builder(Top(t)) => Builder(b) /\ b.obj = Top(t).obj,
         Builder(b) => Builder(Top(t)) \/ b.obj \notin 1 .. Len(objs),
         \A o \in 1 .. Len(objs') : o \notin 1 .. Len(objs) => ObjectLinked(o)'
  PROVE  LinksOK'
<1>1. PICK n \in Nat : n = Len(stack[t]) /\ n >= 1
  BY TopIs DEF Inv
<1>2. /\ Len(stack'[t]) \in {n, n + 1} /\ stack'[t][n] = b /\ Top(t) = stack[t][n]
      /\ \A i \in 1 .. n - 1 : stack'[t][i] = stack[t][i]
      /\ Len(stack'[t]) = n + 1 => stack'[t][n + 1].step = "start"
      /\ \A u \in Threads \ {t} : stack'[u] = stack[u]
  BY <1>1, TopIs DEF Inv, TopBecomes, OthersKeepStacks
<1>3. ASSUME NEW u \in Threads, NEW i \in 1 .. Len(stack[u]), Below(t, u, i)
      PROVE  i \in 1 .. Len(stack'[u]) /\ stack'[u][i] = stack[u][i]
  <2>1. CASE u # t
    BY <1>2, <2>1
  <2>2. CASE u = t
    BY <1>1, <1>2, <1>3, <2>2 DEF Below
  <2> QED
    BY <2>1, <2>2
<1>4. TopBuilds(t, b.obj) <=> Builder(Top(t)) /\ b.obj = Top(t).obj
  BY <1>1, <1>2 DEF TopBuilds, Builds
<1>5. ASSUME NEW u \in Threads, NEW i \in 1 .. Len(stack'[u]), ~ Below(t, u, i)
      PROVE  /\ u = t /\ ActLinks(stack[t][i])'
             /\ Builder(stack'[t][i]) =>
                  i = n /\ (TopBuilds(t, stack'[t][i].obj) \/ stack'[t][i].obj \notin 1 .. Len(objs))
  <2>1. u = t
    BY <1>2, <1>5 DEF Below
  <2>2. i = n \/ (i = n + 1 /\ stack'[t][i].step = "start")
    BY <1>1, <1>2, <1>5, <2>1 DEF Below
  <2>3. CASE i = n
    BY <1>2, <1>4, <2>1, <2>3
  <2>4. CASE i = n + 1 /\ stack'[t][i].step = "start"
    <3>1. PICK x : x = stack'[t][i]
      OBVIOUS
    <3>2. ActLinks(x)' /\ ~ Builder(x)
      BY <2>4, <3>1, StartLinks
    <3> QED
      BY <2>1, <3>1, <3>2
  <2> QED
    BY <2>2, <2>3, <2>4
<1>6. ASSUME NEW o \in 1 .. Len(objs), TopBuilds(t, o) PROVE BeingBuilt(o)'
  <2>1. Builder(b) /\ b.obj = o
    BY <1>1, <1>2, <1>6 DEF TopBuilds, Builds
  <2>2. n \in 1 .. Len(stack'[t]) /\ Builds(t, n, o)'
    BY <1>1, <1>2, <2>1 DEF Builds, Builder
  <2> QED
    BY <2>2 DEF BeingBuilt
<1> QED
  BY <1>1, <1>3, <1>5, <1>6, LinksStep

LEMMA LinksReturned ==
  ASSUME Inv, LinksOK, Grows, NEW t \in Threads, ObjsStay(t), stack[t] # << >>,
         NEW x, Return(t, x), NEW a, a = Top(t), Builder(a) => NeedsLinked(a.obj)',
         \A o \in 1 .. Len(objs') : o \notin 1 .. Len(objs) => ObjectLinked(o)'
  PROVE  LinksOK'
<1>1. PICK n \in Nat : n = Len(stack[t]) /\ n >= 1 /\ Top(t) = stack[t][n]
  BY TopIs DEF Inv
<1>2. Popped(stack[t], stack'[t]) /\ OthersKeepStacks(t)
  BY ReturnShape DEF Return, Inv
<1>3. /\ Len(stack'[t]) = n - 1
      /\ \A i \in 1 .. n - 1 : stack'[t][i] = stack[t][i]
      /\ \A u \in Threads \ {t} : stack'[u] = stack[u]
  BY <1>1, <1>2 DEF Popped, OthersKeepStacks
<1>4. ASSUME NEW u \in Threads, NEW i \in 1 .. Len(stack[u]), Below(t, u, i)
      PROVE  i \in 1 .. Len(stack'[u]) /\ stack'[u][i] = stack[u][i]
  <2>1. CASE u # t
    BY <1>3, <2>1
  <2>2. CASE u = t
    BY <1>1, <1>3, <1>4, <2>2 DEF Below
  <2> QED
    BY <2>1, <2>2
<1>5. ASSUME NEW u \in Threads, NEW i \in 1 .. Len(stack'[u]) PROVE Below(t, u, i)
  <2>1. CASE u # t
    BY <1>3, <2>1 DEF Below
  <2>2. CASE u = t
    BY <1>1, <1>3, <2>2 DEF Below
  <2> QED
    BY <2>1, <2>2
<1>6. ASSUME NEW o \in 1 .. Len(objs), TopBuilds(t, o) PROVE NeedsLinked(o)'
  BY <1>1, <1>6 DEF TopBuilds, Builds
<1> QED
  BY <1>4, <1>5, <1>6, LinksStep

\* What the table has for a name just loaded is its class object, or nothing if
\* it cannot be loaded.
LEMMA AnswerLinked ==
  ASSUME Inv, NEW t \in Threads, stack[t] # << >>, Waiting(Top(t)),
         NEW c \in Classes, c = Wanted(Top(t))
  PROVE  LinkedTo(table[c], c) /\ (ret[t] # 0 => LinkedTo(ret[t], c))
<1>1. Answered(t, c) /\ c \in Names
  BY DEF Inv, AnswersOK, HasAnswer, Names
<1>2. table[c] # 0 => objs[table[c]].name = c /\ Sound(c)
  BY <1>1 DEF Inv, TableOK
<1> QED
  BY <1>1, <1>2 DEF Answered, LinkedTo

LEMMA Unchanged ==
  ASSUME Inv, UNCHANGED << world, table, objs >>, NEW t \in Threads
  PROVE  /\ Grows /\ ObjsStay(t)
         /\ \A o \in 1 .. Len(objs') : o \notin 1 .. Len(objs) => ObjectLinked(o)'
  BY TablesKept DEF ObjsStay

-----------------------------------------------------------------------------
(* Every action keeps the links.                                           *)

LEMMA QuietLinks ==
  ASSUME Inv, LinksOK, UNCHANGED << world, table, objs >>, NEW t \in Threads, stack[t] = << >>,
         OthersKeepStacks(t),
         \A i \in 1 .. Len(stack'[t]) : stack'[t][i].step = "start"
  PROVE  LinksOK'
<1>1. /\ Grows /\ ObjsStay(t)
      /\ \A o \in 1 .. Len(objs') : o \notin 1 .. Len(objs) => ObjectLinked(o)'
  BY Unchanged
<1>2. \A o : ~ TopBuilds(t, o)
  BY DEF TopBuilds
<1>3. ASSUME NEW i \in 1 .. Len(stack'[t]) PROVE ActLinks(stack[t][i])' /\ ~ Builder(stack'[t][i])
  <2>1. PICK x : x = stack'[t][i]
    OBVIOUS
  <2>2. ActLinks(x)' /\ ~ Builder(x)
    BY <2>1, StartLinks
  <2> QED
    BY <2>1, <2>2
<1>4. \A u \in Threads : \A i \in 1 .. Len(stack[u]) : Below(t, u, i) => u # t
  BY DEF Below
<1>5. \A u \in Threads : \A i \in 1 .. Len(stack'[u]) : u # t => Below(t, u, i)
  BY DEF Below, OthersKeepStacks
<1>6. \A u \in Threads \ {t} : stack'[u] = stack[u]
  BY DEF OthersKeepStacks
<1> QED
  BY <1>1, <1>2, <1>3, <1>4, <1>5, <1>6, LinksStep

LEMMA BeginLinks ==
  ASSUME Inv, LinksOK, NEW t \in Threads, NEW call, NEW name, NEW a, a.step = "start",
         Begin(t, call, name, a)
  PROVE  LinksOK'
<1>1. stack[t] = << >>
  BY DEF Begin, Inv, StackOK, ThreadOK
<1>2. /\ stack' = [stack EXCEPT ![t] = << a >>] /\ UNCHANGED << world, table, objs >>
      /\ stack \in [Threads -> Seq(Acts(Len(objs)))]
  BY DEF Begin, Inv, WellTyped
<1>3. stack'[t] = << a >> /\ OthersKeepStacks(t)
  BY <1>2 DEF OthersKeepStacks
<1>4. \A i \in 1 .. Len(stack'[t]) : stack'[t][i].step = "start"
  BY <1>3
<1> QED
  BY <1>1, <1>2, <1>3, <1>4, QuietLinks

LEMMA FoundLinks ==
  ASSUME Inv, LinksOK, NEW t \in Threads, Found(t) \/ Refuse(t)
  PROVE  LinksOK'
<1>1. /\ stack[t] # << >> /\ Top(t).step = "start" /\ UNCHANGED << world, table, objs >>
      /\ \E x : Return(t, x)
  BY DEF Found, Refuse, MustLoad, At, Active
<1>2. PICK x : Return(t, x)
  BY <1>1
<1>3. PICK a : a = Top(t)
  OBVIOUS
<1>4. ~ Builder(a)
  BY <1>1, <1>3, StartLinks
<1> QED
  BY <1>1, <1>2, <1>3, <1>4, Unchanged, LinksReturned

LEMMA ParseLinks ==
  ASSUME Inv, LinksOK, NEW t \in Threads, Parse(t), ~ crashed'
  PROVE  LinksOK'
<1>0. PICK s : s = world.super[Top(t).name]
  OBVIOUS
<1>1. /\ stack[t] # << >> /\ Top(t).how \in Loaders /\ Top(t).step = "start"
      /\ UNCHANGED << world, table, objs >> /\ WellTyped /\ ~ Builder(Top(t))
  BY DEF Parse, MustLoad, At, Active, Inv, Builder
<1>2. PICK a \in LoaderActs(Len(objs)) : a = Top(t)
  BY <1>1, LoaderTop
<1>3. CASE s = NIL
  <2>1. PICK b : b = [a EXCEPT !.step = "create"]
    OBVIOUS
  <2>2. TopBecomes(t, b)
    BY <1>0, <1>1, <1>2, <1>3, <2>1, GoToTop DEF Parse
  <2>3. b.name = a.name /\ b.step = "create" /\ b.how \in Loaders
    BY <2>1 DEF LoaderActs
  <2>4. ActLinks(b)' /\ ~ Builder(b)
    BY <1>0, <1>1, <1>2, <1>3, <2>3 DEF ActLinks, Builder, NoSuper, Loaders
  <2> QED
    BY <1>1, <2>2, <2>4, Unchanged, LinksMoved
<1>4. CASE s # NIL
  <2>1. PICK b : b = [a EXCEPT !.step = "super"]
    OBVIOUS
  <2>2. TopBecomes(t, b)
    BY <1>0, <1>1, <1>2, <1>4, <2>1, CallTop DEF Parse
  <2>3. b.step = "super" /\ b.how \in Loaders
    BY <2>1 DEF LoaderActs
  <2>4. ActLinks(b)' /\ ~ Builder(b)
    BY <2>3 DEF ActLinks, Builder, Loaders
  <2> QED
    BY <1>1, <2>2, <2>4, Unchanged, LinksMoved
<1> QED
  BY <1>3, <1>4

LEMMA LinkSuperLinks ==
  ASSUME Inv, LinksOK, NEW t \in Threads, LinkSuper(t)
  PROVE  LinksOK'
<1>0. PICK s : s = world.super[Top(t).name]
  OBVIOUS
<1>1. /\ stack[t] # << >> /\ Top(t).how \in Loaders /\ Top(t).step = "super"
      /\ UNCHANGED << world, table, objs >> /\ WellTyped /\ ~ Builder(Top(t))
  BY DEF LinkSuper, At, Active, Inv, Builder
<1>2. PICK a \in LoaderActs(Len(objs)) : a = Top(t) /\ ActOK(a) /\ Len(objs) \in Nat
  BY <1>1, LoaderTop
<1>3. Waiting(a) /\ s = Wanted(a) /\ s \in Classes
  <2>1. s = Wanted(a) /\ Waiting(a)
    BY <1>0, <1>1, <1>2 DEF Wanted, Waiting
  <2> QED
    BY <1>1, <1>2, <2>1, WantedIsClass DEF Acts, WellTyped
<1>4. PICK l \in Ids : l = table[s] /\ LinkedTo(l, s)
  <2>1. table[s] \in Ids
    BY <1>1, <1>3 DEF WellTyped, Names
  <2> QED
    BY <1>1, <1>2, <1>3, <2>1, AnswerLinked
<1>5. LinkedTo(l, s)'
  BY <1>1, <1>4, LinkedStays, Unchanged
<1>6. PICK b : b = [a EXCEPT !.super = l, !.step = "create"]
  OBVIOUS
<1>7. TopBecomes(t, b)
  BY <1>0, <1>1, <1>2, <1>4, <1>6, GoToTop DEF LinkSuper
<1>8. b.name = a.name /\ b.step = "create" /\ b.how \in Loaders /\ b.super = l
  BY <1>6 DEF LoaderActs
<1>9. ActLinks(b)' /\ ~ Builder(b)
  <2>1. s = world'.super[b.name]
    BY <1>0, <1>1, <1>2, <1>8
  <2> QED
    BY <1>5, <1>8, <2>1 DEF ActLinks, Builder, Loaders, LinkedTo, Sound
<1> QED
  BY <1>1, <1>7, <1>9, Unchanged, LinksMoved

LEMMA SomeNeed ==
  ASSUME world \in Worlds, NEW c \in Classes
  PROVE  Len(Needs(c)) \in Nat /\ Len(Needs(c)) >= 1
<1>1. /\ world.intfs[c] \in Seq(Classes) /\ Needs(c) \in Seq(Need)
      /\ Len(Needs(c)) = Len(world.intfs[c])
           + (IF c = ObjectName THEN 0 ELSE 1) + (IF c = ClassName THEN 0 ELSE 1)
  BY NeedsOf
<1>2. c # ObjectName \/ c # ClassName
  BY LoaderAssumption
<1>3. PICK k \in Nat : k = Len(world.intfs[c])
  BY <1>1
<1>4. PICK x \in {0, 1} : x = IF c = ObjectName THEN 0 ELSE 1
  OBVIOUS
<1>5. PICK y \in {0, 1} : y = IF c = ClassName THEN 0 ELSE 1
  OBVIOUS
<1>6. Len(Needs(c)) = k + x + y /\ (x = 1 \/ y = 1)
  BY <1>1, <1>2, <1>3, <1>4, <1>5, Zenon
<1>7. k + x + y \in Nat /\ k + x + y >= 1
  BY <1>6
<1> QED
  BY <1>6, <1>7, Zenon

LEMMA CreateLinks ==
  ASSUME Inv, LinksOK, NEW t \in Threads, Create(t), ~ crashed'
  PROVE  LinksOK'
<1>0. PICK a : a = Top(t)
  OBVIOUS
<1>1. /\ stack[t] # << >> /\ a.how \in Loaders /\ a.step = "create"
      /\ objs' = Append(objs, NewObject(t, a))
      /\ table' = [table EXCEPT ![a.name] = NewId]
      /\ world' = world /\ WellTyped
  BY <1>0 DEF Create, At, Active, Inv
<1>2. /\ a \in LoaderActs(Len(objs)) /\ ActOK(a) /\ a.name \in Classes /\ a.super \in Ids
      /\ Len(objs) \in Nat /\ ~ Builder(a)
  BY <1>0, <1>1, LoaderTop DEF Builder, LoaderActs, Ids
<1>3. PICK c \in Classes : c = a.name /\ Sound(c) /\ a.left = Needs(c)
  BY <1>1, <1>2 DEF ActOK
<1>4. PICK x : x = NewObject(t, a)
  OBVIOUS
<1>5. x \in Objects(Len(objs) + 1) /\ x.name = c /\ x.super = a.super /\ x.intfs = << >>
  BY <1>2, <1>3, <1>4 DEF NewObject, Objects, LoaderActs, Names
<1>6. PICK o : o = NewId
  OBVIOUS
<1>7. /\ Grows /\ o = Len(objs') /\ objs'[o] = x /\ Len(objs') = Len(objs) + 1
      /\ \A i \in 1 .. Len(objs) : objs'[i] = objs[i]
  BY <1>1, <1>3, <1>4, <1>5, <1>6, Registers DEF Names
<1>8. PICK b : b = [a EXCEPT !.obj = o, !.step = "needs"]
  OBVIOUS
<1>9. /\ b.how = a.how /\ b.name = c /\ b.step = "needs" /\ b.obj = o /\ b.left = Needs(c)
      /\ Builder(b)
  BY <1>1, <1>2, <1>3, <1>8 DEF LoaderActs, Builder
<1>10. TopBecomes(t, b)
  <2>1. PICK d : d = Head(a.left).name
    OBVIOUS
  <2>2. CallFrom(t, b, d)
    BY <1>0, <1>6, <1>8, <2>1 DEF Create
  <2> QED
    BY <1>1, <2>2, CallTop
<1>11. Needs(c)' = Needs(c) /\ Len(Needs(c)) \in Nat /\ Len(Needs(c)) >= 1
       /\ Len(world.intfs[c]) \in Nat
  BY <1>1, SameWorld, SomeNeed, NeedsOf DEF WellTyped
<1>12. ActLinks(b)'
  <2>1. Gone(b)' = 0
    BY <1>9, <1>11 DEF Gone
  <2>2. LinksMade(o, c, 0)'
    BY <1>1, <1>5, <1>7, <1>11 DEF LinksMade
  <2> QED
    BY <1>1, <1>9, <2>1, <2>2 DEF ActLinks, Loaders
<1>13. ASSUME NEW i \in 1 .. Len(objs'), i \notin 1 .. Len(objs) PROVE ObjectLinked(i)'
  <2>1. i = o
    BY <1>2, <1>7, <1>13
  <2>2. objs'[i].name # ArrayName
    BY <1>5, <1>7, <2>1, LoaderAssumption
  <2>3. NoSuper(c) \/ LinkedTo(a.super, world.super[c])
    <3>1. Len(stack[t]) \in 1 .. Len(stack[t]) /\ Top(t) = stack[t][Len(stack[t])]
      BY <1>1, TopIs DEF Inv
    <3>2. ActLinks(a)
      BY <1>0, <3>1 DEF LinksOK, ActsLinked
    <3> QED
      BY <1>1, <1>3, <3>2 DEF ActLinks
  <2>4. SuperLinked(i)'
    <3>1. CASE NoSuper(c)
      BY <1>1, <1>5, <1>7, <2>1, <3>1 DEF SuperLinked, NoSuper
    <3>2. CASE LinkedTo(a.super, world.super[c])
      <4>1. PICK s : s = world.super[c]
        OBVIOUS
      <4>2. LinkedTo(a.super, s)'
        BY <1>1, <1>2, <1>7, <3>2, <4>1, LinkedStays
      <4>3. objs'[i].super = a.super /\ world'.super[objs'[i].name] = s
        BY <1>1, <1>5, <1>7, <2>1, <4>1
      <4> QED
        BY <4>2, <4>3 DEF SuperLinked, LinkedTo, Sound
    <3> QED
      BY <2>3, <3>1, <3>2
  <2>5. BeingBuilt(i)'
    <3>1. Len(stack[t]) \in Nat /\ Len(stack[t]) >= 1
      BY <1>1, TopIs DEF Inv
    <3>2. Len(stack[t]) \in 1 .. Len(stack'[t]) /\ stack'[t][Len(stack[t])] = b
      BY <1>10, <3>1 DEF TopBecomes
    <3>3. PICK n : n = Len(stack[t])
      OBVIOUS
    <3>4. n \in 1 .. Len(stack'[t]) /\ Builds(t, n, i)'
      BY <1>9, <2>1, <3>2, <3>3 DEF Builds, Builder
    <3> QED
      BY <3>4 DEF BeingBuilt
  <2> QED
    BY <2>2, <2>4, <2>5 DEF ObjectLinked
<1>14. b.obj \notin 1 .. Len(objs) /\ ObjsStay(t)
  BY <1>2, <1>7, <1>9 DEF ObjsStay
<1> QED
  BY <1>0, <1>1, <1>2, <1>7, <1>10, <1>12, <1>13, <1>14, LinksMoved

\* The next link of class object k, of class c, is set once n of them are there.
LEMMA NeedLinked ==
  ASSUME Inv, Grows, NEW k \in 1 .. Len(objs), NEW c \in Classes,
         NEW n \in 0 .. Len(Needs(c)) - 1, LinksMade(k, c, n),
         NEW need \in Need, need = Needs(c)[n + 1], objs' = Linked(k, need),
         LinkedTo(table[need.name], need.name)
  PROVE  LinksMade(k, c, n + 1)' /\ objs'[k].super = objs[k].super
<1>1. /\ WellTyped /\ Len(objs) \in Nat /\ objs \in Seq(Objects(Len(objs)))
      /\ world \in Worlds /\ world' = world /\ table \in [Names -> Ids]
  BY DEF Inv, WellTyped, Grows
<1>2. PICK I : I = world.intfs[c]
  OBVIOUS
<1>3. PICK N : N = Needs(c)
  OBVIOUS
<1>a. /\ I \in Seq(Classes) /\ N \in Seq(Need)
      /\ Len(N) = Len(I) + (IF c = ObjectName THEN 0 ELSE 1) + (IF c = ClassName THEN 0 ELSE 1)
  BY <1>1, <1>2, <1>3, NeedsOf
<1>b. \A i \in 1 .. Len(I) : N[i] = [role |-> "intfs", name |-> I[i]]
  BY <1>1, <1>2, <1>3, NeedsOf
<1>c. /\ c # ObjectName => N[Len(I) + 1] = [role |-> "object", name |-> ObjectName]
      /\ c # ClassName => N[Len(N)] = [role |-> "class", name |-> ClassName]
  BY <1>1, <1>2, <1>3, NeedsOf
<1>4. Len(I) \in Nat /\ Len(N) \in Nat
  <2>1. I \in Seq(Classes) /\ N \in Seq(Need)
    BY <1>a, Zenon
  <2> QED
    BY <2>1
<1>5. PICK l \in Ids : l = table[need.name]
  BY <1>1 DEF Need, Names
<1>6. PICK x : x = objs[k]
  OBVIOUS
<1>7. x \in Objects(Len(objs)) /\ x.intfs \in Seq(Ids) /\ x.object \in Ids /\ x.class \in Ids
  <2>1. x \in Objects(Len(objs))
    BY <1>1, <1>6
  <2> QED
    BY <2>1 DEF Objects, Ids
<1>8. LinkedTo(l, need.name)'
  <2>1. PICK m : m = need.name
    OBVIOUS
  <2> QED
    BY <1>1, <1>5, <2>1, LinkedStays
<1>9. /\ Len(x.intfs) = IF n < Len(I) THEN n ELSE Len(I)
      /\ \A i \in 1 .. Len(x.intfs) : LinkedTo(x.intfs[i], I[i])'
      /\ n > Len(I) /\ c # ObjectName => LinkedTo(x.object, ObjectName)'
  <2>1. /\ Len(x.intfs) = IF n < Len(I) THEN n ELSE Len(I)
        /\ \A i \in 1 .. Len(x.intfs) : LinkedTo(x.intfs[i], I[i])
        /\ n > Len(I) /\ c # ObjectName => LinkedTo(x.object, ObjectName)
    BY <1>2, <1>6 DEF LinksMade
  <2>2. ASSUME NEW i \in 1 .. Len(x.intfs) PROVE LinkedTo(x.intfs[i], I[i])'
    <3>1. x.intfs[i] \in Ids
      BY <1>7
    <3> QED
      BY <1>1, <2>1, <3>1, LinkedStays
  <2> QED
    BY <1>1, <1>7, <2>1, <2>2, LinkedStays
<1>10. n \in Nat /\ n < Len(N)
  BY <1>3, <1>4
<1>11. Needs(c)' = N /\ world'.intfs[c] = I
  BY <1>1, <1>2, <1>3, SameWorld
<1>12. PICK p \in {0, 1} : p = IF c = ObjectName THEN 0 ELSE 1
  OBVIOUS
<1>13. PICK q \in {0, 1} : q = IF c = ClassName THEN 0 ELSE 1
  OBVIOUS
<1>14. Len(N) = Len(I) + p + q /\ (c # ObjectName => p = 1) /\ (c # ClassName => q = 1)
       /\ (p = 1 => c # ObjectName) /\ (q = 1 => c # ClassName)
  BY <1>a, <1>12, <1>13
<1>15. CASE n < Len(I)
  <2>1. need = [role |-> "intfs", name |-> I[n + 1]]
    <3>1. n + 1 \in 1 .. Len(I)
      BY <1>4, <1>10, <1>15
    <3> QED
      BY <1>b, <1>3, <3>1, Zenon
  <2>2. PICK y : y = [x EXCEPT !.intfs = Append(x.intfs, l)]
    OBVIOUS
  <2>3. objs'[k] = y
    <3>1. need.role = "intfs"
      BY <2>1
    <3>2. objs' = [objs EXCEPT ![k].intfs = Append(@, l)]
      BY <1>5, <3>1 DEF Linked
    <3>3. objs' = [objs EXCEPT ![k] = y]
      BY <1>6, <2>2, <3>2
    <3> QED
      BY <1>1, <3>3
  <2>4. y.intfs = Append(x.intfs, l) /\ y.super = x.super
    BY <1>7, <2>2 DEF Objects
  <2>5. Len(x.intfs) = n
    BY <1>9, <1>15
  <2>6. Len(y.intfs) = n + 1 /\ y.intfs[n + 1] = l /\ \A i \in 1 .. n : y.intfs[i] = x.intfs[i]
    BY <1>5, <1>7, <1>10, <2>4, <2>5
  <2>7. ASSUME NEW i \in 1 .. Len(y.intfs) PROVE LinkedTo(y.intfs[i], I[i])'
    <3>1. CASE i = n + 1
      BY <1>8, <2>1, <2>6, <3>1
    <3>2. CASE i # n + 1
      <4>1. i \in 1 .. n
        BY <1>10, <2>6, <3>2
      <4> QED
        BY <1>9, <2>5, <2>6, <4>1
    <3> QED
      BY <3>1, <3>2
  <2>8. n + 1 > Len(I) => FALSE
    BY <1>4, <1>10, <1>15
  <2>9. n + 1 = Len(N) => c = ClassName
    BY <1>4, <1>10, <1>14, <1>15, <2>1
  <2> QED
    BY <1>6, <1>11, <2>3, <2>4, <2>6, <2>7, <2>8, <2>9 DEF LinksMade
<1>16. CASE n = Len(I) /\ c # ObjectName
  <2>1. need = [role |-> "object", name |-> ObjectName]
    BY <1>c, <1>3, <1>16
  <2>2. PICK y : y = [x EXCEPT !.object = l]
    OBVIOUS
  <2>3. objs'[k] = y
    <3>1. need.role = "object"
      BY <2>1
    <3>2. objs' = [objs EXCEPT ![k].object = l]
      BY <1>5, <3>1 DEF Linked
    <3>3. objs' = [objs EXCEPT ![k] = y]
      BY <1>6, <2>2, <3>2
    <3> QED
      BY <1>1, <3>3
  <2>4. y.intfs = x.intfs /\ y.super = x.super /\ y.object = l
    BY <1>7, <2>2 DEF Objects
  <2>5. n + 1 = Len(N) => c = ClassName
    BY <1>4, <1>14, <1>16
  <2>6. Len(y.intfs) = IF n + 1 < Len(I) THEN n + 1 ELSE Len(I)
    BY <1>4, <1>9, <1>16, <2>4
  <2> QED
    BY <1>6, <1>8, <1>9, <1>11, <2>1, <2>3, <2>4, <2>5, <2>6 DEF LinksMade
<1>17. CASE ~ (n < Len(I)) /\ ~ (n = Len(I) /\ c # ObjectName)
  <2>1. n + 1 = Len(N) /\ c # ClassName
    BY <1>4, <1>10, <1>14, <1>17
  <2>2. need = [role |-> "class", name |-> ClassName]
    BY <1>c, <1>3, <2>1
  <2>3. PICK y : y = [x EXCEPT !.class = l]
    OBVIOUS
  <2>4. objs'[k] = y
    <3>1. need.role = "class"
      BY <2>2
    <3>2. objs' = [objs EXCEPT ![k].class = l]
      BY <1>5, <3>1 DEF Linked
    <3>3. objs' = [objs EXCEPT ![k] = y]
      BY <1>6, <2>3, <3>2
    <3> QED
      BY <1>1, <3>3
  <2>5. y.intfs = x.intfs /\ y.super = x.super /\ y.object = x.object /\ y.class = l
    BY <1>7, <2>3 DEF Objects
  <2>6. c # ObjectName => n > Len(I)
    BY <1>4, <1>10, <1>17
  <2>7. Len(y.intfs) = IF n + 1 < Len(I) THEN n + 1 ELSE Len(I)
    BY <1>4, <1>9, <1>10, <1>17, <2>5
  <2> QED
    BY <1>6, <1>8, <1>9, <1>11, <2>1, <2>2, <2>4, <2>5, <2>6, <2>7 DEF LinksMade
<1> QED
  BY <1>15, <1>16, <1>17

LEMMA LinkNeedLinks ==
  ASSUME Inv, LinksOK, NEW t \in Threads, LinkNeed(t), ~ crashed'
  PROVE  LinksOK'
<1>0. PICK a : a = Top(t)
  OBVIOUS
<1>1. /\ stack[t] # << >> /\ a.how \in Loaders /\ a.step = "needs" /\ Builder(a)
      /\ objs' = Linked(a.obj, Head(a.left)) /\ world' = world /\ table' = table
      /\ WellTyped
  BY <1>0 DEF LinkNeed, At, Active, Builder, Inv
<1>2. /\ a \in LoaderActs(Len(objs)) /\ ActOK(a) /\ a.name \in Classes /\ a.how # "array"
      /\ Len(objs) \in Nat
  BY <1>0, <1>1, LoaderTop
<1>3. /\ Len(stack[t]) \in 1 .. Len(stack[t]) /\ a = stack[t][Len(stack[t])]
  BY <1>0, <1>1, TopIs DEF Inv
<1>4. PICK k \in 1 .. Len(objs) : k = a.obj /\ objs[k].name \in Classes
  BY <1>1, <1>3, BuilderIs
<1>5. PICK c \in Classes : c = a.name /\ objs[k].name = c
  <2>1. Registered(a)
    BY <1>3, BuilderIs
  <2> QED
    BY <1>1, <1>2, <1>4, <2>1 DEF Registered
<1>6. PICK left : left = a.left
  OBVIOUS
<1>7. PICK N : N = Needs(c)
  OBVIOUS
<1>8. N \in Seq(Need) /\ left \in Seq(Need) /\ left # << >> /\ IsRestOf(left, N)
  BY <1>1, <1>2, <1>5, <1>6, <1>7, NeedsOf DEF ActOK, LoaderActs, WellTyped
<1>9. /\ Len(left) \in 1 .. Len(N) /\ Head(left) = N[Len(N) - Len(left) + 1] /\ Head(left) \in Need
      /\ Len(Tail(left)) = Len(left) - 1 /\ Len(N) \in Nat
  BY <1>8, RestOf
<1>10. PICK n : n = Len(N) - Len(left)
  OBVIOUS
<1>11. n \in 0 .. Len(N) - 1 /\ Head(left) = N[n + 1] /\ n + 1 = Len(N) - (Len(left) - 1)
  BY <1>9, <1>10
<1>12. PICK need \in Need : need = Head(left) /\ need.name \in Classes /\ need.name = Wanted(a)
  <2>1. a.how # "array" /\ a.step # "super"
    BY <1>1, <1>2
  <2> QED
    BY <1>6, <1>9, <2>1 DEF Wanted, Need
<1>13. LinkedTo(table[need.name], need.name)
  <2>1. PICK d \in Classes : d = need.name /\ d = Wanted(a)
    BY <1>12
  <2>2. Waiting(a)
    BY <1>1 DEF Waiting
  <2> QED
    BY <1>0, <1>1, <2>1, <2>2, AnswerLinked
<1>14. LinksMade(k, c, n)
  BY <1>1, <1>3, <1>4, <1>5, <1>6, <1>7, <1>10 DEF LinksOK, ActsLinked, ActLinks, Gone
<1>15. objs' = Linked(k, need)
  BY <1>1, <1>4, <1>6, <1>12
<1>16. Grows /\ Len(objs') = Len(objs)
  BY <1>1, <1>15, LinkKeeps DEF LinkKept
<1>17. LinksMade(k, c, n + 1)' /\ objs'[k].super = objs[k].super
  BY <1>7, <1>11, <1>12, <1>13, <1>14, <1>15, <1>16, NeedLinked
<1>18. ObjsStay(t)
  <2>1. TopBuilds(t, k)
    BY <1>1, <1>3, <1>4 DEF TopBuilds, Builds
  <2>2. \A o \in 1 .. Len(objs) : o # k => objs'[o] = objs[o]
    <3>1. objs \in Seq(Objects(Len(objs)))
      BY <1>1 DEF WellTyped
    <3>2. /\ need.role \in Roles
          /\ need.role = "intfs" => objs' = [objs EXCEPT ![k].intfs = Append(@, table[need.name])]
          /\ need.role = "object" => objs' = [objs EXCEPT ![k].object = table[need.name]]
          /\ need.role = "class" => objs' = [objs EXCEPT ![k].class = table[need.name]]
      BY <1>15 DEF Linked, Need
    <3> QED
      BY <3>1, <3>2 DEF Roles
  <2> QED
    BY <1>17, <2>1, <2>2 DEF ObjsStay
<1>19. CASE Tail(left) = << >>
  <2>1. Return(t, k)
    BY <1>0, <1>4, <1>6, <1>19 DEF LinkNeed
  <2>2. n + 1 = Len(N)
    <3>1. Len(<< >>) = 0
      OBVIOUS
    <3>2. Len(left) - 1 = 0
      BY <1>9, <1>19, <3>1, Zenon
    <3>3. n + 1 = Len(N) - 0
      BY <1>11, <3>2, Zenon
    <3>4. \A m \in Nat : m - 0 = m
      OBVIOUS
    <3> QED
      BY <1>9, <3>3, <3>4, Zenon
  <2>3. Needs(c)' = N /\ objs'[k].name = c
    BY <1>1, <1>5, <1>7, <1>16, SameWorld DEF Grows
  <2>4. NeedsLinked(k)'
    BY <1>17, <2>2, <2>3 DEF NeedsLinked, LinksMade, Needs
  <2> QED
    BY <1>0, <1>1, <1>4, <1>16, <1>18, <2>1, <2>4, LinksReturned
<1>20. CASE Tail(left) # << >>
  <2>1. PICK b : b = [a EXCEPT !.left = Tail(left)]
    OBVIOUS
  <2>2. /\ b.how = a.how /\ b.name = c /\ b.step = "needs" /\ b.left = Tail(left) /\ b.obj = k
        /\ Builder(b)
    BY <1>1, <1>2, <1>4, <1>5, <2>1 DEF LoaderActs, Builder
  <2>3. TopBecomes(t, b)
    <3>1. PICK d : d = Head(Tail(left)).name
      OBVIOUS
    <3>2. CallFrom(t, b, d)
      BY <1>0, <1>6, <1>20, <2>1, <3>1 DEF LinkNeed
    <3> QED
      BY <1>1, <3>2, CallTop
  <2>4. ActLinks(b)'
    <3>1. Needs(c)' = N
      BY <1>1, <1>7, SameWorld
    <3>2. Gone(b)' = n + 1
      BY <1>9, <1>11, <2>2, <3>1 DEF Gone
    <3>3. PICK m : m = n + 1
      OBVIOUS
    <3>4. LinksMade(k, c, m)' /\ Gone(b)' = m
      BY <1>17, <3>2, <3>3
    <3> QED
      BY <1>2, <2>2, <3>4 DEF ActLinks
  <2> QED
    BY <1>0, <1>1, <1>4, <1>16, <1>18, <2>2, <2>3, <2>4, LinksMoved
<1> QED
  BY <1>19, <1>20

LEMMA StartArrayLinks ==
  ASSUME Inv, LinksOK, NEW t \in Threads, StartArray(t), ~ crashed'
  PROVE  LinksOK'
<1>0. PICK a : a = Top(t)
  OBVIOUS
<1>1. /\ stack[t] # << >> /\ a.how = "array" /\ a.step = "start"
      /\ UNCHANGED << world, table, objs >> /\ WellTyped
  BY <1>0 DEF StartArray, At, Active, Inv
<1>2. a \in ArrayActs(Len(objs)) /\ ActOK(a) /\ a.how \notin Loaders
  BY <1>0, <1>1, ArrayTop
<1>3. PICK b : b = [a EXCEPT !.step = "needs"]
  OBVIOUS
<1>4. TopBecomes(t, b)
  <2>1. PICK d : d = Head(a.left)
    OBVIOUS
  <2>2. CallFrom(t, b, d)
    BY <1>0, <1>3, <2>1 DEF StartArray
  <2> QED
    BY <1>1, <2>2, CallTop
<1>5. b.how = a.how /\ b.left = ArrayNeeds
  BY <1>1, <1>2, <1>3 DEF ArrayActs, ActOK
<1>6. ActLinks(b)' /\ ~ Builder(b) /\ ~ Builder(a)
  <2>1. Len(ArrayNeeds) = 3
    BY DEF ArrayNeeds
  <2> QED
    BY <1>2, <1>5, <2>1 DEF ActLinks, Builder
<1> QED
  BY <1>0, <1>1, <1>4, <1>6, Unchanged, LinksMoved

LEMMA ArrayNeedLinks ==
  ASSUME Inv, LinksOK, NEW t \in Threads, ArrayNeed(t), ~ crashed'
  PROVE  LinksOK'
<1>0. PICK a : a = Top(t)
  OBVIOUS
<1>1. /\ stack[t] # << >> /\ a.how = "array" /\ a.step = "needs"
      /\ UNCHANGED << world, table, objs >> /\ WellTyped
  BY <1>0 DEF ArrayNeed, At, Active, Inv
<1>2. /\ a \in ArrayActs(Len(objs)) /\ ActOK(a) /\ a.how \notin Loaders /\ ~ Builder(a)
      /\ Len(objs) \in Nat
  BY <1>0, <1>1, ArrayTop DEF Builder
<1>3. PICK left : left = a.left
  OBVIOUS
<1>4. left \in Seq(Classes) /\ left # << >> /\ IsRestOf(left, ArrayNeeds)
  BY <1>1, <1>2, <1>3 DEF ActOK, ArrayActs
<1>5. /\ Len(left) \in 1 .. 3 /\ Head(left) = ArrayNeeds[3 - Len(left) + 1]
      /\ Head(left) \in Classes /\ Len(Tail(left)) = Len(left) - 1
  <2>1. ArrayNeeds \in Seq(Classes) /\ Len(ArrayNeeds) = 3
    BY LoaderAssumption DEF ArrayNeeds
  <2>2. /\ Len(left) \in 1 .. Len(ArrayNeeds)
        /\ Head(left) = ArrayNeeds[Len(ArrayNeeds) - Len(left) + 1]
        /\ Head(left) \in Classes /\ Len(Tail(left)) = Len(left) - 1
    BY <1>4, <2>1, RestOf
  <2> QED
    BY <2>1, <2>2
<1>6. /\ Len(left) = 3 => Head(left) = ObjectName
      /\ Len(left) = 2 => Head(left) = ClassName
  <2>1. ArrayNeeds[1] = ObjectName /\ ArrayNeeds[2] = ClassName
    BY DEF ArrayNeeds
  <2>2. 3 - 3 + 1 = 1 /\ 3 - 2 + 1 = 2
    OBVIOUS
  <2> QED
    BY <1>5, <2>1, <2>2, Zenon
<1>7. CASE ret[t] = 0
  <2>1. Return(t, 0)
    BY <1>7 DEF ArrayNeed
  <2> QED
    BY <1>0, <1>1, <1>2, <2>1, Unchanged, LinksReturned
<1>8. CASE ret[t] # 0
  <2>1. PICK got : got = [a EXCEPT !.super = IF Head(a.left) = ObjectName THEN ret[t] ELSE @,
                                   !.obj = IF Head(a.left) = ClassName THEN ret[t] ELSE @,
                                   !.left = Tail(a.left)]
    OBVIOUS
  <2>2. PICK s : s = IF Head(left) = ObjectName THEN ret[t] ELSE a.super
    OBVIOUS
  <2>3. PICK o : o = IF Head(left) = ClassName THEN ret[t] ELSE a.obj
    OBVIOUS
  <2>4. /\ got.how = "array" /\ got.step = "needs" /\ got.left = Tail(left)
        /\ got.super = s /\ got.obj = o
    BY <1>1, <1>2, <1>3, <2>1, <2>2, <2>3 DEF ArrayActs
  <2>5. LinkedTo(ret[t], Head(left))
    <3>1. PICK c \in Classes : c = Head(left)
      BY <1>5
    <3>2. c = Wanted(a) /\ Waiting(a)
      BY <1>1, <1>3, <3>1 DEF Wanted, Waiting
    <3> QED
      BY <1>0, <1>1, <1>8, <3>1, <3>2, AnswerLinked
  <2>6. /\ Len(left) <= 2 => a.super # 0 /\ LinkedTo(a.super, ObjectName)
        /\ Len(left) <= 1 => a.obj # 0 /\ LinkedTo(a.obj, ClassName)
    <3>1. Len(stack[t]) \in 1 .. Len(stack[t]) /\ a = stack[t][Len(stack[t])]
      BY <1>0, <1>1, TopIs DEF Inv
    <3>2. ActLinks(a)
      BY <3>1 DEF LinksOK, ActsLinked
    <3> QED
      BY <1>1, <1>3, <3>2 DEF ActLinks
  <2>7. s # 0 /\ LinkedTo(s, ObjectName) /\ s \in Ids
    <3>1. CASE Head(left) = ObjectName
      BY <1>1, <1>8, <2>2, <2>5, <3>1 DEF WellTyped
    <3>2. CASE Head(left) # ObjectName
      <4>1. Len(left) # 3
        BY <1>6, <3>2
      <4>2. Len(left) <= 2
        <5>1. \A m \in 1 .. 3 : m # 3 => m <= 2
          OBVIOUS
        <5> QED
          BY <1>5, <4>1, <5>1, Zenon
      <4> QED
        BY <1>2, <2>2, <2>6, <3>2, <4>2 DEF ArrayActs, Ids
    <3> QED
      BY <3>1, <3>2
  <2>8. Len(Tail(left)) <= 1 => o # 0 /\ LinkedTo(o, ClassName) /\ o \in Ids
    <3>1. CASE Head(left) = ClassName
      BY <1>1, <1>8, <2>3, <2>5, <3>1 DEF WellTyped
    <3>2. CASE Head(left) # ClassName
      <4>1. Len(left) # 2
        BY <1>6, <3>2
      <4>2. Len(Tail(left)) <= 1 => Len(left) <= 1
        <5>1. \A m \in 1 .. 3 : m # 2 /\ m - 1 <= 1 => m <= 1
          OBVIOUS
        <5> QED
          BY <1>5, <4>1, <5>1, Zenon
      <4> QED
        BY <1>2, <2>3, <2>6, <3>2, <4>2 DEF ArrayActs, Ids
    <3> QED
      BY <3>1, <3>2
  <2>9. /\ LinkedTo(s, ObjectName)'
        /\ Len(Tail(left)) <= 1 => LinkedTo(o, ClassName)'
    BY <1>1, <2>7, <2>8, LinkedStays, Unchanged
  <2>10. CASE Tail(left) = << >>
    <3>1. PICK b : b = [got EXCEPT !.step = "create"]
      OBVIOUS
    <3>2. TopBecomes(t, b)
      <4>1. GoTo(t, b)
        BY <1>0, <1>3, <1>8, <2>1, <2>10, <3>1 DEF ArrayNeed
      <4> QED
        BY <1>1, <4>1, GoToTop
    <3>3. /\ b.how = "array" /\ b.step = "create" /\ b.left = Tail(left)
          /\ b.super = s /\ b.obj = o
      BY <1>1, <1>2, <1>3, <2>1, <2>2, <2>3, <3>1 DEF ArrayActs
    <3>4. ActLinks(b)' /\ ~ Builder(b)
      BY <2>7, <2>8, <2>9, <3>3 DEF ActLinks, Builder, Loaders
    <3> QED
      BY <1>0, <1>1, <1>2, <3>2, <3>4, Unchanged, LinksMoved
  <2>11. CASE Tail(left) # << >>
    <3>1. TopBecomes(t, got)
      <4>1. PICK d : d = Head(Tail(left))
        OBVIOUS
      <4>2. CallFrom(t, got, d)
        BY <1>0, <1>3, <1>8, <2>1, <2>11, <4>1 DEF ArrayNeed
      <4> QED
        BY <1>1, <4>2, CallTop
    <3>2. ActLinks(got)' /\ ~ Builder(got)
      BY <2>4, <2>7, <2>8, <2>9 DEF ActLinks, Builder, Loaders
    <3> QED
      BY <1>0, <1>1, <1>2, <3>1, <3>2, Unchanged, LinksMoved
  <2> QED
    BY <2>10, <2>11
<1> QED
  BY <1>7, <1>8

LEMMA CreateArrayLinks ==
  ASSUME Inv, LinksOK, NEW t \in Threads, CreateArray(t)
  PROVE  LinksOK'
<1>0. PICK a : a = Top(t)
  OBVIOUS
<1>1. /\ stack[t] # << >> /\ a.how = "array" /\ a.step = "create"
      /\ objs' = Append(objs, [NewObject(t, a) EXCEPT !.object = a.super, !.class = a.obj])
      /\ table' = [table EXCEPT ![ArrayName] = NewId] /\ world' = world
      /\ Return(t, NewId) /\ WellTyped
  BY <1>0 DEF CreateArray, At, Active, Inv
<1>2. /\ a \in ArrayActs(Len(objs)) /\ ActOK(a) /\ a.name = ArrayName /\ a.how \notin Loaders
      /\ Len(objs) \in Nat /\ ~ Builder(a)
  BY <1>0, <1>1, ArrayTop DEF Builder
<1>3. LinkedTo(a.super, ObjectName) /\ LinkedTo(a.obj, ClassName) /\ a.super \in Ids /\ a.obj \in Ids
  <2>1. Len(stack[t]) \in 1 .. Len(stack[t]) /\ a = stack[t][Len(stack[t])]
    BY <1>0, <1>1, TopIs DEF Inv
  <2>2. ActLinks(a)
    BY <2>1 DEF LinksOK, ActsLinked
  <2>3. Len(a.left) = 0
    BY <1>1, <1>2 DEF ActOK
  <2> QED
    BY <1>1, <1>2, <2>2, <2>3 DEF ActLinks, ArrayActs, Ids
<1>4. PICK y : y = NewObject(t, a)
  OBVIOUS
<1>5. PICK x : x = [y EXCEPT !.object = a.super, !.class = a.obj]
  OBVIOUS
<1>6. /\ x \in Objects(Len(objs) + 1) /\ x.name = ArrayName /\ x.super = a.super
      /\ x.class = a.obj
  <2>1. PICK n \in Nat : n = Len(objs) + 1
    BY <1>2
  <2>2. a \in ArrayActs(n)
    BY <1>2, <2>1, ActsGrow
  <2>3. y \in Objects(n) /\ y.name = ArrayName /\ y.super = a.super
    BY <1>2, <1>4, <2>1, <2>2 DEF NewObject, Objects, ArrayActs, Names
  <2> QED
    BY <1>5, <2>1, <2>2, <2>3 DEF Objects, ArrayActs
<1>7. PICK o : o = NewId
  OBVIOUS
<1>8. /\ Grows /\ o = Len(objs') /\ objs'[o] = x /\ Len(objs') = Len(objs) + 1
      /\ \A i \in 1 .. Len(objs) : objs'[i] = objs[i]
  <2>1. PICK n \in Names : n = ArrayName
    BY DEF Names
  <2>2. n \in Classes => Sound(n)
    BY <2>1, LoaderAssumption
  <2> QED
    BY <1>1, <1>4, <1>5, <1>6, <1>7, <2>1, <2>2, Registers
<1>9. LinkedTo(a.super, ObjectName)' /\ LinkedTo(a.obj, ClassName)'
  BY <1>1, <1>3, <1>8, LinkedStays
<1>10. ASSUME NEW i \in 1 .. Len(objs'), i \notin 1 .. Len(objs) PROVE ObjectLinked(i)'
  <2>1. i = o
    BY <1>2, <1>8, <1>10
  <2>2. /\ objs'[i].name = ArrayName /\ objs'[i].super = a.super /\ objs'[i].class = a.obj
    BY <1>6, <1>8, <2>1
  <2> QED
    BY <1>9, <2>2 DEF ObjectLinked, ArrayLinked
<1>11. ObjsStay(t)
  BY <1>8 DEF ObjsStay
<1> QED
  BY <1>0, <1>1, <1>2, <1>8, <1>10, <1>11, LinksReturned

LEMMA InitLinks == Init => LinksOK
<1> SUFFICES ASSUME Init PROVE LinksOK
  OBVIOUS
<1>1. Inv
  BY InitInv
<1>2. Len(objs) = 0
  BY DEF Init
<1>3. \A t \in Threads : \A i \in 1 .. Len(stack[t]) : stack[t][i].step = "start"
  BY DEF Init, Load
<1>4. \A t \in Threads : \A i \in 1 .. Len(stack[t]) : ActLinks(stack[t][i]) /\ ~ Builder(stack[t][i])
  BY <1>3 DEF ActLinks, Builder
<1> QED
  BY <1>2, <1>4 DEF LinksOK, ActsLinked, OneBuilder, Builds

LEMMA SameLinks ==
  ASSUME LinksOK, UNCHANGED << world, table, objs, stack >>
  PROVE  LinksOK'
<1>1. /\ \A l, n : LinkedTo(l, n)' <=> LinkedTo(l, n)
      /\ \A n : Needs(n)' = Needs(n) /\ (NoSuper(n)' <=> NoSuper(n))
  BY SameWorld DEF LinkedTo, Sound
<1>2. \A o, c, n : LinksMade(o, c, n)' <=> LinksMade(o, c, n)
  BY <1>1 DEF LinksMade
<1>3. \A a : ActLinks(a)' <=> ActLinks(a)
  BY <1>1, <1>2 DEF ActLinks, Gone, Builder
<1>4. \A o : ObjectLinked(o)' <=> ObjectLinked(o)
  BY <1>1, <1>2 DEF ObjectLinked, NeedsLinked, SuperLinked, ArrayLinked, BeingBuilt, Builds, Builder
<1>5. ActsLinked' /\ OneBuilder'
  BY <1>3 DEF LinksOK, ActsLinked, OneBuilder, Builds, Builder
<1> QED
  BY <1>4, <1>5 DEF LinksOK

LEMMA NextLinks == Inv /\ LinksOK /\ [Next]_vars /\ ~ crashed' => LinksOK'
<1> SUFFICES ASSUME Inv, LinksOK, [Next]_vars, ~ crashed' PROVE LinksOK'
  OBVIOUS
<1>1. CASE UNCHANGED vars
  BY <1>1, SameLinks DEF vars
<1>2. ASSUME NEW t \in Threads, LoaderStep(t) PROVE LinksOK'
  <2>1. CASE Answer(t)
    BY <2>1, SameLinks DEF Answer
  <2> QED
    BY <1>2, <2>1, FoundLinks, ParseLinks, LinkSuperLinks, CreateLinks, LinkNeedLinks,
       StartArrayLinks, ArrayNeedLinks, CreateArrayLinks DEF LoaderStep
<1>3. ASSUME NEW t \in Threads, ArrayClass(t) PROVE LinksOK'
  <2>1. MakeArray.step = "start"
    BY DEF MakeArray
  <2> QED
    BY <1>3, <2>1, BeginLinks DEF ArrayClass
<1>4. ASSUME NEW t \in Threads, NEW c \in Classes, FromFile(t, c) \/ FromJar(t, c) PROVE LinksOK'
  <2>1. Load(c, "name").step = "start" /\ Load(c, "bytes").step = "start"
    BY DEF Load
  <2> QED
    BY <1>4, <2>1, BeginLinks DEF FromFile, FromJar
<1> QED
  BY <1>1, <1>2, <1>3, <1>4 DEF Next

LEMMA CrashStays == crashed /\ [Next]_vars => crashed'
  BY DEF Next, LoaderStep, Found, Refuse, MustLoad, Parse, LinkSuper, Create, LinkNeed, StartArray,
     ArrayNeed, CreateArray, Answer, ArrayClass, FromFile, FromJar, Begin, At, Active, vars

LEMMA LinksOKComplete == ASSUME Inv, LinksOK PROVE LinksComplete
<1>1. TypeOK
  BY InvTyped
<1>2. WellTyped /\ world \in Worlds
  BY DEF Inv, WellTyped
<1>3. ASSUME NEW o \in 1 .. Len(objs), objs[o].name # ArrayName, BeingBuilt(o)
      PROVE  InProgress(o)
  BY <1>3 DEF BeingBuilt, Builds, InProgress
<1>4. ASSUME NEW o \in 1 .. Len(objs), NEW c \in Classes, c = objs[o].name, NeedsLinked(o)
      PROVE  /\ \A i \in 1 .. Len(world.intfs[c]) : LinkedTo(objs[o].intfs[i], world.intfs[c][i])
             /\ c = ObjectName \/ LinkedTo(objs[o].object, ObjectName)
             /\ c = ClassName \/ LinkedTo(objs[o].class, ClassName)
  <2>1. LinksMade(o, c, Len(Needs(c)))
    BY <1>4 DEF NeedsLinked
  <2>2. PICK k \in Nat : k = Len(world.intfs[c])
    <3>1. world.intfs[c] \in Seq(Classes)
      BY <1>2, NeedsOf
    <3> QED
      BY <3>1
  <2>3. /\ Len(Needs(c)) = k + (IF c = ObjectName THEN 0 ELSE 1) + (IF c = ClassName THEN 0 ELSE 1)
    BY <1>2, <2>2, NeedsOf
  <2>4. ~ (Len(Needs(c)) < k) /\ (c # ObjectName => Len(Needs(c)) > k)
    BY <2>3
  <2> QED
    BY <2>1, <2>2, <2>4 DEF LinksMade
<1>5. ASSUME NEW o \in 1 .. Len(objs) PROVE objs[o].name \in Classes \cup {ArrayName}
  BY <1>1 DEF TypeOK, Names
<1> QED
  BY <1>1, <1>3, <1>4, <1>5 DEF LinksComplete, LinksOK, ObjectLinked, ArrayLinked, SuperLinked, LinkedTo

(* Every class whose load has ended is linked to all the classes around it *)
(* that can be loaded, for every class path and however the loads of the   *)
(* threads interleave, as long as no thread runs out of stack: an overflow *)
(* stops a load between the link it has made and the call for the next.    *)
THEOREM LinksAreComplete == Spec => [](~ crashed => LinksComplete)
<1> DEFINE L == Inv /\ (crashed \/ LinksOK)
<1>1. Init => L
  BY InitInv, InitLinks
<1>2. L /\ [Next]_vars => L'
  <2>1. Inv /\ [Next]_vars => Inv'
    BY NextInv
  <2>2. Inv /\ crashed /\ [Next]_vars => crashed'
    BY CrashStays
  <2>3. Inv /\ LinksOK /\ [Next]_vars => crashed' \/ LinksOK'
    BY NextLinks
  <2> QED
    BY <2>1, <2>2, <2>3
<1>3. L => (~ crashed => LinksComplete)
  BY LinksOKComplete
<1> QED
  BY <1>1, <1>2, <1>3, PTL DEF Spec

-----------------------------------------------------------------------------
(* A set that grows among finitely many elements is closed after as many    *)
(* rounds as there are elements: a chain of sets, one more element in each. *)

LEMMA LeastOf ==
  ASSUME NEW T, T \subseteq Nat, T # {}
  PROVE  \E m \in T : \A k \in T : m <= k
<1> DEFINE R == OpToRel(<, Nat)
<1>1. \A x, y \in Nat : x < y => << x, y >> \in R
  BY DEF OpToRel
<1>2. IsWellFoundedOn(R, Nat)
  BY NatLessThanWellFounded
<1> HIDE DEF R
<1>3. PICK m \in T : \A y \in T : ~ (<< y, m >> \in R)
  BY <1>2, WFMin
<1>4. ASSUME NEW k \in T
      PROVE  m <= k
  <2>1. ~ (k < m)
    BY <1>1, <1>3
  <2>2. k \in Nat /\ m \in Nat
    OBVIOUS
  <2> QED
    BY <2>1, <2>2
<1> QED
  BY <1>3, <1>4

LEMMA NatSetInduction ==
  ASSUME NEW S, 0 \in S, \A n \in Nat : n \in S => n + 1 \in S
  PROVE  Nat \subseteq S
<1>1. SUFFICES ASSUME Nat \ S # {}
               PROVE  FALSE
  OBVIOUS
<1>2. PICK m \in Nat \ S : \A k \in Nat \ S : m <= k
  BY <1>1, LeastOf
<1>3. m # 0
  BY <1>2
<1>4. m - 1 \in Nat /\ m - 1 \in S
  BY <1>2, <1>3
<1> QED
  BY <1>2, <1>4

-----------------------------------------------------------------------------
(* A set that grows by what P makes of it.                                 *)

\* g holds the first n rounds.
Rounds(g, z, P, n) == g[0] = z /\ \A k \in 1 .. n : g[k] = g[k - 1] \cup P[g[k - 1]]

\* g is the growth, round after round.
IsGrowth(g, z, P) ==
  g = [n \in Nat |-> IF n = 0 THEN z ELSE g[n - 1] \cup P[g[n - 1]]]

LEMMA RoundsExist ==
  ASSUME NEW D, NEW z \in SUBSET D, NEW P \in [SUBSET D -> SUBSET D], NEW n \in Nat
  PROVE  \E g \in [0 .. n -> SUBSET D] : Rounds(g, z, P, n)
<1> USE DEF Rounds
<1> DEFINE Made(i, g) == g \in [0 .. i -> SUBSET D] /\ Rounds(g, z, P, i)
<1>1. PICK I \in SUBSET Nat : I = {i \in Nat : \E g : Made(i, g)}
  OBVIOUS
<1>2. 0 \in I
  <2>1. PICK g : g = [k \in 0 .. 0 |-> z]
    OBVIOUS
  <2>2. Made(0, g)
    BY <2>1
  <2> QED
    BY <1>1, <2>2
<1>3. ASSUME NEW i \in Nat, i \in I
      PROVE  i + 1 \in I
  <2>1. PICK g : Made(i, g)
    BY <1>1, <1>3
  <2>2. PICK y : y = g[i] \cup P[g[i]]
    OBVIOUS
  <2>3. g[i] \in SUBSET D /\ P[g[i]] \in SUBSET D
    BY <2>1
  <2>4. y \in SUBSET D
    BY <2>2, <2>3
  <2>5. PICK h : h = [k \in 0 .. i + 1 |-> IF k <= i THEN g[k] ELSE y]
    OBVIOUS
  <2>6. h \in [0 .. i + 1 -> SUBSET D]
    BY <2>1, <2>4, <2>5
  <2>7. h[0] = z /\ \A k \in 0 .. i : h[k] = g[k]
    BY <2>1, <2>5
  <2>8. h[i + 1] = y
    BY <2>5
  <2>9. \A k \in 1 .. i + 1 : h[k] = h[k - 1] \cup P[h[k - 1]]
    <3> SUFFICES ASSUME NEW k \in 1 .. i + 1
                 PROVE  h[k] = h[k - 1] \cup P[h[k - 1]]
      OBVIOUS
    <3>1. CASE k = i + 1
      BY <2>2, <2>7, <2>8, <3>1
    <3>2. CASE k # i + 1
      <4>1. k \in 1 .. i /\ k \in 0 .. i /\ k - 1 \in 0 .. i
        BY <3>2
      <4>2. g[k] = g[k - 1] \cup P[g[k - 1]]
        BY <2>1, <4>1
      <4> QED
        BY <2>7, <4>1, <4>2
    <3> QED
      BY <3>1, <3>2
  <2>10. Made(i + 1, h)
    BY <2>6, <2>7, <2>9
  <2> QED
    BY <1>1, <2>10
<1>4. Nat \subseteq I
  BY <1>2, <1>3, NatSetInduction
<1> QED
  BY <1>1, <1>4

LEMMA RoundsAgree ==
  ASSUME NEW z, NEW P, NEW m \in Nat, NEW n \in Nat, m <= n,
         NEW g, Rounds(g, z, P, m), NEW h, Rounds(h, z, P, n)
  PROVE  g[m] = h[m]
<1>1. PICK I \in SUBSET Nat : I = {i \in Nat : i <= m => g[i] = h[i]}
  OBVIOUS
<1>2. 0 \in I
  BY <1>1 DEF Rounds
<1>3. ASSUME NEW i \in Nat, i \in I
      PROVE  i + 1 \in I
  <2> SUFFICES ASSUME i + 1 <= m PROVE g[i + 1] = h[i + 1]
    BY <1>1
  <2>1. g[i] = h[i]
    BY <1>1, <1>3
  <2>2. PICK k : k = i + 1
    OBVIOUS
  <2>3. k \in 1 .. m /\ k \in 1 .. n /\ k - 1 = i
    BY <2>2
  <2>4. g[k] = g[k - 1] \cup P[g[k - 1]] /\ h[k] = h[k - 1] \cup P[h[k - 1]]
    BY <2>3 DEF Rounds
  <2> QED
    BY <2>1, <2>2, <2>3, <2>4
<1>4. Nat \subseteq I
  BY <1>2, <1>3, NatSetInduction
<1> QED
  BY <1>1, <1>4

\* There is such a growth.
LEMMA GrowthExists ==
  ASSUME NEW D, NEW z \in SUBSET D, NEW P \in [SUBSET D -> SUBSET D]
  PROVE  \E g : IsGrowth(g, z, P)
<1> DEFINE Made(n, g) == g \in [0 .. n -> SUBSET D] /\ Rounds(g, z, P, n)
           Some(n) == CHOOSE g : Made(n, g)
<1>1. ASSUME NEW n \in Nat PROVE Made(n, Some(n))
  <2>1. \E g : Made(n, g)
    BY RoundsExist
  <2> HIDE DEF Made
  <2> QED
    BY <2>1
<1> HIDE DEF Some
<1>2. PICK g : g = [n \in Nat |-> Some(n)[n]]
  OBVIOUS
<1>3. g[0] = z
  BY <1>1, <1>2 DEF Rounds
<1>4. ASSUME NEW n \in Nat, n # 0
      PROVE  g[n] = g[n - 1] \cup P[g[n - 1]]
  <2>1. n - 1 \in Nat /\ n - 1 <= n /\ n \in 1 .. n
    BY <1>4
  <2>2. PICK m \in Nat : m = n - 1
    BY <2>1
  <2>3. Rounds(Some(m), z, P, m) /\ Rounds(Some(n), z, P, n)
    BY <1>1
  <2>4. Some(m)[m] = Some(n)[m]
    BY <2>1, <2>2, <2>3, RoundsAgree
  <2>5. Some(n)[n] = Some(n)[m] \cup P[Some(n)[m]]
    BY <2>1, <2>2, <2>3 DEF Rounds
  <2>6. g[n] = Some(n)[n] /\ g[m] = Some(m)[m]
    BY <1>2
  <2> QED
    BY <2>2, <2>4, <2>5, <2>6
<1>5. g = [n \in Nat |-> IF n = 0 THEN z ELSE g[n - 1] \cup P[g[n - 1]]]
  <2>1. PICK h : h = [n \in Nat |-> IF n = 0 THEN z ELSE g[n - 1] \cup P[g[n - 1]]]
    OBVIOUS
  <2>2. ASSUME NEW n \in Nat PROVE g[n] = h[n]
    BY <1>3, <1>4, <2>1
  <2>3. g = [n \in Nat |-> g[n]]
    BY <1>2
  <2>4. h = [n \in Nat |-> h[n]]
    BY <2>1
  <2> QED
    BY <2>1, <2>2, <2>3, <2>4
<1> QED
  BY <1>5 DEF IsGrowth

\* P makes nothing of S that is not in it.
Closed(S, P) == P[S] \subseteq S

\* With no more than n + 1 elements to take in, n rounds are enough.
LEMMA GrowthCloses ==
  ASSUME NEW D, IsFiniteSet(D), NEW N \in Nat, Cardinality(D) <= N + 1,
         NEW z \in SUBSET D, NEW P \in [SUBSET D -> SUBSET D], z = {} => P[{}] = {},
         NEW g, IsGrowth(g, z, P)
  PROVE  g[N] \in SUBSET D /\ z \subseteq g[N] /\ Closed(g[N], P)
<1>1. g[0] = z /\ \A n \in Nat : g[n + 1] = g[n] \cup P[g[n]]
  <2>1. g[0] = z
    BY DEF IsGrowth
  <2>2. ASSUME NEW n \in Nat PROVE g[n + 1] = g[n] \cup P[g[n]]
    <3>1. PICK k \in Nat : k = n + 1
      OBVIOUS
    <3>2. k # 0 /\ k - 1 = n
      BY <3>1
    <3>3. g[k] = IF k = 0 THEN z ELSE g[k - 1] \cup P[g[k - 1]]
      BY DEF IsGrowth
    <3> QED
      BY <3>1, <3>2, <3>3
  <2> QED
    BY <2>1, <2>2
<1> DEFINE Good(n) ==
             /\ g[n] \in SUBSET D /\ z \subseteq g[n]
             /\ Closed(g[n], P) \/ Cardinality(g[n]) >= n + 1
<1>2. PICK I \in SUBSET Nat : I = {n \in Nat : Good(n)}
  OBVIOUS
<1>3. ASSUME NEW S \in SUBSET D
      PROVE  IsFiniteSet(S) /\ Cardinality(S) \in Nat /\ P[S] \in SUBSET D
  BY FS_Subset, FS_CardinalityType
<1>4. 0 \in I
  <2>1. CASE z = {}
    BY <1>1, <1>2, <2>1 DEF Closed
  <2>2. CASE z # {}
    <3>1. Cardinality(z) # 0
      BY <1>3, <2>2, FS_EmptySet
    <3> QED
      BY <1>1, <1>2, <1>3, <3>1
  <2> QED
    BY <2>1, <2>2
<1>5. ASSUME NEW n \in Nat, n \in I
      PROVE  n + 1 \in I
  <2>1. PICK S \in SUBSET D : S = g[n]
    BY <1>2, <1>5
  <2>2. PICK Q \in SUBSET D : Q = P[S]
    BY <1>3
  <2>3. g[n + 1] = S \cup Q
    BY <1>1, <2>1, <2>2
  <2>4. S \cup Q \in SUBSET D /\ z \subseteq S \cup Q
    BY <1>2, <1>5, <2>1
  <2>5. CASE Q \subseteq S
    <3>1. g[n + 1] = S
      BY <2>3, <2>5
    <3>2. Closed(g[n + 1], P)
      BY <2>2, <2>5, <3>1 DEF Closed
    <3>3. Good(n + 1)
      BY <2>3, <2>4, <3>2
    <3> QED
      BY <1>2, <3>3
  <2>6. CASE ~ (Q \subseteq S)
    <3>1. Cardinality(S) >= n + 1
      BY <1>2, <1>5, <2>1, <2>2, <2>6 DEF Closed
    <3>2. S \subseteq S \cup Q /\ S # S \cup Q
      BY <2>6
    <3>3. IsFiniteSet(S \cup Q) /\ Cardinality(S \cup Q) \in Nat /\ Cardinality(S) \in Nat
      BY <1>3, <2>4
    <3>4. Cardinality(S) < Cardinality(S \cup Q)
      BY <3>2, <3>3, FS_Subset
    <3>5. Cardinality(S \cup Q) >= n + 1 + 1
      BY <3>1, <3>3, <3>4
    <3>6. Good(n + 1)
      BY <2>3, <2>4, <3>5
    <3> QED
      BY <1>2, <3>6
  <2> QED
    BY <2>5, <2>6
<1>6. Nat \subseteq I
  BY <1>4, <1>5, NatSetInduction
<1>7. Good(N)
  BY <1>2, <1>6
<1>8. CASE Cardinality(g[N]) >= N + 1
  <2>1. g[N] \subseteq D /\ Cardinality(D) \in Nat /\ Cardinality(g[N]) \in Nat
    BY <1>3, <1>7
  <2>2. ~ (Cardinality(g[N]) < Cardinality(D))
    BY <1>8, <2>1
  <2>3. g[N] = D
    BY <2>1, <2>2, FS_Subset
  <2>4. P[D] \in SUBSET D
    BY <1>3
  <2> QED
    BY <1>7, <2>3, <2>4 DEF Closed
<1> QED
  BY <1>7, <1>8

-----------------------------------------------------------------------------
(* Above and ClassesAbove hold what is above a class.                       *)

\* What a class extends or implements itself.
ParentsOf(c) == ({world.super[c]} \ {NIL}) \cup ToSet(world.intfs[c])

ParentsAll(S) ==
  (UNION {{world.super[x]} \ {NIL} : x \in S}) \cup (UNION {ToSet(world.intfs[x]) : x \in S})

AboveGrows(g, c) ==
  g = [n \in Nat |-> IF n = 0 THEN ParentsAll({c}) ELSE g[n - 1] \cup ParentsAll(g[n - 1])]

LEMMA AboveIs ==
  ASSUME NEW c
  PROVE  Above(c) = (CHOOSE g : AboveGrows(g, c))[Cardinality(Classes)]
BY DEF Above, AboveGrows, ParentsAll

LEMMA ParentsAreClasses ==
  ASSUME world \in Worlds, NEW c \in Classes
  PROVE  ParentsOf(c) \in SUBSET Classes
<1>1. world.super[c] \in Classes \cup {NIL} /\ world.intfs[c] \in Seq(Classes)
  BY LoaderAssumption
<1>2. ToSet(world.intfs[c]) \subseteq Classes
  BY <1>1 DEF ToSet
<1> QED
  BY <1>1, <1>2 DEF ParentsOf

LEMMA AboveHolds ==
  ASSUME world \in Worlds, IsFiniteSet(Classes), NEW c \in Classes
  PROVE  /\ Above(c) \in SUBSET Classes
         /\ ParentsOf(c) \subseteq Above(c)
         /\ \A d \in Above(c) : ParentsOf(d) \subseteq Above(c)
<1>1. \A S : ParentsAll(S) = UNION {ParentsOf(x) : x \in S}
  <2> SUFFICES ASSUME NEW S PROVE ParentsAll(S) = UNION {ParentsOf(x) : x \in S}
    OBVIOUS
  <2>1. \A y : y \in ParentsAll(S) <=>
               \E x \in S : y \in {world.super[x]} \ {NIL} \/ y \in ToSet(world.intfs[x])
    BY DEF ParentsAll
  <2>2. \A x, y : y \in ParentsOf(x) <=>
                  y \in {world.super[x]} \ {NIL} \/ y \in ToSet(world.intfs[x])
    BY DEF ParentsOf
  <2>3. \A y : y \in ParentsAll(S) <=> \E x \in S : y \in ParentsOf(x)
    BY <2>1, <2>2
  <2> QED
    BY <2>3
<1>2. \A S \in SUBSET Classes : ParentsAll(S) \in SUBSET Classes
  BY <1>1, ParentsAreClasses
<1>3. PICK P : P = [S \in SUBSET Classes |-> ParentsAll(S)]
  OBVIOUS
<1>4. P \in [SUBSET Classes -> SUBSET Classes]
  BY <1>2, <1>3
<1>5. PICK z \in SUBSET Classes : z = ParentsAll({c})
  BY <1>2
<1>6. PICK g : IsGrowth(g, z, P)
  BY <1>4, GrowthExists
<1>7. PICK N \in Nat : N = Cardinality(Classes)
  BY FS_CardinalityType
<1>8. \A S \in SUBSET Classes : P[S] = ParentsAll(S)
  BY <1>3
\* g stays among the classes, and so does any other solution.
<1>9. \A h : IsGrowth(h, z, P) \/ AboveGrows(h, c) =>
        \A n \in Nat : h[n] \in SUBSET Classes
  <2> SUFFICES ASSUME NEW h, IsGrowth(h, z, P) \/ AboveGrows(h, c)
               PROVE  \A n \in Nat : h[n] \in SUBSET Classes
    OBVIOUS
  <2>1. PICK I \in SUBSET Nat : I = {n \in Nat : h[n] \in SUBSET Classes}
    OBVIOUS
  <2>2. \A n \in Nat : \/ h[n] = IF n = 0 THEN z ELSE h[n - 1] \cup P[h[n - 1]]
                       \/ h[n] = IF n = 0 THEN z ELSE h[n - 1] \cup ParentsAll(h[n - 1])
    BY <1>5 DEF IsGrowth, AboveGrows
  <2>3. 0 \in I
    BY <2>1, <2>2
  <2>4. ASSUME NEW n \in Nat, n \in I PROVE n + 1 \in I
    <3>1. PICK k \in Nat : k = n + 1
      OBVIOUS
    <3>2. k # 0 /\ k - 1 = n
      BY <3>1
    <3>3. PICK S \in SUBSET Classes : S = h[n]
      BY <2>1, <2>4
    <3>4. P[S] \in SUBSET Classes /\ ParentsAll(S) \in SUBSET Classes
      BY <1>2, <1>8
    <3>5. h[k] = S \cup P[S] \/ h[k] = S \cup ParentsAll(S)
      BY <2>2, <3>2, <3>3
    <3>6. h[k] \in SUBSET Classes
      BY <3>4, <3>5
    <3> QED
      BY <2>1, <3>1, <3>6
  <2>5. Nat \subseteq I
    BY <2>3, <2>4, NatSetInduction
  <2> QED
    BY <2>1, <2>5
<1>10. ASSUME NEW h, \A n \in Nat : h[n] \in SUBSET Classes
       PROVE  [n \in Nat |-> IF n = 0 THEN z ELSE h[n - 1] \cup P[h[n - 1]]]
                = [n \in Nat |-> IF n = 0 THEN ParentsAll({c}) ELSE h[n - 1] \cup ParentsAll(h[n - 1])]
  <2>1. ASSUME NEW n \in Nat
        PROVE  (IF n = 0 THEN z ELSE h[n - 1] \cup P[h[n - 1]])
                 = IF n = 0 THEN ParentsAll({c}) ELSE h[n - 1] \cup ParentsAll(h[n - 1])
    <3>1. CASE n = 0
      BY <1>5, <3>1
    <3>2. CASE n # 0
      <4>1. n - 1 \in Nat
        BY <3>2
      <4>2. PICK S \in SUBSET Classes : S = h[n - 1]
        BY <1>10, <4>1
      <4>3. P[S] = ParentsAll(S)
        BY <1>8
      <4> QED
        BY <3>2, <4>2, <4>3
    <3> QED
      BY <3>1, <3>2
  <2> QED
    BY <2>1
<1>11. AboveGrows(g, c)
  <2>1. \A n \in Nat : g[n] \in SUBSET Classes
    BY <1>6, <1>9
  <2> QED
    BY <1>6, <1>10, <2>1 DEF IsGrowth, AboveGrows
<1>12. PICK w : w = CHOOSE h : AboveGrows(h, c)
  OBVIOUS
<1>13. AboveGrows(w, c)
  BY <1>11, <1>12
<1>14. IsGrowth(w, z, P)
  <2>1. \A n \in Nat : w[n] \in SUBSET Classes
    BY <1>9, <1>13
  <2> QED
    BY <1>10, <1>13, <2>1 DEF IsGrowth, AboveGrows
<1>15. P[{}] = {}
  BY <1>1, <1>8
<1>16. Cardinality(Classes) <= N + 1
  BY <1>7
<1>17. w[N] \in SUBSET Classes /\ z \subseteq w[N] /\ Closed(w[N], P)
  BY <1>4, <1>14, <1>15, <1>16, GrowthCloses
<1>18. Above(c) = w[N]
  BY <1>7, <1>12, AboveIs
<1>19. ParentsOf(c) \subseteq Above(c)
  BY <1>1, <1>5, <1>17, <1>18
<1>20. ParentsAll(Above(c)) \subseteq Above(c)
  BY <1>8, <1>17, <1>18 DEF Closed
<1>21. \A d \in Above(c) : ParentsOf(d) \subseteq Above(c)
  BY <1>1, <1>20
<1> QED
  BY <1>17, <1>18, <1>19, <1>21

\* The sets of classes above a class are those of the class path.
LEMMA SameAbove ==
  ASSUME world' = world, NEW c
  PROVE  Above(c)' = Above(c) /\ ParentsOf(c)' = ParentsOf(c) /\ ClassesAbove(c)' = ClassesAbove(c)
  BY DEF Above, ParentsOf, ClassesAbove

-----------------------------------------------------------------------------
\* The superclass, and its superclass, and so on.
SupersAll(S) == {world.super[x] : x \in S \ {NIL}}

SupersGrow(g, c) ==
  g = [n \in Nat |-> IF n = 0 THEN {world.super[c]} ELSE g[n - 1] \cup SupersAll(g[n - 1])]

LEMMA ClassesAboveIs ==
  ASSUME NEW c
  PROVE  ClassesAbove(c) = (CHOOSE g : SupersGrow(g, c))[Cardinality(Classes)] \ {NIL}
BY DEF ClassesAbove, SupersGrow, SupersAll

LEMMA ClassesAboveHolds ==
  ASSUME world \in Worlds, IsFiniteSet(Classes), NEW c \in Classes
  PROVE  /\ ClassesAbove(c) \in SUBSET Classes
         /\ world.super[c] \in ClassesAbove(c) \cup {NIL}
         /\ \A d \in ClassesAbove(c) : world.super[d] \in ClassesAbove(c) \cup {NIL}
<1> DEFINE D == Classes \cup {NIL}
<1>1. \A x \in Classes : world.super[x] \in D
  BY LoaderAssumption
<1>2. \A S \in SUBSET D : SupersAll(S) \in SUBSET D
  BY <1>1 DEF SupersAll
<1>3. PICK P : P = [S \in SUBSET D |-> SupersAll(S)]
  OBVIOUS
<1>4. P \in [SUBSET D -> SUBSET D]
  BY <1>2, <1>3
<1>5. PICK z \in SUBSET D : z = {world.super[c]}
  BY <1>1
<1>7. PICK N \in Nat : N = Cardinality(Classes)
  BY FS_CardinalityType
<1>f. IsFiniteSet(D) /\ Cardinality(D) <= N + 1
  <2>1. IsFiniteSet(D)
    BY FS_AddElement
  <2>2. NIL \notin Classes
    BY LoaderAssumption DEF Names
  <2>3. Cardinality(D) = Cardinality(Classes) + 1
    BY <2>2, FS_AddElement
  <2> QED
    BY <1>7, <2>1, <2>3
<1> HIDE DEF D
<1>6. PICK g : IsGrowth(g, z, P)
  BY <1>4, GrowthExists
<1>8. \A S \in SUBSET D : P[S] = SupersAll(S)
  BY <1>3
<1>9. \A h : IsGrowth(h, z, P) \/ SupersGrow(h, c) =>
        \A n \in Nat : h[n] \in SUBSET D
  <2> SUFFICES ASSUME NEW h, IsGrowth(h, z, P) \/ SupersGrow(h, c)
               PROVE  \A n \in Nat : h[n] \in SUBSET D
    OBVIOUS
  <2>1. PICK I \in SUBSET Nat : I = {n \in Nat : h[n] \in SUBSET D}
    OBVIOUS
  <2>2. \A n \in Nat : \/ h[n] = IF n = 0 THEN z ELSE h[n - 1] \cup P[h[n - 1]]
                       \/ h[n] = IF n = 0 THEN z ELSE h[n - 1] \cup SupersAll(h[n - 1])
    BY <1>5 DEF IsGrowth, SupersGrow
  <2>3. 0 \in I
    BY <2>1, <2>2
  <2>4. ASSUME NEW n \in Nat, n \in I PROVE n + 1 \in I
    <3>1. PICK k \in Nat : k = n + 1
      OBVIOUS
    <3>2. k # 0 /\ k - 1 = n
      BY <3>1
    <3>3. PICK S \in SUBSET D : S = h[n]
      BY <2>1, <2>4
    <3>4. P[S] \in SUBSET D /\ SupersAll(S) \in SUBSET D
      BY <1>2, <1>8
    <3>5. h[k] = S \cup P[S] \/ h[k] = S \cup SupersAll(S)
      BY <2>2, <3>2, <3>3
    <3>6. h[k] \in SUBSET D
      BY <3>4, <3>5
    <3> QED
      BY <2>1, <3>1, <3>6
  <2>5. Nat \subseteq I
    BY <2>3, <2>4, NatSetInduction
  <2> QED
    BY <2>1, <2>5
<1>10. ASSUME NEW h, \A n \in Nat : h[n] \in SUBSET D
       PROVE  [n \in Nat |-> IF n = 0 THEN z ELSE h[n - 1] \cup P[h[n - 1]]]
                = [n \in Nat |-> IF n = 0 THEN {world.super[c]} ELSE h[n - 1] \cup SupersAll(h[n - 1])]
  <2>1. ASSUME NEW n \in Nat
        PROVE  (IF n = 0 THEN z ELSE h[n - 1] \cup P[h[n - 1]])
                 = IF n = 0 THEN {world.super[c]} ELSE h[n - 1] \cup SupersAll(h[n - 1])
    <3>1. CASE n = 0
      BY <1>5, <3>1
    <3>2. CASE n # 0
      <4>1. n - 1 \in Nat
        BY <3>2
      <4>2. PICK S \in SUBSET D : S = h[n - 1]
        BY <1>10, <4>1
      <4>3. P[S] = SupersAll(S)
        BY <1>8
      <4> QED
        BY <3>2, <4>2, <4>3
    <3> QED
      BY <3>1, <3>2
  <2> QED
    BY <2>1
<1>11. SupersGrow(g, c)
  <2>1. \A n \in Nat : g[n] \in SUBSET D
    BY <1>6, <1>9
  <2> QED
    BY <1>6, <1>10, <2>1 DEF IsGrowth, SupersGrow
<1>12. PICK w : w = CHOOSE h : SupersGrow(h, c)
  OBVIOUS
<1>13. SupersGrow(w, c)
  BY <1>11, <1>12
<1>14. IsGrowth(w, z, P)
  <2>1. \A n \in Nat : w[n] \in SUBSET D
    BY <1>9, <1>13
  <2> QED
    BY <1>10, <1>13, <2>1 DEF IsGrowth, SupersGrow
<1>15. P[{}] = {}
  <2>1. SupersAll({}) = {}
    BY DEF SupersAll
  <2> QED
    BY <1>8, <2>1
<1>17. w[N] \in SUBSET D /\ z \subseteq w[N] /\ Closed(w[N], P)
  BY <1>4, <1>f, <1>14, <1>15, GrowthCloses
<1>18. ClassesAbove(c) = w[N] \ {NIL}
  BY <1>7, <1>12, ClassesAboveIs
<1>20. SupersAll(w[N]) \subseteq w[N]
  BY <1>8, <1>17 DEF Closed
<1>21. \A d \in w[N] \ {NIL} : world.super[d] \in w[N]
  BY <1>20 DEF SupersAll
<1>22. world.super[c] \in w[N]
  BY <1>5, <1>17
<1> QED
  BY <1>17, <1>18, <1>21, <1>22 DEF D

-----------------------------------------------------------------------------
(* A step, seen through the stack it changes and the class object it makes.*)

\* Class object o keeps its name and how it came about.
Same(o) ==
  objs'[o].name = objs[o].name /\ objs'[o].by = objs[o].by /\ objs'[o].jar = objs[o].jar

NoNew ==
  /\ table' = table /\ Len(objs') = Len(objs)
  /\ \A o \in 1 .. Len(objs) : Same(o)

\* The innermost activation of t makes and registers a class object.
OneNew(t) ==
  LET a == Top(t)
      o == Len(objs) + 1
  IN  /\ a.step = "create" /\ Len(objs') = o
      /\ \A i \in 1 .. Len(objs) : Same(i)
      /\ objs'[o].name = a.name /\ objs'[o].by = t /\ objs'[o].jar = (a.how = "bytes")
      /\ table' = [table EXCEPT ![a.name] = o]

Making(t) == world' = world /\ (NoNew \/ (stack[t] # << >> /\ OneNew(t)))

\* t begins a call.
Starts(t) ==
  /\ Initialised /\ NoNew /\ OthersKeepStacks(t)
  /\ Len(stack'[t]) = 1 /\ stack'[t][1].step = "start"

\* t answers its caller.
Answers(t) == stack[t] = << >> /\ ~ Idle(t) /\ NoNew /\ stack' = stack

\* The innermost activation of t goes on as b; it has looked at the table first.
GoesOn(t, b) ==
  /\ b.name = Top(t).name /\ b.how = Top(t).how /\ b.step \in Steps \ {"start"}
  /\ Top(t).step = "start" /\ b.how # "bytes" => table[b.name] = 0
  /\ b.how \in Loaders /\ b.step \in {"super", "create"} => Top(t).step \in {"start", "super"}
  /\ Top(t).step = "create" => b.step = "needs" /\ b.how \in Loaders

\* The innermost activation of t returns.
Leaves(t) ==
  /\ OthersKeepStacks(t) /\ Popped(stack[t], stack'[t])
  /\ Top(t).how = "name" => Top(t).step \in {"start", "needs"}
  /\ Top(t).how = "name" /\ Top(t).step = "start" =>
       table[Top(t).name] # 0 \/ ~ Sound(Top(t).name)

Moves(t) ==
  /\ stack[t] # << >> /\ api' = api
  /\ Leaves(t) \/ \E b : TopBecomes(t, b) /\ GoesOn(t, b)

\* A step of t.
StepBy(t) == Making(t) /\ (Starts(t) \/ Answers(t) \/ Moves(t))

LEMMA NothingNew ==
  ASSUME objs' = objs, table' = table
  PROVE  NoNew
BY DEF NoNew, Same

LEMMA LeavesBy ==
  ASSUME Inv, NEW t \in Threads, stack[t] # << >>, NEW o, Return(t, o)
  PROVE  OthersKeepStacks(t) /\ Popped(stack[t], stack'[t])
<1>1. stack \in [Threads -> Seq(Acts(Len(objs)))] /\ stack[t] \in Seq(Acts(Len(objs)))
  BY DEF Inv, WellTyped
<1>2. PICK r : r = Front(stack[t])
  OBVIOUS
<1>3. Popped(stack[t], r)
  BY <1>1, <1>2, TopPopped
<1>4. stack' = [stack EXCEPT ![t] = r]
  BY <1>2 DEF Return
<1> QED
  BY <1>1, <1>3, <1>4 DEF OthersKeepStacks

LEMMA FoundShape ==
  ASSUME Inv, NEW t \in Threads, Found(t)
  PROVE  StepBy(t)
<1>1. /\ stack[t] # << >> /\ Top(t).step = "start" /\ table[Top(t).name] # 0
      /\ api' = api /\ objs' = objs /\ table' = table /\ world' = world
      /\ Return(t, table[Top(t).name])
  BY DEF Found, At, Active
<1>2. OthersKeepStacks(t) /\ Popped(stack[t], stack'[t])
  BY <1>1, LeavesBy
<1> QED
  BY <1>1, <1>2, NothingNew DEF StepBy, Making, Moves, Leaves

LEMMA RefuseShape ==
  ASSUME Inv, NEW t \in Threads, Refuse(t)
  PROVE  StepBy(t)
<1>1. /\ stack[t] # << >> /\ Top(t).step = "start" /\ ~ Sound(Top(t).name)
      /\ api' = api /\ objs' = objs /\ table' = table /\ world' = world
      /\ Return(t, 0)
  BY DEF Refuse, MustLoad, At, Active
<1>2. OthersKeepStacks(t) /\ Popped(stack[t], stack'[t])
  BY <1>1, LeavesBy
<1> QED
  BY <1>1, <1>2, NothingNew DEF StepBy, Making, Moves, Leaves

LEMMA ParseShape ==
  ASSUME Inv, NEW t \in Threads, Parse(t), ~ crashed'
  PROVE  StepBy(t)
<1>0. PICK a : a = Top(t)
  OBVIOUS
<1>1. /\ stack[t] # << >> /\ a.how \in Loaders /\ a.step = "start"
      /\ a.how = "name" => table[a.name] = 0
      /\ api' = api /\ objs' = objs /\ table' = table /\ world' = world
  BY <1>0 DEF Parse, MustLoad, At, Active
<1>2. a \in LoaderActs(Len(objs)) /\ WellTyped
  BY <1>0, <1>1, LoaderTop DEF Inv
<1>3. PICK s : s = world.super[a.name]
  OBVIOUS
<1>4. PICK b : /\ b = [a EXCEPT !.step = IF s = NIL THEN "create" ELSE "super"]
               /\ GoTo(t, b) \/ CallFrom(t, b, s)
  BY <1>0, <1>3 DEF Parse
<1>5. b.name = a.name /\ b.how = a.how /\ b.step \in {"create", "super"}
  BY <1>2, <1>4 DEF LoaderActs
<1>6. TopBecomes(t, b)
  BY <1>1, <1>2, <1>4, GoToTop, CallTop
<1>7. GoesOn(t, b)
  BY <1>0, <1>1, <1>5 DEF GoesOn, Steps, Loaders
<1> QED
  BY <1>1, <1>6, <1>7, NothingNew DEF StepBy, Making, Moves

LEMMA LinkSuperShape ==
  ASSUME Inv, NEW t \in Threads, LinkSuper(t)
  PROVE  StepBy(t)
<1>0. PICK a : a = Top(t)
  OBVIOUS
<1>1. /\ stack[t] # << >> /\ a.how \in Loaders /\ a.step = "super"
      /\ api' = api /\ objs' = objs /\ table' = table /\ world' = world
  BY <1>0 DEF LinkSuper, At, Active
<1>2. a \in LoaderActs(Len(objs)) /\ WellTyped
  BY <1>0, <1>1, LoaderTop DEF Inv
<1>3. PICK l : l = table[world.super[a.name]]
  OBVIOUS
<1>4. PICK b : b = [a EXCEPT !.super = l, !.step = "create"] /\ GoTo(t, b)
  BY <1>0, <1>3 DEF LinkSuper
<1>5. b.name = a.name /\ b.how = a.how /\ b.step = "create"
  BY <1>2, <1>4 DEF LoaderActs
<1>6. TopBecomes(t, b)
  BY <1>1, <1>2, <1>4, GoToTop
<1>7. GoesOn(t, b)
  BY <1>0, <1>1, <1>5 DEF GoesOn, Steps
<1> QED
  BY <1>1, <1>6, <1>7, NothingNew DEF StepBy, Making, Moves

\* The step registers x, made of the innermost activation of t.
LEMMA MakesOne ==
  ASSUME Inv, NEW t \in Threads, stack[t] # << >>, Top(t).step = "create", world' = world,
         NEW x, x.name = Top(t).name, x.by = t, x.jar = (Top(t).how = "bytes"),
         objs' = Append(objs, x), table' = [table EXCEPT ![Top(t).name] = NewId]
  PROVE  Making(t)
<1>1. objs \in Seq(Objects(Len(objs))) /\ Len(objs) \in Nat
  BY DEF Inv, WellTyped
<1>2. PICK n \in Nat : n = Len(objs)
  BY <1>1
<1>3. Len(objs') = n + 1 /\ objs'[n + 1] = x /\ \A i \in 1 .. n : objs'[i] = objs[i]
  BY <1>1, <1>2
<1>4. \A i \in 1 .. n : Same(i)
  BY <1>3 DEF Same
<1>5. OneNew(t)
  BY <1>2, <1>3, <1>4 DEF OneNew, NewId
<1> QED
  BY <1>5 DEF Making

LEMMA CreateMakes ==
  ASSUME Inv, NEW t \in Threads, Create(t)
  PROVE  Making(t)
<1>1. /\ stack[t] # << >> /\ Top(t).step = "create" /\ world' = world
      /\ objs' = Append(objs, NewObject(t, Top(t)))
      /\ table' = [table EXCEPT ![Top(t).name] = NewId]
  BY DEF Create, At, Active
<1>2. PICK x : x = NewObject(t, Top(t))
  OBVIOUS
<1>3. x.name = Top(t).name /\ x.by = t /\ x.jar = (Top(t).how = "bytes")
  BY <1>2 DEF NewObject
<1> QED
  BY <1>1, <1>2, <1>3, MakesOne

LEMMA CreateShape ==
  ASSUME Inv, NEW t \in Threads, Create(t), ~ crashed'
  PROVE  StepBy(t)
<1>0. PICK a : a = Top(t)
  OBVIOUS
<1>1. /\ stack[t] # << >> /\ a.how \in Loaders /\ a.step = "create" /\ api' = api
  BY <1>0 DEF Create, At, Active
<1>2. a \in LoaderActs(Len(objs)) /\ WellTyped
  BY <1>0, <1>1, LoaderTop DEF Inv
<1>3. PICK c : c = Head(a.left).name
  OBVIOUS
<1>4. PICK b : b = [a EXCEPT !.obj = NewId, !.step = "needs"] /\ CallFrom(t, b, c)
  BY <1>0, <1>3 DEF Create
<1>5. b.name = a.name /\ b.how = a.how /\ b.step = "needs"
  BY <1>2, <1>4 DEF LoaderActs
<1>6. TopBecomes(t, b)
  BY <1>1, <1>2, <1>4, CallTop
<1>7. GoesOn(t, b)
  BY <1>0, <1>1, <1>5 DEF GoesOn, Steps
<1> QED
  BY <1>1, <1>6, <1>7, CreateMakes DEF StepBy, Moves

LEMMA LinkNeedMakes ==
  ASSUME Inv, NEW t \in Threads, LinkNeed(t)
  PROVE  NoNew /\ world' = world
<1>0. PICK a : a = Top(t)
  OBVIOUS
<1>1. /\ stack[t] # << >> /\ a.how \in Loaders /\ a.step = "needs"
      /\ objs' = Linked(a.obj, Head(a.left)) /\ world' = world /\ table' = table
  BY <1>0 DEF LinkNeed, At, Active
<1>2. /\ WellTyped /\ StackOK /\ Len(objs) \in Nat /\ objs \in Seq(Objects(Len(objs)))
      /\ a \in LoaderActs(Len(objs)) /\ ActOK(a)
  BY <1>0, <1>1, LoaderTop DEF Inv, WellTyped
<1>3. Head(a.left) \in Need
  <2>1. a.left \in Seq(Need) /\ a.left # << >>
    BY <1>1, <1>2 DEF ActOK, LoaderActs
  <2> QED
    BY <2>1
<1>4. PICK need \in Need : need = Head(a.left)
  BY <1>3
<1>5. PICK o : o = a.obj
  OBVIOUS
<1>6. PICK l : l = table[need.name]
  OBVIOUS
<1>7. \A i \in 1 .. Len(objs) : objs[i] \in Objects(Len(objs))
  BY <1>2
<1>8. CASE need.role = "intfs"
  <2>1. objs' = [objs EXCEPT ![o].intfs = Append(@, l)]
    BY <1>1, <1>4, <1>5, <1>6, <1>8 DEF Linked
  <2>2. Len(objs') = Len(objs) /\ \A i \in 1 .. Len(objs) : Same(i)
    BY <1>2, <1>7, <2>1 DEF Same, Objects
  <2> QED
    BY <1>1, <2>2 DEF NoNew
<1>9. CASE need.role = "object"
  <2>1. objs' = [objs EXCEPT ![o].object = l]
    BY <1>1, <1>4, <1>5, <1>6, <1>9 DEF Linked
  <2>2. Len(objs') = Len(objs) /\ \A i \in 1 .. Len(objs) : Same(i)
    BY <1>2, <1>7, <2>1 DEF Same, Objects
  <2> QED
    BY <1>1, <2>2 DEF NoNew
<1>10. CASE need.role = "class"
  <2>1. objs' = [objs EXCEPT ![o].class = l]
    BY <1>1, <1>4, <1>5, <1>6, <1>10 DEF Linked
  <2>2. Len(objs') = Len(objs) /\ \A i \in 1 .. Len(objs) : Same(i)
    BY <1>2, <1>7, <2>1 DEF Same, Objects
  <2> QED
    BY <1>1, <2>2 DEF NoNew
<1> QED
  BY <1>8, <1>9, <1>10 DEF Need, Roles

LEMMA LinkNeedShape ==
  ASSUME Inv, NEW t \in Threads, LinkNeed(t), ~ crashed'
  PROVE  StepBy(t)
<1>0. PICK a : a = Top(t)
  OBVIOUS
<1>1. /\ stack[t] # << >> /\ a.how \in Loaders /\ a.step = "needs" /\ api' = api
  BY <1>0 DEF LinkNeed, At, Active
<1>2. a \in LoaderActs(Len(objs)) /\ WellTyped
  BY <1>0, <1>1, LoaderTop DEF Inv
<1>3. PICK rest : rest = Tail(a.left)
  OBVIOUS
<1>4. CASE rest = << >>
  <2>1. Return(t, a.obj)
    BY <1>0, <1>3, <1>4 DEF LinkNeed
  <2>2. OthersKeepStacks(t) /\ Popped(stack[t], stack'[t])
    BY <1>1, <2>1, LeavesBy
  <2>3. Leaves(t)
    BY <1>0, <1>1, <2>2 DEF Leaves
  <2> QED
    BY <1>1, <2>3, LinkNeedMakes DEF StepBy, Making, Moves
<1>5. CASE rest # << >>
  <2>1. PICK c : c = Head(rest).name
    OBVIOUS
  <2>2. PICK b : b = [a EXCEPT !.left = rest] /\ CallFrom(t, b, c)
    BY <1>0, <1>3, <1>5, <2>1 DEF LinkNeed
  <2>3. b.name = a.name /\ b.how = a.how /\ b.step = "needs"
    BY <1>1, <1>2, <2>2 DEF LoaderActs
  <2>4. TopBecomes(t, b)
    BY <1>1, <1>2, <2>2, CallTop
  <2>5. GoesOn(t, b)
    BY <1>0, <1>1, <2>3 DEF GoesOn, Steps
  <2> QED
    BY <1>1, <2>4, <2>5, LinkNeedMakes DEF StepBy, Making, Moves
<1> QED
  BY <1>4, <1>5

LEMMA StartArrayShape ==
  ASSUME Inv, NEW t \in Threads, StartArray(t), ~ crashed'
  PROVE  StepBy(t)
<1>0. PICK a : a = Top(t)
  OBVIOUS
<1>1. /\ stack[t] # << >> /\ a.how = "array" /\ a.step = "start" /\ table[ArrayName] = 0
      /\ api' = api /\ objs' = objs /\ table' = table /\ world' = world
  BY <1>0 DEF StartArray, At, Active
<1>2. a \in ArrayActs(Len(objs)) /\ a.name = ArrayName /\ a.how \notin Loaders /\ WellTyped
  BY <1>0, <1>1, ArrayTop DEF Inv
<1>3. PICK c : c = Head(a.left)
  OBVIOUS
<1>4. PICK b : b = [a EXCEPT !.step = "needs"] /\ CallFrom(t, b, c)
  BY <1>0, <1>3 DEF StartArray
<1>5. b.name = a.name /\ b.how = a.how /\ b.step = "needs"
  BY <1>2, <1>4 DEF ArrayActs
<1>6. TopBecomes(t, b)
  BY <1>1, <1>2, <1>4, CallTop
<1>7. GoesOn(t, b)
  BY <1>0, <1>1, <1>2, <1>5 DEF GoesOn, Steps
<1> QED
  BY <1>1, <1>6, <1>7, NothingNew DEF StepBy, Making, Moves

LEMMA ArrayNeedShape ==
  ASSUME Inv, NEW t \in Threads, ArrayNeed(t), ~ crashed'
  PROVE  StepBy(t)
<1>0. PICK a : a = Top(t)
  OBVIOUS
<1>1. /\ stack[t] # << >> /\ a.how = "array" /\ a.step = "needs"
      /\ api' = api /\ objs' = objs /\ table' = table /\ world' = world
  BY <1>0 DEF ArrayNeed, At, Active
<1>2. a \in ArrayActs(Len(objs)) /\ a.name = ArrayName /\ a.how \notin Loaders /\ WellTyped
  BY <1>0, <1>1, ArrayTop DEF Inv
<1>3. PICK x : x = IF Head(a.left) = ObjectName THEN ret[t] ELSE a.super
  OBVIOUS
<1>4. PICK y : y = IF Head(a.left) = ClassName THEN ret[t] ELSE a.obj
  OBVIOUS
<1>5. PICK z : z = Tail(a.left)
  OBVIOUS
<1>6. PICK got : got = [a EXCEPT !.super = x, !.obj = y, !.left = z]
  OBVIOUS
<1>7. CASE ret[t] = 0
  <2>1. Return(t, 0)
    BY <1>7 DEF ArrayNeed
  <2>2. Leaves(t)
    BY <1>0, <1>1, <2>1, LeavesBy DEF Leaves
  <2> QED
    BY <1>1, <2>2, NothingNew DEF StepBy, Making, Moves
<1>8. CASE ret[t] # 0
  <2>1. got = [a EXCEPT !.super = IF Head(a.left) = ObjectName THEN ret[t] ELSE @,
                        !.obj = IF Head(a.left) = ClassName THEN ret[t] ELSE @,
                        !.left = Tail(a.left)]
    BY <1>2, <1>3, <1>4, <1>5, <1>6 DEF ArrayActs
  <2>2. \/ GoTo(t, [got EXCEPT !.step = "create"])
        \/ CallFrom(t, got, Head(z))
    BY <1>0, <1>5, <1>8, <2>1 DEF ArrayNeed
  <2>3. got.name = a.name /\ got.how = a.how /\ got.step = "needs"
    BY <1>1, <1>2, <1>6 DEF ArrayActs
  <2>4. PICK d : d = [got EXCEPT !.step = "create"]
    OBVIOUS
  <2>5. d.name = a.name /\ d.how = a.how /\ d.step = "create"
    BY <1>2, <1>6, <2>4 DEF ArrayActs
  <2>6. PICK b : /\ b.name = a.name /\ b.how = a.how /\ b.step \in {"needs", "create"}
                 /\ GoTo(t, b) \/ CallFrom(t, b, Head(z))
    BY <2>2, <2>3, <2>4, <2>5
  <2>7. TopBecomes(t, b)
    BY <1>1, <1>2, <2>6, GoToTop, CallTop
  <2>8. GoesOn(t, b)
    BY <1>0, <1>1, <1>2, <2>6 DEF GoesOn, Steps
  <2> QED
    BY <1>1, <2>7, <2>8, NothingNew DEF StepBy, Making, Moves
<1> QED
  BY <1>7, <1>8

LEMMA CreateArrayShape ==
  ASSUME Inv, NEW t \in Threads, CreateArray(t)
  PROVE  StepBy(t)
<1>0. PICK a : a = Top(t)
  OBVIOUS
<1>1. /\ stack[t] # << >> /\ a.how = "array" /\ a.step = "create" /\ api' = api /\ world' = world
      /\ objs' = Append(objs, [NewObject(t, a) EXCEPT !.object = a.super, !.class = a.obj])
      /\ table' = [table EXCEPT ![ArrayName] = NewId] /\ Return(t, NewId)
  BY <1>0 DEF CreateArray, At, Active
<1>2. a.name = ArrayName
  BY <1>0, <1>1, ArrayTop
<1>3. PICK x : x = [NewObject(t, a) EXCEPT !.object = a.super, !.class = a.obj]
  OBVIOUS
<1>4. x.name = a.name /\ x.by = t /\ x.jar = (a.how = "bytes")
  BY <1>3 DEF NewObject
<1>5. Making(t)
  BY <1>0, <1>1, <1>2, <1>3, <1>4, MakesOne
<1>6. Leaves(t)
  BY <1>0, <1>1, LeavesBy DEF Leaves
<1> QED
  BY <1>1, <1>5, <1>6 DEF StepBy, Moves

LEMMA AnswerShape ==
  ASSUME Inv, NEW t \in Threads, Answer(t)
  PROVE  StepBy(t)
BY NothingNew DEF Answer, StepBy, Making, Answers

LEMMA BeginShape ==
  ASSUME Inv, NEW t \in Threads, NEW call, NEW name, NEW a, a.step = "start",
         Begin(t, call, name, a)
  PROVE  StepBy(t)
<1>1. /\ Initialised /\ world' = world /\ objs' = objs /\ table' = table
      /\ stack' = [stack EXCEPT ![t] = << a >>]
  BY DEF Begin
<1>2. stack \in [Threads -> Seq(Acts(Len(objs)))]
  BY DEF Inv, WellTyped
<1>3. stack'[t] = << a >> /\ OthersKeepStacks(t)
  BY <1>1, <1>2 DEF OthersKeepStacks
<1>4. Len(stack'[t]) = 1 /\ stack'[t][1] = a
  BY <1>3
<1> QED
  BY <1>1, <1>3, <1>4, NothingNew DEF StepBy, Making, Starts

\* A step that leaves no thread crashed is a step of one thread of these shapes.
LEMMA StepShape ==
  ASSUME Inv, Next, ~ crashed'
  PROVE  \E t \in Threads : StepBy(t)
<1>1. PICK t \in Threads : \/ LoaderStep(t) \/ ArrayClass(t)
                           \/ \E c \in Classes : FromFile(t, c) \/ FromJar(t, c)
  BY DEF Next
<1>2. ASSUME LoaderStep(t) PROVE StepBy(t)
  BY <1>2, FoundShape, RefuseShape, ParseShape, LinkSuperShape, CreateShape, LinkNeedShape,
     StartArrayShape, ArrayNeedShape, CreateArrayShape, AnswerShape DEF LoaderStep
<1>3. ASSUME ArrayClass(t) PROVE StepBy(t)
  <2>1. PICK a : a = MakeArray
    OBVIOUS
  <2>2. a.step = "start" /\ Begin(t, "array", ArrayName, a)
    BY <1>3, <2>1 DEF ArrayClass, MakeArray
  <2> QED
    BY <2>2, BeginShape
<1>4. ASSUME NEW c \in Classes, FromFile(t, c) \/ FromJar(t, c) PROVE StepBy(t)
  <2>1. PICK a : a = Load(c, "name")
    OBVIOUS
  <2>2. PICK b : b = Load(c, "bytes")
    OBVIOUS
  <2>3. a.step = "start" /\ b.step = "start"
    BY <2>1, <2>2 DEF Load
  <2>4. Begin(t, "file", c, a) \/ Begin(t, "jar", c, b)
    BY <1>4, <2>1, <2>2 DEF FromFile, FromJar
  <2> QED
    BY <2>3, <2>4, BeginShape
<1> QED
  BY <1>1, <1>2, <1>3, <1>4

\* Whatever the step, at most one class object is new.
LEMMA MakingShape ==
  ASSUME Inv, Next
  PROVE  \E t \in Threads : Making(t)
<1>1. PICK t \in Threads : \/ LoaderStep(t) \/ ArrayClass(t)
                           \/ \E c \in Classes : FromFile(t, c) \/ FromJar(t, c)
  BY DEF Next
<1>2. ASSUME UNCHANGED << world, table, objs >> PROVE Making(t)
  BY <1>2, NothingNew DEF Making
<1>3. CASE Create(t)
  BY <1>3, CreateMakes
<1>4. CASE LinkNeed(t)
  BY <1>4, LinkNeedMakes DEF Making
<1>5. CASE CreateArray(t)
  BY <1>5, CreateArrayShape DEF StepBy
<1>6. CASE ArrayClass(t) \/ \E c \in Classes : FromFile(t, c) \/ FromJar(t, c)
  BY <1>2, <1>6 DEF ArrayClass, FromFile, FromJar, Begin
<1>7. CASE \/ Found(t) \/ Refuse(t) \/ Parse(t) \/ LinkSuper(t)
           \/ StartArray(t) \/ ArrayNeed(t) \/ Answer(t)
  BY <1>2, <1>7 DEF Found, Refuse, Parse, LinkSuper, StartArray, ArrayNeed, Answer
<1> QED
  BY <1>1, <1>3, <1>4, <1>5, <1>6, <1>7 DEF LoaderStep

-----------------------------------------------------------------------------
(* Object and Class, which JvmDependsInit loads before all else.           *)

\* Object and Class as every class path has them: without Object, or with it.
PlainCore ==
  /\ NoSuper(ObjectName) /\ world.intfs[ObjectName] = << >>
  /\ world.super[ClassName] \in {ObjectName, NIL}
  /\ Sound(ClassName) => Sound(ObjectName) \/ world.intfs[ClassName] = << >>

\* Object and Class are in the table, if they can be.
CoreLoaded ==
  /\ Sound(ObjectName) => table[ObjectName] # 0
  /\ Sound(ObjectName) /\ Sound(ClassName) => table[ClassName] # 0

\* JvmDependsInit is at it: the stack of Main, while Class is not registered.
Booting ==
  LET s == stack[Main]
  IN  /\ ~ Initialised /\ \A t \in Threads \ {Main} : Idle(t)
      /\ s # << >> /\ Len(s) <= 3
      /\ Len(s) = 1 => s[1].step # "needs" /\ table[ObjectName] = 0
      /\ Len(s) >= 2 => s[2].step # "needs"
      /\ Len(s) = 3 => s[3].step = "start"

CoreFirst == CoreLoaded \/ Booting

\* What is known of each activation on a stack.
ActsOf(t) ==
  /\ Len(stack[t]) \in Nat
  /\ \A k \in 1 .. Len(stack[t]) :
       LET a == stack[t][k]
       IN  /\ a.name \in Names /\ a.step \in Steps /\ a.how \in Loaders \cup {"array"}
           /\ a.how \in Loaders =>
                /\ a.name \in Classes
                /\ a.step # "start" => Sound(a.name)
                /\ a.step = "super" => Wanted(a) = world.super[a.name] /\ ~ NoSuper(a.name)
                /\ a.step = "needs" =>
                     /\ Wanted(a) \in ToSet(world.intfs[a.name]) \cup {ObjectName, ClassName}
                     /\ table[a.name] # 0
           /\ a.how = "array" => a.name = ArrayName /\ a.step # "super"
           /\ k >= 2 => a.how = "name"
           /\ k < Len(stack[t]) => Waiting(a) /\ stack[t][k + 1].name = Wanted(a)

LEMMA WantedOf ==
  ASSUME world \in Worlds, NEW n \in Nat, NEW a \in LoaderActs(n), ActOK(a), a.step = "needs"
  PROVE  Wanted(a) \in ToSet(world.intfs[a.name]) \cup {ObjectName, ClassName}
<1>1. a.how \in Loaders /\ a.how # "array" /\ a.name \in Classes
  BY DEF LoaderActs, Loaders
<1>2. PICK c \in Classes : c = a.name
  BY <1>1
<1>3. PICK I \in Seq(Classes) : I = world.intfs[c]
  BY LoaderAssumption
<1>4. PICK full \in Seq(Need) :
        /\ full = Needs(c)
        /\ Len(full) = Len(I) + (IF c = ObjectName THEN 0 ELSE 1) + (IF c = ClassName THEN 0 ELSE 1)
        /\ \A i \in 1 .. Len(I) : full[i] = [role |-> "intfs", name |-> I[i]]
        /\ c # ObjectName => full[Len(I) + 1] = [role |-> "object", name |-> ObjectName]
        /\ c # ClassName => full[Len(full)] = [role |-> "class", name |-> ClassName]
  BY <1>3, NeedsOf
<1>5. PICK left \in Seq(Need) : left = a.left /\ left # << >> /\ IsRestOf(left, full)
  BY <1>1, <1>2, <1>4 DEF LoaderActs, ActOK
<1>6. PICK i \in 1 .. Len(full) : Head(left) = full[i]
  BY <1>5, RestOf
<1>7. Wanted(a) = full[i].name
  BY <1>1, <1>5, <1>6 DEF Wanted
<1>8. PICK l \in Nat : l = Len(I)
  BY <1>3
<1>9. CASE i <= l
  <2>1. i \in 1 .. l
    BY <1>6, <1>9
  <2>2. full[i].name = I[i]
    <3>1. full[i] = [role |-> "intfs", name |-> I[i]]
      BY <1>4, <1>8, <2>1
    <3> QED
      BY <3>1
  <2>3. I[i] \in ToSet(I)
    BY <1>8, <2>1 DEF ToSet
  <2> QED
    BY <1>2, <1>3, <1>7, <2>2, <2>3
<1>10. CASE i > l
  <2>1. i \in Nat /\ i <= Len(full)
    BY <1>6
  <2>2. CASE c = ObjectName
    <3>1. Len(full) = l + 1 /\ c # ClassName
      BY <1>4, <1>8, <2>2, LoaderAssumption
    <3>2. i = Len(full)
      BY <1>10, <2>1, <3>1
    <3> QED
      BY <1>4, <1>7, <3>1, <3>2
  <2>3. CASE c = ClassName
    <3>1. Len(full) = l + 1 /\ c # ObjectName
      BY <1>4, <1>8, <2>3, LoaderAssumption
    <3>2. i = l + 1
      BY <1>10, <2>1, <3>1
    <3> QED
      BY <1>4, <1>7, <1>8, <3>1, <3>2
  <2>4. CASE c # ObjectName /\ c # ClassName
    <3>1. Len(full) = l + 2
      BY <1>4, <1>8, <2>4
    <3>2. i = l + 1 \/ i = Len(full)
      BY <1>10, <2>1, <3>1
    <3> QED
      BY <1>4, <1>7, <1>8, <2>4, <3>2
  <2> QED
    BY <2>2, <2>3, <2>4
<1>11. i <= l \/ i > l
  BY <1>6
<1> QED
  BY <1>9, <1>10, <1>11

LEMMA ActsAre == Inv => \A t \in Threads : ActsOf(t)
<1> SUFFICES ASSUME Inv, NEW t \in Threads PROVE ActsOf(t)
  OBVIOUS
<1>1. /\ WellTyped /\ world \in Worlds /\ Len(objs) \in Nat
      /\ stack[t] \in Seq(Acts(Len(objs))) /\ ThreadOK(t)
  BY DEF Inv, WellTyped, StackOK
<1>2. PICK n \in Nat : n = Len(stack[t])
  BY <1>1
<1> SUFFICES ASSUME NEW k \in 1 .. n, NEW a, a = stack[t][k]
    PROVE  /\ a.name \in Names /\ a.step \in Steps /\ a.how \in Loaders \cup {"array"}
           /\ a.how \in Loaders =>
                /\ a.name \in Classes
                /\ a.step # "start" => Sound(a.name)
                /\ a.step = "super" => Wanted(a) = world.super[a.name] /\ ~ NoSuper(a.name)
                /\ a.step = "needs" =>
                     /\ Wanted(a) \in ToSet(world.intfs[a.name]) \cup {ObjectName, ClassName}
                     /\ table[a.name] # 0
           /\ a.how = "array" => a.name = ArrayName /\ a.step # "super"
           /\ k >= 2 => a.how = "name"
           /\ k < n => Waiting(a) /\ stack[t][k + 1].name = Wanted(a)
  BY <1>2 DEF ActsOf
<1>3. a \in Acts(Len(objs)) /\ ActOK(a) /\ Registered(a)
  BY <1>1, <1>2 DEF ThreadOK
<1>4. a.name \in Names /\ a.step \in Steps /\ a.how \in Loaders \cup {"array"}
  BY <1>3 DEF Acts, LoaderActs, ArrayActs, Names
<1>5. ASSUME a.how \in Loaders
      PROVE  /\ a.name \in Classes
             /\ a.step # "start" => Sound(a.name)
             /\ a.step = "super" => Wanted(a) = world.super[a.name] /\ ~ NoSuper(a.name)
             /\ a.step = "needs" =>
                  /\ Wanted(a) \in ToSet(world.intfs[a.name]) \cup {ObjectName, ClassName}
                  /\ table[a.name] # 0
  <2>1. a \in LoaderActs(Len(objs))
    BY <1>1, <1>3, <1>5, KindOfAct
  <2>2. a.name \in Classes
    BY <2>1 DEF LoaderActs
  <2>3. a.step = "needs" => Wanted(a) \in ToSet(world.intfs[a.name]) \cup {ObjectName, ClassName}
    BY <1>1, <1>3, <2>1, WantedOf
  <2>4. a.step = "super" => Wanted(a) = world.super[a.name]
    BY DEF Wanted
  <2> QED
    BY <1>3, <1>5, <2>2, <2>3, <2>4 DEF ActOK, Registered
<1>6. ASSUME a.how = "array" PROVE a.name = ArrayName /\ a.step # "super"
  <2>1. a.how \notin Loaders
    BY <1>6 DEF Loaders
  <2>2. a \in ArrayActs(Len(objs))
    BY <1>1, <1>3, <2>1, KindOfAct
  <2> QED
    BY <2>2 DEF ArrayActs
<1>7. ASSUME k >= 2 PROVE a.how = "name"
  <2>1. k - 1 \in 1 .. n - 1 /\ k - 1 + 1 = k
    BY <1>7
  <2>2. PICK i \in 1 .. n - 1 : i = k - 1 /\ i + 1 = k
    BY <2>1
  <2> QED
    BY <1>1, <1>2, <2>2 DEF ThreadOK
<1>8. ASSUME k < n PROVE Waiting(a) /\ stack[t][k + 1].name = Wanted(a)
  <2>1. k \in 1 .. n - 1
    BY <1>8
  <2> QED
    BY <1>1, <1>2, <2>1 DEF ThreadOK
<1> QED
  BY <1>4, <1>5, <1>6, <1>7, <1>8

LEMMA ActsAreNext == ASSUME Inv' PROVE (\A t \in Threads : ActsOf(t))'
<1>1. Inv'
  OBVIOUS
<1> QED
  BY <1>1, ActsAre, PTL

\* The outermost activations of JvmDependsInit.
BootShape ==
  LET s == stack[Main]
  IN  /\ Len(s) \in Nat /\ Len(s) >= 1
      /\ s[1].name = ObjectName /\ s[1].how = "name" /\ s[1].step \in Steps \ {"super"}
      /\ s[1].step = "needs" => table[ObjectName] # 0
      /\ s[1].step # "start" => Sound(ObjectName)
      /\ s[1].step = "needs" => Wanted(s[1]) = ClassName
      /\ Len(s) >= 2 => s[1].step = "needs" /\ s[2].name = ClassName /\ s[2].how = "name"
      /\ Len(s) >= 3 /\ s[2].step # "needs" => s[2].step = "super" /\ s[3].name = ObjectName

LEMMA BootStack ==
  Inv /\ PlainCore /\ ~ Initialised /\ Main \in Threads /\ stack[Main] # << >> => BootShape
<1> SUFFICES ASSUME Inv, PlainCore, ~ Initialised, Main \in Threads, stack[Main] # << >>
             PROVE  BootShape
  OBVIOUS
<1> DEFINE s == stack[Main]
<1>1. ThreadOK(Main) /\ ActsOf(Main) /\ s \in Seq(Acts(Len(objs)))
  BY ActsAre DEF Inv, StackOK, WellTyped
<1>2. PICK n \in Nat : n = Len(s) /\ n >= 1
  BY <1>1
<1>3. PICK a : a = s[1]
  OBVIOUS
<1>4. a.name = ObjectName /\ a.how = "name" /\ a.how \in Loaders
  <2>1. a.how = HowOf[api[Main].call] /\ a.name = api[Main].name
    BY <1>1, <1>3 DEF ThreadOK
  <2>2. api[Main] = InitCall
    BY DEF Initialised
  <2> QED
    BY <2>1, <2>2 DEF InitCall, HowOf, Loaders
<1>5. 1 \in 1 .. n /\ (n >= 2 => 2 \in 1 .. n) /\ (n >= 3 => 3 \in 1 .. n)
  BY <1>2
<1>6. /\ a.step \in Steps /\ a.step # "super" /\ (a.step = "needs" => table[ObjectName] # 0)
      /\ (a.step # "start" => Sound(ObjectName))
  BY <1>1, <1>2, <1>3, <1>4, <1>5 DEF ActsOf, PlainCore
<1>7. a.step = "needs" => Wanted(a) = ClassName
  <2> SUFFICES ASSUME a.step = "needs" PROVE Wanted(a) = ClassName
    OBVIOUS
  <2>1. a \in LoaderActs(Len(objs)) /\ ActOK(a) /\ Len(objs) \in Nat /\ world \in Worlds
    <3>1. a \in Acts(Len(objs)) /\ ActOK(a) /\ Len(objs) \in Nat /\ world \in Worlds
      BY <1>1, <1>2, <1>3, <1>5 DEF ThreadOK, Inv, WellTyped
    <3> QED
      BY <1>4, <3>1, KindOfAct
  <2>2. PICK full \in Seq(Need) :
          /\ full = Needs(ObjectName) /\ Len(full) = 1
          /\ full[1] = [role |-> "class", name |-> ClassName]
    <3>1. PICK full \in Seq(Need) :
            /\ full = Needs(ObjectName) /\ Len(full) = Len(world.intfs[ObjectName]) + 0 + 1
            /\ full[Len(full)] = [role |-> "class", name |-> ClassName]
      BY <2>1, NeedsOf, LoaderAssumption
    <3>2. Len(world.intfs[ObjectName]) = 0
      BY DEF PlainCore
    <3> QED
      BY <3>1, <3>2
  <2>3. PICK left \in Seq(Need) : left = a.left /\ left # << >> /\ IsRestOf(left, full)
    BY <1>4, <2>1, <2>2 DEF LoaderActs, ActOK
  <2>4. /\ Len(left) \in 1 .. Len(full)
        /\ Head(left) = full[Len(full) - Len(left) + 1]
    BY <2>3, RestOf
  <2>6. Len(left) = 1 /\ Len(full) = 1
    BY <2>2, <2>4
  <2>5. Head(left) = full[1]
    BY <2>4, <2>6
  <2> QED
    BY <1>4, <2>2, <2>3, <2>5 DEF Wanted
<1>8. n >= 2 => a.step = "needs" /\ s[2].name = ClassName /\ s[2].how = "name"
  <2> SUFFICES ASSUME n >= 2 PROVE a.step = "needs" /\ s[2].name = ClassName /\ s[2].how = "name"
    OBVIOUS
  <2>1. Waiting(a) /\ s[2].name = Wanted(a) /\ s[2].how = "name"
    BY <1>1, <1>2, <1>3, <1>5 DEF ActsOf
  <2> QED
    BY <1>6, <1>7, <2>1 DEF Waiting
<1>9. n >= 3 /\ s[2].step # "needs" => s[2].step = "super" /\ s[3].name = ObjectName
  <2> SUFFICES ASSUME n >= 3, s[2].step # "needs"
               PROVE  s[2].step = "super" /\ s[3].name = ObjectName
    OBVIOUS
  <2>1. PICK b : b = s[2]
    OBVIOUS
  <2>2. Waiting(b) /\ s[3].name = Wanted(b) /\ b.how = "name" /\ b.name = ClassName
    BY <1>1, <1>2, <1>5, <1>8, <2>1 DEF ActsOf
  <2>3. b.step = "super"
    BY <2>1, <2>2 DEF Waiting
  <2>4. Wanted(b) = world.super[ClassName] /\ ~ NoSuper(ClassName)
    BY <1>1, <1>2, <1>5, <2>1, <2>2, <2>3 DEF ActsOf, Loaders
  <2> QED
    BY <2>1, <2>2, <2>3, <2>4 DEF PlainCore, NoSuper
<1> QED
  BY <1>2, <1>3, <1>4, <1>6, <1>7, <1>8, <1>9 DEF BootShape

LEMMA TopActs ==
  ASSUME Inv, NEW t \in Threads, stack[t] # << >>
  PROVE  \E n \in Nat : n = Len(stack[t]) /\ n >= 1 /\ Top(t) = stack[t][n]
BY TopIs DEF Inv

\* A step keeps what is in the table.
LEMMA TableStays ==
  ASSUME Inv, NEW t \in Threads, Making(t)
  PROVE  \A c \in Names : table[c] # 0 => table'[c] # 0
<1>1. table \in [Names -> 0 .. Len(objs)] /\ Len(objs) \in Nat
  BY DEF Inv, WellTyped, Ids
<1>2. CASE NoNew
  BY <1>2 DEF NoNew
<1>3. CASE OneNew(t)
  <2>1. table' = [table EXCEPT ![Top(t).name] = Len(objs) + 1]
    BY <1>3 DEF OneNew
  <2> QED
    BY <1>1, <2>1
<1> QED
  BY <1>2, <1>3 DEF Making

LEMMA CoreStays ==
  ASSUME Inv, NEW t \in Threads, Making(t), CoreLoaded
  PROVE  CoreLoaded'
<1>1. ObjectName \in Names /\ ClassName \in Names
  BY LoaderAssumption DEF Names
<1>2. \A c : Sound(c)' <=> Sound(c)
  BY SameWorld DEF Making
<1> QED
  BY <1>1, <1>2, TableStays DEF CoreLoaded

LEMMA PlainStays == ASSUME world' = world, PlainCore PROVE PlainCore'
BY DEF PlainCore, NoSuper, Sound

LEMMA BootStackNext ==
  ASSUME Inv', PlainCore', ~ Initialised', stack'[Main] # << >>
  PROVE  BootShape'
<1>1. (Inv /\ PlainCore /\ ~ Initialised /\ Main \in Threads /\ stack[Main] # << >>)'
  BY LoaderAssumption
<1> QED
  BY <1>1, BootStack, PTL

\* While JvmDependsInit runs, Object and Class are loaded before all else.
LEMMA BootKept ==
  ASSUME Inv, Inv', PlainCore, PlainCore', Booting, NEW t \in Threads, StepBy(t)
  PROVE  CoreFirst'
<1>1. PICK s : s = stack[Main]
  OBVIOUS
<1>2. PICK r : r = stack'[Main]
  OBVIOUS
<1>3. /\ ~ Initialised /\ s # << >> /\ Main \in Threads /\ world' = world
      /\ \A u \in Threads \ {Main} : Idle(u)
  BY <1>1, LoaderAssumption DEF Booting, StepBy, Making
<1>4. Moves(t) /\ t = Main
  <2>1. CASE Starts(t)
    BY <1>3, <2>1 DEF Starts
  <2>2. CASE Answers(t)
    BY <1>1, <1>3, <2>2 DEF Answers
  <2>3. CASE Moves(t)
    <3>1. stack[t] # << >>
      BY <2>3 DEF Moves
    <3>2. ~ Idle(t)
      BY <3>1 DEF Inv, StackOK, ThreadOK
    <3> QED
      BY <1>3, <2>3, <3>2
  <2> QED
    BY <2>1, <2>2, <2>3 DEF StepBy
<1>5. ~ Initialised' /\ \A u \in Threads \ {Main} : Idle(u)'
  BY <1>3, <1>4 DEF Moves, Initialised, Idle
<1>6. /\ \A c : Sound(c)' <=> Sound(c)
      /\ \A c \in Names : table[c] # 0 => table'[c] # 0
      /\ ObjectName \in Names /\ ClassName \in Names
  BY <1>3, SameWorld, TableStays, LoaderAssumption DEF StepBy, Names
<1>7. BootShape
  BY <1>1, <1>3, BootStack
<1>8. PICK n \in Nat : n = Len(s) /\ n >= 1 /\ n <= 3 /\ Top(Main) = s[n]
  BY <1>1, <1>3, TopActs DEF Booting
<1>9. /\ s[1].name = ObjectName /\ s[1].how = "name" /\ s[1].step \in Steps \ {"super"}
      /\ s[1].step = "needs" => table[ObjectName] # 0
      /\ s[1].step # "start" => Sound(ObjectName)
      /\ n >= 2 => s[1].step = "needs" /\ s[2].name = ClassName /\ s[2].how = "name"
      /\ n >= 3 => s[2].step = "super" /\ s[3].name = ObjectName
      /\ n = 1 => s[1].step # "needs" /\ table[ObjectName] = 0
      /\ n >= 2 => s[2].step # "needs"
      /\ n = 3 => s[3].step = "start"
  BY <1>1, <1>7, <1>8 DEF BootShape, Booting
<1>10. r # << >> => BootShape'
  BY <1>2, <1>5, BootStackNext
\* What is left once Object is back from its first load.
<1>11. ASSUME r # << >>, Len(r) = 1, r[1].step = "needs" PROVE CoreFirst'
  <2>1. PICK a : a = r[1]
    OBVIOUS
  <2>2. Top(Main)' = a
    BY <1>2, <1>11, <2>1 DEF Top, Last
  <2>3. Waiting(a) /\ Wanted(a)' = ClassName /\ table'[ObjectName] # 0
    BY <1>2, <1>10, <1>11, <2>1 DEF BootShape, Waiting
  <2>4. HasAnswer(Main)'
    BY <1>3 DEF Inv, AnswersOK
  <2>5. Waiting(Top(Main))' /\ Wanted(Top(Main))' = ClassName
    BY <2>2, <2>3 DEF Waiting, Wanted
  <2>6. Answered(Main, ClassName)'
    BY <1>2, <1>11, <2>4, <2>5 DEF HasAnswer
  <2>7. CoreLoaded'
    BY <2>3, <2>6 DEF CoreLoaded, Answered
  <2> QED
    BY <2>7 DEF CoreFirst
\* Class is registered.
<1>12. ASSUME r # << >>, Len(r) >= 2, r[2].step = "needs" PROVE CoreFirst'
  <2>1. r[1].step = "needs" /\ r[2].name = ClassName /\ r[2].how = "name"
        /\ table'[ObjectName] # 0 /\ Len(r) \in Nat
    BY <1>2, <1>10, <1>12 DEF BootShape
  <2>2. 2 \in 1 .. Len(r)
    BY <1>12, <2>1
  <2>3. ThreadOK(Main)'
    BY <1>3 DEF Inv, StackOK
  <2>4. Registered(r[2])'
    BY <1>2, <2>2, <2>3 DEF ThreadOK
  <2>5. table'[ClassName] # 0
    BY <1>12, <2>1, <2>4 DEF Registered, Loaders
  <2> QED
    BY <2>1, <2>5 DEF CoreFirst, CoreLoaded
<1>13. CASE Leaves(Main)
  <2>1. Popped(s, r)
    BY <1>1, <1>2, <1>13 DEF Leaves
  <2>2. CASE n = 1
    <3>1. s[1].step = "start" /\ ~ Sound(ObjectName)
      BY <1>8, <1>9, <1>13, <2>2 DEF Leaves
    <3> QED
      BY <1>6, <3>1 DEF CoreFirst, CoreLoaded
  <2>3. CASE n = 2
    <3>1. Len(r) = 1 /\ r[1] = s[1] /\ r # << >>
      BY <1>8, <2>1, <2>3 DEF Popped
    <3> QED
      BY <1>9, <1>11, <2>3, <3>1
  <2>4. CASE n = 3
    <3>1. Len(r) = 2 /\ r[1] = s[1] /\ r[2] = s[2] /\ r # << >>
      BY <1>8, <2>1, <2>4 DEF Popped
    <3> QED
      BY <1>2, <1>5, <1>9, <2>4, <3>1 DEF CoreFirst, Booting
  <2> QED
    BY <1>8, <2>2, <2>3, <2>4
<1>14. ASSUME NEW b, TopBecomes(Main, b), GoesOn(Main, b) PROVE CoreFirst'
  <2>1. /\ Len(r) \in {n, n + 1} /\ r[n] = b /\ \A i \in 1 .. n - 1 : r[i] = s[i]
        /\ Len(r) = n + 1 => r[n + 1].step = "start"
    BY <1>1, <1>2, <1>8, <1>14 DEF TopBecomes
  <2>2. r # << >> /\ b.step \in Steps \ {"start"} /\ b.name = s[n].name /\ b.how = s[n].how
    <3>1. r # << >>
      BY <1>8, <2>1
    <3> QED
      BY <1>8, <1>14, <3>1 DEF GoesOn
  <2>3. CASE n = 1
    <3>1. r[1] = b /\ b.step # "super"
      BY <1>2, <1>10, <2>1, <2>2, <2>3 DEF BootShape
    <3>2. CASE Len(r) = 1 /\ b.step = "needs"
      BY <1>11, <2>2, <3>1, <3>2
    <3>3. CASE Len(r) = 1 /\ b.step # "needs"
      <4>1. b.step = "create"
        BY <2>2, <3>1, <3>3 DEF Steps
      <4>2. s[1].step # "create"
        BY <1>8, <1>14, <2>3, <4>1 DEF GoesOn
      <4>3. NoNew
        BY <1>4, <1>8, <2>3, <4>2 DEF StepBy, Making, OneNew
      <4>4. table'[ObjectName] = 0
        BY <1>9, <2>3, <4>3 DEF NoNew
      <4> QED
        BY <1>2, <1>5, <2>2, <3>1, <3>3, <4>4 DEF CoreFirst, Booting
    <3>4. CASE Len(r) = 2
      <4>1. r[2].step = "start"
        BY <2>1, <2>3, <3>4
      <4> QED
        BY <1>2, <1>5, <2>2, <3>4, <4>1 DEF CoreFirst, Booting
    <3> QED
      BY <2>1, <2>3, <3>2, <3>3, <3>4
  <2>4. CASE n = 2
    <3>1. r[2] = b
      BY <2>1, <2>4
    <3>2. CASE b.step = "needs"
      BY <1>12, <2>1, <2>2, <2>4, <3>1, <3>2
    <3>3. CASE b.step # "needs"
      <4>1. Len(r) = 3 => r[3].step = "start"
        BY <2>1, <2>4
      <4>2. Len(r) = 2 \/ Len(r) = 3
        BY <2>1, <2>4
      <4>6. PICK l \in Nat : l = Len(r)
        BY <4>2
      <4>7. l \in {2, 3}
        BY <4>2, <4>6
      <4>8. l <= 3 /\ l # 1
        BY <4>7
      <4>3. Len(r) <= 3 /\ Len(r) # 1
        BY <4>6, <4>8
      <4>5. r[2].step # "needs"
        BY <3>1, <3>3
      <4>4. Booting'
        BY <1>2, <1>5, <2>2, <4>1, <4>3, <4>5 DEF Booting
      <4> QED
        BY <4>4 DEF CoreFirst
    <3> QED
      BY <3>2, <3>3
  <2>5. CASE n = 3
    <3>1. b.name = ObjectName /\ s[3].step = "start"
      BY <1>9, <2>2, <2>5
    <3>2. b.how = "name"
      <4>1. ActsOf(Main) /\ 3 \in 1 .. Len(stack[Main])
        BY <1>1, <1>3, <1>8, <2>5, ActsAre
      <4> QED
        BY <1>1, <2>2, <2>5, <4>1 DEF ActsOf
    <3>3. table[ObjectName] = 0
      BY <1>8, <1>14, <2>5, <3>1, <3>2 DEF GoesOn
    <3> QED
      BY <1>9, <2>5, <3>3
  <2> QED
    BY <1>8, <2>3, <2>4, <2>5
<1> QED
  BY <1>4, <1>13, <1>14 DEF Moves

LEMMA CoreFirstKept ==
  ASSUME Inv, Inv', PlainCore, PlainCore', CoreFirst, NEW t \in Threads, StepBy(t)
  PROVE  CoreFirst'
<1>1. CASE CoreLoaded
  BY <1>1, CoreStays DEF CoreFirst, StepBy
<1>2. CASE Booting
  BY <1>2, BootKept
<1> QED
  BY <1>1, <1>2 DEF CoreFirst

-----------------------------------------------------------------------------
(* What an activation that waits for its superclass has above it.          *)

\* b is at work for a, which waits for its superclass: b is a class above a, or
\* Object or Class about to be found in the table, or Class where Object is not
\* to be had.
Chained(a, b) ==
  \/ b.name \in Above(a.name)
  \/ b.step = "start" /\ b.name \in {ObjectName, ClassName}
  \/ b.name = ClassName /\ ~ Sound(ObjectName)

Chains(t) ==
  \A k, m \in 1 .. Len(stack[t]) :
    k < m /\ stack[t][k].step = "super" => Chained(stack[t][k], stack[t][m])

AboveOK ==
  \A c \in Classes :
    /\ Above(c) \in SUBSET Classes
    /\ ParentsOf(c) \subseteq Above(c)
    /\ \A d \in Above(c) : ParentsOf(d) \subseteq Above(c)

LEMMA AboveIsOK == ASSUME Inv, IsFiniteSet(Classes) PROVE AboveOK
<1>1. world \in Worlds
  BY DEF Inv, WellTyped
<1> QED
  BY <1>1, AboveHolds DEF AboveOK

LEMMA ChainedStays ==
  ASSUME world' = world, NEW a, NEW b
  PROVE  Chained(a, b)' <=> Chained(a, b)
<1>1. Above(a.name)' = Above(a.name) /\ (Sound(ObjectName)' <=> Sound(ObjectName))
  <2>1. PICK c : c = a.name
    OBVIOUS
  <2>2. Above(c)' = Above(c)
    BY SameAbove
  <2> QED
    BY <2>1, <2>2, SameWorld
<1> QED
  BY <1>1 DEF Chained

\* Below a class that waits for its superclass, Object and Class do not get
\* past the look at the table.
LEMMA CoreIsFound ==
  ASSUME Inv, PlainCore, CoreFirst, NEW t \in Threads,
         NEW n \in Nat, n = Len(stack[t]), NEW k \in 1 .. n - 1, stack[t][k].step = "super",
         stack[t][n].step = "start", stack[t][n].name \in {ObjectName, ClassName},
         table[stack[t][n].name] = 0, Sound(stack[t][n].name)
  PROVE  stack[t][n].name = ClassName /\ ~ Sound(ObjectName)
<1>1. CASE CoreLoaded
  BY <1>1 DEF CoreLoaded
<1>2. CASE Booting
  <2>1. stack[t] # << >>
    <3>1. stack[t] \in Seq(Acts(Len(objs)))
      BY DEF Inv, WellTyped
    <3> QED
      BY <3>1
  <2>2. ~ Idle(t)
    BY <2>1 DEF Inv, StackOK, ThreadOK
  <2>3. t = Main /\ ~ Initialised
    BY <1>2, <2>2 DEF Booting
  <2>4. BootShape
    BY <2>1, <2>3, BootStack
  <2>5. k # 1 /\ n <= 3
    BY <1>2, <2>3, <2>4 DEF BootShape, Booting
  <2>6. k = 2 /\ n = 3
    <3>1. \A i, j \in Nat : j <= 3 /\ i \in 1 .. j - 1 /\ i # 1 => i = 2 /\ j = 3
      OBVIOUS
    <3>2. n \in Nat /\ k \in Nat /\ k \in 1 .. n - 1
      OBVIOUS
    <3> QED
      BY <2>5, <3>1, <3>2, Zenon
  <2>7. stack[t][3].name = ObjectName /\ table[ObjectName] # 0
    BY <2>3, <2>4, <2>6 DEF BootShape
  <2> QED
    BY <2>6, <2>7
<1> QED
  BY <1>1, <1>2 DEF CoreFirst

\* The chains of t once its innermost activation has gone on as b.
LEMMA ChainsGoOn ==
  ASSUME Inv, Inv', PlainCore, CoreFirst, AboveOK, NEW t \in Threads, Chains(t),
         stack[t] # << >>, world' = world, NEW b, TopBecomes(t, b), GoesOn(t, b)
  PROVE  Chains(t)'
<1>1. PICK s : s = stack[t]
  OBVIOUS
<1>2. PICK r : r = stack'[t]
  OBVIOUS
<1>3. PICK n \in Nat : n = Len(s) /\ n >= 1 /\ Top(t) = s[n]
  BY <1>1, TopActs
<1>4. /\ Len(r) \in {n, n + 1} /\ r[n] = b /\ \A i \in 1 .. n - 1 : r[i] = s[i]
      /\ Len(r) = n + 1 => r[n + 1].step = "start"
  BY <1>1, <1>2, <1>3 DEF TopBecomes
<1>5. ActsOf(t) /\ ActsOf(t)'
  BY ActsAre, ActsAreNext
<1>6. /\ b.name = s[n].name /\ b.how = s[n].how /\ b.step \in Steps \ {"start"}
      /\ s[n].step = "start" /\ b.how # "bytes" => table[b.name] = 0
  BY <1>3 DEF GoesOn
<1>7. n \in 1 .. Len(r)
  BY <1>3, <1>4
<1>8. /\ b.how \in Loaders \cup {"array"}
      /\ b.how = "array" => b.step # "super"
      /\ b.how \in Loaders =>
           /\ b.name \in Classes /\ Sound(b.name)
           /\ b.step = "super" => Wanted(b) = world.super[b.name] /\ ~ NoSuper(b.name)
           /\ b.step = "needs" =>
                Wanted(b) \in ToSet(world.intfs[b.name]) \cup {ObjectName, ClassName}
  <2>1. /\ b.how \in Loaders \cup {"array"}
        /\ b.how = "array" => b.step # "super"
        /\ b.how \in Loaders =>
             /\ b.name \in Classes /\ Sound(b.name)'
             /\ b.step = "super" => Wanted(b)' = world'.super[b.name] /\ ~ NoSuper(b.name)'
             /\ b.step = "needs" =>
                Wanted(b)' \in ToSet(world'.intfs[b.name]) \cup {ObjectName, ClassName}
    BY <1>2, <1>4, <1>5, <1>6, <1>7 DEF ActsOf
  <2>2. PICK c : c = b.name
    OBVIOUS
  <2>3. /\ Wanted(b)' = Wanted(b) /\ (Sound(c)' <=> Sound(c)) /\ (NoSuper(c)' <=> NoSuper(c))
    BY SameWorld
  <2> QED
    BY <2>1, <2>2, <2>3
<1>9. ASSUME Len(r) = n + 1 PROVE Waiting(b) /\ r[n + 1].name = Wanted(b)
  <2>1. n < Len(r)
    BY <1>9
  <2>2. Waiting(b)' /\ r[n + 1].name = Wanted(b)'
    BY <1>2, <1>4, <1>5, <1>7, <2>1 DEF ActsOf
  <2>3. Wanted(b)' = Wanted(b)
    BY SameWorld
  <2> QED
    BY <2>2, <2>3 DEF Waiting
<1>10. \A k \in 1 .. n - 1 : s[k].how \in Loaders /\ s[k].step = "super" => s[k].name \in Classes
  BY <1>1, <1>3, <1>5 DEF ActsOf
<1>w. \A k \in 1 .. n - 1 : s[k].step = "super" => s[k].how \in Loaders
  <2> SUFFICES ASSUME NEW k \in 1 .. n - 1, s[k].step = "super" PROVE s[k].how \in Loaders
    OBVIOUS
  <2>1. k \in 1 .. Len(stack[t])
    BY <1>1, <1>3
  <2> QED
    BY <1>1, <1>5, <2>1 DEF ActsOf
\* What b is for an activation below it that waits for its superclass.
<1>11. ASSUME NEW k \in 1 .. n - 1, s[k].step = "super"
       PROVE  b.how = "name" /\ (b.name \in Above(s[k].name) \/ (b.name = ClassName /\ ~ Sound(ObjectName)))
  <2>1. n >= 2 /\ n \in 1 .. Len(stack[t]) /\ k \in 1 .. Len(stack[t]) /\ k < n
    BY <1>1, <1>3
  <2>2. b.how = "name"
    BY <1>1, <1>5, <1>6, <2>1 DEF ActsOf
  <2>3. Chained(s[k], s[n])
    BY <1>1, <1>11, <2>1 DEF Chains
  <2>4. CASE s[n].step = "start" /\ s[n].name \in {ObjectName, ClassName}
    <3>1. table[s[n].name] = 0 /\ Sound(s[n].name)
      BY <1>6, <1>8, <2>2, <2>4 DEF Loaders
    <3> QED
      BY <1>1, <1>3, <1>6, <1>11, <2>2, <2>4, <3>1, CoreIsFound
  <2> QED
    BY <1>6, <2>2, <2>3, <2>4 DEF Chained
<1> SUFFICES ASSUME NEW k \in 1 .. Len(r), NEW m \in 1 .. Len(r), k < m, r[k].step = "super"
             PROVE  Chained(r[k], r[m])
  BY <1>2, ChainedStays DEF Chains
<1>12. CASE m <= n - 1
  <2>1. r[k] = s[k] /\ r[m] = s[m] /\ k \in 1 .. Len(stack[t]) /\ m \in 1 .. Len(stack[t])
    BY <1>1, <1>3, <1>4, <1>12
  <2> QED
    BY <1>1, <2>1 DEF Chains
<1>13. CASE m = n
  <2>1. k \in 1 .. n - 1 /\ r[k] = s[k] /\ r[m] = b
    BY <1>4, <1>13
  <2> QED
    BY <1>11, <2>1 DEF Chained
<1>14. CASE m = n + 1
  <2>1. Len(r) = n + 1 /\ r[m].step = "start"
    BY <1>4, <1>14
  <2>2. Waiting(b) /\ r[m].name = Wanted(b)
    BY <1>9, <1>14, <2>1
  <2>3. CASE k = n
    <3>1. r[k] = b /\ b.step = "super"
      BY <1>4, <2>3
    <3>2. b.how \in Loaders
      BY <1>8, <3>1
    <3>3. Wanted(b) \in ParentsOf(b.name)
      BY <1>8, <3>1, <3>2 DEF ParentsOf, NoSuper
    <3>4. Wanted(b) \in Above(b.name)
      BY <1>8, <3>2, <3>3 DEF AboveOK
    <3> QED
      BY <2>2, <3>1, <3>4 DEF Chained
  <2>4. CASE k # n
    <3>w. k \in 1 .. n - 1
      <4>1. n \in Nat /\ k \in Nat /\ 1 <= k /\ k < m
        BY <1>1
      <4> QED
        BY <1>14, <2>4, <4>1
    <3>1. k \in 1 .. n - 1 /\ r[k] = s[k]
      BY <1>4, <3>w
    <3>2. s[k].step = "super" /\ s[k].how \in Loaders /\ s[k].name \in Classes
      BY <1>10, <1>w, <3>1
    <3>3. b.how = "name" /\ b.how \in Loaders
      BY <1>11, <3>1, <3>2 DEF Loaders
    <3>4. Wanted(b) \in ParentsOf(b.name) \cup {ObjectName, ClassName}
      <4>1. CASE b.step = "super"
        BY <1>8, <3>3, <4>1 DEF ParentsOf, NoSuper
      <4>2. CASE b.step = "needs"
        BY <1>8, <3>3, <4>2 DEF ParentsOf
      <4> QED
        BY <2>2, <4>1, <4>2 DEF Waiting
    <3>5. CASE Wanted(b) \in {ObjectName, ClassName}
      BY <2>1, <2>2, <3>5 DEF Chained
    <3>6. CASE b.name \in Above(s[k].name) /\ Wanted(b) \in ParentsOf(b.name)
      <4>1. Wanted(b) \in Above(s[k].name)
        BY <3>2, <3>6 DEF AboveOK
      <4> QED
        BY <2>2, <3>1, <4>1 DEF Chained
    <3>7. CASE b.name = ClassName /\ ~ Sound(ObjectName)
      <4>1. Sound(ClassName) /\ world.intfs[ClassName] = << >>
        BY <1>8, <3>3, <3>7 DEF PlainCore
      <4>2. Wanted(b) \in {ObjectName, ClassName}
        <5>1. CASE b.step = "super"
          BY <1>8, <3>3, <3>7, <5>1 DEF PlainCore, NoSuper
        <5>2. CASE b.step = "needs"
          <6>1. ToSet(<< >>) = {}
            BY DEF ToSet
          <6> QED
            BY <1>8, <3>3, <3>7, <4>1, <5>2, <6>1
        <5> QED
          BY <2>2, <5>1, <5>2 DEF Waiting
      <4> QED
        BY <3>5, <4>2
    <3> QED
      BY <1>11, <3>1, <3>2, <3>4, <3>5, <3>6, <3>7
  <2> QED
    BY <2>3, <2>4
<1>15. m <= n - 1 \/ m = n \/ m = n + 1
  BY <1>4
<1> QED
  BY <1>12, <1>13, <1>14, <1>15

LEMMA ChainsKept ==
  ASSUME Inv, Inv', PlainCore, CoreFirst, AboveOK, \A u \in Threads : Chains(u),
         NEW t \in Threads, StepBy(t), NEW u \in Threads
  PROVE  Chains(u)'
<1>1. world' = world /\ \A a, b : Chained(a, b)' <=> Chained(a, b)
  BY ChainedStays DEF StepBy, Making
<1>2. CASE stack'[u] = stack[u]
  BY <1>1, <1>2 DEF Chains
<1>3. CASE u = t
  <2>1. CASE Starts(t)
    <3>1. Len(stack'[t]) = 1
      BY <2>1 DEF Starts
    <3>2. \A k, m \in 1 .. 1 : ~ (k < m)
      OBVIOUS
    <3> QED
      BY <1>3, <3>1, <3>2 DEF Chains
  <2>2. CASE Answers(t)
    BY <1>2, <1>3, <2>2 DEF Answers
  <2>3. CASE stack[t] # << >> /\ Leaves(t)
    <3>1. PICK n \in Nat : n = Len(stack[t]) /\ n >= 1
      BY <2>3, TopActs
    <3>2. Len(stack'[t]) = n - 1 /\ \A i \in 1 .. n - 1 : stack'[t][i] = stack[t][i]
      BY <2>3, <3>1 DEF Leaves, Popped
    <3>3. \A i \in 1 .. n - 1 : i \in 1 .. n
      BY <3>1
    <3> QED
      BY <1>1, <1>3, <3>1, <3>2, <3>3 DEF Chains
  <2>4. ASSUME NEW b, stack[t] # << >>, TopBecomes(t, b), GoesOn(t, b) PROVE Chains(t)'
    BY <1>1, <2>4, ChainsGoOn
  <2> QED
    BY <1>3, <2>1, <2>2, <2>3, <2>4 DEF StepBy, Moves
<1>4. CASE u # t
  <2>1. stack'[u] = stack[u]
    BY <1>4 DEF StepBy, Starts, Answers, Moves, Leaves, TopBecomes, OthersKeepStacks
  <2> QED
    BY <1>2, <2>1
<1> QED
  BY <1>3, <1>4

-----------------------------------------------------------------------------
(* No thread loads a class twice.                                          *)

\* An activation that has looked at the table and has not registered its class.
Loading(a) == a.how = "name" /\ a.step \in {"super", "create"}

MadeBy(t, c) == \E o \in 1 .. Len(objs) : objs[o].by = t /\ objs[o].name = c

\* What t is loading it has not made before, but for a class above itself.
Fresh(t) ==
  \A k \in 1 .. Len(stack[t]) :
    LET a == stack[t][k]
    IN  Loading(a) /\ MadeBy(t, a.name) => a.name \in Above(a.name)

FreshArray(t) ==
  \A k \in 1 .. Len(stack[t]) :
    stack[t][k].how = "array" /\ stack[t][k].step # "start" => ~ MadeBy(t, ArrayName)

\* What has been made is in the table.
Tabled == \A o \in 1 .. Len(objs) : table[objs[o].name] # 0

OnceInv ==
  /\ CoreFirst
  /\ Tabled
  /\ \A t \in Threads : Chains(t) /\ Fresh(t) /\ FreshArray(t)

LEMMA MadeNext ==
  ASSUME Inv, NEW t \in Threads, Making(t), NEW u \in Threads, NEW c, MadeBy(u, c)'
  PROVE  \/ MadeBy(u, c)
         \/ u = t /\ stack[t] # << >> /\ Top(t).step = "create" /\ Top(t).name = c /\ OneNew(t)
<1>1. PICK o \in 1 .. Len(objs') : objs'[o].by = u /\ objs'[o].name = c
  BY DEF MadeBy
<1>2. PICK l \in Nat : l = Len(objs)
  BY DEF Inv, WellTyped
<1>3. ASSUME o \in 1 .. l, \A i \in 1 .. l : Same(i) PROVE MadeBy(u, c)
  BY <1>1, <1>2, <1>3 DEF MadeBy, Same
<1>4. CASE NoNew
  BY <1>1, <1>2, <1>3, <1>4 DEF NoNew
<1>5. CASE stack[t] # << >> /\ OneNew(t)
  <2>1. CASE o = l + 1
    BY <1>1, <1>2, <1>5, <2>1 DEF OneNew
  <2>2. CASE o # l + 1
    <3>1. Len(objs') = l + 1
      BY <1>2, <1>5 DEF OneNew
    <3>2. o \in 1 .. l
      BY <2>2, <3>1
    <3> QED
      BY <1>2, <1>3, <1>5, <3>2 DEF OneNew
  <2> QED
    BY <2>1, <2>2
<1> QED
  BY <1>4, <1>5 DEF Making

LEMMA MadeIsTabled ==
  ASSUME Tabled, NEW t, NEW c, MadeBy(t, c)
  PROVE  table[c] # 0
BY DEF Tabled, MadeBy

LEMMA TabledKept ==
  ASSUME Inv, Tabled, NEW t \in Threads, Making(t)
  PROVE  Tabled'
<1>1. PICK l \in Nat : l = Len(objs)
  BY DEF Inv, WellTyped
<1>2. \A o \in 1 .. l : objs[o].name \in Names
  <2>1. objs \in Seq(Objects(l))
    BY <1>1 DEF Inv, WellTyped
  <2>2. \A o \in 1 .. l : objs[o] \in Objects(l)
    BY <1>1, <2>1
  <2> QED
    BY <2>2 DEF Objects
<1>3. \A c \in Names : table[c] # 0 => table'[c] # 0
  BY TableStays
<1>4. ASSUME \A i \in 1 .. l : Same(i), NEW o \in 1 .. l PROVE table'[objs'[o].name] # 0
  BY <1>1, <1>2, <1>3, <1>4 DEF Same, Tabled
<1>5. CASE NoNew
  BY <1>1, <1>4, <1>5 DEF NoNew, Tabled
<1>6. CASE stack[t] # << >> /\ OneNew(t)
  <2>1. /\ Len(objs') = l + 1 /\ \A i \in 1 .. l : Same(i)
        /\ objs'[l + 1].name = Top(t).name /\ table' = [table EXCEPT ![Top(t).name] = l + 1]
    BY <1>1, <1>6 DEF OneNew
  <2>2. Top(t).name \in Names
    <3>1. PICK n \in Nat : n = Len(stack[t]) /\ n >= 1 /\ Top(t) = stack[t][n]
      BY <1>6, TopActs
    <3> QED
      BY <3>1, ActsAre DEF ActsOf
  <2>3. table'[Top(t).name] # 0
    <3>1. table \in [Names -> Ids]
      BY DEF Inv, WellTyped
    <3> QED
      BY <1>1, <2>1, <2>2, <3>1
  <2>4. ASSUME NEW o \in 1 .. l + 1 PROVE table'[objs'[o].name] # 0
    <3>1. CASE o = l + 1
      BY <2>1, <2>3, <3>1
    <3>2. CASE o # l + 1
      <4>1. o \in 1 .. l
        BY <3>2
      <4> QED
        BY <1>4, <2>1, <4>1
    <3> QED
      BY <3>1, <3>2
  <2> QED
    BY <2>1, <2>4 DEF Tabled
<1> QED
  BY <1>5, <1>6 DEF Making

\* Where Object is not to be had, Class is not loaded on the way to its own
\* superclass.
LEMMA NoClassTwice ==
  ASSUME Inv, PlainCore, NEW t \in Threads, NEW n \in Nat, n = Len(stack[t]),
         NEW k \in 1 .. n - 1, stack[t][k].step = "super", stack[t][k].name = ClassName,
         stack[t][n].name = ClassName
  PROVE  Sound(ObjectName)
<1>1. PICK s : s = stack[t]
  OBVIOUS
<1>2. ActsOf(t)
  BY ActsAre
<1>3. k \in 1 .. n /\ k < n /\ k + 1 \in 1 .. n /\ k + 1 >= 2
  OBVIOUS
<1>4. /\ s[k].how \in Loaders \cup {"array"} /\ s[k].how # "array"
      /\ s[k + 1].name = Wanted(s[k])
  BY <1>1, <1>2, <1>3 DEF ActsOf
<1>5. Wanted(s[k]) = world.super[ClassName] /\ ~ NoSuper(ClassName)
  BY <1>1, <1>2, <1>3, <1>4 DEF ActsOf
<1>6. s[k + 1].name = ObjectName
  BY <1>4, <1>5 DEF PlainCore, NoSuper
<1>7. k + 1 # n
  <2>1. ObjectName # ClassName
    BY LoaderAssumption
  <2> QED
    BY <1>1, <1>6, <2>1
<1>8. PICK i \in 1 .. n : i = k + 1 /\ i < n /\ i >= 2
  BY <1>3, <1>7
<1>9. Waiting(s[i]) /\ s[i].how \in Loaders
  BY <1>1, <1>2, <1>8 DEF ActsOf, Loaders
<1>10. Sound(s[i].name)
  BY <1>1, <1>2, <1>8, <1>9 DEF ActsOf, Waiting
<1> QED
  BY <1>6, <1>8, <1>10

\* A class registered above an activation that waits for its superclass is not
\* that of the activation, unless it is above itself.
LEMMA MadeAbove ==
  ASSUME Inv, PlainCore, NEW t \in Threads, Chains(t), stack[t] # << >>, Top(t).step = "create",
         NEW n \in Nat, n = Len(stack[t]), NEW k \in 1 .. n - 1, Loading(stack[t][k]),
         Top(t).name = stack[t][k].name
  PROVE  Top(t).name \in Above(Top(t).name)
<1>1. PICK s : s = stack[t]
  OBVIOUS
<1>2. Top(t) = s[n]
  BY <1>1, TopActs
<1>3. k \in 1 .. n /\ n \in 1 .. n /\ k < n
  OBVIOUS
<1>4. Waiting(s[k])
  BY <1>1, <1>3, ActsAre DEF ActsOf
<1>5. s[k].step = "super"
  BY <1>1, <1>4 DEF Loading, Waiting
<1>6. Chained(s[k], s[n])
  BY <1>1, <1>3, <1>5 DEF Chains
<1>7. ~ (s[n].name = ClassName /\ ~ Sound(ObjectName))
  BY <1>1, <1>2, <1>5, NoClassTwice
<1> QED
  BY <1>1, <1>2, <1>6, <1>7 DEF Chained

LEMMA FreshKept ==
  ASSUME Inv, PlainCore, OnceInv, NEW t \in Threads, StepBy(t), NEW u \in Threads
  PROVE  Fresh(u)'
<1>1. world' = world /\ Making(t)
  BY DEF StepBy, Making
<1>2. Chains(t) /\ Fresh(t) /\ Fresh(u) /\ Tabled
  BY DEF OnceInv
<1>3. PICK r : r = stack'[u]
  OBVIOUS
<1> SUFFICES ASSUME NEW k \in 1 .. Len(r), NEW a, a = r[k], Loading(a), NEW c, c = a.name,
                    MadeBy(u, c)'
             PROVE  c \in Above(c)
  <2>1. \A c : Above(c)' = Above(c)
    BY <1>1, SameAbove
  <2> QED
    BY <1>3, <2>1 DEF Fresh, Loading
<1>4. CASE u # t
  <2>1. stack'[u] = stack[u]
    BY <1>4 DEF StepBy, Starts, Answers, Moves, Leaves, TopBecomes, OthersKeepStacks
  <2>2. MadeBy(u, c)
    BY <1>1, <1>4, MadeNext
  <2> QED
    BY <1>2, <1>3, <2>1, <2>2 DEF Fresh
<1>5. CASE u = t
  <2>1. CASE Starts(t)
    <3>1. a.step = "start"
      BY <1>3, <1>5, <2>1 DEF Starts
    <3> QED
      BY <3>1 DEF Loading
  <2>2. CASE Answers(t)
    <3>1. r = << >>
      BY <1>3, <1>5, <2>2 DEF Answers
    <3> QED
      BY <3>1
  <2>3. CASE Moves(t)
    <3>1. PICK n \in Nat : n = Len(stack[t]) /\ n >= 1 /\ Top(t) = stack[t][n]
      BY <2>3, TopActs DEF Moves
    <3>2. stack[t] # << >>
      BY <2>3 DEF Moves
    <3>3. ASSUME k \in 1 .. n - 1, r[k] = stack[t][k] PROVE c \in Above(c)
      <4>1. CASE MadeBy(t, c)
        <5>1. k \in 1 .. Len(stack[t])
          BY <3>1, <3>3
        <5> QED
          BY <1>2, <3>3, <4>1, <5>1 DEF Fresh
      <4>2. CASE Top(t).step = "create" /\ Top(t).name = c
        BY <1>2, <3>1, <3>2, <3>3, <4>2, MadeAbove
      <4> QED
        BY <1>1, <1>5, <4>1, <4>2, MadeNext
    <3>4. CASE Leaves(t)
      <4>1. Len(r) = n - 1 /\ \A i \in 1 .. n - 1 : r[i] = stack[t][i]
        BY <1>3, <1>5, <3>1, <3>4 DEF Leaves, Popped
      <4> QED
        BY <3>3, <4>1
    <3>5. ASSUME NEW b, TopBecomes(t, b), GoesOn(t, b) PROVE c \in Above(c)
      <4>1. /\ Len(r) \in {n, n + 1} /\ r[n] = b /\ \A i \in 1 .. n - 1 : r[i] = stack[t][i]
            /\ Len(r) = n + 1 => r[n + 1].step = "start"
        BY <1>3, <1>5, <3>1, <3>5 DEF TopBecomes
      <4>2. CASE k = n
        <5>1. a = b /\ b.how \in Loaders
          BY <4>1, <4>2 DEF Loading, Loaders
        <5>2. Top(t).step \in {"start", "super"} /\ Top(t).name = c /\ Top(t).how = "name"
          BY <3>5, <5>1 DEF GoesOn, Loading
        <5>3. MadeBy(t, c)
          BY <1>1, <1>5, <5>2, MadeNext
        <5>4. Top(t).step # "start"
          <6>1. table[c] # 0
            BY <1>2, <5>3, MadeIsTabled
          <6> QED
            BY <3>5, <5>2, <6>1 DEF GoesOn
        <5>5. Loading(stack[t][n]) /\ n \in 1 .. Len(stack[t])
          BY <3>1, <5>2, <5>4 DEF Loading
        <5> QED
          BY <1>2, <3>1, <5>2, <5>3, <5>5 DEF Fresh
      <4>3. CASE k = n + 1
        <5>1. a.step = "start"
          BY <3>1, <4>1, <4>3
        <5> QED
          BY <5>1 DEF Loading
      <4>4. CASE k # n /\ k # n + 1
        <5>1. k \in 1 .. n - 1
          BY <4>1, <4>4
        <5> QED
          BY <3>3, <4>1, <5>1
      <4> QED
        BY <4>2, <4>3, <4>4
    <3> QED
      BY <2>3, <3>4, <3>5 DEF Moves
  <2> QED
    BY <2>1, <2>2, <2>3 DEF StepBy
<1> QED
  BY <1>4, <1>5

LEMMA FreshArrayKept ==
  ASSUME Inv, Inv', OnceInv, NEW t \in Threads, StepBy(t), NEW u \in Threads
  PROVE  FreshArray(u)'
<1>1. world' = world /\ Making(t)
  BY DEF StepBy, Making
<1>2. FreshArray(t) /\ FreshArray(u) /\ Tabled /\ ActsOf(t) /\ ActsOf(u)'
  BY ActsAre, ActsAreNext DEF OnceInv
<1>3. PICK r : r = stack'[u]
  OBVIOUS
<1> SUFFICES ASSUME NEW k \in 1 .. Len(r), NEW a, a = r[k], a.how = "array", a.step # "start",
                    MadeBy(u, ArrayName)'
             PROVE  FALSE
  BY <1>3 DEF FreshArray
<1>4. CASE u # t
  <2>1. stack'[u] = stack[u]
    BY <1>4 DEF StepBy, Starts, Answers, Moves, Leaves, TopBecomes, OthersKeepStacks
  <2>2. MadeBy(u, ArrayName)
    BY <1>1, <1>4, MadeNext
  <2> QED
    BY <1>2, <1>3, <2>1, <2>2 DEF FreshArray
<1>5. CASE u = t
  <2>1. CASE Starts(t)
    BY <1>3, <1>5, <2>1 DEF Starts
  <2>2. CASE Answers(t)
    <3>1. r = << >>
      BY <1>3, <1>5, <2>2 DEF Answers
    <3> QED
      BY <3>1
  <2>3. CASE Moves(t)
    <3>1. PICK n \in Nat : n = Len(stack[t]) /\ n >= 1 /\ Top(t) = stack[t][n]
      BY <2>3, TopActs DEF Moves
    <3>2. k = 1
      <4>1. ~ (k >= 2)
        BY <1>2, <1>3 DEF ActsOf
      <4>2. k \in Nat /\ k >= 1
        BY <1>2, <1>3 DEF ActsOf
      <4> QED
        BY <4>1, <4>2
    <3>3. ASSUME n >= 2, r[1] = stack[t][1] PROVE FALSE
      <4>1. n \in 1 .. Len(stack[t]) /\ 1 \in 1 .. Len(stack[t])
        BY <3>1
      <4>2. Top(t).name \in Classes
        BY <1>2, <3>1, <3>3, <4>1 DEF ActsOf, Loaders
      <4>3. MadeBy(t, ArrayName)
        BY <1>1, <1>5, <4>2, MadeNext, LoaderAssumption
      <4> QED
        BY <1>2, <3>2, <3>3, <4>1, <4>3 DEF FreshArray
    <3>4. CASE Leaves(t)
      <4>1. Len(r) = n - 1 /\ \A i \in 1 .. n - 1 : r[i] = stack[t][i]
        BY <1>3, <1>5, <3>1, <3>4 DEF Leaves, Popped
      <4>2. k \in 1 .. n - 1
        BY <4>1
      <4>3. 1 \in 1 .. n - 1
        BY <3>2, <4>2
      <4>4. n >= 2
        BY <3>1, <4>3
      <4> QED
        BY <3>3, <4>1, <4>3, <4>4
    <3>5. ASSUME NEW b, TopBecomes(t, b), GoesOn(t, b) PROVE FALSE
      <4>1. r[n] = b /\ \A i \in 1 .. n - 1 : r[i] = stack[t][i]
        BY <1>3, <1>5, <3>1, <3>5 DEF TopBecomes
      <4>2. CASE n = 1
        <5>1. a = b /\ b.how \notin Loaders
          BY <3>2, <4>1, <4>2 DEF Loaders
        <5>2. Top(t).step # "create" /\ Top(t).how = "array"
          BY <3>5, <5>1 DEF GoesOn
        <5>3. MadeBy(t, ArrayName)
          BY <1>1, <1>5, <5>2, MadeNext
        <5>4. 1 \in 1 .. Len(stack[t]) /\ Top(t) = stack[t][1]
          BY <3>1, <4>2
        <5>5. Top(t).step = "start"
          BY <1>2, <5>2, <5>3, <5>4 DEF FreshArray
        <5>6. b.name = ArrayName
          BY <1>2, <3>5, <5>2, <5>4 DEF ActsOf, GoesOn
        <5>7. table[ArrayName] = 0
          BY <3>5, <5>1, <5>5, <5>6 DEF GoesOn
        <5> QED
          BY <1>2, <5>3, <5>7, MadeIsTabled
      <4>3. CASE n # 1
        <5>6. n \in Nat /\ n >= 1
          BY <3>1
        <5>1. n >= 2
          BY <4>3, <5>6
        <5>2. 1 \in 1 .. n - 1
          BY <5>6, <5>1
        <5> QED
          BY <3>3, <4>1, <5>1, <5>2
      <4> QED
        BY <4>2, <4>3
    <3> QED
      BY <2>3, <3>4, <3>5 DEF Moves
  <2> QED
    BY <2>1, <2>2, <2>3 DEF StepBy
<1> QED
  BY <1>4, <1>5

LEMMA OnceInvKept ==
  ASSUME Inv, Inv', PlainCore, PlainCore', AboveOK, OnceInv, NEW t \in Threads, StepBy(t)
  PROVE  OnceInv'
<1>1. CoreFirst' /\ Tabled'
  BY CoreFirstKept, TabledKept DEF OnceInv, StepBy
<1>2. ASSUME NEW u \in Threads PROVE Chains(u)' /\ Fresh(u)' /\ FreshArray(u)'
  BY ChainsKept, FreshKept, FreshArrayKept DEF OnceInv
<1> QED
  BY <1>1, <1>2 DEF OnceInv

\* No class object is made again.
LEMMA OnceKept ==
  ASSUME Inv, LoadedOnce, OnceInv, NEW t \in Threads, Making(t)
  PROVE  LoadedOnce'
<1>1. PICK l \in Nat : l = Len(objs)
  BY DEF Inv, WellTyped
<1>2. \A c : Above(c)' = Above(c)
  BY SameAbove DEF Making
<1> DEFINE Fine(i, j) ==
             \/ objs'[j].jar \/ objs'[i].by # objs'[j].by
             \/ objs'[j].name \in Above(objs'[j].name)
<1>3. ASSUME \A i \in 1 .. l : Same(i), NEW i \in 1 .. l, NEW j \in 1 .. l, i < j,
             objs'[i].name = objs'[j].name
      PROVE  Fine(i, j)
  BY <1>1, <1>3 DEF Same, LoadedOnce
<1> SUFFICES ASSUME NEW i \in 1 .. Len(objs'), NEW j \in 1 .. Len(objs'), i < j,
                    objs'[i].name = objs'[j].name
             PROVE  Fine(i, j)
  <2>1. \A i, j : objs'[j].name \in Above(objs[j].name)' <=> objs'[j].name \in Above(objs'[j].name)
    <3> TAKE i, j
    <3>1. PICK c : c = objs'[j].name
      OBVIOUS
    <3>2. Above(c)' = Above(c)
      BY <1>2
    <3> QED
      BY <3>1, <3>2
  <2> QED
    BY <2>1 DEF LoadedOnce
<1>4. CASE NoNew
  BY <1>1, <1>3, <1>4 DEF NoNew
<1>5. CASE stack[t] # << >> /\ OneNew(t)
  <2>1. /\ Top(t).step = "create" /\ Len(objs') = l + 1 /\ \A o \in 1 .. l : Same(o)
        /\ objs'[l + 1].name = Top(t).name /\ objs'[l + 1].by = t
        /\ objs'[l + 1].jar = (Top(t).how = "bytes")
    BY <1>1, <1>5 DEF OneNew
  <2>2. CASE j = l + 1
    <3>1. i \in 1 .. l
      BY <2>1, <2>2
    <3>2. SUFFICES ASSUME objs'[i].by = t, Top(t).how # "bytes" PROVE Top(t).name \in Above(Top(t).name)
      BY <2>1, <2>2
    <3>3. MadeBy(t, Top(t).name)
      BY <1>1, <2>1, <2>2, <3>1, <3>2 DEF MadeBy, Same
    <3>4. PICK n \in Nat : n = Len(stack[t]) /\ n >= 1 /\ Top(t) = stack[t][n]
      BY <1>5, TopActs
    <3>5. n \in 1 .. Len(stack[t]) /\ Fresh(t) /\ FreshArray(t) /\ ActsOf(t)
      BY <3>4, ActsAre DEF OnceInv
    <3>6. CASE Top(t).how = "name"
      BY <2>1, <3>3, <3>4, <3>5, <3>6 DEF Fresh, Loading
    <3>7. CASE Top(t).how = "array"
      <4>1. Top(t).name = ArrayName
        BY <3>4, <3>5, <3>7 DEF ActsOf
      <4> QED
        BY <2>1, <3>3, <3>4, <3>5, <3>7, <4>1 DEF FreshArray
    <3> QED
      BY <3>2, <3>4, <3>5, <3>6, <3>7 DEF ActsOf, Loaders
  <2>3. CASE j # l + 1
    <3>1. i \in 1 .. l /\ j \in 1 .. l
      BY <2>1, <2>3
    <3> QED
      BY <1>3, <2>1, <3>1
  <2> QED
    BY <2>2, <2>3
<1> QED
  BY <1>4, <1>5 DEF Making

LEMMA OnceInit == Init => LoadedOnce /\ OnceInv
<1> SUFFICES ASSUME Init PROVE LoadedOnce /\ OnceInv
  OBVIOUS
<1>1. /\ objs = << >> /\ Len(objs) = 0 /\ 1 .. Len(objs) = {}
      /\ table = [c \in Names |-> 0]
      /\ api = [t \in Threads |-> IF t = Main THEN InitCall ELSE NIL]
      /\ stack = [t \in Threads |-> IF t = Main THEN << Load(ObjectName, "name") >> ELSE << >>]
      /\ Main \in Threads /\ ObjectName \in Names
  BY LoaderAssumption DEF Init, Names
<1>2. LoadedOnce /\ Tabled
  BY <1>1 DEF LoadedOnce, Tabled
<1>3. PICK b : b = Load(ObjectName, "name")
  OBVIOUS
<1>4. b.step = "start" /\ b.how = "name"
  BY <1>3 DEF Load
<1>5. stack[Main] = << b >> /\ \A t \in Threads : stack[t] = << >> \/ stack[t] = << b >>
  BY <1>1, <1>3
<1>6. CoreFirst
  <2>1. /\ Len(stack[Main]) = 1 /\ stack[Main][1] = b /\ stack[Main] # << >>
        /\ table[ObjectName] = 0
    BY <1>1, <1>5
  <2>2. ~ Initialised /\ \A t \in Threads \ {Main} : Idle(t)
    BY <1>1 DEF Initialised, Idle
  <2> QED
    BY <1>4, <2>1, <2>2 DEF CoreFirst, Booting
<1>7. ASSUME NEW t \in Threads PROVE Chains(t) /\ Fresh(t) /\ FreshArray(t)
  <2>1. \A k \in 1 .. Len(stack[t]) : stack[t][k] = b
    BY <1>5
  <2> QED
    BY <1>4, <2>1 DEF Chains, Fresh, FreshArray, Loading
<1> QED
  BY <1>2, <1>6, <1>7 DEF OnceInv

LEMMA OnceSame ==
  ASSUME UNCHANGED vars
  PROVE  /\ LoadedOnce => LoadedOnce'
         /\ OnceInv => OnceInv'
         /\ PlainCore' <=> PlainCore
<1>1. /\ world' = world /\ table' = table /\ objs' = objs /\ stack' = stack /\ api' = api
      /\ \A c : Above(c)' = Above(c) /\ (Sound(c)' <=> Sound(c)) /\ (NoSuper(c)' <=> NoSuper(c))
      /\ \A a, b : Chained(a, b)' <=> Chained(a, b)
  BY SameAbove, SameWorld, ChainedStays DEF vars
<1>2. PlainCore' <=> PlainCore
  BY <1>1 DEF PlainCore
<1>3. LoadedOnce => LoadedOnce'
  BY <1>1 DEF LoadedOnce
<1>4. ASSUME OnceInv PROVE OnceInv'
  <2>1. CoreFirst' /\ Tabled'
    BY <1>1, <1>4 DEF OnceInv, CoreFirst, CoreLoaded, Booting, Initialised, Idle, Tabled
  <2>2. ASSUME NEW t \in Threads PROVE Chains(t)'
    BY <1>1, <1>4 DEF OnceInv, Chains
  <2>3. ASSUME NEW t \in Threads PROVE Fresh(t)'
    BY <1>1, <1>4 DEF OnceInv, Fresh, MadeBy, Loading
  <2>4. ASSUME NEW t \in Threads PROVE FreshArray(t)'
    BY <1>1, <1>4 DEF OnceInv, FreshArray, MadeBy
  <2> QED
    BY <2>1, <2>2, <2>3, <2>4 DEF OnceInv
<1> QED
  BY <1>2, <1>3, <1>4

LEMMA NextAlive == ASSUME Next PROVE ~ crashed
BY DEF Next, LoaderStep, Found, Refuse, MustLoad, Parse, LinkSuper, Create, LinkNeed, StartArray,
       ArrayNeed, CreateArray, Answer, ArrayClass, FromFile, FromJar, Begin, At, Active

(* A class is loaded once, for every set of classes, every class path in   *)
(* which Object and Class are as they should be, any number of threads and *)
(* whatever they do in between.                                            *)
THEOREM LoadsOnce == IsFiniteSet(Classes) => (Spec => [](PlainCore => LoadedOnce))
<1> SUFFICES ASSUME IsFiniteSet(Classes) PROVE Spec => [](PlainCore => LoadedOnce)
  OBVIOUS
<1> DEFINE L == PlainCore => LoadedOnce /\ (crashed \/ OnceInv)
<1>1. Init => L
  BY OnceInit
<1>2. Inv /\ Inv' /\ L /\ [Next]_vars => L'
  <2> SUFFICES ASSUME Inv, Inv', L, [Next]_vars, PlainCore'
               PROVE  LoadedOnce' /\ (crashed' \/ OnceInv')
    OBVIOUS
  <2>1. CASE UNCHANGED vars
    <3>1. crashed' = crashed
      BY <2>1 DEF vars
    <3> QED
      BY <2>1, <3>1, OnceSame
  <2>2. CASE Next
    <3>1. PICK t \in Threads : Making(t)
      BY <2>2, MakingShape
    <3>2. PlainCore
      BY <3>1 DEF Making, PlainCore, NoSuper, Sound
    <3>3. LoadedOnce /\ OnceInv /\ AboveOK
      BY <2>2, <3>2, NextAlive, AboveIsOK
    <3>4. LoadedOnce'
      BY <3>1, <3>3, OnceKept
    <3>5. ASSUME ~ crashed' PROVE OnceInv'
      <4>1. PICK u \in Threads : StepBy(u)
        BY <2>2, <3>5, StepShape
      <4> QED
        BY <3>2, <3>3, <4>1, OnceInvKept
    <3> QED
      BY <3>4, <3>5
  <2> QED
    BY <2>1, <2>2
<1>3. Inv /\ [Next]_vars => Inv'
  BY NextInv
<1>4. L => (PlainCore => LoadedOnce)
  OBVIOUS
<1> HIDE DEF L
<1> QED
  BY <1>1, <1>2, <1>3, <1>4, InvHolds, PTL DEF Spec

-----------------------------------------------------------------------------
(* How deep the recursion gets.                                            *)

\* A class whose needs are being loaded is in the table: the activations above
\* that load something do not load it again.
Served(t) ==
  \A p, q \in 1 .. Len(stack[t]) :
    p < q /\ stack[t][p].step = "needs" /\ stack[t][q].step # "start" =>
      stack[t][p].name # stack[t][q].name

LEMMA ServedGoesOn ==
  ASSUME Inv, NEW t \in Threads, Served(t), stack[t] # << >>,
         NEW b, TopBecomes(t, b), GoesOn(t, b)
  PROVE  Served(t)'
<1>1. PICK s : s = stack[t]
  OBVIOUS
<1>2. PICK r : r = stack'[t]
  OBVIOUS
<1>3. PICK n \in Nat : n = Len(s) /\ n >= 1 /\ Top(t) = s[n]
  BY <1>1, TopActs
<1>4. /\ Len(r) \in {n, n + 1} /\ r[n] = b /\ \A i \in 1 .. n - 1 : r[i] = s[i]
      /\ Len(r) = n + 1 => r[n + 1].step = "start"
  BY <1>1, <1>2, <1>3 DEF TopBecomes
<1>5. ActsOf(t)
  BY ActsAre
<1>6. /\ b.name = s[n].name /\ b.how = s[n].how
      /\ s[n].step = "start" /\ b.how # "bytes" => table[b.name] = 0
  BY <1>3 DEF GoesOn
<1> SUFFICES ASSUME NEW p \in 1 .. Len(r), NEW q \in 1 .. Len(r), p < q,
                    r[p].step = "needs", r[q].step # "start", r[p].name = r[q].name
             PROVE  FALSE
  BY <1>2 DEF Served
<1>7. CASE q <= n - 1
  <2>1. r[p] = s[p] /\ r[q] = s[q] /\ p \in 1 .. Len(stack[t]) /\ q \in 1 .. Len(stack[t])
    BY <1>1, <1>3, <1>4, <1>7
  <2> QED
    BY <1>1, <2>1 DEF Served
<1>8. CASE q = n
  <2>1. /\ p \in 1 .. n - 1 /\ p \in 1 .. Len(stack[t]) /\ n \in 1 .. Len(stack[t])
        /\ p < n /\ n >= 2
    BY <1>1, <1>3, <1>4, <1>8
  <2>2. r[p] = s[p] /\ s[p].step = "needs" /\ s[p].name = s[n].name
    BY <1>4, <1>6, <1>8, <2>1
  <2>3. s[n].step = "start"
    BY <1>1, <2>1, <2>2 DEF Served
  <2>4. s[n].how = "name" /\ s[n].name \in Classes
    BY <1>1, <1>5, <2>1 DEF ActsOf, Loaders
  <2>5. table[s[n].name] = 0
    BY <1>6, <2>3, <2>4
  <2>6. CASE s[p].how \in Loaders
    BY <1>1, <1>5, <2>1, <2>2, <2>5, <2>6 DEF ActsOf
  <2>7. CASE s[p].how = "array"
    BY <1>1, <1>5, <2>1, <2>2, <2>4, <2>7, LoaderAssumption DEF ActsOf
  <2>8. s[p].how \in Loaders \cup {"array"}
    BY <1>1, <1>5, <2>1 DEF ActsOf
  <2> QED
    BY <2>6, <2>7, <2>8
<1>9. q <= n - 1 \/ q = n \/ (q = n + 1 /\ Len(r) = n + 1)
  BY <1>4
<1> QED
  BY <1>4, <1>7, <1>8, <1>9

LEMMA ServedKept ==
  ASSUME Inv, \A u \in Threads : Served(u), NEW t \in Threads, StepBy(t), NEW u \in Threads
  PROVE  Served(u)'
<1>1. CASE stack'[u] = stack[u]
  BY <1>1 DEF Served
<1>2. CASE u = t
  <2>1. CASE Starts(t)
    <3>1. Len(stack'[t]) = 1
      BY <2>1 DEF Starts
    <3>2. \A k, m \in 1 .. 1 : ~ (k < m)
      OBVIOUS
    <3> QED
      BY <1>2, <3>1, <3>2 DEF Served
  <2>2. CASE Answers(t)
    BY <1>1, <1>2, <2>2 DEF Answers
  <2>3. CASE stack[t] # << >> /\ Leaves(t)
    <3>1. PICK n \in Nat : n = Len(stack[t]) /\ n >= 1
      BY <2>3, TopActs
    <3>2. Len(stack'[t]) = n - 1 /\ \A i \in 1 .. n - 1 : stack'[t][i] = stack[t][i]
      BY <2>3, <3>1 DEF Leaves, Popped
    <3>3. \A i \in 1 .. n - 1 : i \in 1 .. n
      BY <3>1
    <3> QED
      BY <1>2, <3>1, <3>2, <3>3 DEF Served
  <2>4. ASSUME NEW b, stack[t] # << >>, TopBecomes(t, b), GoesOn(t, b) PROVE Served(t)'
    BY <2>4, ServedGoesOn
  <2> QED
    BY <1>2, <2>1, <2>2, <2>3, <2>4 DEF StepBy, Moves
<1>3. CASE u # t
  <2>1. stack'[u] = stack[u]
    BY <1>3 DEF StepBy, Starts, Answers, Moves, Leaves, TopBecomes, OthersKeepStacks
  <2> QED
    BY <1>1, <2>1
<1> QED
  BY <1>2, <1>3

-----------------------------------------------------------------------------
\* The first n activations of s wait: one for its superclass, which the next one
\* loads, or for what it needs, and then no other waits under its name above.
Deep(s, n) ==
  /\ \A i \in 1 .. n : s[i].step \in {"super", "needs"} /\ s[i].name \in Names
  /\ \A i \in 1 .. n : s[i].step = "super" =>
       s[i].name \in Classes /\ world.super[s[i].name] # NIL
  /\ \A i, j \in 1 .. n : j = i + 1 /\ s[i].step = "super" => s[j].name = world.super[s[i].name]
  /\ \A i, j \in 1 .. n : i < j /\ s[i].step = "needs" => s[i].name # s[j].name

SupersOK ==
  \A c \in Classes :
    /\ ClassesAbove(c) \in SUBSET Classes
    /\ world.super[c] \in ClassesAbove(c) \cup {NIL}
    /\ \A d \in ClassesAbove(c) : world.super[d] \in ClassesAbove(c) \cup {NIL}

\* Where all wait for their superclass, each loads a class above the first.
LEMMA SupersClimb ==
  ASSUME SupersOK, NEW s, NEW n \in Nat, Deep(s, n), NEW p \in 1 .. n, NEW q \in 1 .. n, p < q,
         \A i \in p .. q : s[i].step = "super"
  PROVE  s[q].name \in ClassesAbove(s[p].name)
<1>1. PICK c \in Classes : c = s[p].name
  <2>1. p \in p .. q
    OBVIOUS
  <2> QED
    BY <2>1 DEF Deep
<1>2. PICK I : I = {d \in Nat : p + d + 1 <= q => s[p + d + 1].name \in ClassesAbove(c)}
  OBVIOUS
<1>3. ASSUME NEW i \in p .. q, NEW j \in p .. q, j = i + 1, s[i].name \in ClassesAbove(c) \cup {c}
      PROVE  s[j].name \in ClassesAbove(c)
  <2>1. i \in 1 .. n /\ j \in 1 .. n /\ s[i].step = "super"
    OBVIOUS
  <2>2. s[j].name = world.super[s[i].name] /\ world.super[s[i].name] # NIL
    BY <1>3, <2>1 DEF Deep
  <2>3. world.super[s[i].name] \in ClassesAbove(c) \cup {NIL}
    BY <1>3 DEF SupersOK
  <2> QED
    BY <2>2, <2>3
<1>4. 0 \in I
  <2>1. p + 1 <= q => p \in p .. q /\ p + 1 \in p .. q
    OBVIOUS
  <2>2. p + 0 + 1 = p + 1
    OBVIOUS
  <2>3. p + 1 <= q => s[p + 1].name \in ClassesAbove(c)
    BY <1>1, <1>3, <2>1
  <2> QED
    BY <1>2, <2>2, <2>3
<1>5. ASSUME NEW d \in Nat, d \in I PROVE d + 1 \in I
  <2>1. PICK i \in Nat : i = p + d + 1
    OBVIOUS
  <2>2. PICK j \in Nat : j = p + (d + 1) + 1
    OBVIOUS
  <2>3. j = i + 1 /\ (j <= q => i <= q /\ i \in p .. q /\ j \in p .. q)
    BY <2>1, <2>2
  <2>4. i <= q => s[i].name \in ClassesAbove(c)
    BY <1>2, <1>5, <2>1
  <2>5. j <= q => s[j].name \in ClassesAbove(c)
    BY <1>3, <2>3, <2>4
  <2> QED
    BY <1>2, <2>2, <2>5
<1>6. PICK d \in Nat : q = p + d + 1
  <2>1. q - p - 1 \in Nat /\ q = p + (q - p - 1) + 1
    OBVIOUS
  <2> QED
    BY <2>1
<1>7. d \in I
  BY <1>4, <1>5, NatSetInduction
<1>8. q <= q
  OBVIOUS
<1> QED
  BY <1>1, <1>2, <1>6, <1>7, <1>8

\* From i on down to p all wait for their superclass.
Climbing(s, i, p) == \A j \in i + 1 .. p : s[j].step = "super"

\* The last activation up to p that does not, or 0.
Foot(s, p) == CHOOSE i \in 0 .. p : (i # 0 => s[i].step = "needs") /\ Climbing(s, i, p)

LEMMA FootIs ==
  ASSUME NEW s, NEW n \in Nat, Deep(s, n), NEW p \in 1 .. n
  PROVE  /\ Foot(s, p) \in 0 .. p /\ Climbing(s, Foot(s, p), p)
         /\ Foot(s, p) # 0 => s[Foot(s, p)].step = "needs"
<1>1. PICK I : I = {k \in Nat : k <= n =>
                      \E i \in 0 .. k : (i # 0 => s[i].step = "needs") /\ Climbing(s, i, k)}
  OBVIOUS
<1>2. 0 \in I
  <2>1. 0 \in 0 .. 0 /\ \A j \in 0 + 1 .. 0 : FALSE
    OBVIOUS
  <2> QED
    BY <1>1, <2>1 DEF Climbing
<1>3. ASSUME NEW k \in Nat, k \in I PROVE k + 1 \in I
  <2>1. PICK m \in Nat : m = k + 1
    OBVIOUS
  <2>2. ASSUME m <= n
        PROVE  \E i \in 0 .. m : (i # 0 => s[i].step = "needs") /\ Climbing(s, i, m)
    <3>1. k <= n /\ m \in 1 .. n
      BY <2>1, <2>2
    <3>2. CASE s[m].step = "needs"
      <4>1. m \in 0 .. m /\ \A j \in m + 1 .. m : FALSE
        OBVIOUS
      <4> QED
        BY <3>2, <4>1 DEF Climbing
    <3>3. CASE s[m].step = "super"
      <4>1. PICK i \in 0 .. k : (i # 0 => s[i].step = "needs") /\ Climbing(s, i, k)
        BY <1>1, <1>3, <3>1
      <4>2. i \in 0 .. m /\ \A j \in i + 1 .. m : j \in i + 1 .. k \/ j = m
        BY <2>1
      <4> QED
        BY <3>3, <4>1, <4>2 DEF Climbing
    <3> QED
      BY <3>1, <3>2, <3>3 DEF Deep
  <2> QED
    BY <1>1, <2>1, <2>2
<1>4. p \in Nat /\ p <= n
  OBVIOUS
<1>5. p \in I
  BY <1>2, <1>3, <1>4, NatSetInduction
<1>6. \E i \in 0 .. p : (i # 0 => s[i].step = "needs") /\ Climbing(s, i, p)
  BY <1>1, <1>4, <1>5
<1> QED
  BY <1>6 DEF Foot

\* What tells an activation from all the others that wait.
Mark(s, p) == << IF Foot(s, p) = 0 THEN NIL ELSE s[Foot(s, p)].name, s[p].name >>

LEMMA MarksDiffer ==
  ASSUME SupersOK, NoSuperCycle, NEW s, NEW n \in Nat, Deep(s, n),
         NEW p \in 1 .. n, NEW q \in 1 .. n, p < q
  PROVE  Mark(s, p) # Mark(s, q)
<1> SUFFICES ASSUME Mark(s, p) = Mark(s, q) PROVE FALSE
  OBVIOUS
<1>1. PICK f : f = Foot(s, p)
  OBVIOUS
<1>2. PICK g : g = Foot(s, q)
  OBVIOUS
<1>3. /\ f \in 0 .. p /\ g \in 0 .. q /\ Climbing(s, f, p) /\ Climbing(s, g, q)
      /\ f # 0 => s[f].step = "needs"
      /\ g # 0 => s[g].step = "needs"
  BY <1>1, <1>2, FootIs
<1>4. /\ s[p].name = s[q].name
      /\ (IF f = 0 THEN NIL ELSE s[f].name) = IF g = 0 THEN NIL ELSE s[g].name
  BY <1>1, <1>2 DEF Mark
<1>5. f # 0 => f \in 1 .. n
  BY <1>3
<1>6. g # 0 => g \in 1 .. n
  BY <1>3
<1>7. NIL \notin Names
  BY LoaderAssumption
<1>8. f = 0 <=> g = 0
  BY <1>4, <1>5, <1>6, <1>7 DEF Deep
<1>9. f = g
  <2>1. CASE f = 0
    BY <1>8, <2>1
  <2>2. CASE f # 0
    <3>1. f \in 1 .. n /\ g \in 1 .. n /\ s[f].name = s[g].name
      BY <1>4, <1>5, <1>6, <1>8, <2>2
    <3>2. ~ (f < g) /\ ~ (g < f)
      BY <1>3, <1>8, <2>2, <3>1 DEF Deep
    <3> QED
      BY <3>1, <3>2
  <2> QED
    BY <2>1, <2>2
<1>10. p # f
  <2> SUFFICES ASSUME p = f PROVE FALSE
    OBVIOUS
  <2>1. s[p].step = "needs"
    BY <1>3
  <2> QED
    BY <1>4, <2>1 DEF Deep
<1>11. \A i \in p .. q : s[i].step = "super"
  <2>1. \A i \in p .. q : i \in g + 1 .. q
    BY <1>3, <1>9, <1>10
  <2> QED
    BY <1>3, <2>1 DEF Climbing
<1>12. s[q].name \in ClassesAbove(s[p].name)
  BY <1>11, SupersClimb
<1>13. s[p].name \in Classes
  <2>1. p \in p .. q
    OBVIOUS
  <2> QED
    BY <1>11, <2>1 DEF Deep
<1> QED
  BY <1>4, <1>12, <1>13 DEF NoSuperCycle

\* So there are no more of them than marks.
LEMMA DepthBound ==
  ASSUME IsFiniteSet(Classes), SupersOK, NoSuperCycle, NEW s, NEW n \in Nat, Deep(s, n)
  PROVE  n <= (Cardinality(Classes) + 1) * (Cardinality(Classes) + 2)
<1>1. PICK N \in Nat : N = Cardinality(Classes)
  BY FS_CardinalityType
<1>2. IsFiniteSet(Names) /\ Cardinality(Names) = N + 1
  <2>1. ArrayName \notin Classes
    BY LoaderAssumption
  <2> QED
    BY <1>1, <2>1, FS_AddElement DEF Names
<1>3. PICK M : M = Names \cup {NIL}
  OBVIOUS
<1>4. IsFiniteSet(M) /\ Cardinality(M) = N + 2
  <2>1. NIL \notin Names
    BY LoaderAssumption
  <2>2. IsFiniteSet(M) /\ Cardinality(M) = Cardinality(Names) + 1
    BY <1>2, <1>3, <2>1, FS_AddElement
  <2> QED
    BY <1>2, <2>2
<1>5. PICK P : P = M \X Names
  OBVIOUS
<1>6. IsFiniteSet(P) /\ Cardinality(P) = (N + 2) * (N + 1)
  BY <1>2, <1>4, <1>5, FS_Product
<1>7. \A p \in 1 .. n : Mark(s, p) \in P
  <2> SUFFICES ASSUME NEW p \in 1 .. n PROVE Mark(s, p) \in P
    OBVIOUS
  <2>1. PICK f : f = Foot(s, p)
    OBVIOUS
  <2>2. f \in 0 .. p
    BY <2>1, FootIs
  <2>3. f # 0 => f \in 1 .. n
    BY <2>2
  <2>4. s[p].name \in Names /\ (f # 0 => s[f].name \in Names)
    BY <2>3 DEF Deep
  <2> QED
    BY <1>3, <1>5, <2>1, <2>4 DEF Mark
<1>8. PICK F : F = [p \in 1 .. n |-> Mark(s, p)]
  OBVIOUS
<1>9. F \in [1 .. n -> P]
  BY <1>7, <1>8
<1>10. ASSUME NEW p \in 1 .. n, NEW q \in 1 .. n, p # q PROVE F[p] # F[q]
  <2>1. p < q \/ q < p
    BY <1>10
  <2>2. Mark(s, p) # Mark(s, q)
    BY <2>1, MarksDiffer
  <2> QED
    BY <1>8, <2>2
<1>11. IsFiniteSet(1 .. n) /\ Cardinality(1 .. n) = n
  <2>1. IsFiniteSet(1 .. n) /\ Cardinality(1 .. n) = IF 1 > n THEN 0 ELSE n - 1 + 1
    BY FS_Interval
  <2> QED
    BY <2>1
<1>12. ~ (Cardinality(P) < Cardinality(1 .. n))
  BY <1>6, <1>9, <1>10, <1>11, FS_PigeonHole
<1>13. Cardinality(P) \in Nat /\ n <= Cardinality(P)
  BY <1>6, <1>11, <1>12, FS_CardinalityType
<1>14. (N + 2) * (N + 1) = (N + 1) * (N + 2)
  OBVIOUS
<1> QED
  BY <1>1, <1>6, <1>13, <1>14

LEMMA StackIsDeep ==
  ASSUME Inv, NEW t \in Threads, Served(t), stack[t] # << >>,
         NEW n \in Nat, Len(stack[t]) = n + 1
  PROVE  Deep(stack[t], n)
<1>1. ActsOf(t)
  BY ActsAre
<1>2. \A i \in 1 .. n : i \in 1 .. Len(stack[t]) /\ i < Len(stack[t])
  OBVIOUS
<1>3. ASSUME NEW i \in 1 .. n
      PROVE  stack[t][i].step \in {"super", "needs"} /\ stack[t][i].name \in Names
  BY <1>1, <1>2 DEF ActsOf, Waiting
<1>4. ASSUME NEW i \in 1 .. n, stack[t][i].step = "super"
      PROVE  /\ stack[t][i].name \in Classes /\ world.super[stack[t][i].name] # NIL
             /\ stack[t][i + 1].name = world.super[stack[t][i].name]
  BY <1>1, <1>2, <1>4 DEF ActsOf, NoSuper
<1>5. ASSUME NEW i \in 1 .. n, NEW j \in 1 .. n, i < j, stack[t][i].step = "needs"
      PROVE  stack[t][i].name # stack[t][j].name
  <2>1. stack[t][j].step # "start"
    BY <1>3
  <2> QED
    BY <1>2, <1>5, <2>1 DEF Served
<1> QED
  BY <1>3, <1>4, <1>5 DEF Deep

LEMMA CallFits ==
  ASSUME NEW t, NEW a, NEW c, CallFrom(t, a, c), ~ crashed, crashed', MaxDepth \in Nat,
         Len(stack[t]) \in Nat
  PROVE  Len(stack[t]) >= MaxDepth
<1>1. ~ (Len(stack[t]) < MaxDepth)
  BY DEF CallFrom
<1>2. PICK l \in Nat : l = Len(stack[t])
  OBVIOUS
<1>3. ~ (l < MaxDepth)
  BY <1>1, <1>2
<1> QED
  BY <1>2, <1>3

\* Only a step of a thread whose stack is full runs out of it.
LEMMA OverflowIsDeep ==
  ASSUME Inv, Next, crashed'
  PROVE  \E t \in Threads : stack[t] # << >> /\ Len(stack[t]) >= MaxDepth
<1>1. PICK t \in Threads : \/ LoaderStep(t) \/ ArrayClass(t)
                           \/ \E c \in Classes : FromFile(t, c) \/ FromJar(t, c)
  BY DEF Next
<1>2. ~ crashed /\ MaxDepth \in Nat
  BY NextAlive, LoaderAssumption
<1>3. Len(stack[t]) \in Nat
  <2>1. stack[t] \in Seq(Acts(Len(objs)))
    BY DEF Inv, WellTyped
  <2> QED
    BY <2>1
<1>4. ASSUME NEW a, NEW c, CallFrom(t, a, c), stack[t] # << >>
      PROVE  \E u \in Threads : stack[u] # << >> /\ Len(stack[u]) >= MaxDepth
  BY <1>2, <1>3, <1>4, CallFits
<1>5. ~ (UNCHANGED crashed)
  BY <1>2
<1>6. ASSUME NEW a PROVE ~ GoTo(t, a) /\ ~ Return(t, a)
  BY <1>5 DEF GoTo, Return
<1>7. CASE Parse(t)
  BY <1>4, <1>6, <1>7 DEF Parse, MustLoad, At, Active
<1>8. CASE Create(t)
  BY <1>4, <1>8 DEF Create, At, Active
<1>9. CASE LinkNeed(t)
  BY <1>4, <1>6, <1>9 DEF LinkNeed, At, Active
<1>10. CASE StartArray(t)
  BY <1>4, <1>10 DEF StartArray, At, Active
<1>11. CASE ArrayNeed(t)
  <2>1. stack[t] # << >>
    BY <1>11 DEF ArrayNeed, At, Active
  <2>2. PICK got : GoTo(t, got) \/ Return(t, got) \/ \E c : CallFrom(t, got, c)
    BY <1>11 DEF ArrayNeed
  <2> QED
    BY <1>4, <1>6, <2>1, <2>2
<1>12. CASE LinkSuper(t)
  BY <1>6, <1>12 DEF LinkSuper
<1>13. CASE Found(t) \/ Refuse(t) \/ CreateArray(t)
  BY <1>6, <1>13 DEF Found, Refuse, CreateArray
<1>14. CASE Answer(t) \/ ArrayClass(t) \/ \E c \in Classes : FromFile(t, c) \/ FromJar(t, c)
  BY <1>5, <1>14 DEF Answer, ArrayClass, FromFile, FromJar, Begin
<1> QED
  BY <1>1, <1>7, <1>8, <1>9, <1>10, <1>11, <1>12, <1>13, <1>14 DEF LoaderStep

\* Activations that fit on the stack as long as no class is its own superclass.
DepthNeeded == (Cardinality(Classes) + 1) * (Cardinality(Classes) + 2) + 1

LEMMA SupersAreOK == ASSUME Inv, IsFiniteSet(Classes) PROVE SupersOK
<1>1. world \in Worlds
  BY DEF Inv, WellTyped
<1> QED
  BY <1>1, ClassesAboveHolds DEF SupersOK

LEMMA NoOverflow ==
  ASSUME IsFiniteSet(Classes), MaxDepth > DepthNeeded, Inv, \A t \in Threads : Served(t),
         NoSuperCycle, Next
  PROVE  ~ crashed'
<1> SUFFICES ASSUME crashed' PROVE FALSE
  OBVIOUS
<1>1. PICK t \in Threads : stack[t] # << >> /\ Len(stack[t]) >= MaxDepth
  BY OverflowIsDeep
<1>2. PICK m \in Nat : m = Len(stack[t]) /\ m >= 1
  BY <1>1, TopActs
<1>3. PICK n \in Nat : m = n + 1
  <2>1. m - 1 \in Nat /\ m = (m - 1) + 1
    BY <1>2
  <2> QED
    BY <2>1
<1>4. Deep(stack[t], n)
  BY <1>1, <1>2, <1>3, StackIsDeep
<1>5. n <= (Cardinality(Classes) + 1) * (Cardinality(Classes) + 2)
  BY <1>4, SupersAreOK, DepthBound
<1>6. PICK N \in Nat : N = Cardinality(Classes)
  BY FS_CardinalityType
<1>7. PICK B \in Nat : B = (N + 1) * (N + 2)
  OBVIOUS
<1>8. MaxDepth > B + 1 /\ m >= MaxDepth /\ n <= B /\ MaxDepth \in Nat
  BY <1>1, <1>2, <1>5, <1>6, <1>7, LoaderAssumption DEF DepthNeeded
<1> QED
  BY <1>3, <1>8

LEMMA CycleStays ==
  ASSUME world' = world
  PROVE  NoSuperCycle' <=> NoSuperCycle
<1>1. \A c : ClassesAbove(c)' = ClassesAbove(c)
  BY SameAbove
<1> QED
  BY <1>1 DEF NoSuperCycle

LEMMA ServedAtFirst == ASSUME Init PROVE \A t \in Threads : Served(t)
<1> SUFFICES ASSUME NEW t \in Threads PROVE Served(t)
  OBVIOUS
<1>1. stack[t] = << >> \/ \E a : stack[t] = << a >>
  BY DEF Init
<1>2. Len(stack[t]) \in {0, 1}
  <2>1. Len(<< >>) = 0 /\ \A a : Len(<< a >>) = 1
    OBVIOUS
  <2>2. CASE stack[t] = << >>
    BY <2>1, <2>2
  <2>3. CASE \E a : stack[t] = << a >>
    BY <2>1, <2>3
  <2> QED
    BY <1>1, <2>2, <2>3
<1>3. \A n \in {0, 1} : \A p, q \in 1 .. n : ~ (p < q)
  OBVIOUS
<1> QED
  BY <1>2, <1>3 DEF Served

(* Only a class that is its own superclass runs a thread out of stack, for *)
(* any number of classes and threads and every class path, on a stack that *)
(* holds quadratically many activations.                                   *)
THEOREM OnlySuperCycles ==
  IsFiniteSet(Classes) /\ MaxDepth > DepthNeeded => (Spec => []OnlySuperCyclesOverflow)
<1> SUFFICES ASSUME IsFiniteSet(Classes), MaxDepth > DepthNeeded
             PROVE  Spec => []OnlySuperCyclesOverflow
  OBVIOUS
<1> DEFINE L == OnlySuperCyclesOverflow /\ (crashed \/ \A t \in Threads : Served(t))
<1>1. Init => L
  BY ServedAtFirst DEF Init, OnlySuperCyclesOverflow
<1>2. Inv /\ L /\ [Next]_vars => L'
  <2> SUFFICES ASSUME Inv, L, [Next]_vars PROVE L'
    OBVIOUS
  <2>1. CASE UNCHANGED vars
    <3>1. world' = world /\ crashed' = crashed /\ stack' = stack
      BY <2>1 DEF vars
    <3>2. \A t \in Threads : Served(t) => Served(t)'
      BY <3>1 DEF Served
    <3> QED
      BY <3>1, <3>2, CycleStays DEF OnlySuperCyclesOverflow
  <2>2. CASE Next
    <3>1. PICK t \in Threads : Making(t)
      BY <2>2, MakingShape
    <3>2. NoSuperCycle' <=> NoSuperCycle
      BY <3>1, CycleStays DEF Making
    <3>3. \A u \in Threads : Served(u)
      BY <2>2, NextAlive
    <3>4. crashed' => ~ NoSuperCycle
      BY <2>2, <3>3, NoOverflow
    <3>5. ASSUME ~ crashed' PROVE \A u \in Threads : Served(u)'
      <4>1. PICK u \in Threads : StepBy(u)
        BY <2>2, <3>5, StepShape
      <4> QED
        BY <3>3, <4>1, ServedKept
    <3> QED
      BY <3>2, <3>4, <3>5 DEF OnlySuperCyclesOverflow
  <2> QED
    BY <2>1, <2>2
<1>3. L => OnlySuperCyclesOverflow
  OBVIOUS
<1> QED
  BY <1>1, <1>2, <1>3, InvHolds, PTL DEF Spec

(* Where no class is its own superclass and the stack is that deep, every  *)
(* class whose load has ended is linked to all the classes around it that  *)
(* can be loaded: no overflow leaves one half linked.                      *)
THEOREM LinksAreNeverCut ==
  IsFiniteSet(Classes) /\ MaxDepth > DepthNeeded =>
    (Spec => [](NoSuperCycle => LinksComplete))
<1> SUFFICES ASSUME IsFiniteSet(Classes), MaxDepth > DepthNeeded
             PROVE  Spec => [](NoSuperCycle => LinksComplete)
  OBVIOUS
<1>1. Spec => []OnlySuperCyclesOverflow
  BY OnlySuperCycles
<1>2. OnlySuperCyclesOverflow /\ (~ crashed => LinksComplete) => (NoSuperCycle => LinksComplete)
  BY DEF OnlySuperCyclesOverflow
<1> QED
  BY <1>1, <1>2, LinksAreComplete, PTL
=============================================================================
