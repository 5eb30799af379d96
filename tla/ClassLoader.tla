----------------------------- MODULE ClassLoader -----------------------------
(***************************************************************************)
(* jvmloadr.c: how a class and everything it needs is found, registered    *)
(* and linked, for the primitive loader, the only one JDepends uses.       *)
(*                                                                         *)
(* JvmLdrLoadNewClass is recursive.  stack[t] holds its activations, and   *)
(* those of JvmLdrMakeNewArrayClass, in thread t; step says where one is.  *)
(* The mutexes of the loader are passed by value and exclude nobody, so    *)
(* the steps of two threads interleave between any two accesses to the     *)
(* tables.  What a class file says is an input, chosen once and fixed.     *)
(***************************************************************************)
EXTENDS Integers, Sequences, FiniteSets, SequencesExt

CONSTANTS
  Classes,        \* names of classes, those of the next two among them
  ObjectName,     \* java/lang/Object
  ClassName,      \* java/lang/Class
  ArrayName,      \* the name of an array class
  ArrayBase,      \* the class of its elements
  Threads,
  Main,           \* the thread that runs JvmDependsInit
  Worlds,         \* the class paths considered
  Asks,           \* the calls considered: a thread, a kind of call and a name
  NIL,
  MaxObjects,     \* no reload from a JAR once there are so many class objects
  MaxDepth        \* activations that fit on a thread's stack

VARIABLES
  world,    \* the class path: where each class is and what its file says
  table,    \* the class table of the loader: a class object per name, 0 for none
  objs,     \* the class objects made so far
  deferred, \* the class state table: the exception deferred for a name
  stack,    \* the activations of each thread, innermost last
  ret,      \* what the last activation returned: a class object, 0 for JVM_FALSE
  api,      \* the call of the user interface each thread is in, or NIL
  crashed   \* a thread has run out of stack

vars == << world, table, objs, deferred, stack, ret, api, crashed >>

Names == Classes \cup {ArrayName}

\* The calls of the user interface, that of JvmDependsInit among them.
Calls == [call : {"init", "file", "jar", "array"}, name : Names]

\* What is wrong with a class file, and the exception deferred for it.
Flaws == {"none", "format", "version"}

ASSUME LoaderAssumption ==
  /\ ObjectName \in Classes /\ ClassName \in Classes /\ ArrayBase \in Classes
  /\ ObjectName # ClassName
  /\ ArrayName \notin Classes
  /\ NIL \notin Names \cup Calls
  /\ Main \in Threads
  /\ MaxDepth \in Nat /\ MaxObjects \in Nat
  /\ \A w \in Worlds :
       /\ w.where \in [Classes -> {"file", "jar", "none"}]
       /\ w.flaw \in [Classes -> Flaws]
       /\ w.super \in [Classes -> Classes \cup {NIL}]
       /\ \A c \in Classes : w.intfs[c] \in Seq(Classes)

\* A class JvmConfigLocateClass finds and whose file passes every check.
Sound(c) == world.where[c] # "none" /\ world.flaw[c] = "none"

NoSuper(c) == world.super[c] = NIL

\* What is loaded once a class is registered: its interfaces, then Object and
\* Class, unless it is one of these.
Needs(c) ==
  LET role(r, S) == [i \in 1 .. Len(S) |-> [role |-> r, name |-> S[i]]]
  IN  role("intfs", world.intfs[c])
        \o role("object", IF c = ObjectName THEN << >> ELSE << ObjectName >>)
        \o role("class", IF c = ClassName THEN << >> ELSE << ClassName >>)

\* A new activation of JvmLdrLoadNewClass: by name, or on the bytes of a JAR.
Load(c, how) ==
  [name |-> c, how |-> how, step |-> "start", super |-> 0, obj |-> 0, left |-> Needs(c)]

\* An activation of JvmLdrMakeNewArrayClass, which loads Object, Class and the
\* class of the elements before it registers anything.
MakeArray ==
  [name |-> ArrayName, how |-> "array", step |-> "start", super |-> 0, obj |-> 0,
   left |-> << ObjectName, ClassName, ArrayBase >>]

Idle(t) == api[t] = NIL
Active(t) == stack[t] # << >> /\ ~ crashed
Top(t) == Last(stack[t])
At(t, how, step) == Active(t) /\ Top(t).how \in how /\ Top(t).step = step
Loaders == {"name", "bytes"} \* activations of JvmLdrLoadNewClass

\* The stack of t with its innermost activation changed.
Updated(t, a) == [stack EXCEPT ![t] = Append(Front(@), a)]
GoTo(t, a) == stack' = Updated(t, a) /\ UNCHANGED << ret, crashed >>

\* The innermost activation goes on as a and calls JvmLdrLoadNewClass(c).
CallFrom(t, a, c) ==
  IF Len(stack[t]) < MaxDepth
  THEN /\ stack' = [stack EXCEPT ![t] = Append(Front(@), a) \o << Load(c, "name") >>]
       /\ ret' = [ret EXCEPT ![t] = 0]
       /\ UNCHANGED crashed
  ELSE crashed' = TRUE /\ UNCHANGED << stack, ret >>

Return(t, o) ==
  /\ stack' = [stack EXCEPT ![t] = Front(@)]
  /\ ret' = [ret EXCEPT ![t] = o]
  /\ UNCHANGED crashed

\* JvmDeferException: the last exception deferred for a name is the one kept.
Defer(c, e) == deferred' = [deferred EXCEPT ![c] = e]

\* Faulty: the first exception deferred for a name is kept.
DeferOnce(t, c) ==
  IF ret[t] = 0 /\ deferred[c] = "none" THEN Defer(c, "format") ELSE UNCHANGED deferred

\* After JvmLoadClass(c): a failed load is deferred once more, as a format error.
AfterLoadClass(t, c) ==
  IF ret[t] = 0 THEN Defer(c, "format") ELSE UNCHANGED deferred

-----------------------------------------------------------------------------
(* The calls of the user interface.                                        *)

InitCall == [call |-> "init", name |-> ObjectName]

\* JvmDependsInit is at its JVM_LOAD_CLASS( S_JAVA_LANG_OBJECT ).
Init ==
  /\ world \in Worlds
  /\ table = [c \in Names |-> 0]
  /\ objs = << >>
  /\ deferred = [c \in Classes |-> "none"]
  /\ stack = [t \in Threads |-> IF t = Main THEN << Load(ObjectName, "name") >> ELSE << >>]
  /\ ret = [t \in Threads |-> 0]
  /\ api = [t \in Threads |-> IF t = Main THEN InitCall ELSE NIL]
  /\ crashed = FALSE

Initialised == api[Main] # InitCall

Begin(t, call, name, a) ==
  /\ << t, call, name >> \in Asks
  /\ Idle(t) /\ Initialised /\ ~ crashed
  /\ api' = [api EXCEPT ![t] = [call |-> call, name |-> name]]
  /\ stack' = [stack EXCEPT ![t] = << a >>]
  /\ UNCHANGED << world, table, objs, deferred, ret, crashed >>

\* JvmLoadDependsClassFromFile
FromFile(t, c) == Begin(t, "file", c, Load(c, "name"))

\* JvmLoadDependsClassFromJAR; nothing happens if the JAR has no such entry.
FromJar(t, c) ==
  /\ world.where[c] = "jar"
  /\ Len(objs) < MaxObjects
  /\ Begin(t, "jar", c, Load(c, "bytes"))

\* JvmLdrMakeNewArrayClass
ArrayClass(t) == Begin(t, "array", ArrayName, MakeArray)

\* The outermost activation has returned: a failure is deferred again.
Answer(t) ==
  /\ ~ Idle(t) /\ stack[t] = << >> /\ ~ crashed
  /\ LET call == api[t].call
     IN  IF call \in {"file", "init"} THEN AfterLoadClass(t, api[t].name) ELSE UNCHANGED deferred
  /\ api' = [api EXCEPT ![t] = NIL]
  /\ ret' = [ret EXCEPT ![t] = 0]
  /\ UNCHANGED << world, table, objs, stack, crashed >>

-----------------------------------------------------------------------------
(* JvmLdrLoadNewClass.                                                     *)

\* JvmLdrGetClassObject: a name that is in the table is not loaded again.
Found(t) ==
  /\ At(t, {"name", "array"}, "start")
  /\ table[Top(t).name] # 0
  /\ Return(t, table[Top(t).name])
  /\ UNCHANGED << world, table, objs, deferred, api >>

\* Faulty: nobody looks whether the class is in the table.
LoadAgain(t) == At(t, Loaders, "start")

\* The class is not in the table, or nobody looks because its bytes are given.
MustLoad(t) ==
  /\ At(t, Loaders, "start")
  /\ Top(t).how = "name" => table[Top(t).name] = 0

\* The file is missing or a check of it fails.  Bytes come without a name, and
\* JvmDeferException does nothing without one.
Refuse(t) ==
  LET c == Top(t).name
  IN  /\ MustLoad(t) /\ ~ Sound(c)
      /\ IF Top(t).how = "bytes" THEN UNCHANGED deferred
         ELSE Defer(c, IF world.where[c] = "none" THEN "format" ELSE world.flaw[c])
      /\ Return(t, 0)
      /\ UNCHANGED << world, table, objs, api >>

\* Faulty: the superclass is looked up before it is loaded.
LinkBeforeLoading(t) ==
  LET a == Top(t)
      s == world.super[a.name]
  IN  /\ MustLoad(t) /\ Sound(a.name)
      /\ IF s = NIL
         THEN GoTo(t, [a EXCEPT !.step = "create"])
         ELSE CallFrom(t, [a EXCEPT !.step = "create", !.super = table[s]], s)
      /\ UNCHANGED << world, table, objs, deferred, api >>

\* The file is read; JvmLoadClass is called for the superclass.
Parse(t) ==
  LET a == Top(t)
      s == world.super[a.name]
  IN  /\ MustLoad(t) /\ Sound(a.name)
      /\ IF s = NIL
         THEN GoTo(t, [a EXCEPT !.step = "create"])
         ELSE CallFrom(t, [a EXCEPT !.step = "super"], s)
      /\ UNCHANGED << world, table, objs, deferred, api >>

\* Faulty: a class whose superclass cannot be loaded is refused, as in the
\* lines of the source that are commented out.
SuperRequired(t) ==
  LET a == Top(t)
      s == world.super[a.name]
  IN  /\ At(t, Loaders, "super")
      /\ IF ret[t] = 0
         THEN Defer(a.name, "format") /\ Return(t, 0)
         ELSE UNCHANGED deferred /\ GoTo(t, [a EXCEPT !.super = table[s], !.step = "create"])
      /\ UNCHANGED << world, table, objs, api >>

\* JvmLoadClass is back; the superclass is whatever the table has, or NULL.
LinkSuper(t) ==
  LET a == Top(t)
      s == world.super[a.name]
  IN  /\ At(t, Loaders, "super")
      /\ AfterLoadClass(t, s)
      /\ GoTo(t, [a EXCEPT !.super = table[s], !.step = "create"])
      /\ UNCHANGED << world, table, objs, api >>

NewId == Len(objs) + 1

NewObject(t, a) ==
  [name |-> a.name, super |-> a.super, intfs |-> << >>, object |-> 0, class |-> 0,
   jar |-> a.how = "bytes", by |-> t]

\* Faulty: the class is registered only once all it needs is loaded.
CreateUnregistered(t) ==
  LET a == Top(t)
      o == NewId
  IN  /\ At(t, Loaders, "create")
      /\ objs' = Append(objs, NewObject(t, a))
      /\ CallFrom(t, [a EXCEPT !.obj = o, !.step = "needs"], Head(a.left).name)
      /\ UNCHANGED << world, table, deferred, api >>

\* JvmRtCreateNewInstanceEx and JvmLdrAddNewClass: the newest entry of a name is
\* the one the table finds from now on.  Then the first need is loaded.
Create(t) ==
  LET a == Top(t)
      o == NewId
  IN  /\ At(t, Loaders, "create")
      /\ objs' = Append(objs, NewObject(t, a))
      /\ table' = [table EXCEPT ![a.name] = o]
      /\ CallFrom(t, [a EXCEPT !.obj = o, !.step = "needs"], Head(a.left).name)
      /\ UNCHANGED << world, deferred, api >>

\* The class object with a link set to what the table has for a need.
Linked(o, need) ==
  LET l == table[need.name]
  IN  CASE need.role = "intfs"  -> [objs EXCEPT ![o].intfs = Append(@, l)]
        [] need.role = "object" -> [objs EXCEPT ![o].object = l]
        [] need.role = "class"  -> [objs EXCEPT ![o].class = l]

\* JvmLoadClass is back with a need: it is linked, and the next one is loaded.
LinkNeed(t) ==
  LET a == Top(t)
      need == Head(a.left)
      rest == Tail(a.left)
  IN  /\ At(t, Loaders, "needs")
      /\ AfterLoadClass(t, need.name)
      /\ objs' = Linked(a.obj, need)
      /\ IF rest = << >> THEN Return(t, a.obj)
         ELSE CallFrom(t, [a EXCEPT !.left = rest], Head(rest).name)
      /\ UNCHANGED << world, table, api >>

-----------------------------------------------------------------------------
(* JvmLdrMakeNewArrayClass calls JvmLdrLoadNewClass itself and gives up    *)
(* when a call fails; nothing is deferred a second time.                   *)

StartArray(t) ==
  LET a == Top(t)
  IN  /\ At(t, {"array"}, "start")
      /\ table[ArrayName] = 0
      /\ CallFrom(t, [a EXCEPT !.step = "needs"], Head(a.left))
      /\ UNCHANGED << world, table, objs, deferred, api >>

\* obj is the class object of java.lang.Class until there is an own one.
ArrayNeed(t) ==
  LET a == Top(t)
      rest == Tail(a.left)
      got == [a EXCEPT !.super = IF Head(a.left) = ObjectName THEN ret[t] ELSE @,
                       !.obj = IF Head(a.left) = ClassName THEN ret[t] ELSE @,
                       !.left = rest]
  IN  /\ At(t, {"array"}, "needs")
      /\ IF ret[t] = 0 THEN Return(t, 0)
         ELSE IF rest = << >> THEN GoTo(t, [got EXCEPT !.step = "create"])
         ELSE CallFrom(t, got, Head(rest))
      /\ UNCHANGED << world, table, objs, deferred, api >>

CreateArray(t) ==
  LET a == Top(t)
      o == NewId
  IN  /\ At(t, {"array"}, "create")
      /\ objs' = Append(objs, [NewObject(t, a) EXCEPT !.object = a.super, !.class = a.obj])
      /\ table' = [table EXCEPT ![ArrayName] = o]
      /\ Return(t, o)
      /\ UNCHANGED << world, deferred, api >>

LoaderStep(t) ==
  \/ Found(t) \/ Refuse(t) \/ Parse(t) \/ LinkSuper(t) \/ Create(t) \/ LinkNeed(t)
  \/ StartArray(t) \/ ArrayNeed(t) \/ CreateArray(t) \/ Answer(t)

Next == \E t \in Threads :
  \/ LoaderStep(t)
  \/ ArrayClass(t)
  \/ \E c \in Classes : FromFile(t, c) \/ FromJar(t, c)

\* A thread inside the loader runs on: nothing there waits for another thread.
Spec == Init /\ [][Next]_vars /\ \A t \in Threads : WF_vars(LoaderStep(t))

-----------------------------------------------------------------------------
\* The classes a class extends or implements, directly or not.
Above(c) ==
  LET parents(S) == (UNION {{world.super[x]} \ {NIL} : x \in S})
                      \cup (UNION {ToSet(world.intfs[x]) : x \in S})
      grow[n \in Nat] == IF n = 0 THEN parents({c}) ELSE grow[n - 1] \cup parents(grow[n - 1])
  IN  grow[Cardinality(Classes)]

ClassesAbove(c) ==
  LET grow[n \in Nat] == IF n = 0 THEN {world.super[c]} ELSE grow[n - 1] \cup {world.super[x] : x \in grow[n - 1] \ {NIL}}
  IN  grow[Cardinality(Classes)] \ {NIL}

\* No sound class is its own superclass.
NoSuperCycle == \A c \in Classes : c \notin ClassesAbove(c)

Ids == 0 .. Len(objs)

Steps == {"start", "super", "create", "needs"}

TypeOK ==
  /\ world \in Worlds
  /\ table \in [Names -> Ids]
  /\ \A i \in 1 .. Len(objs) :
       /\ objs[i].name \in Names
       /\ {objs[i].super, objs[i].object, objs[i].class} \subseteq Ids
       /\ objs[i].intfs \in Seq(Ids)
  /\ deferred \in [Classes -> Flaws]
  /\ \A t \in Threads : \A i \in 1 .. Len(stack[t]) :
       stack[t][i].name \in Names /\ stack[t][i].step \in Steps /\ stack[t][i].obj \in Ids
  /\ ret \in [Threads -> Ids]
  /\ crashed \in BOOLEAN

(* A class is loaded once: a name only gets a second class object from a   *)
(* JAR, which is read again without a look at the table, or because        *)
(* another thread loaded it too between the look and the registration, or  *)
(* because the files describe a class that is above itself.  This is so on *)
(* class paths where Class can only be loaded if Object can.               *)
LoadedOnce ==
  \A i, j \in 1 .. Len(objs) : i < j /\ objs[i].name = objs[j].name =>
    objs[j].jar \/ objs[i].by # objs[j].by \/ objs[j].name \in Above(objs[j].name)

InProgress(o) == \E t \in Threads : \E i \in 1 .. Len(stack[t]) : stack[t][i].obj = o

(* A class whose load has ended is linked to every class around it that    *)
(* has a sound file, whatever order the loads and their recursive calls    *)
(* came in; only a class without a sound file is left as NULL.             *)
LinksComplete ==
  TypeOK /\ \A o \in 1 .. Len(objs) :
    LET c == objs[o].name
        linked(l, n) == IF Sound(n) THEN l # 0 /\ objs[l].name = n ELSE l = 0
    IN  IF c = ArrayName THEN linked(objs[o].super, ObjectName) /\ linked(objs[o].class, ClassName)
        ELSE InProgress(o) \/
          /\ NoSuper(c) \/ linked(objs[o].super, world.super[c])
          /\ \A i \in 1 .. Len(world.intfs[c]) : linked(objs[o].intfs[i], world.intfs[c][i])
          /\ c = ObjectName \/ linked(objs[o].object, ObjectName)
          /\ c = ClassName \/ linked(objs[o].class, ClassName)

(* A class is loaded or its failure is deferred, never both: a missing     *)
(* superclass or interface does not make the classes below it fail.        *)
DeferredIsUnsound ==
  /\ \A c \in Classes : deferred[c] # "none" => ~ Sound(c)
  /\ \A c \in Classes : table[c] # 0 => Sound(c)

(* An unsupported version is reported as a format error: the callers of    *)
(* the loader defer a second exception over the first.  Only a class an    *)
(* array asked for can keep the first one.                                 *)
VersionIsOverwritten ==
  (\A t \in Threads : Idle(t)) =>
    \A c \in Classes : deferred[c] = "version" => c \in {ObjectName, ClassName, ArrayBase}

(* The recursion only runs out of stack on a class that is its own         *)
(* superclass: cycles through interfaces, through Object and Class end,    *)
(* because a class is registered before they are followed.                 *)
OnlySuperCyclesOverflow == crashed => ~ NoSuperCycle

(* Every call of the loader returns, unless a class is its own superclass. *)
LoadingEnds == \A t \in Threads : NoSuperCycle /\ ~ Idle(t) ~> Idle(t)
=============================================================================
