---------------------------- MODULE MCCallFrames ----------------------------
(* Programs of one to six methods; with blocks of four frames, recursion  *)
(* makes the block grow and fills the memory.                              *)
EXTENDS CallFrames

nop == << << "nop" >> >>
push == << << "push" >> >>
ret == << << "return" >> >>
aret == << << "areturn" >> >>
dret == << << "dreturn" >> >>
fault == << << "fault" >> >>
spin == << << "spin" >> >>
Call(kind, m) == << << "call", kind, m >>, << "arg" >>, << "arg" >> >>
CallI(words) == << << "interface", words >>, << "arg" >>, << "arg" >> >>
Pushes(n) == [k \in 1 .. n |-> << "push" >>]

Method(args, result, code) == [args |-> args, ret |-> result, code |-> code, tries |-> {}]
Void(code) == Method(0, "void", code)
Guarded(code, from, to, at) ==
  [args |-> 0, ret |-> "void", code |-> code, tries |-> {[from |-> from, to |-> to, at |-> at]}]

Faulty == Void(nop \o nop \o fault \o ret)

\* A method that catches what comes from within its call of method m, with the
\* given handler; one that passes it on.
Catching(kind, m, handler) == Guarded(Pushes(2) \o Call(kind, m) \o ret \o handler \o ret, 2, 5, 6)
Passing(kind, m) == Void(Pushes(2) \o Call(kind, m) \o ret)

\* Calls of each kind, with one argument or two, each kind of return and each
\* type, with all the words that the call takes or not.
Calling == {
  << Void(Pushes(have) \o Call(kind, 2) \o ret),
     Method(args, result, Pushes(left) \o << end >>) >> :
    have \in 1 .. 3, kind \in {"virtual", "special", "static"}, args \in 0 .. 2,
    result \in {"void", "reference", "double"}, left \in 0 .. 2,
    end \in {<< "return" >>, << "areturn" >>, << "dreturn" >>} }

\* An exception one to four calls down, caught in main; a handler that does
\* nothing, takes a value, adds one, calls or throws.
HandlerCodes ==
  {nop, ret, aret, dret, push, fault, spin, CallI(1)} \union {Call("static", m) : m \in 1 .. 2}
Deep(kind, n, handler) ==
  << Catching(kind, 2, handler) >> \o [m \in 1 .. n - 1 |-> Passing(kind, m + 2)] \o << Faulty >>

MCPrograms == Calling
  \union {Deep("static", n, h) : n \in 1 .. 5, h \in HandlerCodes}
  \union {Deep("special", n, nop) : n \in 1 .. 2}
  \union {
  << Void(push \o ret) >>,
  << Void(push \o CallI(1) \o ret) >>,
  << Void(nop \o spin) >>,
  << Void(nop \o Call("static", 2) \o ret), Method(2, "void", nop \o ret) >>,
  << Void(nop \o fault \o ret) >>,
  << Void(fault \o ret) >>,
  << Void(Pushes(OpStackSize) \o ret) >>,
  \* main calls, and is called; a method that fails is called twice
  << Void(Pushes(2) \o Call("static", 2) \o Call("static", 2) \o ret), Void(nop \o ret) >>,
  \* a double that a call returned is passed on
  << Void(nop \o Call("static", 2) \o Call("static", 3) \o ret),
     Method(0, "double", Pushes(2) \o dret), Method(2, "void", nop \o ret) >>,
  \* doubles fill the stack
  << Void(nop \o Call("static", 2) \o Call("static", 2) \o Call("static", 2) \o ret),
     Method(0, "double", Pushes(2) \o dret) >>,
  \* recursion
  << Void(nop \o Call("static", 1) \o ret) >>,
  << Void(push \o Call("virtual", 1) \o ret) >>,
  << Void(push \o Call("special", 1) \o ret) >>,
  \* three or five frames deep, and back
  << Passing("static", 2), Passing("static", 3), Void(nop \o ret) >>,
  << Passing("static", 2), Passing("static", 3), Passing("static", 4), Passing("static", 5), Void(ret) >>,
  << Passing("special", 2), Passing("virtual", 3), Void(nop \o ret) >>,
  \* an exception caught in the same method, in front of its handler or nowhere
  << Passing("static", 2), Guarded(nop \o nop \o fault \o nop \o ret, 1, 3, 3) >>,
  << Passing("static", 2), Guarded(nop \o nop \o fault \o nop \o ret, 2, 3, 3) >>,
  << Passing("static", 2), Guarded(nop \o nop \o fault \o push \o ret, 0, 1, 3) >>,
  \* a method that an exception has come down to calls one that fails
  << Passing("static", 2), Catching("static", 3, Call("static", 3)), Passing("static", 4), Faulty >>,
  << Catching("static", 2, nop), Catching("static", 3, Call("static", 3)), Passing("static", 4),
     Faulty >>
}
=============================================================================
