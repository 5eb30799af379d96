--------------------------- MODULE MCClassLoader ---------------------------
(* Object, Class and two more classes, A and B, on class paths that differ *)
(* in what is missing, broken, packed in a JAR or badly related.           *)
EXTENDS ClassLoader

CONSTANTS obj, cls, clsA, clsB, arr, t1, t2

MCClasses == {obj, cls, clsA, clsB}
MCThreads == {t1, t2}

\* t1 loads what it likes; t2 comes in between with the two classes by name.
MCAsks == ({t1} \X {"file", "jar"} \X {clsA, clsB}) \cup {<< t1, "array", arr >>}
            \cup ({t2} \X {"file"} \X {clsA})

Path(where, flaw, superA, superB, intfsA, intfsB) ==
  [where |-> where, flaw |-> flaw,
   super |-> [c \in MCClasses |-> CASE c = obj -> NIL [] c = cls -> obj [] c = clsA -> superA [] OTHER -> superB],
   intfs |-> [c \in MCClasses |-> CASE c = clsA -> intfsA [] c = clsB -> intfsB [] OTHER -> << >>]]

Everywhere(w) == [c \in MCClasses |-> w]
Perfect == Everywhere("none")
Files == Everywhere("file")

MCWorlds == {
  \* A extends B; all is well
  Path(Files, Perfect, clsB, obj, << >>, << >>),
  \* A implements B; B is in a JAR
  Path([Files EXCEPT ![clsB] = "jar"], Perfect, obj, obj, << clsB >>, << >>),
  \* A extends B, which is missing
  Path([Files EXCEPT ![clsB] = "none"], Perfect, clsB, obj, << >>, << >>),
  \* A extends B, whose version is not supported; A implements B too
  Path(Files, [Perfect EXCEPT ![clsB] = "version"], clsB, obj, << clsB >>, << >>),
  \* Object is missing, and A is in a JAR
  Path([Files EXCEPT ![obj] = "none", ![clsA] = "jar"], Perfect, clsB, obj, << >>, << >>),
  \* interfaces in a circle, and B below and above A
  Path(Files, Perfect, obj, obj, << clsB >>, << clsA >>),
  Path(Files, Perfect, clsB, obj, << >>, << clsA >>),
  \* superclasses in a circle
  Path(Files, Perfect, clsB, clsA, << >>, << >>)
}
=============================================================================
