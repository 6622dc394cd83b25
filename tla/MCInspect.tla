----------------------------- MODULE MCInspect -----------------------------
(* Three programs stopped: a call with a table that holds itself, the same   *)
(* frame a step later under a C function, and one with a shadowed local.     *)
EXTENDS Inspect

V(t, i)      == [type |-> t, id |-> i]
Var(s, v)    == [name |-> Named(s), val |-> v]
Key(s, v)    == [key |-> Named(s), val |-> v]
Up(s, v, n)  == [name |-> Named(s), val |-> v, slot |-> n]
Frame(f, ls, n, us) == [c |-> FALSE, fn |-> V("function", f), locals |-> ls, params |-> n, varargs |-> << >>, upvalues |-> us]
Globals      == Up("_ENV", V("table", "G"), "main")

Heap(x) == [G |-> <<Key("print", V("cfunction", "p")), Key("g", V("number", x)),
                  Key("call", V("function", "call"))>>,
            T |-> <<Key("me", V("table", "T")), Key("n", V("number", x))>>]

CFrame == [Frame("pcall", << >>, 0, << >>) EXCEPT !.c = TRUE]
Main == Frame("main", <<Var("x", V("table", "T")), Var("(*temporary)", V("nil", ""))>>, 0, <<Globals>>)

Program(frames, x) == [frames |-> frames, globals |-> "G", registry |-> "G", heap |-> Heap(x),
                       fake |-> FALSE]

ProgramsA == {
  Program(<<Main>>, "1"),
  Program(<<Frame("call", <<Var("x", V("string", "1")), Var("x", V("number", "2"))>>, 1, <<Globals>>), CFrame, Main>>, "2")}
\* A call that passes a C function: f(print).
ProgramsC == {Program(<<Frame("call", <<Var("f", V("cfunction", "p"))>>, 1, <<Globals>>), Main>>, "1")}
\* A file that does not load.
ProgramsF == {[Program(<<Main>>, "1") EXCEPT !.fake = TRUE]}
ProgramsAll == ProgramsA \cup ProgramsC \cup ProgramsF
\* A text of nine bytes, one of them zero: two lines of hex in a narrow view.
BytesA == "1" :> <<"print", "zero", "other", "print", "blank", "newline", "print", "print", "return">>
WordsA == {Named("x")}
\* x.n, of which both names lead to x.
PhraseA == <<Named("x"), Named("."), Named("n")>>
StyledA == {Named("x"), Named("n")}
BooksA == {{"locals", "stack", "memory"}, {"watches", "globals", "jlocals"}}
BooksC == {{"locals", "stack"}}
=============================================================================
