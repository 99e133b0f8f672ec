-------------------------- MODULE SamplePrograms --------------------------
(***************************************************************************)
(* The programs the interpreters are compared on, in source form (see      *)
(* BytecodeCompiler for the form), their classes, and what assembling them *)
(* gives.  A program starts with the message "run" to a Sub whose fields   *)
(* are nil.                                                                *)
(***************************************************************************)
EXTENDS Integers, Sequences, SequencesExt, FiniteSets

CONSTANTS JumpBase, MaxInt
KnownGlobals == {"nil", "true", "false", "Known", "system"}

Selectors1 == {"run", "value", "not", "get", "one", "a", "b", "c", "loop", "deep",
               "make", "unary", "abs", "lit", "glob", "missing", "second", "third"}
Selectors2 == {"+", "-", "*", "/", "%", "<", "<=", ">", ">=", "=", "<>", "==", "rem:", "max:",
               "min:", "value:", "unknownGlobal:",
               "escapedBlock:", "global:", "hasGlobal:", "set:", "setC:", "down:", "eval:", "ifTrue:", "||",
               "and:", "or:", "&&", "ifFalse:", "two:", "whileTrue:", "find:", "whileFalse:"}
Selectors3 == {"doesNotUnderstand:arguments:", "global:put:", "put:at:", "ifTrue:ifFalse:",
               "ifFalse:ifTrue:", "to:do:", "value:with:", "one:two:", "miss:ing:"}
Selectors4 == {"p:q:r:"}
Selectors5 == {"p:q:r:s:", "h:i:j:k:"}
SelectorArity == [s \in Selectors1 |-> 1] @@ [s \in Selectors2 |-> 2]
           @@ [s \in Selectors3 |-> 3] @@ [s \in Selectors4 |-> 4]
           @@ [s \in Selectors5 |-> 5]

KeywordSelectors ==
  DOMAIN SelectorArity \ (Selectors1 \cup {"+", "-", "*", "/", "%", "<", "<=", ">", ">=", "=", "<>",
                                   "==", "||", "&&"})

INSTANCE BytecodeParser WITH Arity <- SelectorArity
Ast == INSTANCE AstParser
Evaluation == INSTANCE AstEvaluation

---------------------------------------------------------------------------
(* Source forms.                                                           *)

N(n) == <<"lit", LiteralInteger(n)>>
Sym(name) == <<"lit", <<"sym", name>>>>
V(name) == <<"var", name>>
Set(name, e) == <<"assign", <<name>>, e>>
Do0(r, s) == <<"send", r, s, <<>>>>
Do1(r, s, x) == <<"send", r, s, <<x>>>>
Do2(r, s, x, y) == <<"send", r, s, <<x, y>>>>
Blk(body) == <<"block", <<>>, <<>>, body>>
Blk1(arg, body) == <<"block", <<arg>>, <<>>, body>>
Ret(e) == <<"return", e>>
Plus(x, y) == Do1(x, "+", y)
This == V("self")

Def(selector, args, locals, body) ==
  [selector |-> selector, source |-> <<args, locals, body>>]

Primitives(names) == [s \in names |-> <<"primitive", s>>]
Fields == <<"fa", "fb", "fc">>

\* The methods of Object and, in every program, of Base.
ObjectMethods == <<
  Def("doesNotUnderstand:arguments:", <<"sel", "all">>, <<>>, <<Ret(V("sel"))>>),
  Def("unknownGlobal:", <<"name">>, <<>>, <<Ret(V("name"))>>)>>
EscapedBlock ==
  Def("escapedBlock:", <<"blk">>, <<>>, <<Set("fc", N(77)), Dot, Ret(N(88))>>)

---------------------------------------------------------------------------
(* The programs: the methods of class Base and of its subclass Sub.        *)

\* Fields, setters the compiler turns into trivial methods, several
\* assignments at once.
Accessors == [
  base |-> <<Def("set:", <<"x">>, <<>>, <<Set("fa", V("x"))>>),
             Def("setC:", <<"x">>, <<>>, <<Set("fc", V("x")), Dot>>),
             Def("put:at:", <<"x", "y">>, <<>>, <<Set("fb", V("y")), Dot>>),
             Def("a", <<>>, <<>>, <<Ret(V("fa"))>>),
             Def("b", <<>>, <<>>, <<Ret(V("fb"))>>),
             Def("c", <<>>, <<>>, <<Ret(V("fc"))>>)>>,
  sub |-> <<Def("run", <<>>, <<"x", "y">>,
    <<Do1(This, "set:", N(5)), Dot, Do1(Do1(This, "setC:", N(7)), "set:", N(4)), Dot,
      Do2(This, "put:at:", N(2), N(3)), Dot,
      <<"assign", <<"x", "y">>, Plus(Do0(This, "a"), Do0(This, "c"))>>, Dot,
      Set("fa", Plus(V("fb"), V("y"))), Dot,
      Ret(Plus(Plus(V("x"), V("fa")), Do0(This, "b")))>>)>>]

\* Literals beyond the short forms, trivial methods that answer one, globals
\* that exist and globals that do not, in methods and in blocks.
Literals == [
  base |-> <<Def("one", <<>>, <<>>, <<Ret(N(1))>>),
             Def("lit", <<>>, <<>>, <<Ret(N(9))>>),
             Def("glob", <<>>, <<>>, <<Ret(V("Known"))>>),
             Def("missing", <<>>, <<>>, <<Ret(V("Missing"))>>)>>,
  sub |-> <<Def("run", <<>>, <<"x">>,
    <<Set("x", Plus(Plus(Plus(N(3), N(4)), Plus(N(5), N(6))), N(7))), Dot,
      Set("x", Plus(V("x"), Plus(Do0(This, "lit"), Do0(This, "glob")))), Dot,
      Set("fa", Do0(This, "missing")), Dot,
      Set("fb", Do0(Blk(<<V("Missing2")>>), "value")), Dot,
      Set("x", Plus(V("x"), Do0(Blk(<<V("Known")>>), "value"))), Dot,
      Ret(Do2(Do1(V("fa"), "==", V("fb")), "ifTrue:ifFalse:",
              Blk(<<V("fa")>>), Blk(<<Plus(V("x"), Do0(This, "one"))>>)))>>)>>]

\* Globals that come into being while methods that read them run, and one
\* that gets another value, read in methods, trivial methods and blocks.
Globals == [
  base |-> <<Def("glob", <<>>, <<>>, <<Ret(V("Known"))>>),
             Def("missing", <<>>, <<>>, <<Ret(V("Missing"))>>),
             Def("get", <<>>, <<"x">>, <<Set("x", V("Missing")), Dot, Ret(V("x"))>>)>>,
  sub |-> <<
    Def("set:", <<"x">>, <<>>,
      <<Do2(V("system"), "global:put:", Sym("Missing"), V("x")), Dot>>),
    Def("run", <<>>, <<"blk", "s">>,
    <<Set("blk", Blk(<<V("Missing")>>)), Dot,
      Set("fa", Do1(V("system"), "hasGlobal:", Sym("Missing"))), Dot,
      Set("fb", Do1(Do0(This, "get"), "==", Do0(This, "missing"))), Dot,
      Set("fc", Do1(Do0(V("blk"), "value"), "==", Do1(V("system"), "global:", Sym("Missing")))), Dot,
      Do1(This, "set:", N(5)), Dot,
      Set("s", Plus(Plus(Do0(This, "get"), Do0(This, "missing")), Do0(V("blk"), "value"))), Dot,
      Do1(This, "set:", N(9)), Dot,
      Do2(V("system"), "global:put:", Sym("Known"), N(60)), Dot,
      Set("s", Plus(V("s"), Plus(Do0(This, "get"), Plus(V("Known"), Do0(This, "glob"))))), Dot,
      Set("s", Plus(V("s"), Plus(Do0(This, "missing"), Do0(V("blk"), "value")))), Dot,
      Ret(Plus(V("s"), Do1(V("system"), "global:", Sym("Missing"))))>>)>>]

\* The four conditionals, nested and used for their value and for their effect.
Conditionals == [
  base |-> <<>>,
  sub |-> <<
    Def("two:", <<"n">>, <<"r">>,
      <<Set("r", N(10)), Dot,
        Do1(Do1(V("n"), ">", N(1)), "ifTrue:",
            Blk(<<Set("r", Plus(V("r"), V("n"))), Dot>>)), Dot,
        Do1(Do1(V("n"), ">", N(2)), "ifFalse:",
            Blk(<<Do2(Do1(V("n"), "=", N(1)), "ifTrue:ifFalse:",
                      Blk(<<Set("r", Plus(V("r"), N(100)))>>),
                      Blk(<<Set("fa", V("r")), Dot>>))>>)), Dot,
        Ret(Do2(Do1(V("n"), "<", N(2)), "ifFalse:ifTrue:", Blk(<<V("r")>>),
                Blk(<<Do1(Do1(V("n"), ">", N(5)), "ifTrue:", Blk(<<N(3)>>)),
                      Dot, Plus(V("r"), N(1))>>)))>>),
    Def("down:", <<"n">>, <<"s", "last">>,
      <<Set("s", N(0)), Dot,
        Do2(N(1), "to:do:", V("n"), Blk1("k",
          <<Do2(Do1(V("k"), ">", N(1)), "ifTrue:ifFalse:",
                Blk(<<Set("s", Plus(V("s"), V("k")))>>), Blk(<<Set("fb", V("k"))>>)), Dot,
            Do2(Do1(V("k"), ">", N(2)), "ifTrue:ifFalse:",
                Blk(<<Set("s", Plus(V("s"), V("k")))>>), Blk(<<Set("last", V("k"))>>))>>)), Dot,
        Ret(Plus(V("s"), V("last")))>>),
    Def("run", <<>>, <<"s">>,
      <<Set("s", Do1(This, "two:", N(1))), Dot,
        Set("s", Plus(V("s"), Do1(This, "two:", N(2)))), Dot,
        Ret(Plus(V("s"), Plus(Do1(This, "two:", N(3)),
                              Plus(V("fa"), Do1(This, "down:", N(4))))))>>)>>]

\* and:, or:, && and ||.
Connectives == [
  base |-> <<Def("get", <<>>, <<>>,
               <<Set("fa", Plus(V("fa"), N(1))), Dot, Ret(V("true"))>>)>>,
  sub |-> <<
    Def("eval:", <<"n">>, <<>>,
      <<Ret(Do1(Do1(Do1(V("n"), ">", N(1)), "and:",
                    Blk(<<Do0(This, "get"), Dot, Do1(V("n"), "<", N(5))>>)),
                "||", Blk(<<Do1(V("n"), "=", N(0))>>)))>>),
    Def("run", <<>>, <<"s">>,
      <<Set("fa", N(0)), Dot, Set("s", N(0)), Dot,
        Do1(Do1(Do1(This, "eval:", N(0)), "&&", Blk(<<Do1(This, "eval:", N(3))>>)),
            "ifTrue:", Blk(<<Set("s", Plus(V("s"), N(10)))>>)), Dot,
        Do1(Do1(Do1(This, "eval:", N(6)), "or:", Blk(<<Do1(This, "eval:", N(1))>>)),
            "ifFalse:", Blk(<<Set("s", Plus(V("s"), N(5)))>>)), Dot,
        Ret(Plus(V("s"), V("fa")))>>)>>]

\* Loops with a variable of the body that blocks capture.
Loops == [
  base |-> <<>>,
  sub |-> <<
    Def("loop", <<>>, <<"i", "s", "last">>,
      <<Set("i", N(0)), Dot, Set("s", N(0)), Dot,
        Do1(Blk(<<Do1(V("i"), "<", N(3))>>), "whileTrue:",
          <<"block", <<>>, <<"t">>,
            <<Set("t", Do1(V("i"), "*", N(2))), Dot,
              Set("last", <<"block", <<"k">>, <<>>,
                   <<Set("t", Plus(V("t"), V("k"))), Dot, Plus(V("t"), V("i"))>>>>), Dot,
              Set("s", Plus(V("s"), Do1(V("last"), "value:", N(1)))), Dot,
              Set("i", Plus(V("i"), N(1)))>>>>), Dot,
        Do1(Blk(<<Do1(V("i"), "=", N(0))>>), "whileFalse:",
            Blk(<<Set("i", Do1(V("i"), "-", N(1))), Dot>>)), Dot,
        Ret(Plus(V("s"), Do1(V("last"), "value:", N(5))))>>),
    Def("unary", <<>>, <<"i">>,
      <<Set("i", N(0)), Dot,
        Do1(Blk(<<Do1(V("i"), "<", N(3))>>), "whileTrue:", Blk(<<Set("i", Plus(V("i"), N(1)))>>)),
        Dot, Set("fb", V("i")), Dot>>),
    Def("run", <<>>, <<>>, <<Do0(This, "unary"), Dot, Ret(Plus(Do0(This, "loop"), V("fb")))>>)>>]

\* Counting loops, nested, left by a return, and not entered at all.
CountingLoops == [
  base |-> <<>>,
  sub |-> <<
    Def("find:", <<"n">>, <<"s">>,
      <<Set("s", N(0)), Dot,
        Do2(N(1), "to:do:", V("n"), Blk1("i",
          <<Do2(V("i"), "to:do:", N(2), Blk1("j",
              <<Set("s", Plus(V("s"), Do1(V("i"), "*", V("j"))))>>)), Dot,
            Do1(Do1(V("s"), ">", N(5)), "ifTrue:", Blk(<<Ret(V("s"))>>)), Dot,
            Set("s", Plus(V("s"), V("i")))>>)), Dot,
        Set("fb", Do2(N(3), "to:do:", N(2), Blk1("m", <<V("m"), Dot>>))), Dot,
        Ret(Plus(V("s"), V("fb")))>>),
    Def("down:", <<"n">>, <<>>,
      <<Do2(N(1), "to:do:", V("n"), Blk1("k", <<Set("n", Plus(V("n"), V("k")))>>)), Dot,
        Ret(V("n"))>>),
    Def("run", <<>>, <<>>,
      <<Ret(Plus(Plus(Do1(This, "find:", N(1)), Do1(This, "find:", N(3))),
                 Do1(This, "down:", N(4))))>>)>>]

\* Blocks that capture the variable of a counting loop: only the compiler for
\* bytecodes accepts them.
CapturedVariables == [
  base |-> <<>>,
  sub |-> <<
    Def("find:", <<"n">>, <<"s">>,
      <<Set("s", N(0)), Dot,
        Do2(N(1), "to:do:", V("n"), Blk1("i",
          <<Set("fa", Blk(<<Plus(V("i"), V("s"))>>)), Dot,
            Set("s", Plus(V("s"), Do0(V("fa"), "value")))>>)), Dot,
        Ret(V("s"))>>),
    Def("down:", <<"n">>, <<>>,
      <<Do2(N(1), "to:do:", N(3), Blk1("i",
          <<Do1(Do1(V("i"), ">", V("n")), "ifTrue:",
              Blk(<<Do1(Blk1("y", <<Ret(Plus(V("y"), V("i")))>>), "value:", N(20))>>))>>)), Dot,
        Ret(N(0))>>),
    Def("run", <<>>, <<>>,
      <<Ret(Plus(Plus(Do1(This, "find:", N(1)), Do1(This, "find:", N(3))),
                 Do1(This, "down:", N(1))))>>)>>]

\* Machine integers that overflow, the big integers that come of it, and what
\* both have in common.
Arithmetic == [
  base |-> <<>>,
  sub |-> <<
    Def("two:", <<"big">>, <<"n">>,
      <<Set("n", Do1(Do1(V("big"), "-", N(300)), "+", N(1))), Dot,
        Set("fa", Do1(V("n"), "rem:", N(7))), Dot,
        Do1(Do1(V("n"), "=", N(301)), "ifTrue:",
            Blk(<<Set("fa", Plus(V("fa"), Do0(Do1(N(0), "-", V("n")), "abs")))>>)), Dot,
        Ret(Plus(Do1(V("big"), "/", N(7)), Do1(V("n"), "max:", N(300))))>>),
    Def("down:", <<"n">>, <<>>,
      <<Set("fb", Do1(Do1(Do1(N(0), "-", V("n")), "-", N(1)), "-", N(1))), Dot,
        Ret(Do1(V("fb"), "<=", Do1(N(0), "-", Plus(V("n"), N(2)))))>>),
    Def("run", <<>>, <<"s">>,
      <<Set("s", Do1(This, "two:", Plus(N(400), N(200)))), Dot,
        Set("fc", Do1(Plus(N(511), N(1)), "==", Plus(N(512), N(0)))), Dot,
        Do1(Do1(This, "down:", N(511)), "ifTrue:",
            Blk(<<Set("s", Plus(V("s"), Do1(N(30), "*", N(30))))>>)), Dot,
        Ret(Do1(V("s"), "-", Do1(N(-9), "%", N(4))))>>)>>]

\* Arguments and locals that blocks two levels in read and write, in methods
\* of up to five arguments, some of which only the method uses.
Captures == [
  base |-> <<
    Def("h:i:j:k:", <<"h", "i", "j", "k">>, <<"l">>,
      <<Set("l", N(1)), Dot,
        Set("l", Plus(V("l"), Do1(<<"block", <<"z">>, <<"y">>,
           <<Set("y", Plus(V("z"), V("k"))), Dot,
             Do1(Blk1("w", <<Set("i", Plus(V("i"), V("w"))), Dot,
                             Set("y", Plus(V("y"), V("i"))), Dot, V("y")>>),
                 "value:", V("h"))>>>>, "value:", V("j")))), Dot,
        Ret(Plus(V("l"), V("i")))>>),
    Def("one:two:", <<"x", "y">>, <<>>,
      <<Set("x", Plus(V("x"), N(1))), Dot, Ret(Blk1("d", <<Plus(V("y"), V("d"))>>))>>),
    Def("p:q:r:", <<"p", "q", "r">>, <<"s", "t">>,
      <<Set("t", V("p")), Dot, Set("s", Blk(<<Set("r", Plus(V("r"), V("q")))>>)), Dot,
        Do0(V("s"), "value"), Dot, Ret(Plus(Plus(V("t"), Do0(V("s"), "value")), V("r")))>>)>>,
  sub |-> <<Def("run", <<>>, <<"s">>,
    <<Set("s", <<"send", This, "h:i:j:k:", <<N(1), N(2), N(3), N(4)>>>>), Dot,
      Set("s", Plus(V("s"), Do1(Do2(This, "one:two:", N(5), N(6)), "value:", N(7)))), Dot,
      Ret(Plus(V("s"), <<"send", This, "p:q:r:", <<N(2), N(3), N(4)>>>>))>>)>>]

\* Returns out of blocks: through another method, out of inlined blocks, and
\* after the home has returned.
Returns == [
  base |-> <<
    Def("eval:", <<"blk">>, <<>>, <<Do1(V("blk"), "value:", N(5)), Dot, Ret(N(99))>>),
    Def("find:", <<"n">>, <<"i">>,
      <<Do1(Do1(V("n"), ">", N(1)), "ifTrue:",
          Blk(<<Do1(This, "eval:", Blk1("x", <<Ret(Plus(V("x"), V("n")))>>))>>)), Dot,
        Set("i", N(1)), Dot,
        Do1(Blk(<<Do1(V("i"), "<", N(4))>>), "whileTrue:",
          Blk(<<Do1(Do1(V("i"), ">", V("n")), "ifTrue:",
                  Blk(<<Do1(Blk1("y", <<Ret(Plus(V("y"), V("i")))>>), "value:", N(20))>>)), Dot,
                Set("i", Plus(V("i"), N(1)))>>)), Dot,
        Ret(N(0))>>),
    Def("make", <<>>, <<>>, <<Ret(Blk(<<Ret(N(5))>>))>>)>>,
  sub |-> <<Def("run", <<>>, <<"s">>,
    <<Set("s", Plus(Do1(This, "find:", N(2)), Do1(This, "find:", N(1)))), Dot,
      Set("s", Plus(V("s"), Do0(Do0(This, "make"), "value"))), Dot,
      Ret(Plus(V("s"), V("fc")))>>)>>]

\* Super sends, first used and used again, in methods and in blocks, to
\* methods with code and to trivial ones.
Supers == [
  base |-> <<
    Def("one", <<>>, <<>>, <<Ret(N(3))>>),
    Def("two:", <<"x">>, <<>>, <<Ret(Plus(V("x"), N(1)))>>),
    Def("one:two:", <<"x", "y">>, <<>>, <<Ret(Do1(V("x"), "-", V("y")))>>),
    Def("p:q:r:", <<"p", "q", "r">>, <<>>, <<Ret(Plus(V("p"), Do1(V("q"), "*", V("r"))))>>),
    Def("h:i:j:k:", <<"h", "i", "j", "k">>, <<>>, <<Ret(Plus(V("h"), V("k")))>>)>>,
  sub |-> <<
    Def("one", <<>>, <<>>, <<Ret(Plus(<<"super", "one", <<>>>>, N(10)))>>),
    Def("two:", <<"x">>, <<>>,
      <<Ret(Do0(Blk(<<Plus(<<"super", "two:", <<V("x")>>>>, N(20))>>), "value"))>>),
    Def("one:two:", <<"x", "y">>, <<>>, <<Ret(<<"super", "one:two:", <<V("y"), V("x")>>>>)>>),
    Def("p:q:r:", <<"p", "q", "r">>, <<>>,
      <<Ret(<<"super", "p:q:r:", <<V("r"), V("q"), V("p")>>>>)>>),
    Def("h:i:j:k:", <<"h", "i", "j", "k">>, <<>>,
      <<Ret(<<"super", "h:i:j:k:", <<V("j"), V("i"), V("h"), V("k")>>>>)>>),
    Def("loop", <<>>, <<>>,
      <<Ret(Plus(Plus(Do0(This, "one"), Do1(This, "two:", N(1))),
                 Plus(Do2(This, "one:two:", N(1), N(2)),
                      Plus(<<"send", This, "p:q:r:", <<N(2), N(3), N(4)>>>>,
                           <<"send", This, "h:i:j:k:", <<N(1), N(2), N(3), N(4)>>>>))))>>),
    Def("run", <<>>, <<>>, <<Ret(Plus(Do0(This, "loop"), Do0(This, "loop")))>>)>>]

\* A super send of four arguments, after a loop that is entered by the first
\* call and not by the second.
ShiftedSuper == [
  base |-> <<
    Def("p:q:r:", <<"p", "q", "r">>, <<>>, <<Ret(Plus(V("p"), Do1(V("q"), "*", V("r"))))>>)>>,
  sub |-> <<
    Def("p:q:r:", <<"p", "q", "r">>, <<>>,
      <<Do1(Blk(<<Do1(V("p"), "<", N(3))>>), "whileTrue:", Blk(<<Set("p", Plus(V("p"), N(1)))>>)),
        Dot, Ret(<<"super", "p:q:r:", <<V("p"), V("q"), V("r")>>>>)>>),
    Def("run", <<>>, <<"s">>,
      <<Set("s", <<"send", This, "p:q:r:", <<N(0), N(1), N(2)>>>>), Dot,
        Ret(Plus(V("s"), <<"send", This, "p:q:r:", <<N(3), N(1), N(2)>>>>))>>)>>]

\* Messages nobody understands, to objects, numbers and nil, and recursion.
Misses == [
  base |-> <<
    Def("down:", <<"n">>, <<>>,
      <<Do1(Do1(V("n"), ">", N(0)), "ifTrue:",
          Blk(<<Ret(Plus(Do1(This, "down:", Do1(V("n"), "-", N(1))), N(1)))>>)), Dot,
        Ret(N(0))>>)>>,
  sub |-> <<Def("run", <<>>, <<>>,
    <<Set("fa", Do2(This, "miss:ing:", N(1), N(2))), Dot,
      Set("fb", Do2(N(3), "miss:ing:", N(1), N(4))), Dot,
      Set("fc", Do0(V("nil"), "unary")), Dot,
      Set("fc", Do1(V("fc"), "==", V("fa"))), Dot,
      Ret(Do2(Do1(V("fa"), "==", V("fb")), "ifTrue:ifFalse:",
              Blk(<<Plus(Do1(This, "down:", N(3)), Do1(This, "down:", N(1)))>>),
              Blk(<<V("fc")>>)))>>)>>]

---------------------------------------------------------------------------
(* What loading the classes of a program and compiling their methods gives. *)

NumberPrimitives ==
  Primitives({"+", "-", "*", "/", "%", "rem:", "<", "<=", ">", ">=", "=", "<>", "==",
              "abs", "max:", "min:"})

\* The methods of a program with the class that holds each.
Definitions(p) ==
  LET in(class, fields, defs) ==
        [i \in DOMAIN defs |-> [class |-> [name |-> class, fields |-> fields],
                                selector |-> defs[i].selector,
                                source |-> defs[i].source]]
  IN in("Object", <<>>, ObjectMethods) \o in("Base", Fields, <<EscapedBlock>> \o p.base)
       \o in("Sub", Fields, p.sub)

\* Where the instructions of a method begin, as offsets.
RECURSIVE StartsFrom(_, _)
StartsFrom(code, i) ==
  IF i > Len(code) THEN {} ELSE {i - 1} \cup StartsFrom(code, i + BytecodeLength(code[i]))

\* The class tables hold what a lookup through the superclasses finds.
World(defs, entry) ==
  LET own(class) ==
        [s \in {defs[i].selector : i \in {j \in DOMAIN defs : defs[j].class.name = class}} |->
           <<"method", entry[CHOOSE i \in DOMAIN defs :
                               defs[i].class.name = class /\ defs[i].selector = s]>>]
      object == own("Object") @@ Primitives({"=="})
      base == own("Base") @@ object
      plain(table) == [methods |-> table @@ object, super |-> "Object"]
  IN [classes |-> [Object |-> plain(object), Base |-> [methods |-> base, super |-> "Object"],
                   Sub |-> [methods |-> own("Sub") @@ base, super |-> "Base"],
                   int |-> plain(NumberPrimitives), bool |-> plain(Primitives({"not"})),
                   nil |-> plain(<<>>), sym |-> plain(<<>>),
                   system |-> plain(Primitives(SystemPrimitives)),
                   block |-> plain(Primitives(BlockPrimitives))],
      globals |-> [nil |-> Nil, true |-> True, false |-> Bool(FALSE),
                   Known |-> <<"int", 42>>, system |-> <<"system">>],
      entry |-> [class |-> "Sub", fields |-> <<Nil, Nil, Nil>>,
                 method |-> own("Sub")["run"][2], args |-> <<>>]]

\* A program for the bytecode interpreters.
Image(p) ==
  LET defs == Definitions(p)
      compiled == Compile(defs)
      complete(M) ==
        IF M.kind = "bytecodes" THEN M @@ [starts |-> StartsFrom(M.code, 1)] ELSE M
      add(ms, M) == Append(ms, complete(M))
  IN [methods |-> FoldLeft(add, <<>>, compiled.state.methods),
      scopes |-> compiled.state.scopes, vars |-> compiled.state.vars,
      failed |-> compiled.state.failed] @@ World(defs, compiled.entry)

\* What the AST interpreter makes of a program: which values it may show, as
\* the blocks and inners of the two interpreters have different numbers.
Shown(v) == IF v[1] = "block" THEN <<"block">> ELSE v
Unknown == <<"unknown">>
AstResult(p) ==
  LET defs == Definitions(p)
      compiled == Ast!Compile(defs)
      end == Evaluation!Run([nodes |-> compiled.state.nodes, vars |-> compiled.state.vars,
                             methods |-> compiled.state.methods]
                              @@ World(defs, compiled.entry))
  IN IF compiled.state.failed THEN [answer |-> Unknown, fields |-> <<>>]
     ELSE IF end.status # "ok" THEN [answer |-> Undefined, fields |-> <<>>]
     ELSE [answer |-> Shown(end.value),
           fields |-> [i \in 1..3 |-> Shown(end.objects[1].fields[i])]]

Sources == [accessors |-> Accessors, literals |-> Literals, globals |-> Globals,
            conditionals |-> Conditionals, connectives |-> Connectives,
            loops |-> Loops, counting |-> CountingLoops, captures |-> Captures,
            captured |-> CapturedVariables, returns |-> Returns, supers |-> Supers,
            misses |-> Misses, arithmetic |-> Arithmetic]
Rejected == [shifted |-> ShiftedSuper]

Images == FoldSet(LAMBDA p, acc : acc @@ (p :> Image(Sources[p])), <<>>, DOMAIN Sources)
AstResults == FoldSet(LAMBDA p, acc : acc @@ (p :> AstResult(Sources[p])), <<>>, DOMAIN Sources)
RejectedImages ==
  FoldSet(LAMBDA p, acc : acc @@ (p :> Image(Rejected[p])), <<>>, DOMAIN Rejected)
RejectedResults ==
  FoldSet(LAMBDA p, acc : acc @@ (p :> AstResult(Rejected[p])), <<>>, DOMAIN Rejected)
============================================================================
