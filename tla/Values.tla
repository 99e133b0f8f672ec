------------------------------ MODULE Values ------------------------------
(***************************************************************************)
(* The values of running programs: <<"nil">>, <<"bool", b>>, the numbers   *)
(* <<"int", n>> and <<"big", n>>, <<"sym", name>>,                         *)
(* <<"array", elements>>, <<"obj", id>> and                                *)
(* <<"block", method, inner>>, inner 0 for a block that needs no context,  *)
(* and <<"system">>, the object that knows the globals.                    *)
(* <<"undefined">> stands for what the programs never get to see.          *)
(***************************************************************************)
EXTENDS IntegerArithmetic, Sequences

Nil == <<"nil">>
Bool(b) == <<"bool", b>>
True == Bool(TRUE)
Undefined == NoAnswer

Element(s, i) == IF i \in DOMAIN s THEN s[i] ELSE Undefined

BlockPrimitives == {"value", "value:", "value:with:"}

\* The class of a value, or of an object without fields of its own.
ClassOfValue(v) == IF v[1] = "big" THEN "int" ELSE v[1]

\* The primitives the programs use, of objects, booleans and integers.
Comparisons == {"==", "=", "<", "<=", ">", ">=", "<>"}
Compared(name, l, r) ==
  CASE name \in {"==", "="} -> PrimEquals(l, r)
    [] name = "<>" -> PrimUnequals(l, r)
    [] name = "<" -> PrimLessThan(l, r)
    [] name = "<=" -> PrimLessThanOrEqual(l, r)
    [] name = ">" -> PrimGreaterThan(l, r)
    [] name = ">=" -> PrimGreaterThanOrEqual(l, r)
Computed(name, l, r) ==
  CASE name = "+" -> PrimAdd(l, r)
    [] name = "-" -> PrimSubtract(l, r)
    [] name = "*" -> PrimMultiply(l, r)
    [] name = "/" -> PrimIntDiv(l, r)
    [] name = "%" -> PrimModulo(l, r)
    [] name = "rem:" -> PrimRemainder(l, r)
    [] name = "max:" -> PrimMax(l, r)
    [] name = "min:" -> PrimMin(l, r)

\* The primitives of the system, which read and write globals.
SystemPrimitives == {"global:", "hasGlobal:", "global:put:"}
SystemAnswer(primitive, globals, args) ==
  LET name == args[1][2]
      known == name \in DOMAIN globals
  IN CASE primitive = "global:" -> IF known THEN globals[name] ELSE Nil
       [] primitive = "hasGlobal:" -> Bool(known)
       [] primitive = "global:put:" -> Element(args, 2)
GlobalsAfter(primitive, globals, args) ==
  IF primitive = "global:put:"
  THEN [name \in DOMAIN globals \cup {args[1][2]} |->
          IF name = args[1][2] THEN Element(args, 2) ELSE globals[name]]
  ELSE globals

PrimitiveAnswer(name, rcvr, args) ==
  IF name = "not" THEN Bool(~rcvr[2])
  ELSE IF name = "abs" THEN PrimAbs(rcvr)
  ELSE IF ~IsNumber(rcvr) THEN Bool(rcvr = args[1])
  ELSE IF name \notin {"==", "=", "<>"} /\ ~IsNumber(args[1]) THEN NoAnswer
  ELSE IF name \in Comparisons THEN Bool(Compared(name, rcvr, args[1]))
  ELSE Computed(name, rcvr, args[1])
============================================================================
