--------------------------- MODULE AstEvaluation ---------------------------
(***************************************************************************)
(* How the AST interpreter executes the trees of AstParser: the execute    *)
(* methods of the nodes (interpreter/ast/nodes), the invoke methods of     *)
(* AstMethod and of the trivial methods, and the frames they create        *)
(* (interpreter/ast/frame.py).                                             *)
(*                                                                         *)
(* P is a program: its nodes, methods, vars and classes.  R is what        *)
(* executing something answers: frames, inners, objects and globals after  *)
(* it, "value", and "status": "ok", "return" while a ReturnException is on *)
(* its way to the activation whose inner is "target", or "failed".         *)
(***************************************************************************)
EXTENDS SequencesExt, Frames, Values

RECURSIVE Execute(_, _, _, _), ExecuteAll(_, _, _, _), Invoke(_, _, _, _, _),
          While(_, _, _, _), ToDo(_, _, _, _, _, _)

Ok(R) == R.status = "ok"
Answer(R, v) == [R EXCEPT !.value = v]
Fail(R) == [R EXCEPT !.status = "failed"]

---------------------------------------------------------------------------
(* Frames, contexts and objects.                                           *)

Inner(R, id) == IF id \in DOMAIN R.inners THEN R.inners[id] ELSE <<>>
FromOuter(R, block, i) ==
  IF block[1] = "block" THEN Element(Inner(R, block[3]), i + 1) ELSE Undefined
SelfBlock(R, f) == R.frames[f][RcvrIdx + 1]

\* "determine_block" for ctx > 0, "determine_outer_self".
OuterReceiver(R, rcvr, ctx) ==
  LET out[n \in 0..ctx] == IF n = 0 THEN rcvr ELSE FromOuter(R, out[n - 1], RcvrIdx)
  IN out[ctx]
Block(R, f, ctx) == OuterReceiver(R, SelfBlock(R, f), ctx - 1)

ReadVariable(R, f, var, ctx) ==
  IF ctx > 0 THEN FromOuter(R, Block(R, f, ctx), var.access)
  ELSE Element(IF var.out THEN Inner(R, R.frames[f][1]) ELSE R.frames[f], var.access + 1)

WriteVariable(R, f, var, ctx, v) ==
  LET inner == IF ctx > 0 THEN Block(R, f, ctx)[3] ELSE R.frames[f][1]
      inInner == ctx > 0 \/ var.out
  IN IF (var.access + 1) \notin DOMAIN (IF inInner THEN Inner(R, inner) ELSE R.frames[f])
     THEN Fail(R)
     ELSE IF inInner THEN [R EXCEPT !.inners[inner][var.access + 1] = v]
     ELSE [R EXCEPT !.frames[f][var.access + 1] = v]

Field(R, obj, idx) ==
  IF obj[1] = "obj" THEN Element(R.objects[obj[2]].fields, idx + 1) ELSE Undefined
SetField(R, obj, idx, v) ==
  IF obj[1] = "obj" THEN [R EXCEPT !.objects[obj[2]].fields[idx + 1] = v] ELSE Fail(R)

---------------------------------------------------------------------------
(* Messages.                                                               *)

ClassOf(R, v) == IF v[1] = "obj" THEN R.objects[v[2]].class ELSE ClassOfValue(v)

\* Array.from_values rejects nil among other values.
Storable(args) ==
  \/ \A i \in DOMAIN args : args[i] # Nil
  \/ \A i \in DOMAIN args : args[i] = Nil

\* Through the dispatch nodes, or "lookup_and_send_2"; a message that is not
\* understood takes its arguments in an array.
SendTo(P, R, selector, rcvr, args) ==
  LET class == ClassOf(R, rcvr)
  IN IF class \notin DOMAIN P.classes THEN Fail(R)
     ELSE LET table == P.classes[class].methods
          IN IF selector \in DOMAIN table THEN Invoke(P, R, table[selector], rcvr, args)
             ELSE IF Storable(args)
             THEN Invoke(P, R, table["doesNotUnderstand:arguments:"], rcvr,
                         <<<<"sym", selector>>, <<"array", args>>>>)
             ELSE Fail(R)

\* "invoke_1", "invoke_2", "invoke_3" and "invoke_args" of AstMethod.
Activate(P, R, m, rcvr, args) ==
  LET M == P.methods[m]
      inner == IF M.sizeInner > 0 THEN Len(R.inners) + 1 ELSE 0
      frame == NewFrame(M.sizeFrame, M.argInner, rcvr, args, inner, 0, Nil)
      T == [R EXCEPT !.frames = Append(@, frame),
                     !.inners = IF inner = 0 THEN @
                                ELSE Append(@, NewInner(M.sizeInner, M.argInner, rcvr,
                                                        args, True, Nil))]
  IN Execute(P, T, Len(T.frames), M.root)

\* The trivial methods, for up to two arguments.
InvokeTrivial(P, R, m, rcvr, args) ==
  LET M == P.methods[m]
      known == M.name \in DOMAIN R.globals
  IN CASE M.kind = "literal_return" -> Answer(R, M.value)
       [] M.kind = "known_global_read" -> Answer(R, R.globals[M.name])
       [] M.kind = "global_read" ->
            IF known THEN Answer(R, R.globals[M.name])
            ELSE SendTo(P, R, "unknownGlobal:", OuterReceiver(R, rcvr, M.ctx),
                        <<<<"sym", M.name>>>>)
       [] M.kind = "field_read" ->
            Answer(R, Field(R, OuterReceiver(R, rcvr, M.ctx), M.idx))
       [] M.kind = "field_write" /\ args # <<>> ->
            Answer(SetField(R, rcvr, M.idx,
                            IF M.arg = 1 \/ Len(args) = 1 THEN args[1] ELSE args[2]), rcvr)
       [] OTHER -> Fail(R)

\* Only AstMethod has an entry point for three arguments and more.
Invoke(P, R, inv, rcvr, args) ==
  IF inv[1] = "method" /\ P.methods[inv[2]].kind = "ast"
  THEN Activate(P, R, inv[2], rcvr, args)
  ELSE IF Len(args) > 2 THEN Fail(R)
  ELSE IF inv[1] = "method" THEN InvokeTrivial(P, R, inv[2], rcvr, args)
  ELSE IF inv[2] \in BlockPrimitives THEN Invoke(P, R, <<"method", rcvr[2]>>, rcvr, args)
  ELSE IF inv[2] \in SystemPrimitives
  THEN Answer([R EXCEPT !.globals = GlobalsAfter(inv[2], @, args)],
              SystemAnswer(inv[2], R.globals, args))
  ELSE LET value == PrimitiveAnswer(inv[2], rcvr, args)
       IN IF value = NoAnswer THEN Fail(R) ELSE Answer(R, value)

\* The values of a node's children, in order.
ExecuteAll(P, R, f, kids) ==
  LET step(acc, kid) ==
        IF ~Ok(acc) THEN acc
        ELSE LET T == Execute(P, acc, f, kid)
             IN IF Ok(T) THEN Answer(T, Append(acc.value, T.value)) ELSE T
  IN FoldLeft(step, Answer(R, <<>>), kids)

\* A message node evaluates the receiver, then the arguments.
ExecuteSend(P, R, f, N) ==
  LET T == ExecuteAll(P, R, f, N.kids)
  IN IF Ok(T) THEN SendTo(P, T, N.x, Head(T.value), Tail(T.value)) ELSE T

\* A super send looks its method up before it evaluates anything.
ExecuteSuper(P, R, f, N) ==
  LET table == P.classes[P.classes[N.x[1]].super].methods
      T == ExecuteAll(P, R, f, N.kids)
  IN IF N.x[2] \notin DOMAIN table THEN Fail(R)
     ELSE IF Ok(T) THEN Invoke(P, T, table[N.x[2]], Head(T.value), Tail(T.value)) ELSE T

---------------------------------------------------------------------------
(* Variables, fields and globals.                                          *)

ExecuteWrite(P, R, f, N) ==
  LET T == Execute(P, R, f, N.kids[1])
  IN IF Ok(T) THEN WriteVariable(T, f, P.vars[N.x], N.ctx, T.value) ELSE T

ExecuteFieldRead(P, R, f, N) ==
  LET T == Execute(P, R, f, N.kids[1])
  IN IF Ok(T) THEN Answer(T, Field(T, T.value, N.x)) ELSE T

ExecuteFieldWrite(P, R, f, N) ==
  LET T == ExecuteAll(P, R, f, N.kids)
  IN IF Ok(T) THEN Answer(SetField(T, T.value[1], N.x, T.value[2]), T.value[2]) ELSE T

ExecuteGlobal(P, R, f, N) ==
  IF N.x \in DOMAIN R.globals THEN Answer(R, R.globals[N.x])
  ELSE SendTo(P, R, "unknownGlobal:", OuterReceiver(R, SelfBlock(R, f), N.ctx),
              <<<<"sym", N.x>>>>)

---------------------------------------------------------------------------
(* Inlined control messages.                                               *)

\* "IfInlinedNode" and "IfElseInlinedNode".
ExecuteIf(P, R, f, N) ==
  LET T == Execute(P, R, f, N.kids[1])
  IN CASE ~Ok(T) -> T
       [] Ok(T) /\ T.value = Bool(N.x) -> Execute(P, T, f, N.kids[2])
       [] Ok(T) /\ T.value = Bool(~N.x) ->
            IF N.op = "if" THEN Answer(T, Nil) ELSE Execute(P, T, f, N.kids[3])
       [] OTHER -> Fail(T)

\* "AndInlinedNode" and "OrInlinedNode".
ExecuteAndOr(P, R, f, N) ==
  LET T == Execute(P, R, f, N.kids[1])
  IN CASE ~Ok(T) -> T
       [] Ok(T) /\ T.value = Bool(N.op = "or") -> T
       [] Ok(T) /\ T.value = Bool(N.op = "and") -> Execute(P, T, f, N.kids[2])
       [] OTHER -> Fail(T)

\* "WhileInlinedNode".
While(P, R, f, N) ==
  LET T == Execute(P, R, f, N.kids[1])
      U == Execute(P, T, f, N.kids[2])
  IN CASE ~Ok(T) -> T
       [] Ok(T) /\ T.value = Bool(N.x) -> IF Ok(U) THEN While(P, U, f, N) ELSE U
       [] Ok(T) /\ T.value = Bool(~N.x) -> Answer(T, Nil)
       [] OTHER -> Fail(T)

\* "ToDoInlined" answers where it started.
ToDo(P, R, f, N, i, last) ==
  LET T == WriteVariable(R, f, P.vars[P.nodes[N.kids[4]].x], 0, <<"int", i>>)
      U == Execute(P, T, f, N.kids[3])
  IN IF i > last THEN R
     ELSE IF Ok(U) THEN ToDo(P, U, f, N, i + 1, last) ELSE U
ExecuteToDo(P, R, f, N) ==
  LET T == ExecuteAll(P, R, f, SubSeq(N.kids, 1, 2))
      U == ToDo(P, T, f, N, T.value[1][2], T.value[2][2])
  IN IF ~Ok(T) THEN T
     ELSE IF T.value[1][1] # "int" \/ T.value[2][1] # "int" THEN Fail(T)
     ELSE IF Ok(U) THEN Answer(U, T.value[1]) ELSE U

ExecuteSequence(P, R, f, N) ==
  LET T == ExecuteAll(P, R, f, N.kids) IN IF Ok(T) THEN Answer(T, Last(T.value)) ELSE T

---------------------------------------------------------------------------
(* Returns.                                                                *)

Returning(R, inner) ==
  IF Inner(R, inner)[1] = True THEN [R EXCEPT !.status = "return", !.target = inner]
  ELSE Fail(R)

\* "ReturnLocalNode" (context level 0) and "ReturnNonLocalNode".
ExecuteReturn(P, R, f, N) ==
  LET T == Execute(P, R, f, N.kids[1])
      home == Block(T, f, N.ctx)[3]
  IN IF ~Ok(T) THEN T
     ELSE IF N.ctx = 0 THEN Returning(T, T.frames[f][1])
     ELSE IF Inner(T, home)[1] = True THEN Returning(T, home)
     ELSE SendTo(P, T, "escapedBlock:", OuterReceiver(T, SelfBlock(T, f), N.ctx),
                 <<SelfBlock(T, f)>>)

\* "CatchNonLocalReturnNode".
ExecuteCatch(P, R, f, N) ==
  LET inner == R.frames[f][1]
      T == Execute(P, R, f, N.kids[1])
      U == [T EXCEPT !.inners[inner][1] = Bool(FALSE)]
  IN IF T.status = "return" /\ T.target = inner THEN [U EXCEPT !.status = "ok"] ELSE U

---------------------------------------------------------------------------

Execute(P, R, f, n) ==
  LET N == P.nodes[n]
  IN CASE N.op = "lit" -> Answer(R, N.x)
       [] N.op = "block" -> Answer(R, <<"block", N.x, 0>>)
       [] N.op = "block_ctx" -> Answer(R, <<"block", N.x, R.frames[f][1]>>)
       [] N.op = "self" -> Answer(R, OuterReceiver(R, SelfBlock(R, f), N.ctx))
       [] N.op = "read" -> Answer(R, ReadVariable(R, f, P.vars[N.x], N.ctx))
       [] N.op = "write" -> ExecuteWrite(P, R, f, N)
       [] N.op = "field_read" -> ExecuteFieldRead(P, R, f, N)
       [] N.op = "field_write" -> ExecuteFieldWrite(P, R, f, N)
       [] N.op = "known_global" -> Answer(R, R.globals[N.x])
       [] N.op = "global" -> ExecuteGlobal(P, R, f, N)
       [] N.op = "send" -> ExecuteSend(P, R, f, N)
       [] N.op = "super" -> ExecuteSuper(P, R, f, N)
       [] N.op = "seq" -> ExecuteSequence(P, R, f, N)
       [] N.op \in {"if", "if_else"} -> ExecuteIf(P, R, f, N)
       [] N.op \in {"and", "or"} -> ExecuteAndOr(P, R, f, N)
       [] N.op = "while" -> While(P, R, f, N)
       [] N.op = "to_do" -> ExecuteToDo(P, R, f, N)
       [] N.op = "return" -> ExecuteReturn(P, R, f, N)
       [] N.op = "catch" -> ExecuteCatch(P, R, f, N)

\* A program from its first message to the answer.
Run(P) ==
  Invoke(P, [frames |-> <<>>, inners |-> <<>>,
             objects |-> <<[class |-> P.entry.class, fields |-> P.entry.fields]>>,
             globals |-> P.globals, value |-> Nil, status |-> "ok", target |-> 0],
         <<"method", P.entry.method>>, <<"obj", 1>>, P.entry.args)
============================================================================
